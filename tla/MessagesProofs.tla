--------------------------- MODULE MessagesProofs ---------------------------
(***************************************************************************)
(* Proofs about Messages, for any datagrams, any hosts file and any hash.  *)
(***************************************************************************)
EXTENDS PlainMessages, NameTableProofs

-----------------------------------------------------------------------------
(* Octets and numbers.                                                     *)

LEMMA OctetMeans == \A v : v \in Octet <=> v \in Nat /\ v < 256
  <1> DEFINE top == 255
  <1>1. Octet = 0 .. top
    BY DEF Octet
  <1>2. top \in Nat /\ \A v \in Nat : v =< top <=> v < 256
    OBVIOUS
  <1> HIDE DEF top
  <1>3. \A v : v \in 0 .. top <=> v \in Nat /\ v < 256
    BY <1>2, SMT
  <1> QED
    BY <1>1, <1>3

LEMMA DotOctet == Dot \in Octet
  BY OctetMeans DEF Dot

LEMMA WordMeans == \A v : v \in Word <=> v \in Nat /\ v < 65536
  <1> DEFINE top == 65535
  <1>1. Word = 0 .. top
    BY DEF Word
  <1>2. top \in Nat /\ \A v \in Nat : v =< top <=> v < 65536
    OBVIOUS
  <1> HIDE DEF top
  <1>3. \A v : v \in 0 .. top <=> v \in Nat /\ v < 65536
    BY <1>2, SMT
  <1> QED
    BY <1>1, <1>3, SMT

LEMMA IdsTyped == RelayId \in Nat /\ ClientId \in Nat
  <1>1. Word \subseteq Nat
    BY WordMeans, SMT
  <1> QED
    BY <1>1, MessagesAssumption

LEMMA HostsTyped ==
    /\ Len(HostsLines) \in Nat
    /\ \A k \in 1 .. Len(HostsLines) :
          HostsLines[k] \in [domain: Seq(Octet) \ {<<>>}, address: [1 .. 4 -> Octet]]
  <1> DEFINE Line == [domain: Seq(Octet) \ {<<>>}, address: [1 .. 4 -> Octet]]
  <1>1. HostsLines \in Seq(Line)
    BY MessagesAssumption
  <1> HIDE DEF Line
  <1>2. Len(HostsLines) \in Nat /\ \A k \in 1 .. Len(HostsLines) : HostsLines[k] \in Line
    BY <1>1, ElementOfSeq
  <1> QED
    BY <1>2 DEF Line

LEMMA AtTyped ==
    ASSUME NEW d \in Seq(Octet), NEW p \in Nat
    PROVE  At(d, p) \in Octet /\ (p >= Len(d) => At(d, p) = 0)
  <1>1. 0 \in Octet
    BY OctetMeans
  <1>2. CASE p < Len(d)
    <2>1. p + 1 \in 1 .. Len(d)
      BY <1>2
    <2>2. d[p + 1] \in Octet
      BY <2>1, ElementOfSeq
    <2> QED
      BY <1>2, <2>2 DEF At
  <1>3. CASE p >= Len(d)
    BY <1>1, <1>3 DEF At
  <1> QED
    BY <1>2, <1>3

LEMMA OctetsTyped ==
    ASSUME NEW d \in Seq(Octet), NEW p \in Nat, NEW n \in Nat
    PROVE  Octets(d, p, n) \in Seq(Octet) /\ Len(Octets(d, p, n)) = n
  <1>1. \A k \in 1 .. n : At(d, p + k - 1) \in Octet
    <2> SUFFICES ASSUME NEW k \in 1 .. n
                 PROVE  At(d, p + k - 1) \in Octet
      OBVIOUS
    <2>1. p + k - 1 \in Nat
      OBVIOUS
    <2> QED
      BY <2>1, AtTyped
  <1> QED
    BY <1>1 DEF Octets

LEMMA NtohsTyped ==
    ASSUME NEW d \in Seq(Octet), NEW p \in Nat
    PROVE  ntohs(d, p) \in Nat /\ ntohl(d, p) \in Nat
  <1>1. \A q \in Nat : At(d, q) \in Nat
    <2>1. Octet \subseteq Nat
      BY OctetMeans
    <2> QED
      BY <2>1, AtTyped
  <1>2. ASSUME NEW q \in Nat
        PROVE  ntohs(d, q) \in Nat
    <2> DEFINE x == At(d, q)
               y == At(d, q + 1)
    <2>1. x \in Nat /\ y \in Nat
      BY <1>1, SMTT(30)
    <2>2. ntohs(d, q) = 256 * x + y
      BY SMT DEF ntohs
    <2> HIDE DEF x, y
    <2> QED
      BY <2>1, <2>2, SMT
  <1>3. ntohs(d, p) \in Nat /\ ntohs(d, p + 2) \in Nat
    BY <1>2, SMTT(30)
  <1> DEFINE x == ntohs(d, p)
             y == ntohs(d, p + 2)
  <1>4. ntohl(d, p) = 65536 * x + y
    BY SMT DEF ntohl
  <1> HIDE DEF x, y
  <1>5. x \in Nat /\ y \in Nat
    BY <1>3 DEF x, y
  <1>6. ntohl(d, p) \in Nat
    BY <1>4, <1>5, SMT
  <1> QED
    BY <1>3, <1>6

LEMMA HtonsTyped ==
    ASSUME NEW v \in Nat
    PROVE  /\ htons(v) \in Seq(Octet) /\ Len(htons(v)) = 2
           /\ htonl(v) \in Seq(Octet) /\ Len(htonl(v)) = 4
  <1>1. \A x \in Nat : htons(x) \in Seq(Octet) /\ Len(htons(x)) = 2
    BY OctetMeans DEF htons
  <1>2. v \div 65536 \in Nat
    OBVIOUS
  <1>3. /\ htons(v) \in Seq(Octet) /\ Len(htons(v)) = 2
        /\ htons(v \div 65536) \in Seq(Octet) /\ Len(htons(v \div 65536)) = 2
    BY <1>1, <1>2
  <1>4. \A s, t \in Seq(Octet) :
            Len(s) = 2 /\ Len(t) = 2 => s \o t \in Seq(Octet) /\ Len(s \o t) = 4
    <2> SUFFICES ASSUME NEW s \in Seq(Octet), NEW t \in Seq(Octet), Len(s) = 2, Len(t) = 2
                 PROVE  s \o t \in Seq(Octet) /\ Len(s \o t) = 4
      OBVIOUS
    <2> QED
      BY ConcatProperties, SMTT(30)
  <1>5. htonl(v) \in Seq(Octet) /\ Len(htonl(v)) = 4
    BY <1>3, <1>4 DEF htonl
  <1> QED
    BY <1>3, <1>5

(* Where the first o of a sequence is.                                     *)
LEMMA FirstPlace ==
    ASSUME NEW S, NEW s \in Seq(S), NEW o
    PROVE  \/ First(s, o) = 0 /\ \A k \in 1 .. Len(s) : s[k] # o
           \/ /\ First(s, o) \in 1 .. Len(s) /\ s[First(s, o)] = o
              /\ \A k \in 1 .. First(s, o) - 1 : s[k] # o
  <1> DEFINE I == {k \in 1 .. Len(s) : s[k] = o}
  <1>1. I \subseteq Nat /\ \A k : k \in I <=> k \in 1 .. Len(s) /\ s[k] = o
    OBVIOUS
  <1>2. First(s, o) = IF I # {} THEN Min(I) ELSE 0
    BY DEF First, SelectInSeq
  <1> HIDE DEF I
  <1>3. CASE I = {}
    BY <1>1, <1>2, <1>3
  <1>4. CASE I # {}
    <2>1. \E k \in I : \A m \in I : k <= m
      BY <1>1, <1>4, LeastNumber
    <2>2. First(s, o) \in I /\ \A m \in I : First(s, o) <= m
      BY <1>2, <1>4, <2>1 DEF Min
    <2> DEFINE n == First(s, o)
    <2> HIDE DEF n
    <2>3. n \in I /\ \A m \in I : n <= m
      BY <2>2 DEF n
    <2>4. n \in 1 .. Len(s) /\ s[n] = o
      BY <1>1, <2>3
    <2>5. ASSUME NEW k \in 1 .. n - 1
          PROVE  s[k] # o
      <3>1. k \in 1 .. Len(s) /\ k < n /\ k \in Nat /\ n \in Nat
        BY <2>4
      <3>2. k \notin I
        BY <2>3, <3>1
      <3> QED
        BY <1>1, <3>1, <3>2
    <2> QED
      BY <2>4, <2>5 DEF n
  <1> QED
    BY <1>3, <1>4

LEMMA UpToTyped ==
    ASSUME NEW S, NEW s \in Seq(S), NEW o \in S
    PROVE  /\ UpTo(s, o) \in Seq(S) /\ Len(UpTo(s, o)) <= Len(s)
           /\ \A k \in 1 .. Len(UpTo(s, o)) : UpTo(s, o)[k] = s[k] /\ s[k] # o
           /\ Len(UpTo(s, o)) < Len(s) => s[Len(UpTo(s, o)) + 1] = o
  <1> DEFINE t == Append(s, o)
             n == First(t, o)
  <1>1. /\ t \in Seq(S) /\ Len(t) = Len(s) + 1
        /\ \A k \in 1 .. Len(s) : t[k] = s[k]
        /\ t[Len(s) + 1] = o
    OBVIOUS
  <1>2. UpTo(s, o) = SubSeq(s, 1, n - 1)
    BY DEF UpTo
  <1> HIDE DEF t
  <1>3. n \in 1 .. Len(s) + 1 /\ t[n] = o /\ \A k \in 1 .. n - 1 : t[k] # o
    <2>1. Len(s) + 1 \in 1 .. Len(t)
      BY <1>1
    <2>2. First(t, o) # 0
      BY <1>1, <2>1, FirstPlace
    <2> QED
      BY <1>1, <2>2, FirstPlace
  <1> HIDE DEF n
  <1>4. \A k \in 1 .. n - 1 : s[k] \in S
    BY <1>3
  <1>5. /\ SubSeq(s, 1, n - 1) \in Seq(S) /\ Len(SubSeq(s, 1, n - 1)) = n - 1
        /\ \A k \in 1 .. n - 1 : SubSeq(s, 1, n - 1)[k] = s[k]
    BY <1>3, <1>4
  <1>6. n - 1 < Len(s) => s[n] = o
    BY <1>1, <1>3
  <1>7. Len(UpTo(s, o)) = n - 1
    BY <1>2, <1>5
  <1> QED
    BY <1>1, <1>2, <1>3, <1>5, <1>6, <1>7

LEMMA StringTyped ==
    ASSUME NEW s \in Seq(Octet)
    PROVE  String(s) \in Seq(Octet)
  <1>1. 0 \in Octet
    BY OctetMeans
  <1> QED
    BY <1>1, UpToTyped DEF String

LEMMA LabelTyped ==
    ASSUME NEW text \in Seq(Octet), NEW k \in Nat
    PROVE  Label(text, k) \in Seq(Octet)
  <1>1. SubSeq(text, k + 1, Len(text)) \in Seq(Octet)
    OBVIOUS
  <1>2. Dot \in Octet
    BY DotOctet
  <1> QED
    BY <1>1, <1>2, UpToTyped DEF Label

-----------------------------------------------------------------------------
(* Names are read up to a zero, which is at the end of the datagram at the *)
(* latest.                                                                 *)

ParsedNames == [text: Seq(Octet), end: Nat]

NameFrom(d) ==
    CHOOSE from :
        from = [q \in Nat |->
                   IF At(d, q) = 0
                     THEN ParsedName(<<>>, q + 1)
                     ELSE Labelled(Octets(d, q + 1, At(d, q)), from[q + At(d, q) + 1])]

LEMMA ParseUnfolds ==
    ASSUME NEW d, NEW p
    PROVE  parse_qname(d, p) =
               ParsedName(String(NameFrom(d)[p].text), NameFrom(d)[p].end)
  BY Zenon DEF parse_qname, NameFrom

LEMMA LabelledTyped ==
    ASSUME NEW label \in Seq(Octet), NEW rest \in ParsedNames
    PROVE  Labelled(label, rest) \in ParsedNames
  <1>1. Dot \in Octet
    BY DotOctet
  <1>2. <<Dot>> \in Seq(Octet)
    BY <1>1
  <1>3. label \o <<Dot>> \o rest.text \in Seq(Octet)
    BY <1>2, ConcatProperties DEF ParsedNames
  <1> QED
    BY <1>3 DEF Labelled, ParsedName, ParsedNames

LEMMA NameFromIs ==
    ASSUME NEW d \in Seq(Octet)
    PROVE  /\ NameFrom(d) \in [Nat -> ParsedNames]
           /\ \A q \in Nat :
                 NameFrom(d)[q] =
                     IF At(d, q) = 0
                       THEN ParsedName(<<>>, q + 1)
                       ELSE Labelled(Octets(d, q + 1, At(d, q)),
                                     NameFrom(d)[q + At(d, q) + 1])
  <1> DEFINE E == {q \in Nat : At(d, q) = 0}
             base == [q \in Nat |-> ParsedName(<<>>, q + 1)]
             next == [q \in Nat |-> q + At(d, q) + 1]
             step == [q \in Nat |->
                         [r \in ParsedNames |-> Labelled(Octets(d, q + 1, At(d, q)), r)]]
  <1>1. \A q \in Nat : At(d, q) \in Nat /\ (q >= Len(d) => At(d, q) = 0)
    <2>1. Octet \subseteq Nat
      BY OctetMeans
    <2> QED
      BY <2>1, AtTyped
  <1>2. \A q \in Nat : q >= Len(d) => q \in E
    BY <1>1
  <1>3. \A q \in Nat : q \in E => base[q] \in ParsedNames
    <2> SUFFICES ASSUME NEW q \in Nat
                 PROVE  base[q] \in ParsedNames
      OBVIOUS
    <2>1. <<>> \in Seq(Octet) /\ q + 1 \in Nat
      OBVIOUS
    <2>2. ParsedName(<<>>, q + 1) \in ParsedNames
      BY <2>1 DEF ParsedName, ParsedNames
    <2> QED
      BY <2>2
  <1>4. ASSUME NEW q \in Nat
        PROVE  \A r \in ParsedNames :
                   /\ step[q][r] = Labelled(Octets(d, q + 1, At(d, q)), r)
                   /\ step[q][r] \in ParsedNames
    <2>1. Octets(d, q + 1, At(d, q)) \in Seq(Octet)
      BY <1>1, OctetsTyped
    <2> SUFFICES ASSUME NEW r \in ParsedNames
                 PROVE  /\ step[q][r] = Labelled(Octets(d, q + 1, At(d, q)), r)
                        /\ step[q][r] \in ParsedNames
      OBVIOUS
    <2>2. step[q][r] = Labelled(Octets(d, q + 1, At(d, q)), r)
      OBVIOUS
    <2>3. Labelled(Octets(d, q + 1, At(d, q)), r) \in ParsedNames
      BY <2>1, LabelledTyped
    <2> QED
      BY <2>2, <2>3, Zenon
  <1>5. \A q \in Nat : next[q] = q + At(d, q) + 1 /\ next[q] \in Nat /\ next[q] > q
    <2> SUFFICES ASSUME NEW q \in Nat
                 PROVE  next[q] = q + At(d, q) + 1 /\ next[q] \in Nat /\ next[q] > q
      BY Zenon
    <2>1. next[q] = q + At(d, q) + 1
      OBVIOUS
    <2>2. At(d, q) \in Nat
      BY <1>1
    <2> HIDE DEF next
    <2> QED
      BY <2>1, <2>2
  <1>6. \A q \in Nat : base[q] = ParsedName(<<>>, q + 1) /\ (q \in E <=> At(d, q) = 0)
    BY Zenon
  <1>7. Len(d) \in Nat
    OBVIOUS
  <1> HIDE DEF base, next, step, E
  <1>8. GoesOn(Len(d), E, ParsedNames, base, next, step)
    BY <1>2, <1>3, <1>4, <1>5, <1>7 DEF GoesOn
  <1> DEFINE Rule(f) == [q \in Nat |-> IF q \in E THEN base[q] ELSE step[q][f[next[q]]]]
             Code(f) == [q \in Nat |->
                            IF At(d, q) = 0
                              THEN ParsedName(<<>>, q + 1)
                              ELSE Labelled(Octets(d, q + 1, At(d, q)), f[q + At(d, q) + 1])]
  <1>9. \E f \in [Nat -> ParsedNames] : f = Rule(f)
    BY <1>8, LaterExists
  <1>10. ASSUME NEW f \in [Nat -> ParsedNames]
         PROVE  Rule(f) = Code(f)
    <2> SUFFICES ASSUME NEW q \in Nat
                 PROVE  Rule(f)[q] = Code(f)[q]
      BY Zenon
    <2>1. f[next[q]] \in ParsedNames
      BY <1>5
    <2>2. step[q][f[next[q]]] = Labelled(Octets(d, q + 1, At(d, q)), f[q + At(d, q) + 1])
      BY <1>4, <1>5, <2>1
    <2> QED
      BY <1>6, <2>2
  <1>11. \E f : f = Code(f)
    BY <1>9, <1>10
  <1> DEFINE g == NameFrom(d)
  <1>12. g = Code(g)
    BY <1>11, Zenon DEF NameFrom
  <1> HIDE DEF g
  <1>13. ASSUME NEW q \in Nat
         PROVE  g[q] = IF At(d, q) = 0
                         THEN ParsedName(<<>>, q + 1)
                         ELSE Labelled(Octets(d, q + 1, At(d, q)), g[q + At(d, q) + 1])
    BY <1>12
  <1>14. g \in [Nat -> ParsedNames]
    <2> DEFINE T == {q \in Nat : g[q] \in ParsedNames}
    <2>1. ASSUME NEW q \in Nat, q \in E
          PROVE  q \in T
      BY <1>3, <1>6, <1>13, <2>1
    <2>2. ASSUME NEW q \in Nat, \A r \in Nat : r > q => r \in T
          PROVE  q \in T
      <3>1. CASE q \in E
        BY <2>1, <3>1
      <3>2. CASE q \notin E
        <4>1. g[next[q]] \in ParsedNames
          BY <1>5, <2>2
        <4>2. g[q] = Labelled(Octets(d, q + 1, At(d, q)), g[next[q]])
          BY <1>5, <1>6, <1>13, <3>2
        <4>3. g[q] \in ParsedNames
          BY <1>4, <4>1, <4>2
        <4> QED
          BY <4>3
      <3> QED
        BY <3>1, <3>2
    <2>3. \A q \in Nat : q >= Len(d) => q \in T
      BY <1>2, <2>1
    <2> HIDE DEF T
    <2>4. \A q \in Nat : q \in T
      BY <1>7, <2>2, <2>3, HoldsBack
    <2>5. g = [q \in Nat |-> g[q]]
      BY <1>12
    <2> QED
      BY <2>4, <2>5 DEF T
  <1> QED
    BY <1>13, <1>14 DEF g

LEMMA ParseTyped ==
    ASSUME NEW d \in Seq(Octet), NEW p \in Nat
    PROVE  parse_qname(d, p) \in ParsedNames
  <1>1. NameFrom(d)[p] \in ParsedNames
    BY NameFromIs
  <1>2. String(NameFrom(d)[p].text) \in Seq(Octet) /\ NameFrom(d)[p].end \in Nat
    BY <1>1, StringTyped DEF ParsedNames
  <1> QED
    BY <1>2, ParseUnfolds DEF ParsedName, ParsedNames

LEMMA RecordNameTyped ==
    ASSUME NEW d \in Seq(Octet), NEW p \in Nat
    PROVE  RecordName(d, p) \in ParsedNames
  <1>1. p + 1 \in Nat /\ p + 2 \in Nat
    OBVIOUS
  <1>2. At(d, p + 1) \in Nat
    <2>1. Octet \subseteq Nat
      BY OctetMeans
    <2> QED
      BY <1>1, <2>1, AtTyped
  <1>3. parse_qname(d, At(d, p + 1)) \in ParsedNames /\ parse_qname(d, p) \in ParsedNames
    BY <1>2, ParseTyped
  <1>4. ParsedName(parse_qname(d, At(d, p + 1)).text, p + 2) \in ParsedNames
    BY <1>1, <1>3 DEF ParsedName, ParsedNames
  <1> QED
    BY <1>3, <1>4 DEF RecordName

ParsedQuestions == [qname: Seq(Octet), qtype: Nat, qclass: Nat, end: Nat]
ParsedRecords ==
    [name: Seq(Octet), type: Nat, class: Nat, ttl: Nat, rdata: Seq(Octet), end: Nat]

LEMMA QuestionTyped ==
    ASSUME NEW d \in Seq(Octet), NEW p \in Nat
    PROVE  parse_question(d, p) \in ParsedQuestions
  <1> DEFINE name == parse_qname(d, p)
  <1>1. name.text \in Seq(Octet) /\ name.end \in Nat
    BY ParseTyped DEF ParsedNames
  <1>2. parse_question(d, p) =
            [qname |-> name.text, qtype |-> ntohs(d, name.end),
             qclass |-> ntohs(d, name.end + 2), end |-> name.end + 4]
    BY DEF parse_question
  <1> HIDE DEF name
  <1>3. name.end + 2 \in Nat /\ name.end + 4 \in Nat
    BY <1>1
  <1>4. ntohs(d, name.end) \in Nat /\ ntohs(d, name.end + 2) \in Nat
    BY <1>1, <1>3, NtohsTyped
  <1> QED
    BY <1>1, <1>2, <1>3, <1>4 DEF ParsedQuestions

LEMMA RecordTyped ==
    ASSUME NEW d \in Seq(Octet), NEW p \in Nat
    PROVE  parse_resource_record(d, p) \in ParsedRecords
  <1> DEFINE name == RecordName(d, p)
             e == name.end
             n == ntohs(d, e + 8)
  <1>1. name.text \in Seq(Octet) /\ e \in Nat
    BY RecordNameTyped DEF ParsedNames
  <1>2. parse_resource_record(d, p) =
            [name |-> name.text, type |-> ntohs(d, e), class |-> ntohs(d, e + 2),
             ttl |-> ntohl(d, e + 4), rdata |-> Octets(d, e + 10, n), end |-> e + 10 + n]
    BY DEF parse_resource_record
  <1> HIDE DEF name
  <1>3. e + 2 \in Nat /\ e + 4 \in Nat /\ e + 8 \in Nat /\ e + 10 \in Nat
    BY <1>1
  <1>4. /\ ntohs(d, e) \in Nat /\ ntohs(d, e + 2) \in Nat
        /\ ntohl(d, e + 4) \in Nat /\ n \in Nat
    BY <1>1, <1>3, NtohsTyped
  <1> HIDE DEF e, n
  <1>5. Octets(d, e + 10, n) \in Seq(Octet) /\ e + 10 + n \in Nat
    BY <1>1, <1>3, <1>4, OctetsTyped
  <1> QED
    BY <1>1, <1>2, <1>4, <1>5 DEF ParsedRecords, e, n

-----------------------------------------------------------------------------
(* Names, records and messages are written as octets.                      *)

WireFrom(text) ==
    CHOOSE from :
        from = [k \in Nat |->
                   IF k >= Len(text)
                     THEN <<0>>
                     ELSE Measured(Label(text, k)) \o from[k + Len(Label(text, k)) + 1]]

LEMMA DumpUnfolds ==
    ASSUME NEW text
    PROVE  dump_name(text) = WireFrom(text)[0]
  BY Zenon DEF dump_name, WireFrom

LEMMA MeasuredTyped ==
    ASSUME NEW label \in Seq(Octet)
    PROVE  Measured(label) \in Seq(Octet) /\ Len(Measured(label)) = Len(label) + 1
  <1>1. Len(label) % 256 \in Octet
    <2>1. \A n \in Nat : n % 256 \in Octet
      BY OctetMeans
    <2>2. Len(label) \in Nat
      OBVIOUS
    <2> QED
      BY <2>1, <2>2
  <1>2. <<Len(label) % 256>> \in Seq(Octet) /\ Len(<<Len(label) % 256>>) = 1
    BY <1>1
  <1> QED
    BY <1>2, ConcatProperties DEF Measured

LEMMA WireFromIs ==
    ASSUME NEW text \in Seq(Octet)
    PROVE  /\ WireFrom(text) \in [Nat -> Seq(Octet)]
           /\ \A k \in Nat :
                 WireFrom(text)[k] =
                     IF k >= Len(text)
                       THEN <<0>>
                       ELSE Measured(Label(text, k))
                                \o WireFrom(text)[k + Len(Label(text, k)) + 1]
  <1> DEFINE E == {k \in Nat : k >= Len(text)}
             base == [k \in Nat |-> <<0>>]
             next == [k \in Nat |-> k + Len(Label(text, k)) + 1]
             step == [k \in Nat |-> [w \in Seq(Octet) |-> Measured(Label(text, k)) \o w]]
  <1>1. \A k \in Nat : k >= Len(text) => k \in E
    OBVIOUS
  <1>2. \A k \in Nat : k \in E => base[k] \in Seq(Octet)
    <2>1. <<0>> \in Seq(Octet)
      BY OctetMeans
    <2> QED
      BY <2>1
  <1>3. ASSUME NEW k \in Nat
        PROVE  \A w \in Seq(Octet) :
                   /\ step[k][w] = Measured(Label(text, k)) \o w
                   /\ step[k][w] \in Seq(Octet)
    <2>1. Measured(Label(text, k)) \in Seq(Octet)
      BY LabelTyped, MeasuredTyped
    <2> SUFFICES ASSUME NEW w \in Seq(Octet)
                 PROVE  /\ step[k][w] = Measured(Label(text, k)) \o w
                        /\ step[k][w] \in Seq(Octet)
      OBVIOUS
    <2>2. step[k][w] = Measured(Label(text, k)) \o w
      OBVIOUS
    <2>3. Measured(Label(text, k)) \o w \in Seq(Octet)
      BY <2>1, ConcatProperties
    <2> QED
      BY <2>2, <2>3, Zenon
  <1>4. \A k \in Nat :
            next[k] = k + Len(Label(text, k)) + 1 /\ next[k] \in Nat /\ next[k] > k
    <2> SUFFICES ASSUME NEW k \in Nat
                 PROVE  next[k] = k + Len(Label(text, k)) + 1 /\ next[k] \in Nat /\ next[k] > k
      BY Zenon
    <2>1. next[k] = k + Len(Label(text, k)) + 1
      OBVIOUS
    <2>2. Len(Label(text, k)) \in Nat
      BY LabelTyped
    <2> HIDE DEF next
    <2> QED
      BY <2>1, <2>2
  <1>5. \A k \in Nat : base[k] = <<0>> /\ (k \in E <=> k >= Len(text))
    BY Zenon
  <1>6. Len(text) \in Nat
    OBVIOUS
  <1> HIDE DEF base, next, step, E
  <1>7. GoesOn(Len(text), E, Seq(Octet), base, next, step)
    BY <1>1, <1>2, <1>3, <1>4, <1>6 DEF GoesOn
  <1> DEFINE Rule(f) == [q \in Nat |-> IF q \in E THEN base[q] ELSE step[q][f[next[q]]]]
             Code(f) == [k \in Nat |->
                            IF k >= Len(text)
                              THEN <<0>>
                              ELSE Measured(Label(text, k)) \o f[k + Len(Label(text, k)) + 1]]
  <1>8. \E f \in [Nat -> Seq(Octet)] : f = Rule(f)
    <2> DEFINE S == Seq(Octet)
    <2>1. GoesOn(Len(text), E, S, base, next, step)
      BY <1>7
    <2> HIDE DEF S
    <2>2. \E f \in [Nat -> S] : f = Rule(f)
      BY <2>1, LaterExists
    <2> QED
      BY <2>2 DEF S
  <1>9. ASSUME NEW f \in [Nat -> Seq(Octet)]
        PROVE  Rule(f) = Code(f)
    <2> SUFFICES ASSUME NEW k \in Nat
                 PROVE  Rule(f)[k] = Code(f)[k]
      BY Zenon
    <2>1. f[next[k]] \in Seq(Octet)
      BY <1>4
    <2>2. step[k][f[next[k]]] = Measured(Label(text, k)) \o f[k + Len(Label(text, k)) + 1]
      BY <1>3, <1>4, <2>1
    <2> QED
      BY <1>5, <2>2
  <1>10. \E f : f = Code(f)
    <2>1. PICK f \in [Nat -> Seq(Octet)] : f = Rule(f)
      BY <1>8
    <2>2. Rule(f) = Code(f)
      BY <1>9
    <2> HIDE DEF Rule, Code
    <2>3. f = Code(f)
      BY <2>1, <2>2
    <2> QED
      BY <2>3
  <1> DEFINE g == WireFrom(text)
  <1>11. g = Code(g)
    BY <1>10, Zenon DEF WireFrom
  <1> HIDE DEF g
  <1>12. ASSUME NEW k \in Nat
         PROVE  g[k] = IF k >= Len(text)
                         THEN <<0>>
                         ELSE Measured(Label(text, k)) \o g[k + Len(Label(text, k)) + 1]
    BY <1>11
  <1>13. g \in [Nat -> Seq(Octet)]
    <2> DEFINE T == {k \in Nat : g[k] \in Seq(Octet)}
    <2>1. ASSUME NEW k \in Nat, k \in E
          PROVE  k \in T
      BY <1>2, <1>5, <1>12, <2>1
    <2>2. ASSUME NEW k \in Nat, \A r \in Nat : r > k => r \in T
          PROVE  k \in T
      <3>1. CASE k \in E
        BY <2>1, <3>1
      <3>2. CASE k \notin E
        <4>1. g[next[k]] \in Seq(Octet)
          BY <1>4, <2>2
        <4>2. g[k] = Measured(Label(text, k)) \o g[next[k]]
          BY <1>4, <1>5, <1>12, <3>2
        <4>3. g[k] \in Seq(Octet)
          BY <1>3, <4>1, <4>2
        <4> QED
          BY <4>3
      <3> QED
        BY <3>1, <3>2
    <2>3. \A k \in Nat : k >= Len(text) => k \in T
      BY <1>1, <2>1
    <2> HIDE DEF T
    <2>4. \A k \in Nat : k \in T
      BY <1>6, <2>2, <2>3, HoldsBack
    <2>5. g = [k \in Nat |-> g[k]]
      BY <1>11
    <2> QED
      BY <2>4, <2>5 DEF T
  <1> QED
    BY <1>12, <1>13 DEF g

LEMMA DumpNameTyped ==
    ASSUME NEW text \in Seq(Octet)
    PROVE  dump_name(text) \in Seq(Octet)
  BY WireFromIs, DumpUnfolds

FlatUpTo(seqs) ==
    CHOOSE flatten :
        flatten = [i \in 1 .. Len(seqs) |->
                      IF i = 1 THEN seqs[i] ELSE flatten[i - 1] \o seqs[i]]

(* Sequences are joined one after the other.                               *)
LEMMA FlattenIs ==
    ASSUME NEW T, NEW seqs \in Seq(Seq(T))
    PROVE  \E f \in [0 .. Len(seqs) -> Seq(T)] :
               /\ f[0] = <<>>
               /\ \A k \in 1 .. Len(seqs) : f[k] = f[k - 1] \o seqs[k]
               /\ FlattenSeq(seqs) = f[Len(seqs)]
  <1> DEFINE N == Len(seqs)
             step == [k \in 1 .. N |-> [s \in Seq(T) |-> s \o seqs[k]]]
             S == Seq(T)
             init == <<>>
  <1>1. N \in Nat /\ \A k \in 1 .. N : seqs[k] \in Seq(T)
    OBVIOUS
  <1>2. ASSUME NEW k \in 1 .. N, NEW s \in S
        PROVE  step[k][s] = s \o seqs[k] /\ step[k][s] \in S
    <2>1. step[k][s] = s \o seqs[k]
      OBVIOUS
    <2>2. s \o seqs[k] \in Seq(T)
      BY <1>1, ConcatProperties
    <2> QED
      BY <2>1, <2>2
  <1>3. init \in S
    OBVIOUS
  <1> HIDE DEF step, S, N, init
  <1>4. Rounds(N, S, init, step)
    BY <1>1, <1>2, <1>3 DEF Rounds
  <1>5. PICK f \in [0 .. N -> S] :
            f = [k \in 0 .. N |-> IF k = 0 THEN init ELSE step[k][f[k - 1]]]
    BY <1>4, RoundsExist
  <1>6. f[0] = <<>>
    BY <1>1, <1>5 DEF init
  <1>7. ASSUME NEW k \in 1 .. N
        PROVE  f[k] = f[k - 1] \o seqs[k]
    <2>1. k \in 0 .. N /\ k # 0 /\ k - 1 \in 0 .. N
      BY <1>1
    <2>2. f[k] = step[k][f[k - 1]] /\ f[k - 1] \in S
      BY <1>5, <2>1
    <2> QED
      BY <1>2, <2>2
  <1>8. FlattenSeq(seqs) = f[N]
    <2>1. CASE N = 0
      <3>1. FlattenSeq(seqs) = seqs /\ seqs = <<>>
        BY <2>1, Len(seqs) = 0 DEF FlattenSeq, N
      <3> QED
        BY <1>6, <2>1, <3>1
    <2>2. CASE N # 0
      <3>1. FlattenSeq(seqs) = FlatUpTo(seqs)[N]
        BY <2>2, Zenon DEF FlattenSeq, FlatUpTo, N
      <3> DEFINE Code(g) == [i \in 1 .. N |-> IF i = 1 THEN seqs[i] ELSE g[i - 1] \o seqs[i]]
                 h == [i \in 1 .. N |-> f[i]]
      <3>2. h = Code(h)
        <4> SUFFICES ASSUME NEW i \in 1 .. N
                     PROVE  h[i] = Code(h)[i]
          BY Zenon
        <4>1. CASE i = 1
          <5>1. seqs[1] \in Seq(T) /\ 1 \in 1 .. N
            BY <1>1, <2>2
          <5>2. <<>> \o seqs[1] = seqs[1]
            BY <5>1, ConcatEmptySeq
          <5>3. 1 - 1 = 0
            OBVIOUS
          <5>4. f[1] = seqs[1]
            BY <1>6, <1>7, <5>1, <5>2, <5>3, Zenon
          <5> QED
            BY <4>1, <5>4
        <4>2. CASE i # 1
          <5>1. i - 1 \in 1 .. N
            BY <1>1, <4>2
          <5>2. h[i - 1] = f[i - 1] /\ h[i] = f[i]
            BY <5>1
          <5> QED
            BY <1>7, <4>2, <5>2
        <4> QED
          BY <4>1, <4>2
      <3>3. \E g : g = Code(g)
        <4> HIDE DEF h, Code
        <4> QED
          BY <3>2
      <3> DEFINE g == FlatUpTo(seqs)
      <3>4. g = Code(g)
        BY <3>3, Zenon DEF FlatUpTo, N
      <3> HIDE DEF g
      <3>5. ASSUME NEW i \in 1 .. N
            PROVE  g[i] = IF i = 1 THEN seqs[i] ELSE g[i - 1] \o seqs[i]
        BY <3>4
      <3> DEFINE Agree == {i \in 0 .. N : i = 0 \/ g[i] = f[i]}
      <3>6. 0 \in Agree
        BY <1>1
      <3>7. ASSUME NEW i \in 1 .. N, i - 1 \in Agree
            PROVE  i \in Agree
        <4>1. h[i] = Code(h)[i]
          BY <3>2, Zenon
        <4>2. f[i] = IF i = 1 THEN seqs[i] ELSE h[i - 1] \o seqs[i]
          BY <4>1
        <4>3. i # 1 => g[i - 1] = f[i - 1] /\ h[i - 1] = f[i - 1]
          BY <1>1, <3>7
        <4>4. g[i] = f[i]
          BY <3>5, <4>2, <4>3
        <4> QED
          BY <1>1, <4>4
      <3>8. Agree = {i \in 0 .. N : i = 0 \/ g[i] = f[i]}
        OBVIOUS
      <3> HIDE DEF Agree
      <3>9. N \in Agree
        <4>1. N \in Nat /\ N \in 0 .. N
          BY <1>1
        <4>2. \A i \in 1 .. N : i - 1 \in Agree => i \in Agree
          BY <3>7
        <4>3. \A i \in 0 .. N : i \in Agree
          BY <3>6, <4>1, <4>2, HoldsUpTo
        <4> QED
          BY <4>1, <4>3
      <3> QED
        BY <2>2, <3>1, <3>8, <3>9 DEF g
    <2> QED
      BY <2>1, <2>2
  <1> QED
    BY <1>5, <1>6, <1>7, <1>8 DEF N, S

LEMMA FlattenTyped ==
    ASSUME NEW T, NEW seqs \in Seq(Seq(T))
    PROVE  FlattenSeq(seqs) \in Seq(T)
  <1>1. PICK f \in [0 .. Len(seqs) -> Seq(T)] : FlattenSeq(seqs) = f[Len(seqs)]
    BY FlattenIs
  <1>2. Len(seqs) \in 0 .. Len(seqs)
    OBVIOUS
  <1> QED
    BY <1>1, <1>2

LEMMA DumpRecordTyped ==
    ASSUME NEW r, r.name \in Seq(Octet), r.type \in Nat, r.class \in Nat,
           r.ttl \in Nat, r.rdata \in Seq(Octet)
    PROVE  dump_resource_record(r) \in Seq(Octet)
  <1>1. /\ dump_name(r.name) \in Seq(Octet) /\ htons(r.type) \in Seq(Octet)
        /\ htons(r.class) \in Seq(Octet) /\ htonl(r.ttl) \in Seq(Octet)
    BY DumpNameTyped, HtonsTyped
  <1>2. Len(r.rdata) \in Nat
    OBVIOUS
  <1>3. htons(Len(r.rdata)) \in Seq(Octet)
    BY <1>2, HtonsTyped
  <1>4. \A a, b \in Seq(Octet) : a \o b \in Seq(Octet)
    BY ConcatProperties
  <1> QED
    BY <1>1, <1>3, <1>4, Zenon DEF dump_resource_record

LEMMA DumpQuestionTyped ==
    ASSUME NEW q, q.qname \in Seq(Octet), q.qtype \in Nat, q.qclass \in Nat
    PROVE  dump_question(q) \in Seq(Octet)
  <1>1. /\ dump_name(q.qname) \in Seq(Octet) /\ htons(q.qtype) \in Seq(Octet)
        /\ htons(q.qclass) \in Seq(Octet)
    BY DumpNameTyped, HtonsTyped
  <1>2. \A a, b \in Seq(Octet) : a \o b \in Seq(Octet)
    BY ConcatProperties
  <1> QED
    BY <1>1, <1>2, Zenon DEF dump_question

LEMMA DumpHeaderTyped ==
    ASSUME NEW d \in Seq(Octet), NEW id \in Nat
    PROVE  dump_header(d, id) \in Seq(Octet)
  <1>1. HeaderLength - 2 \in Nat
    BY DEF HeaderLength
  <1>2. htons(id) \in Seq(Octet) /\ Octets(d, 2, HeaderLength - 2) \in Seq(Octet)
    BY <1>1, HtonsTyped, OctetsTyped
  <1> QED
    BY <1>2, ConcatProperties DEF dump_header

LEMMA OwnHeaderTyped ==
    ASSUME NEW id \in Nat, NEW aa \in {0, 1}, NEW rcode \in 0 .. 15, NEW qdcount \in Nat,
           NEW ancount \in Nat, NEW nscount \in Nat, NEW arcount \in Nat
    PROVE  own_header(id, aa, rcode, qdcount, ancount, nscount, arcount) \in Seq(Octet)
  <1>1. 128 + 4 * aa \in Octet /\ rcode \in Octet
    BY OctetMeans
  <1>2. <<128 + 4 * aa, rcode>> \in Seq(Octet)
    BY <1>1
  <1>3. /\ htons(id) \in Seq(Octet) /\ htons(qdcount) \in Seq(Octet)
        /\ htons(ancount) \in Seq(Octet) /\ htons(nscount) \in Seq(Octet)
        /\ htons(arcount) \in Seq(Octet)
    BY HtonsTyped
  <1>4. \A a, b \in Seq(Octet) : a \o b \in Seq(Octet)
    BY ConcatProperties
  <1> DEFINE flags == <<128 + 4 * aa, rcode>>
  <1>5. own_header(id, aa, rcode, qdcount, ancount, nscount, arcount) =
            htons(id) \o flags \o htons(qdcount) \o htons(ancount) \o htons(nscount)
                \o htons(arcount)
    BY DEF own_header
  <1>6. flags \in Seq(Octet)
    BY <1>2
  <1> HIDE DEF flags
  <1>7. htons(id) \o flags \in Seq(Octet)
    BY <1>3, <1>4, <1>6
  <1>8. htons(id) \o flags \o htons(qdcount) \in Seq(Octet)
    BY <1>3, <1>4, <1>7
  <1>9. htons(id) \o flags \o htons(qdcount) \o htons(ancount) \in Seq(Octet)
    BY <1>3, <1>4, <1>8
  <1>10. htons(id) \o flags \o htons(qdcount) \o htons(ancount) \o htons(nscount)
            \in Seq(Octet)
    BY <1>3, <1>4, <1>9
  <1> QED
    BY <1>3, <1>4, <1>5, <1>10

LEMMA ErrorHeaderTyped ==
    ASSUME NEW id \in Nat, NEW rcode \in 0 .. 15
    PROVE  get_error_header(id, rcode) \in Seq(Octet)
  <1> DEFINE one == IF rcode = NAME_ERROR THEN 1 ELSE 0
  <1>1. one \in Nat /\ 0 \in Nat /\ 1 \in {0, 1}
    OBVIOUS
  <1>2. get_error_header(id, rcode) = own_header(id, 1, rcode, one, 0, one, 0)
    BY Zenon DEF get_error_header
  <1> HIDE DEF one
  <1> QED
    BY <1>1, <1>2, OwnHeaderTyped, ZenonT(60)

LEMMA AuthorityTyped ==
    ASSUME NEW soa \in Seq(Octet)
    PROVE  dump_error_authority(soa) \in Seq(Octet)
  <1> DEFINE r == [name |-> <<>>, type |-> 6, class |-> 1, ttl |-> 10800, rdata |-> soa]
  <1>1. /\ r.name = <<>> /\ r.type \in Nat /\ r.class \in Nat /\ r.ttl \in Nat
        /\ r.rdata = soa
    OBVIOUS
  <1>2. <<>> \in Seq(Octet)
    OBVIOUS
  <1>3. dump_error_authority(soa) = dump_resource_record(r)
    BY SMTT(30) DEF dump_error_authority
  <1> HIDE DEF r
  <1> QED
    BY <1>1, <1>2, <1>3, DumpRecordTyped

-----------------------------------------------------------------------------
(* What is read from a datagram.                                           *)

RecordsUpTo(d) ==
    CHOOSE upTo :
        upTo = [k \in 0 .. RecordCount(d) |->
                   IF k = 0 THEN NoneRead(d)
                            ELSE Read(upTo[k - 1], parse_resource_record(d, upTo[k - 1].end))]

ReadStates == [records: Seq(ParsedRecords), end: Nat]

LEMMA HeaderTyped ==
    ASSUME NEW d \in Seq(Octet)
    PROVE  /\ parse_header(d).id \in Nat
           /\ RecordCount(d) \in Nat
           /\ parse_header(d).ancount \in Nat /\ parse_header(d).nscount \in Nat
  <1>1. /\ ntohs(d, 0) \in Nat /\ ntohs(d, 6) \in Nat
        /\ ntohs(d, 8) \in Nat /\ ntohs(d, 10) \in Nat
    BY NtohsTyped
  <1>2. /\ parse_header(d).id = ntohs(d, 0)
        /\ parse_header(d).ancount = ntohs(d, 6)
        /\ parse_header(d).nscount = ntohs(d, 8)
        /\ parse_header(d).arcount = ntohs(d, 10)
    BY DEF parse_header
  <1> QED
    BY <1>1, <1>2 DEF RecordCount

LEMMA ReadTyped ==
    ASSUME NEW before \in ReadStates, NEW r \in ParsedRecords
    PROVE  Read(before, r) \in ReadStates
  <1>1. before.records \in Seq(ParsedRecords) /\ r.end \in Nat
    BY DEF ReadStates, ParsedRecords
  <1>2. Append(before.records, r) \in Seq(ParsedRecords)
    BY <1>1
  <1> QED
    BY <1>1, <1>2 DEF Read, ReadStates

(* One record after the other is read, each where the one in front ends.   *)
ReadInTurn(d, g, N) ==
    /\ g[0] = NoneRead(d)
    /\ \A k \in 1 .. N : g[k] = Read(g[k - 1], parse_resource_record(d, g[k - 1].end))
    /\ \A k \in 0 .. N : g[k] \in ReadStates
    /\ Records(d) = g[N].records

LEMMA RecordsRead ==
    ASSUME NEW d \in Seq(Octet)
    PROVE  ReadInTurn(d, RecordsUpTo(d), RecordCount(d))
  <1> DEFINE N == RecordCount(d)
             S == ReadStates
             init == NoneRead(d)
             Next1(s) == Read(s, parse_resource_record(d, s.end))
             step == [k \in 1 .. N |-> [s \in S |-> Next1(s)]]
             Code(f) == [k \in 0 .. N |-> IF k = 0 THEN init ELSE Next1(f[k - 1])]
  <1>1. N \in Nat
    BY HeaderTyped
  <1>2. \A s \in S : Next1(s) \in S
    <2> SUFFICES ASSUME NEW s \in S
                 PROVE  Next1(s) \in S
      OBVIOUS
    <2>1. s.end \in Nat
      BY DEF ReadStates
    <2> QED
      BY <2>1, RecordTyped, ReadTyped
  <1>3. init \in S
    <2>1. HeaderLength \in Nat
      BY DEF HeaderLength
    <2>2. parse_question(d, HeaderLength).end \in Nat
      BY <2>1, QuestionTyped DEF ParsedQuestions
    <2> QED
      BY <2>2 DEF NoneRead, ReadStates
  <1>4. \A k \in 1 .. N : \A s \in S : step[k][s] = Next1(s)
    OBVIOUS
  <1>5. RecordsUpTo(d) = CHOOSE f : f = Code(f)
    BY Zenon DEF RecordsUpTo
  <1>6. Records(d) = RecordsUpTo(d)[N].records
    BY Zenon DEF Records, RecordsUpTo
  <1> HIDE DEF N, S, init, step, Next1
  <1>7. Rounds(N, S, init, step)
    BY <1>1, <1>2, <1>3, <1>4 DEF Rounds
  <1>8. PICK f \in [0 .. N -> S] :
            f = [k \in 0 .. N |-> IF k = 0 THEN init ELSE step[k][f[k - 1]]]
    BY <1>7, RoundsExist
  <1>9. ASSUME NEW k \in 0 .. N
        PROVE  f[k] = Code(f)[k]
    <2>1. k # 0 => k \in 1 .. N /\ f[k - 1] \in S
      BY <1>1
    <2> QED
      BY <1>4, <1>8, <2>1
  <1>10. f = Code(f)
    <2>1. f = [k \in 0 .. N |-> f[k]]
      OBVIOUS
    <2> QED
      BY <1>9, <2>1
  <1> DEFINE g == RecordsUpTo(d)
  <1>11. g = Code(g)
    <2>1. \E h : h = Code(h)
      BY <1>10
    <2> QED
      BY <1>5, <2>1, Zenon
  <1> HIDE DEF g
  <1> DEFINE T == {k \in 0 .. N : g[k] \in S}
  <1>12. 0 \in T
    <2>1. 0 \in 0 .. N
      BY <1>1
    <2>2. Code(g)[0] = init
      BY <2>1
    <2> HIDE DEF Code
    <2> QED
      BY <1>3, <1>11, <2>1, <2>2
  <1>13. ASSUME NEW k \in 1 .. N, k - 1 \in T
         PROVE  k \in T
    <2>1. k \in 0 .. N /\ k # 0 /\ g[k - 1] \in S
      BY <1>1, <1>13
    <2>2. Code(g)[k] = Next1(g[k - 1])
      BY <2>1
    <2> HIDE DEF Code
    <2> QED
      BY <1>2, <1>11, <2>1, <2>2
  <1>14. \A k \in T : g[k] \in S
    OBVIOUS
  <1> HIDE DEF T
  <1>15. \A k \in 0 .. N : g[k] \in S
    <2>1. \A k \in 1 .. N : k - 1 \in T => k \in T
      BY <1>13
    <2> QED
      BY <1>1, <1>12, <1>14, <2>1, HoldsUpTo
  <1>16. g[0] = init /\ \A k \in 1 .. N : g[k] = Next1(g[k - 1])
    <2>1. 0 \in 0 .. N /\ \A k \in 1 .. N : k \in 0 .. N /\ k # 0
      BY <1>1
    <2>2. Code(g)[0] = init /\ \A k \in 1 .. N : Code(g)[k] = Next1(g[k - 1])
      BY <2>1
    <2> HIDE DEF Code
    <2> QED
      BY <1>11, <2>2
  <1> QED
    BY <1>6, <1>15, <1>16 DEF ReadInTurn, g, S, N, init, Next1

LEMMA RecordsTyped ==
    ASSUME NEW d \in Seq(Octet)
    PROVE  Records(d) \in Seq(ParsedRecords)
  <1> DEFINE N == RecordCount(d)
             g == RecordsUpTo(d)
  <1>1. ReadInTurn(d, g, N) /\ N \in Nat
    BY RecordsRead, HeaderTyped
  <1> HIDE DEF g, N
  <1>2. N \in 0 .. N
    BY <1>1
  <1>3. g[N] \in ReadStates /\ Records(d) = g[N].records
    BY <1>1, <1>2 DEF ReadInTurn
  <1> QED
    BY <1>3 DEF ReadStates

-----------------------------------------------------------------------------
(* Names, entries and puts.                                                *)

LEMMA NamesTyped ==
    /\ \A d \in Datagram : Asked(d) \in Names /\ Asked(d) \in Seq(Octet)
    /\ \A k \in 1 .. Len(HostsLines) :
          HostsName(HostsLines[k]) \in Names /\ HostsName(HostsLines[k]) \in Seq(Octet)
    /\ Names \subseteq Seq(Octet)
  <1>1. ASSUME NEW d \in Datagram
        PROVE  Asked(d) \in Seq(Octet)
    <2>1. d \in Seq(Octet) /\ HeaderLength \in Nat
      BY MessagesAssumption, IdsTyped DEF HeaderLength
    <2> QED
      BY <2>1, QuestionTyped DEF Asked, ParsedQuestions
  <1>2. DOMAIN HostsLines = 1 .. Len(HostsLines)
    BY MessagesAssumption, IdsTyped
  <1>3. ASSUME NEW k \in 1 .. Len(HostsLines)
        PROVE  HostsName(HostsLines[k]) \in Seq(Octet)
    <2>1. HostsLines[k] \in [domain: Seq(Octet) \ {<<>>}, address: [1 .. 4 -> Octet]]
      BY HostsTyped
    <2>2. HostsLines[k].domain \in Seq(Octet)
      BY <2>1
    <2>3. Dot \in Octet
      BY DotOctet
    <2>4. Append(HostsLines[k].domain, Dot) \in Seq(Octet)
      BY <2>2, <2>3
    <2> QED
      BY <2>2, <2>4 DEF HostsName
  <1> QED
    BY <1>1, <1>2, <1>3 DEF Names

LEMMA CachedTyped ==
    ASSUME NEW section \in RrType, NEW r \in ParsedRecords
    PROVE  Cached(section, r) \in Entry
  <1>1. /\ r.name \in Seq(Octet) /\ r.type \in Nat /\ r.class \in Nat /\ r.ttl \in Nat
        /\ r.rdata \in Seq(Octet)
    BY DEF ParsedRecords
  <1>2. Least(MaxTtl, r.ttl) \in 0 .. MaxTtl
    BY <1>1, MessagesAssumption DEF Least
  <1> QED
    BY <1>1, <1>2 DEF Cached, Entry, Now

(* What is put into a cache is an address of the hosts file or a record of *)
(* a response.                                                             *)
OfHosts(p) ==
    /\ p.from = <<>>
    /\ p.entry.section = "ANSWER" /\ p.entry.record_time = 0
    /\ p.entry.name = p.key /\ p.entry.type = 1 /\ p.entry.class = 1
    /\ Len(p.entry.rdata) = 4

OfResponse(p) ==
    /\ p.from \in Datagram /\ parse_header(p.from).qr = 1
    /\ p.number \in DOMAIN Records(p.from)
    /\ p.entry = Cached(SectionOf(parse_header(p.from), p.number), Records(p.from)[p.number])

Sourced(p) == OfHosts(p) \/ OfResponse(p)

(* Only what is of a type that is cached goes into a cache.                *)
PutsTyped(puts) ==
    /\ Len(puts) \in Nat
    /\ \A k \in 1 .. Len(puts) :
          puts[k].cache \in CacheType => puts[k] \in Put /\ Sourced(puts[k])

LEMMA ResponsePutsTyped ==
    ASSUME NEW d \in Datagram, parse_header(d).qr = 1
    PROVE  PutsTyped(ResponsePuts(d))
  <1> DEFINE h == parse_header(d)
             records == Records(d)
             N == Len(records)
             record(k) == [cache |-> records[k].type, key |-> Asked(d),
                           entry |-> Cached(SectionOf(h, k), records[k]),
                           from |-> d, number |-> k]
  <1>1. d \in Seq(Octet)
    BY MessagesAssumption, IdsTyped
  <1>2. records \in Seq(ParsedRecords)
    BY <1>1, RecordsTyped
  <1>3. N \in Nat /\ DOMAIN records = 1 .. N
    BY <1>2
  <1>4. ResponsePuts(d) = IF h.rcode # 0 THEN <<>> ELSE [k \in 1 .. N |-> record(k)]
    BY <1>3 DEF ResponsePuts
  <1>5. ASSUME NEW k \in 1 .. N, record(k).cache \in CacheType
        PROVE  record(k) \in Put /\ Sourced(record(k))
    <2>a. Sourced(record(k))
      <3>1. k \in DOMAIN Records(d) /\ h.qr = 1
        BY <1>3
      <3> QED
        BY <3>1 DEF Sourced, OfResponse
    <2>1. records[k] \in ParsedRecords
      BY <1>2, ElementOfSeq
    <2>2. SectionOf(h, k) \in RrType
      BY DEF SectionOf, RrType
    <2> HIDE DEF h, records
    <2>3. Cached(SectionOf(h, k), records[k]) \in Entry
      BY <2>1, <2>2, CachedTyped
    <2>4. Asked(d) \in Names /\ k \in Nat /\ records[k].type \in CacheType
      BY <1>3, <1>5, NamesTyped
    <2> QED
      BY <2>a, <2>3, <2>4 DEF Put
  <1> HIDE DEF N, records
  <1>6. CASE h.rcode # 0
    BY <1>4, <1>6 DEF PutsTyped
  <1>7. CASE h.rcode = 0
    <2>1. ResponsePuts(d) = [k \in 1 .. N |-> record(k)]
      BY <1>4, <1>7
    <2> HIDE DEF record
    <2>2. Len(ResponsePuts(d)) = N /\ \A k \in 1 .. N : ResponsePuts(d)[k] = record(k)
      BY <1>3, <2>1
    <2> QED
      BY <1>3, <1>5, <2>2 DEF PutsTyped
  <1> QED
    BY <1>6, <1>7

LEMMA HostsPutsTyped ==
    ASSUME NEW n \in 1 .. Len(HostsLines)
    PROVE  PutsTyped(HostsPuts(HostsLines[n]))
  <1> DEFINE line == HostsLines[n]
             name == HostsName(line)
             e == [section |-> "ANSWER", record_time |-> 0, ttl |-> 0, name |-> name,
                   type |-> 1, class |-> 1, rdata |-> line.address]
             caches == IF Zero(line.address) THEN <<A, AAAA, CNAME>> ELSE <<A>>
             put(k) == [cache |-> caches[k], key |-> name, entry |-> e, from |-> <<>>, number |-> 0]
  <1>1. line \in [domain: Seq(Octet) \ {<<>>}, address: [1 .. 4 -> Octet]]
    BY HostsTyped
  <1>a. line.address \in Seq(Octet) /\ Len(line.address) = 4
    <2> DEFINE address == line.address
    <2>1. address \in [1 .. 4 -> Octet]
      BY <1>1
    <2> HIDE DEF address
    <2>2. address = [k \in 1 .. 4 |-> address[k]] /\ \A k \in 1 .. 4 : address[k] \in Octet
      BY <2>1
    <2>3. address \in Seq(Octet) /\ Len(address) = 4
      BY <2>2
    <2> QED
      BY <2>3 DEF address
  <1>2. name \in Names /\ name \in Seq(Octet) /\ line.address \in Seq(Octet)
    BY <1>a, NamesTyped
  <1>3. HostsPuts(line) = [k \in DOMAIN caches |-> put(k)]
    BY Zenon DEF HostsPuts
  <1>4. /\ Len(caches) \in Nat /\ DOMAIN caches = 1 .. Len(caches)
        /\ \A k \in 1 .. Len(caches) : caches[k] \in CacheType
    <2>1. A \in CacheType /\ AAAA \in CacheType /\ CNAME \in CacheType
      BY DEF CacheType
    <2>2. <<A, AAAA, CNAME>> \in Seq(CacheType) /\ <<A>> \in Seq(CacheType)
      BY <2>1
    <2>3. caches \in Seq(CacheType)
      BY <2>2, Zenon
    <2> HIDE DEF caches
    <2> QED
      BY <2>3
  <1> HIDE DEF line, name, caches
  <1>5. e \in Entry
    <2>1. 0 \in 0 .. MaxTtl
      BY MessagesAssumption, IdsTyped
    <2> QED
      BY <1>2, <2>1 DEF Entry, RrType, Now
  <1>b. \A k \in 1 .. Len(caches) : Sourced(put(k))
    BY <1>a DEF Sourced, OfHosts
  <1> HIDE DEF e
  <1>6. \A k \in 1 .. Len(caches) : put(k) \in Put /\ Sourced(put(k))
    BY <1>b, <1>2, <1>4, <1>5 DEF Put
  <1> HIDE DEF put
  <1>7. Len(HostsPuts(line)) = Len(caches) /\ \A k \in 1 .. Len(caches) : HostsPuts(line)[k] = put(k)
    BY <1>3, <1>4
  <1> QED
    BY <1>4, <1>6, <1>7 DEF PutsTyped, line

-----------------------------------------------------------------------------
(* The caches and the history of the puts.                                 *)

PutsUpTo(puts, t, name) ==
    CHOOSE upTo :
        upTo = [k \in 0 .. Len(puts) |->
                   IF k = 0 THEN <<>>
                   ELSE IF puts[k].cache = t /\ puts[k].key = name
                          THEN Append(upTo[k - 1], puts[k])
                   ELSE upTo[k - 1]]

ForName(p, t, name) == p.cache = t /\ p.key = name

Collected(puts, t, name, g, N) ==
    /\ g[0] = <<>>
    /\ \A k \in 1 .. N :
          g[k] = IF ForName(puts[k], t, name) THEN Append(g[k - 1], puts[k]) ELSE g[k - 1]
    /\ \A k \in 0 .. N : g[k] \in Seq(Put)
    /\ PutsIn(puts, t, name) = g[N]

LEMMA PutsInIs ==
    ASSUME NEW puts \in Seq(Put), NEW t, NEW name
    PROVE  Collected(puts, t, name, PutsUpTo(puts, t, name), Len(puts))
  <1> DEFINE S == Seq(Put)
             N == Len(puts)
             g == PutsUpTo(puts, t, name)
             init == <<>>
             More(s, k) == IF ForName(puts[k], t, name) THEN Append(s, puts[k]) ELSE s
             step == [k \in 1 .. N |-> [s \in S |-> More(s, k)]]
             Code(f) == [k \in 0 .. N |-> IF k = 0 THEN init ELSE More(f[k - 1], k)]
  <1>1. N \in Nat /\ init \in S
    OBVIOUS
  <1>2. \A k \in 1 .. N : \A s \in S : More(s, k) \in S
    <2> SUFFICES ASSUME NEW k \in 1 .. N, NEW s \in S
                 PROVE  More(s, k) \in S
      OBVIOUS
    <2>1. puts[k] \in Put
      BY ElementOfSeq
    <2>2. Append(s, puts[k]) \in Seq(Put)
      BY <2>1
    <2> QED
      BY <2>2
  <1>3. \A k \in 1 .. N : \A s \in S : step[k][s] = More(s, k)
    OBVIOUS
  <1>4. PutsUpTo(puts, t, name) = CHOOSE f : f = Code(f)
    BY Zenon DEF PutsUpTo, ForName
  <1>5. PutsIn(puts, t, name) = PutsUpTo(puts, t, name)[N]
    BY Zenon DEF PutsIn, PutsUpTo
  <1>6. init = <<>>
    OBVIOUS
  <1>7. \A k \in 1 .. N : \A s :
            More(s, k) = IF ForName(puts[k], t, name) THEN Append(s, puts[k]) ELSE s
    OBVIOUS
  <1> HIDE DEF S, init, step, More, N
  <1>8. Rounds(N, S, init, step)
    BY <1>1, <1>2, <1>3 DEF Rounds
  <1>9. PICK f \in [0 .. N -> S] :
            f = [k \in 0 .. N |-> IF k = 0 THEN init ELSE step[k][f[k - 1]]]
    BY <1>8, RoundsExist
  <1>10. ASSUME NEW k \in 0 .. N
         PROVE  f[k] = Code(f)[k]
    <2>1. k # 0 => k \in 1 .. N /\ f[k - 1] \in S
      BY <1>1
    <2> QED
      BY <1>3, <1>9, <2>1
  <1>11. f = Code(f)
    <2>1. f = [k \in 0 .. N |-> f[k]]
      OBVIOUS
    <2> QED
      BY <1>10, <2>1
  <1>12. g = Code(g)
    <2>1. \E h : h = Code(h)
      BY <1>11
    <2> QED
      BY <1>4, <2>1, Zenon
  <1> HIDE DEF g
  <1>13. g[0] = init
    <2>1. 0 \in 0 .. N
      BY <1>1
    <2>2. Code(g)[0] = init
      BY <2>1
    <2> HIDE DEF Code
    <2> QED
      BY <1>12, <2>2
  <1>14. ASSUME NEW k \in 1 .. N
         PROVE  g[k] = More(g[k - 1], k)
    <2>1. k \in 0 .. N /\ k # 0
      BY <1>1
    <2>2. Code(g)[k] = More(g[k - 1], k)
      BY <2>1
    <2> HIDE DEF Code
    <2> QED
      BY <1>12, <2>2
  <1> DEFINE T == {k \in 0 .. N : g[k] \in S}
  <1>15. 0 \in T
    BY <1>1, <1>13
  <1>16. ASSUME NEW k \in 1 .. N, k - 1 \in T
         PROVE  k \in T
    BY <1>1, <1>2, <1>14, <1>16
  <1>17. \A k \in T : g[k] \in S
    OBVIOUS
  <1> HIDE DEF T
  <1>18. \A k \in 0 .. N : g[k] \in S
    <2>1. \A k \in 1 .. N : k - 1 \in T => k \in T
      BY <1>16
    <2> QED
      BY <1>1, <1>15, <1>17, <2>1, HoldsUpTo
  <1> QED
    BY <1>5, <1>6, <1>7, <1>13, <1>14, <1>18 DEF S, Collected, N, g

(* One more put is one more for its cache and name.                        *)
OneMore(before, after, p, t, name) ==
    PutsIn(after, t, name) = IF ForName(p, t, name) THEN Append(PutsIn(before, t, name), p)
                                                    ELSE PutsIn(before, t, name)

LEMMA PutsInAppend ==
    ASSUME NEW puts \in Seq(Put), NEW p \in Put, NEW t, NEW name
    PROVE  /\ PutsIn(puts, t, name) \in Seq(Put)
           /\ OneMore(puts, Append(puts, p), p, t, name)
  <1> DEFINE N == Len(puts)
             all == Append(puts, p)
             g == PutsUpTo(puts, t, name)
             h == PutsUpTo(all, t, name)
             T == {k \in 0 .. N : h[k] = g[k]}
  <1>1. /\ N \in Nat /\ all \in Seq(Put) /\ Len(all) = N + 1 /\ all[N + 1] = p
        /\ \A k \in 1 .. N : all[k] = puts[k]
    OBVIOUS
  <1>2. N = Len(puts) /\ N + 1 = Len(all)
    BY <1>1
  <1> HIDE DEF N, all
  <1>3. /\ g[0] = <<>>
        /\ \A k \in 1 .. N :
              g[k] = IF ForName(puts[k], t, name) THEN Append(g[k - 1], puts[k]) ELSE g[k - 1]
        /\ \A k \in 0 .. N : g[k] \in Seq(Put)
        /\ PutsIn(puts, t, name) = g[N]
    BY <1>2, PutsInIs, SMTT(30) DEF Collected
  <1>4. /\ h[0] = <<>>
        /\ \A k \in 1 .. N + 1 :
              h[k] = IF ForName(all[k], t, name) THEN Append(h[k - 1], all[k]) ELSE h[k - 1]
        /\ PutsIn(all, t, name) = h[N + 1]
    <2>1. Collected(all, t, name, h, Len(all))
      BY <1>1, PutsInIs
    <2>2. Collected(all, t, name, h, N + 1)
      BY <1>2, <2>1
    <2> HIDE DEF h
    <2> QED
      BY <2>2 DEF Collected
  <1> HIDE DEF g, h
  <1>5. 0 \in T
    BY <1>1, <1>3, <1>4
  <1>6. ASSUME NEW k \in 1 .. N, k - 1 \in T
        PROVE  k \in T
    <2>1. h[k - 1] = g[k - 1] /\ k \in 0 .. N /\ k \in 1 .. N + 1
      BY <1>1, <1>6
    <2>2. h[k] = g[k]
      BY <1>1, <1>3, <1>4, <2>1
    <2> QED
      BY <2>1, <2>2
  <1>7. \A k \in T : h[k] = g[k]
    OBVIOUS
  <1> HIDE DEF T
  <1>8. h[N] = g[N]
    <2>1. \A k \in 1 .. N : k - 1 \in T => k \in T
      BY <1>6
    <2>2. \A k \in 0 .. N : k \in T
      BY <1>1, <1>5, <2>1, HoldsUpTo
    <2> QED
      BY <1>1, <1>7, <2>2
  <1>9. N + 1 \in 1 .. N + 1 /\ (N + 1) - 1 = N /\ N \in 0 .. N
    BY <1>1
  <1>10. h[N + 1] = IF ForName(p, t, name) THEN Append(h[N], p) ELSE h[N]
    BY <1>1, <1>4, <1>9
  <1> QED
    BY <1>3, <1>4, <1>8, <1>9, <1>10 DEF all, OneMore

LEMMA EntriesAppend ==
    ASSUME NEW puts \in Seq(Put), NEW p \in Put
    PROVE  EntriesOf(Append(puts, p)) = Append(EntriesOf(puts), p.entry)
  <1> DEFINE N == Len(puts)
             all == Append(puts, p)
             e == EntriesOf(puts)
             f == EntriesOf(all)
  <1>1. /\ N \in Nat /\ DOMAIN puts = 1 .. N /\ DOMAIN all = 1 .. N + 1
        /\ all[N + 1] = p /\ \A k \in 1 .. N : all[k] = puts[k]
    OBVIOUS
  <1>2. e = [k \in 1 .. N |-> puts[k].entry] /\ f = [k \in 1 .. N + 1 |-> all[k].entry]
    BY <1>1 DEF EntriesOf
  <1>3. \A k \in 1 .. N : puts[k].entry \in Entry
    <2> SUFFICES ASSUME NEW k \in 1 .. N
                 PROVE  puts[k].entry \in Entry
      OBVIOUS
    <2>1. puts[k] \in Put
      BY ElementOfSeq
    <2> QED
      BY <2>1 DEF Put
  <1>4. p.entry \in Entry
    BY DEF Put
  <1> HIDE DEF N, all, e, f
  <1>5. e \in Seq(Entry) /\ Len(e) = N
    BY <1>1, <1>2, <1>3
  <1>6. f = Append(e, p.entry)
    <2>1. f \in Seq(Entry) /\ Len(f) = N + 1
      <3>1. \A k \in 1 .. N + 1 : all[k].entry \in Entry
        BY <1>1, <1>3, <1>4
      <3> QED
        BY <1>1, <1>2, <3>1
    <2>2. /\ Append(e, p.entry) \in Seq(Entry) /\ Len(Append(e, p.entry)) = N + 1
          /\ Append(e, p.entry)[N + 1] = p.entry
          /\ \A k \in 1 .. N : Append(e, p.entry)[k] = e[k]
      BY <1>1, <1>4, <1>5
    <2>3. \A k \in 1 .. N + 1 : f[k] = Append(e, p.entry)[k]
      BY <1>1, <1>2, <2>2
    <2> QED
      BY <2>1, <2>2, <2>3, SeqEqual
  <1> QED
    BY <1>6 DEF e, f, all

(* What holds of the caches and of what has been put into them: the tables *)
(* are in order, and what is found for a name is what was put for it.      *)
Fits(name) == KeyAllowed(name) /\ Len(name) < KeyRoom

Kept(tables, puts) ==
    /\ tables = [t \in CacheType |-> tables[t]]
    /\ puts \in Seq(Put) /\ \A k \in 1 .. Len(puts) : Sourced(puts[k])
    /\ \A t \in CacheType : TableOK(Octet, Entry, tables[t])
    /\ \A t \in CacheType, name \in Names :
          Fits(name) => cache_find(tables[t], name) = EntriesOf(PutsIn(puts, t, name))

LEMMA CachePutKeeps ==
    ASSUME NEW c, Kept(c.table, c.stored), NEW p \in Put, Sourced(p)
    PROVE  Kept(CachePut(c, p).table, CachePut(c, p).stored)
  <1> DEFINE before == c.table[p.cache]
             after == cache_insert(before, p.key, p.entry)
             tables == CachePut(c, p).table
             puts == CachePut(c, p).stored
  <1>1. p.cache \in CacheType /\ p.key \in Names /\ p.entry \in Entry
    BY DEF Put
  <1>2. p.key \in Seq(Octet) /\ Hash(p.key) \in Nat
    BY <1>1, NamesTyped, HashAssumption
  <1>3. TableOK(Octet, Entry, before)
    BY <1>1 DEF Kept
  <1>4. Octet \subseteq Nat /\ 0 \in Octet
    BY OctetMeans
  <1>5. c.table = [t \in CacheType |-> c.table[t]] /\ c.stored \in Seq(Put)
    BY DEF Kept
  <1>6. /\ tables = [c.table EXCEPT ![p.cache] = after]
        /\ puts = Append(c.stored, p)
    BY DEF CachePut
  <1> HIDE DEF tables, puts
  <1>7. /\ TableOK(Octet, Entry, after)
        /\ \A name \in Names : Fits(name) =>
              cache_find(after, name) = IF name = p.key
                                          THEN Append(cache_find(before, name), p.entry)
                                          ELSE cache_find(before, name)
    <2> DEFINE key == p.key
               e == p.entry
    <2>1. key \in Seq(Octet) /\ Hash(key) \in Nat /\ e \in Entry
      BY <1>1, <1>2
    <2>2. after = cache_insert(before, key, e)
      OBVIOUS
    <2> HIDE DEF key, e, before
    <2>3. CASE KeyAllowed(key)
      <3>1. TableOK(Octet, Entry, after) /\ Stores(Seq(Octet), before, after, key, e)
        BY <1>3, <1>4, <2>1, <2>2, <2>3, CacheStores
      <3>2. \A name \in Names : name \in Seq(Octet) /\ Hash(name) \in Nat
        BY NamesTyped, HashAssumption
      <3>3. \A name \in Names : Fits(name) =>
                cache_find(after, name) = IF name = key
                                            THEN Append(cache_find(before, name), e)
                                            ELSE cache_find(before, name)
        BY <3>1, <3>2 DEF Stores, Fits
      <3> QED
        BY <3>1, <3>3 DEF key, e
    <2>4. CASE ~ KeyAllowed(key)
      <3>1. after = before
        BY <2>2, <2>4 DEF cache_insert
      <3>2. \A name : Fits(name) => name # key
        BY <2>4 DEF Fits
      <3> QED
        BY <1>3, <3>1, <3>2 DEF key
    <2> QED
      BY <2>3, <2>4
  <1> HIDE DEF after, before
  <1>8. tables[p.cache] = after /\ \A t \in CacheType : t # p.cache => tables[t] = c.table[t]
    BY <1>1, <1>5, <1>6
  <1>9. tables = [t \in CacheType |-> tables[t]]
    BY <1>5, <1>6
  <1>10. puts \in Seq(Put) /\ \A k \in 1 .. Len(puts) : Sourced(puts[k])
    <2> DEFINE old == c.stored
    <2>1. puts = Append(old, p) /\ old \in Seq(Put) /\ \A k \in 1 .. Len(old) : Sourced(old[k])
      BY <1>6 DEF Kept
    <2> HIDE DEF old
    <2>2. /\ puts \in Seq(Put) /\ Len(puts) = Len(old) + 1 /\ puts[Len(old) + 1] = p
          /\ \A k \in 1 .. Len(old) : puts[k] = old[k]
      BY <2>1
    <2>3. \A k \in 1 .. Len(old) + 1 : k \in 1 .. Len(old) \/ k = Len(old) + 1
      BY <2>1
    <2>4. ASSUME NEW k \in 1 .. Len(puts)
          PROVE  Sourced(puts[k])
      BY <2>1, <2>2, <2>3
    <2> QED
      BY <2>2, <2>4
  <1>11. ASSUME NEW t \in CacheType
         PROVE  TableOK(Octet, Entry, tables[t])
    BY <1>7, <1>8 DEF Kept
  <1>12. ASSUME NEW t \in CacheType, NEW name \in Names, Fits(name)
         PROVE  cache_find(tables[t], name) = EntriesOf(PutsIn(puts, t, name))
    <2> DEFINE old == PutsIn(c.stored, t, name)
    <2>1. /\ old \in Seq(Put)
          /\ PutsIn(puts, t, name) = IF ForName(p, t, name) THEN Append(old, p) ELSE old
      <3>1. old \in Seq(Put) /\ OneMore(c.stored, puts, p, t, name)
        BY <1>5, <1>6, PutsInAppend
      <3> QED
        BY <3>1 DEF OneMore
    <2>2. cache_find(c.table[t], name) = EntriesOf(old)
      BY <1>12 DEF Kept
    <2> HIDE DEF old
    <2>3. EntriesOf(Append(old, p)) = Append(EntriesOf(old), p.entry)
      BY <2>1, EntriesAppend
    <2>4. CASE t # p.cache
      BY <1>8, <2>1, <2>2, <2>4 DEF ForName
    <2>5. CASE t = p.cache
      <3>1. tables[t] = after /\ c.table[t] = before
        BY <1>8, <2>5 DEF before
      <3>2. ForName(p, t, name) <=> name = p.key
        BY <2>5 DEF ForName
      <3>3. cache_find(after, name) = IF name = p.key
                                        THEN Append(cache_find(before, name), p.entry)
                                        ELSE cache_find(before, name)
        BY <1>7, <1>12
      <3> QED
        BY <2>1, <2>2, <2>3, <3>1, <3>2, <3>3
    <2> QED
      BY <2>4, <2>5
  <1> QED
    BY <1>9, <1>10, <1>11, <1>12 DEF Kept, tables, puts

AllUpTo(c, puts) ==
    CHOOSE upTo :
        upTo = [k \in 0 .. Len(puts) |->
                   IF k = 0 THEN c
                   ELSE IF puts[k].cache \in CacheType THEN CachePut(upTo[k - 1], puts[k])
                   ELSE upTo[k - 1]]

LEMMA AllPutKeeps ==
    ASSUME NEW c, Kept(c.table, c.stored), NEW puts, PutsTyped(puts)
    PROVE  Kept(AllPut(c, puts).table, AllPut(c, puts).stored)
  <1> DEFINE N == Len(puts)
             More(s, k) == IF puts[k].cache \in CacheType THEN CachePut(s, puts[k]) ELSE s
             Code(f) == [k \in 0 .. N |-> IF k = 0 THEN c ELSE More(f[k - 1], k)]
             Good(f, n) == f[0] = c /\ \A k \in 1 .. n : f[k] = More(f[k - 1], k)
             Done == {n \in 0 .. N : \E f : Good(f, n)}
  <1>1. /\ N \in Nat
        /\ \A k \in 1 .. N :
              puts[k].cache \in CacheType => puts[k] \in Put /\ Sourced(puts[k])
    BY DEF PutsTyped
  <1>2. AllUpTo(c, puts) = CHOOSE f : f = Code(f)
    BY Zenon DEF AllUpTo
  <1>3. AllPut(c, puts) = AllUpTo(c, puts)[N]
    BY Zenon DEF AllPut, AllUpTo
  <1>4. ASSUME NEW s, NEW k \in 1 .. N, Kept(s.table, s.stored)
        PROVE  Kept(More(s, k).table, More(s, k).stored)
    <2>1. CASE puts[k].cache \in CacheType
      BY <1>1, <1>4, <2>1, CachePutKeeps
    <2>2. CASE puts[k].cache \notin CacheType
      BY <1>4, <2>2
    <2> QED
      BY <2>1, <2>2
  <1> HIDE DEF N, More
  <1>5. 0 \in Done
    <2>1. Good([k \in 0 .. N |-> c], 0)
      BY <1>1
    <2> HIDE DEF Good
    <2> QED
      BY <1>1, <2>1
  <1>6. ASSUME NEW n \in 1 .. N, n - 1 \in Done
        PROVE  n \in Done
    <2>1. PICK f : Good(f, n - 1)
      BY <1>6
    <2> DEFINE g == [k \in 0 .. N |-> IF k = n THEN More(f[n - 1], n) ELSE f[k]]
    <2>2. g[0] = c
      BY <1>1, <2>1
    <2>3. ASSUME NEW k \in 1 .. n
          PROVE  g[k] = More(g[k - 1], k)
      <3>1. k - 1 \in 0 .. N /\ k - 1 # n /\ k \in 0 .. N
        BY <1>1
      <3>2. g[k - 1] = f[k - 1]
        BY <3>1
      <3>3. CASE k = n
        BY <3>1, <3>2, <3>3
      <3>4. CASE k # n
        <4>1. k \in 1 .. n - 1
          BY <1>1, <3>4
        <4>2. f[k] = More(f[k - 1], k)
          BY <2>1, <4>1
        <4>3. g[k] = f[k]
          BY <3>1, <3>4
        <4> QED
          BY <3>2, <4>2, <4>3
      <3> QED
        BY <3>3, <3>4
    <2> HIDE DEF g
    <2>4. Good(g, n)
      BY <2>2, <2>3
    <2> HIDE DEF Good
    <2>5. n \in 0 .. N
      BY <1>1
    <2> QED
      BY <2>4, <2>5
  <1>7. PICK f : Good(f, N)
    <2>1. Done = {n \in 0 .. N : \E f : Good(f, n)}
      OBVIOUS
    <2> HIDE DEF Done, Good
    <2>2. \A k \in 1 .. N : k - 1 \in Done => k \in Done
      BY <1>6
    <2>3. \A k \in 0 .. N : k \in Done
      BY <1>1, <1>5, <2>2, HoldsUpTo
    <2>4. N \in Done
      BY <1>1, <2>3
    <2> QED
      BY <2>1, <2>4
  <1> DEFINE h == [k \in 0 .. N |-> f[k]]
  <1>8. h = Code(h)
    <2> SUFFICES ASSUME NEW k \in 0 .. N
                 PROVE  h[k] = Code(h)[k]
      OBVIOUS
    <2>1. CASE k = 0
      BY <1>7, <2>1
    <2>2. CASE k # 0
      <3>1. k \in 1 .. N /\ k - 1 \in 0 .. N
        BY <1>1, <2>2
      <3>2. f[k] = More(f[k - 1], k)
        BY <1>7, <3>1
      <3>3. h[k] = f[k] /\ h[k - 1] = f[k - 1]
        BY <3>1
      <3> QED
        BY <2>2, <3>2, <3>3
    <2> QED
      BY <2>1, <2>2
  <1> DEFINE g == AllUpTo(c, puts)
  <1>9. g = Code(g)
    <2> HIDE DEF h, Code
    <2>1. \E r : r = Code(r)
      BY <1>8
    <2> USE DEF Code
    <2> QED
      BY <1>2, <2>1, Zenon
  <1> HIDE DEF g
  <1> DEFINE T == {k \in 0 .. N : Kept(g[k].table, g[k].stored)}
  <1>10. 0 \in T
    <2>1. 0 \in 0 .. N
      BY <1>1
    <2>2. Code(g)[0] = c
      BY <2>1
    <2> HIDE DEF Code
    <2>3. g[0] = c
      BY <1>9, <2>2
    <2> QED
      BY <2>1, <2>3
  <1>11. ASSUME NEW k \in 1 .. N, k - 1 \in T
         PROVE  k \in T
    <2>1. k \in 0 .. N /\ k # 0 /\ Kept(g[k - 1].table, g[k - 1].stored)
      BY <1>1, <1>11
    <2>2. Code(g)[k] = More(g[k - 1], k)
      BY <2>1
    <2> HIDE DEF Code
    <2>3. g[k] = More(g[k - 1], k)
      BY <1>9, <2>2
    <2>4. Kept(More(g[k - 1], k).table, More(g[k - 1], k).stored)
      BY <1>4, <2>1
    <2> QED
      BY <2>1, <2>3, <2>4
  <1>12. \A k \in T : Kept(g[k].table, g[k].stored)
    OBVIOUS
  <1> HIDE DEF T
  <1>13. Kept(g[N].table, g[N].stored)
    <2>1. \A k \in 1 .. N : k - 1 \in T => k \in T
      BY <1>11
    <2>2. \A k \in 0 .. N : k \in T
      BY <1>1, <1>10, <2>1, HoldsUpTo
    <2>3. N \in T
      BY <1>1, <2>2
    <2> QED
      BY <1>12, <2>3
  <1> QED
    BY <1>3, <1>13 DEF g

NothingLoaded == [table |-> [t \in CacheType |-> EmptyTable], stored |-> <<>>]

LoadedUpTo ==
    CHOOSE upTo :
        upTo = [k \in 0 .. Len(HostsLines) |->
                   IF k = 0 THEN NothingLoaded
                            ELSE AllPut(upTo[k - 1], HostsPuts(HostsLines[k]))]

LEMMA NothingKept ==
    Kept(NothingLoaded.table, NothingLoaded.stored)
  <1> DEFINE tables == [t \in CacheType |-> EmptyTable]
  <1>1. NothingLoaded.table = tables /\ NothingLoaded.stored = <<>>
    BY DEF NothingLoaded
  <1>2. /\ tables = [t \in CacheType |-> tables[t]] /\ <<>> \in Seq(Put)
        /\ \A k \in 1 .. Len(<<>>) : Sourced(<<>>[k])
    OBVIOUS
  <1>3. InitCapacity \in Nat \ {0}
    BY MessagesAssumption, IdsTyped
  <1>4. TableOK(Octet, Entry, EmptyTable)
    BY <1>3, EmptyOK
  <1>5. \A t \in CacheType : tables[t] = EmptyTable
    OBVIOUS
  <1>6. ASSUME NEW t \in CacheType, NEW name \in Names, Fits(name)
        PROVE  cache_find(tables[t], name) = EntriesOf(PutsIn(<<>>, t, name))
    <2>1. /\ name \in Seq(Octet) /\ Hash(name) \in Nat /\ KeyAllowed(name)
      BY <1>6, NamesTyped, HashAssumption DEF Fits
    <2>2. cache_find(EmptyTable, name) = NoList
      BY <1>3, <2>1, EmptyOK
    <2>3. PutsIn(<<>>, t, name) = <<>>
      <3> DEFINE none == <<>>
      <3>1. none \in Seq(Put) /\ Len(none) = 0
        OBVIOUS
      <3>2. Collected(none, t, name, PutsUpTo(none, t, name), 0)
        <4>1. Collected(none, t, name, PutsUpTo(none, t, name), Len(none))
          BY <3>1, PutsInIs
        <4> HIDE DEF none
        <4> QED
          BY <3>1, <4>1
      <3> QED
        BY <3>2 DEF Collected
    <2>4. EntriesOf(<<>>) = NoList
      BY DEF EntriesOf, NoList
    <2> QED
      BY <1>5, <2>2, <2>3, <2>4
  <1> HIDE DEF tables
  <1> QED
    BY <1>1, <1>2, <1>4, <1>5, <1>6 DEF Kept

(* What the hosts file leaves in the caches.                               *)
LEMMA LoadedKept ==
    Kept(Loaded.table, Loaded.stored)
  <1> DEFINE N == Len(HostsLines)
             c == NothingLoaded
             More(s, k) == AllPut(s, HostsPuts(HostsLines[k]))
             Code(f) == [k \in 0 .. N |-> IF k = 0 THEN c ELSE More(f[k - 1], k)]
             Good(f, n) == f[0] = c /\ \A k \in 1 .. n : f[k] = More(f[k - 1], k)
             Done == {n \in 0 .. N : \E f : Good(f, n)}
  <1>1. N \in Nat
    BY MessagesAssumption, IdsTyped
  <1>2. LoadedUpTo = CHOOSE f : f = Code(f)
    BY Zenon DEF LoadedUpTo
  <1>3. Loaded = LoadedUpTo[N]
    BY Zenon DEF Loaded, LoadedUpTo, NothingLoaded
  <1>4. ASSUME NEW s, NEW k \in 1 .. N, Kept(s.table, s.stored)
        PROVE  Kept(More(s, k).table, More(s, k).stored)
    BY <1>4, HostsPutsTyped, AllPutKeeps
  <1>0. Kept(c.table, c.stored)
    BY NothingKept
  <1> HIDE DEF c
  <1> HIDE DEF N, More
  <1>5. 0 \in Done
    <2>1. Good([k \in 0 .. N |-> c], 0)
      BY <1>1
    <2> HIDE DEF Good
    <2> QED
      BY <1>1, <2>1
  <1>6. ASSUME NEW n \in 1 .. N, n - 1 \in Done
        PROVE  n \in Done
    <2>1. PICK f : Good(f, n - 1)
      BY <1>6
    <2> DEFINE g == [k \in 0 .. N |-> IF k = n THEN More(f[n - 1], n) ELSE f[k]]
    <2>2. g[0] = c
      BY <1>1, <2>1
    <2>3. ASSUME NEW k \in 1 .. n
          PROVE  g[k] = More(g[k - 1], k)
      <3>1. k - 1 \in 0 .. N /\ k - 1 # n /\ k \in 0 .. N
        BY <1>1
      <3>2. g[k - 1] = f[k - 1]
        BY <3>1
      <3>3. CASE k = n
        BY <3>1, <3>2, <3>3
      <3>4. CASE k # n
        <4>1. k \in 1 .. n - 1
          BY <1>1, <3>4
        <4>2. f[k] = More(f[k - 1], k)
          BY <2>1, <4>1
        <4>3. g[k] = f[k]
          BY <3>1, <3>4
        <4> QED
          BY <3>2, <4>2, <4>3
      <3> QED
        BY <3>3, <3>4
    <2> HIDE DEF g
    <2>4. Good(g, n)
      BY <2>2, <2>3
    <2> HIDE DEF Good
    <2>5. n \in 0 .. N
      BY <1>1
    <2> QED
      BY <2>4, <2>5
  <1>7. PICK f : Good(f, N)
    <2>1. Done = {n \in 0 .. N : \E f : Good(f, n)}
      OBVIOUS
    <2> HIDE DEF Done, Good
    <2>2. \A k \in 1 .. N : k - 1 \in Done => k \in Done
      BY <1>6
    <2>3. \A k \in 0 .. N : k \in Done
      BY <1>1, <1>5, <2>2, HoldsUpTo
    <2>4. N \in Done
      BY <1>1, <2>3
    <2> QED
      BY <2>1, <2>4
  <1> DEFINE h == [k \in 0 .. N |-> f[k]]
  <1>8. h = Code(h)
    <2> SUFFICES ASSUME NEW k \in 0 .. N
                 PROVE  h[k] = Code(h)[k]
      OBVIOUS
    <2>1. CASE k = 0
      BY <1>7, <2>1
    <2>2. CASE k # 0
      <3>1. k \in 1 .. N /\ k - 1 \in 0 .. N
        BY <1>1, <2>2
      <3>2. f[k] = More(f[k - 1], k)
        BY <1>7, <3>1
      <3>3. h[k] = f[k] /\ h[k - 1] = f[k - 1]
        BY <3>1
      <3> QED
        BY <2>2, <3>2, <3>3
    <2> QED
      BY <2>1, <2>2
  <1> DEFINE g == LoadedUpTo
  <1>9. g = Code(g)
    <2> HIDE DEF h, Code
    <2>1. \E r : r = Code(r)
      BY <1>8
    <2> USE DEF Code
    <2> QED
      BY <1>2, <2>1, Zenon
  <1> HIDE DEF g
  <1> DEFINE T == {k \in 0 .. N : Kept(g[k].table, g[k].stored)}
  <1>10. 0 \in T
    <2>1. 0 \in 0 .. N
      BY <1>1
    <2>2. Code(g)[0] = c
      BY <2>1
    <2> HIDE DEF Code
    <2>3. g[0] = c
      BY <1>9, <2>2
    <2> QED
      BY <1>0, <2>1, <2>3
  <1>11. ASSUME NEW k \in 1 .. N, k - 1 \in T
         PROVE  k \in T
    <2>1. k \in 0 .. N /\ k # 0 /\ Kept(g[k - 1].table, g[k - 1].stored)
      BY <1>1, <1>11
    <2>2. Code(g)[k] = More(g[k - 1], k)
      BY <2>1
    <2> HIDE DEF Code
    <2>3. g[k] = More(g[k - 1], k)
      BY <1>9, <2>2
    <2>4. Kept(More(g[k - 1], k).table, More(g[k - 1], k).stored)
      BY <1>4, <2>1
    <2> QED
      BY <2>1, <2>3, <2>4
  <1>12. \A k \in T : Kept(g[k].table, g[k].stored)
    OBVIOUS
  <1> HIDE DEF T
  <1>13. Kept(g[N].table, g[N].stored)
    <2>1. \A k \in 1 .. N : k - 1 \in T => k \in T
      BY <1>11
    <2>2. \A k \in 0 .. N : k \in T
      BY <1>1, <1>10, <2>1, HoldsUpTo
    <2>3. N \in T
      BY <1>1, <2>2
    <2> QED
      BY <1>12, <2>3
  <1> QED
    BY <1>3, <1>13 DEF g

-----------------------------------------------------------------------------
(* What is sent is octets.                                                 *)

LEMMA CountTyped ==
    ASSUME NEW list \in Seq(Entry), NEW section
    PROVE  CountIn(list, section) \in Nat
  <1> DEFINE K == {k \in DOMAIN list : list[k].section = section}
  <1>1. Len(list) \in Nat /\ DOMAIN list = 1 .. Len(list)
    OBVIOUS
  <1>2. IsFiniteSet(1 .. Len(list))
    BY <1>1, FS_Interval
  <1>3. K \in SUBSET (1 .. Len(list))
    BY <1>1
  <1>4. CountIn(list, section) = Cardinality(K)
    BY DEF CountIn
  <1> HIDE DEF K
  <1> QED
    BY <1>2, <1>3, <1>4, FS_Subset, FS_CardinalityType

LEMMA SentRecordTyped ==
    ASSUME NEW e \in Entry
    PROVE  SentRecord(e) \in Seq(Octet)
  <1> DEFINE left == IF e.record_time = 0 THEN HostsTtl ELSE e.ttl
             r == [name |-> e.name, type |-> e.type, class |-> e.class, ttl |-> left,
                   rdata |-> e.rdata]
  <1>1. /\ e.name \in Seq(Octet) /\ e.type \in Nat /\ e.class \in Nat
        /\ e.rdata \in Seq(Octet) /\ e.ttl \in 0 .. MaxTtl
    BY DEF Entry
  <1>2. left \in Nat
    BY <1>1, MessagesAssumption
  <1> HIDE DEF left
  <1>3. /\ r.name = e.name /\ r.type = e.type /\ r.class = e.class /\ r.ttl = left
        /\ r.rdata = e.rdata
    OBVIOUS
  <1>4. SentRecord(e) = dump_resource_record(r)
    BY Zenon DEF SentRecord, left
  <1> HIDE DEF r
  <1> QED
    BY <1>1, <1>2, <1>3, <1>4, DumpRecordTyped

LEMMA RelayedTyped ==
    ASSUME NEW d \in Datagram
    PROVE  Relayed(d) \in Seq(Octet)
  <1> DEFINE records == Records(d)
             parts == [k \in DOMAIN records |-> dump_resource_record(records[k])]
             header == dump_header(d, ClientId)
             question == dump_question(parse_question(d, HeaderLength))
  <1>1. d \in Seq(Octet) /\ HeaderLength \in Nat /\ ClientId \in Nat
    BY MessagesAssumption, IdsTyped DEF HeaderLength
  <1>2. records \in Seq(ParsedRecords)
    BY <1>1, RecordsTyped
  <1>3. header \in Seq(Octet)
    BY <1>1, DumpHeaderTyped
  <1>4. question \in Seq(Octet)
    <2>1. parse_question(d, HeaderLength) \in ParsedQuestions
      BY <1>1, QuestionTyped
    <2> QED
      BY <2>1, DumpQuestionTyped DEF ParsedQuestions
  <1>5. Relayed(d) = header \o question \o FlattenSeq(parts)
    BY Zenon DEF Relayed
  <1> HIDE DEF records, header, question
  <1>6. \A k \in 1 .. Len(records) : dump_resource_record(records[k]) \in Seq(Octet)
    <2> SUFFICES ASSUME NEW k \in 1 .. Len(records)
                 PROVE  dump_resource_record(records[k]) \in Seq(Octet)
      OBVIOUS
    <2>1. records[k] \in ParsedRecords
      BY <1>2, ElementOfSeq
    <2> QED
      BY <2>1, DumpRecordTyped DEF ParsedRecords
  <1>7. parts \in Seq(Seq(Octet))
    BY <1>2, <1>6
  <1> HIDE DEF parts
  <1>8. FlattenSeq(parts) \in Seq(Octet)
    BY <1>7, FlattenTyped
  <1>9. header \o question \in Seq(Octet)
    BY <1>3, <1>4, ConcatProperties
  <1> QED
    BY <1>5, <1>8, <1>9, ConcatProperties

LEMMA ForwardedTyped ==
    ASSUME NEW d \in Datagram, NEW q \in ParsedQuestions
    PROVE  Forwarded(d, q) \in Seq(Octet)
  <1>1. d \in Seq(Octet) /\ RelayId \in Nat
    BY MessagesAssumption, IdsTyped
  <1>2. dump_header(d, RelayId) \in Seq(Octet)
    BY <1>1, DumpHeaderTyped
  <1>3. dump_question(q) \in Seq(Octet)
    BY DumpQuestionTyped DEF ParsedQuestions
  <1> QED
    BY <1>2, <1>3, ConcatProperties DEF Forwarded

LEMMA BlockedTyped ==
    ASSUME NEW h, h.id \in Nat, NEW q \in ParsedQuestions
    PROVE  Blocked(h, q) \in Seq(Octet)
  <1>1. get_error_header(h.id, NAME_ERROR) \in Seq(Octet)
    <2>1. NAME_ERROR \in 0 .. 15
      BY DEF NAME_ERROR
    <2> QED
      BY <2>1, ErrorHeaderTyped
  <1>2. dump_question(q) \in Seq(Octet)
    BY DumpQuestionTyped DEF ParsedQuestions
  <1>3. dump_error_authority(SoaData) \in Seq(Octet)
    BY MessagesAssumption, AuthorityTyped
  <1>4. \A a, b \in Seq(Octet) : a \o b \in Seq(Octet)
    BY ConcatProperties
  <1> QED
    BY <1>1, <1>2, <1>3, <1>4 DEF Blocked

LEMMA FoundTyped ==
    ASSUME Kept(table, stored), NEW qtype, NEW name \in Names
    PROVE  Found(qtype, name) \in Seq(Entry)
  <1>1. name \in Seq(Octet) /\ Hash(name) \in Nat
    BY NamesTyped, HashAssumption
  <1>2. CASE qtype \in CacheType
    <2>1. TableOK(Octet, Entry, table[qtype])
      BY <1>2 DEF Kept
    <2> DEFINE t == table[qtype]
    <2>2. TableOK(Octet, Entry, t)
      BY <2>1
    <2>3. Found(qtype, name) = cache_find(t, name)
      BY <1>2 DEF Found
    <2> HIDE DEF t
    <2> QED
      BY <1>1, <2>2, <2>3, FindTyped
  <1>3. CASE qtype \notin CacheType
    BY <1>3 DEF Found, NoList
  <1> QED
    BY <1>2, <1>3

LEMMA AnsweredTyped ==
    ASSUME Kept(table, stored), NEW h, h.id \in Nat, NEW q \in ParsedQuestions,
           q.qname \in Names, NEW list \in Seq(Entry)
    PROVE  Answered(h, q, list) \in Seq(Octet)
  <1> DEFINE aliases == IF q.qtype = A THEN Found(CNAME, q.qname) ELSE NoList
             body == aliases \o list
             parts == [k \in DOMAIN body |-> SentRecord(body[k])]
             header == own_header(h.id, 0, 0, 1, CountIn(list, "ANSWER"),
                                  CountIn(list, "AUTHORITY"), CountIn(list, "ADDITIONAL"))
             question == dump_question(q)
  <1>1. aliases \in Seq(Entry)
    <2>1. Found(CNAME, q.qname) \in Seq(Entry)
      BY FoundTyped
    <2> QED
      BY <2>1 DEF NoList
  <1>2. Answered(h, q, list) = header \o question \o FlattenSeq(parts)
    BY Zenon DEF Answered
  <1>3. header \in Seq(Octet)
    <2>1. /\ CountIn(list, "ANSWER") \in Nat /\ CountIn(list, "AUTHORITY") \in Nat
          /\ CountIn(list, "ADDITIONAL") \in Nat
      BY CountTyped
    <2>2. 0 \in {0, 1} /\ 0 \in 0 .. 15 /\ 1 \in Nat
      OBVIOUS
    <2> QED
      BY <2>1, <2>2, OwnHeaderTyped
  <1>4. question \in Seq(Octet)
    BY DumpQuestionTyped DEF ParsedQuestions
  <1> HIDE DEF aliases, header, question
  <1>5. body \in Seq(Entry)
    BY <1>1, ConcatProperties
  <1> HIDE DEF body
  <1>6. \A k \in 1 .. Len(body) : SentRecord(body[k]) \in Seq(Octet)
    <2> SUFFICES ASSUME NEW k \in 1 .. Len(body)
                 PROVE  SentRecord(body[k]) \in Seq(Octet)
      OBVIOUS
    <2>1. body[k] \in Entry
      BY <1>5, ElementOfSeq
    <2> QED
      BY <2>1, SentRecordTyped
  <1>7. parts \in Seq(Seq(Octet))
    BY <1>5, <1>6
  <1> HIDE DEF parts
  <1>8. FlattenSeq(parts) \in Seq(Octet)
    BY <1>7, FlattenTyped
  <1>9. header \o question \in Seq(Octet)
    BY <1>3, <1>4, ConcatProperties
  <1> QED
    BY <1>2, <1>8, <1>9, ConcatProperties

-----------------------------------------------------------------------------
(* The inductive invariant: the caches are in order and hold exactly what  *)
(* has been put into them, and what was received and sent is octets.       *)
LastTyped ==
    /\ last.kind \in Kinds
    /\ last.in \in Seq(Octet) /\ last.out \in Seq(Octet)

Inv == Kept(table, stored) /\ LastTyped

LEMMA InitInv == Init => Inv
  <1> SUFFICES ASSUME Init
               PROVE  Inv
    OBVIOUS
  <1>1. Kept(table, stored)
    BY LoadedKept DEF Init
  <1>2. LastTyped
    BY DEF Init, LastTyped, Nothing, Kinds
  <1> QED
    BY <1>1, <1>2 DEF Inv

LEMMA ReplyTyped ==
    ASSUME NEW kind \in Kinds, NEW d \in Datagram, NEW out \in Seq(Octet), Reply(kind, d, out)
    PROVE  LastTyped'
  <1>1. d \in Seq(Octet)
    BY MessagesAssumption, IdsTyped
  <1>2. last' = [kind |-> kind, in |-> d, out |-> out]
    BY DEF Reply
  <1> QED
    BY <1>1, <1>2 DEF LastTyped

LEMMA ReceiveResponseInv ==
    ASSUME Inv, NEW d \in Datagram, ReceiveResponse(d)
    PROVE  Inv'
  <1> DEFINE before == [table |-> table, stored |-> stored]
             after == AllPut(before, ResponsePuts(d))
  <1>1. before.table = table /\ before.stored = stored
    OBVIOUS
  <1>2. table' = after.table /\ stored' = after.stored
    BY DEF ReceiveResponse
  <1> HIDE DEF before
  <1>3. Kept(after.table, after.stored)
    <2>1. parse_header(d).qr = 1
      BY DEF ReceiveResponse
    <2> QED
      BY <1>1, <2>1, ResponsePutsTyped, AllPutKeeps DEF Inv
  <1> HIDE DEF after
  <1>4. Kept(table, stored)'
    BY <1>2, <1>3 DEF Kept
  <1>5. LastTyped'
    <2>1. d \in Seq(Octet) /\ Relayed(d) \in Seq(Octet) /\ <<>> \in Seq(Octet)
      BY MessagesAssumption, IdsTyped, RelayedTyped
    <2>2. \/ last' = [kind |-> "relayed", in |-> d, out |-> Relayed(d)]
          \/ last' = [kind |-> "dropped", in |-> d, out |-> <<>>]
      BY DEF ReceiveResponse
    <2>3. "relayed" \in Kinds /\ "dropped" \in Kinds
      BY DEF Kinds
    <2>4. CASE Reply("relayed", d, Relayed(d))
      BY <2>1, <2>3, <2>4, ReplyTyped
    <2>5. CASE Reply("dropped", d, <<>>)
      BY <2>1, <2>3, <2>5, ReplyTyped
    <2> QED
      BY <2>2, <2>4, <2>5 DEF Reply
  <1> QED
    BY <1>4, <1>5 DEF Inv

LEMMA QueryKept ==
    ASSUME Inv, NEW d, Query(d)
    PROVE  Kept(table, stored)'
  <1>1. table' = table /\ stored' = stored
    BY DEF Query
  <1> QED
    BY <1>1 DEF Inv, Kept

LEMMA RefuseMalformedInv ==
    ASSUME Inv, NEW d \in Datagram, RefuseMalformed(d)
    PROVE  Inv'
  <1>1. Kept(table, stored)'
    BY QueryKept DEF RefuseMalformed
  <1>2. get_error_header(0, FORMAT_ERROR) \in Seq(Octet)
    <2>1. FORMAT_ERROR \in 0 .. 15 /\ 0 \in Nat
      BY DEF FORMAT_ERROR
    <2> QED
      BY <2>1, ErrorHeaderTyped
  <1>3. "refused" \in Kinds
    BY DEF Kinds
  <1>4. Reply("refused", d, get_error_header(0, FORMAT_ERROR))
    BY DEF RefuseMalformed
  <1> QED
    BY <1>1, <1>2, <1>3, <1>4, ReplyTyped DEF Inv

LEMMA ReceiveQueryInv ==
    ASSUME Inv, NEW d \in Datagram, ReceiveQuery(d)
    PROVE  Inv'
  <1> DEFINE h == parse_header(d)
             q == parse_question(d, HeaderLength)
             list == Found(q.qtype, q.qname)
  <1>1. Kept(table, stored)'
    BY QueryKept DEF ReceiveQuery
  <1>2. d \in Seq(Octet) /\ HeaderLength \in Nat
    BY MessagesAssumption, IdsTyped DEF HeaderLength
  <1>3. h.id \in Nat /\ q \in ParsedQuestions
    BY <1>2, HeaderTyped, QuestionTyped
  <1>4. q.qname \in Names
    BY NamesTyped DEF Asked
  <1>5. \/ Reply("forwarded", d, Forwarded(d, q))
        \/ Reply("blocked", d, Blocked(h, q))
        \/ Reply("answered", d, Answered(h, q, list))
    BY Zenon DEF ReceiveQuery
  <1> HIDE DEF h, q
  <1>6. list \in Seq(Entry)
    BY <1>4, FoundTyped DEF Inv
  <1> HIDE DEF list
  <1>7. "forwarded" \in Kinds /\ "blocked" \in Kinds /\ "answered" \in Kinds
    BY DEF Kinds
  <1>8. CASE Reply("forwarded", d, Forwarded(d, q))
    BY <1>1, <1>3, <1>7, <1>8, ForwardedTyped, ReplyTyped DEF Inv
  <1>9. CASE Reply("blocked", d, Blocked(h, q))
    BY <1>1, <1>3, <1>7, <1>9, BlockedTyped, ReplyTyped DEF Inv
  <1>10. CASE Reply("answered", d, Answered(h, q, list))
    <2>1. Answered(h, q, list) \in Seq(Octet)
      BY <1>3, <1>4, <1>6, AnsweredTyped DEF Inv
    <2> QED
      BY <1>1, <1>7, <1>10, <2>1, ReplyTyped DEF Inv
  <1> QED
    BY <1>5, <1>8, <1>9, <1>10

LEMMA NextInv == Inv /\ [Next]_vars => Inv'
  <1> SUFFICES ASSUME Inv, [Next]_vars
               PROVE  Inv'
    OBVIOUS
  <1>1. ASSUME NEW d \in Datagram, ReceiveResponse(d)
        PROVE  Inv'
    BY <1>1, ReceiveResponseInv
  <1>2. ASSUME NEW d \in Datagram, RefuseMalformed(d)
        PROVE  Inv'
    BY <1>2, RefuseMalformedInv
  <1>3. ASSUME NEW d \in Datagram, ReceiveQuery(d)
        PROVE  Inv'
    BY <1>3, ReceiveQueryInv
  <1>4. CASE UNCHANGED vars
    BY <1>4 DEF vars, Inv, Kept, LastTyped
  <1> QED
    BY <1>1, <1>2, <1>3, <1>4 DEF Next

LEMMA InvTypeOK == Inv => TypeOK
  <1> SUFFICES ASSUME Inv
               PROVE  TypeOK
    OBVIOUS
  <1>1. table = [t \in CacheType |-> table[t]] /\ stored \in Seq(Put)
    BY DEF Inv, Kept
  <1>2. DOMAIN table = CacheType
    BY <1>1
  <1> QED
    BY <1>1, <1>2 DEF TypeOK, Inv, LastTyped

LEMMA InvFoundIsStored == Inv => FoundIsStored
  BY DEF Inv, Kept, Fits, FoundIsStored, PutsFor

LEMMA InvHashMapSound == Inv => HashMapSound
  <1> SUFFICES ASSUME Inv, NEW t \in CacheType
               PROVE  LET chains == table[t].hash_map
                      IN  /\ \A k \in DOMAIN chains : \A e \in Range(chains[k]) :
                                Index(e.hash, Len(chains)) = k
                          /\ table[t].size = Cardinality(Places(chains))
                          /\ 4 * table[t].size <= 3 * Len(chains)
    BY DEF HashMapSound
  <1> DEFINE u == table[t]
  <1>1. TableOK(Octet, Entry, u)
    BY DEF Inv, Kept
  <1> HIDE DEF u
  <1>2. /\ \A k \in DOMAIN u.hash_map : \A e \in Range(u.hash_map[k]) :
              Index(e.hash, Len(u.hash_map)) = k
        /\ u.size = Cardinality(Places(u.hash_map))
        /\ 4 * u.size <= 3 * Len(u.hash_map)
    BY <1>1, TableChains
  <1> QED
    BY <1>2 DEF u

(* Whatever datagrams arrive: every datagram sent is octets, every cache   *)
(* is there, and what is put into one is a record read from a response or  *)
(* a line of the hosts file, under the name asked for, with a ttl of at    *)
(* most MaxTtl (handle.c:333-429, main.c:51-105).                          *)
THEOREM MessagesTyped == Spec => []TypeOK
  <1>1. Spec => []Inv
    BY InitInv, NextInv, PTL DEF Spec
  <1> QED
    BY <1>1, InvTypeOK, PTL

(* Whatever is put into the caches in whatever order, whatever the hash of *)
(* a name and however often the hash map grows: what cache_find has for a  *)
(* name that fits an entry is what has been put for it, all of it, in      *)
(* order, and nothing put for another name (trie.h:65-103,                 *)
(* hash_map.h:64-114, cache.c).                                            *)
THEOREM FoundStaysStored == Spec => []FoundIsStored
  <1>1. Spec => []Inv
    BY InitInv, NextInv, PTL DEF Spec
  <1> QED
    BY <1>1, InvFoundIsStored, PTL

(* Every entry of a hash map stays in the chain of its hash through every  *)
(* insertion and rehash, its size is the number of its entries, and its    *)
(* load factor is kept (hash_map.h:64-102).                                *)
THEOREM HashMapStaysSound == Spec => []HashMapSound
  <1>1. Spec => []Inv
    BY InitInv, NextInv, PTL DEF Spec
  <1> QED
    BY <1>1, InvHashMapSound, PTL

-----------------------------------------------------------------------------
(* What is read from a datagram is written again as it was.                *)

LEMMA OctetsAt ==
    ASSUME NEW d \in Seq(Octet), NEW p \in Nat, NEW n \in Nat
    PROVE  \A k \in 1 .. n : Octets(d, p, n)[k] = At(d, p + k - 1)
  BY DEF Octets

(* The a octets at p and the b octets at q are the c octets at p.          *)
Adjoining(d, p, a, q, b, c) == Octets(d, p, a) \o Octets(d, q, b) = Octets(d, p, c)

LEMMA OctetsJoined ==
    ASSUME NEW d \in Seq(Octet), NEW p \in Nat, NEW a \in Nat, NEW b \in Nat,
           NEW q, q = p + a, NEW c, c = a + b
    PROVE  Adjoining(d, p, a, q, b, c)
  <1> DEFINE s == Octets(d, p, a)
             t == Octets(d, q, b)
             u == Octets(d, p, c)
  <1>1. /\ s \in Seq(Octet) /\ Len(s) = a /\ \A k \in 1 .. a : s[k] = At(d, p + k - 1)
        /\ t \in Seq(Octet) /\ Len(t) = b /\ \A k \in 1 .. b : t[k] = At(d, p + a + k - 1)
        /\ u \in Seq(Octet) /\ Len(u) = a + b
        /\ \A k \in 1 .. a + b : u[k] = At(d, p + k - 1)
    <2>1. q \in Nat /\ c \in Nat
      OBVIOUS
    <2>2. /\ s \in Seq(Octet) /\ Len(s) = a /\ \A k \in 1 .. a : s[k] = At(d, p + k - 1)
      BY OctetsTyped, OctetsAt
    <2>3. /\ t \in Seq(Octet) /\ Len(t) = b
          /\ \A k \in 1 .. b : t[k] = At(d, q + k - 1)
      BY <2>1, OctetsTyped, OctetsAt
    <2>4. u \in Seq(Octet) /\ Len(u) = c
      BY <2>1, OctetsTyped
    <2>5. \A k \in 1 .. c : u[k] = At(d, p + k - 1)
      BY <2>1, OctetsAt
    <2> HIDE DEF s, t, u
    <2> QED
      BY <2>2, <2>3, <2>4, <2>5
  <1> HIDE DEF s, t, u
  <1>2. /\ s \o t \in Seq(Octet) /\ Len(s \o t) = a + b
        /\ \A k \in 1 .. a + b : (s \o t)[k] = IF k <= a THEN s[k] ELSE t[k - a]
    <2>1. Len(s) + Len(t) = a + b
      BY <1>1
    <2> QED
      BY <1>1, <2>1, ConcatProperties
  <1>3. ASSUME NEW k \in 1 .. a + b
        PROVE  (s \o t)[k] = u[k]
    <2>1. CASE k \in 1 .. a
      BY <1>1, <1>2, <2>1
    <2>2. CASE k \notin 1 .. a
      <3>1. ~ k <= a /\ k - a \in 1 .. b /\ p + a + (k - a) - 1 = p + k - 1
        BY <2>2
      <3> QED
        BY <1>1, <1>2, <3>1
    <2> QED
      BY <2>1, <2>2
  <1>4. s \o t = u
    BY <1>1, <1>2, <1>3, SeqEqual
  <1> QED
    BY <1>4 DEF s, t, u, Adjoining

LEMMA OctetAlone ==
    ASSUME NEW d \in Seq(Octet), NEW p \in Nat
    PROVE  Octets(d, p, 1) = <<At(d, p)>>
  <1> DEFINE x == At(d, p)
             s == Octets(d, p, 1)
  <1>1. x \in Octet
    BY AtTyped
  <1>2. s \in Seq(Octet) /\ Len(s) = 1 /\ s[1] = At(d, p + 1 - 1)
    <2>1. 1 \in Nat /\ 1 \in 1 .. 1
      OBVIOUS
    <2> QED
      BY <2>1, OctetsTyped, OctetsAt
  <1>3. p + 1 - 1 = p
    OBVIOUS
  <1>4. s[1] = x
    BY <1>2, <1>3
  <1> HIDE DEF s, x
  <1>5. s = <<x>>
    BY <1>1, <1>2, <1>4
  <1> QED
    BY <1>5 DEF s, x

LEMMA NumberBack ==
    ASSUME NEW d \in Seq(Octet), NEW p \in Nat
    PROVE  htons(ntohs(d, p)) = Octets(d, p, 2)
  <1> DEFINE x == At(d, p)
             y == At(d, p + 1)
             v == ntohs(d, p)
             s == Octets(d, p, 2)
  <1>1. /\ x \in Nat /\ x < 256
        /\ y \in Nat /\ y < 256
    BY OctetMeans, AtTyped
  <1>2. v = 256 * x + y
    BY DEF ntohs
  <1>3. s \in Seq(Octet) /\ Len(s) = 2 /\ s[1] = x /\ s[2] = y
    <2>1. p + 1 - 1 = p /\ p + 2 - 1 = p + 1 /\ 1 \in 1 .. 2 /\ 2 \in 1 .. 2 /\ 2 \in Nat
      OBVIOUS
    <2>2. Octets(d, p, 2)[1] = At(d, p + 1 - 1) /\ Octets(d, p, 2)[2] = At(d, p + 2 - 1)
      BY <2>1, OctetsAt
    <2> QED
      BY <2>1, <2>2, OctetsTyped
  <1> HIDE DEF x, y, v, s
  <1>4. (v \div 256) % 256 = x /\ v % 256 = y
    BY <1>1, <1>2, SMT
  <1>5. htons(v) = <<x, y>>
    BY <1>4 DEF htons
  <1>6. s = <<x, y>>
    BY OctetMeans, <1>1, <1>3
  <1> QED
    BY <1>5, <1>6 DEF v, s

LEMMA LongNumberBack ==
    ASSUME NEW d \in Seq(Octet), NEW p \in Nat
    PROVE  htonl(ntohl(d, p)) = Octets(d, p, 4)
  <1> DEFINE x == ntohs(d, p)
             y == ntohs(d, p + 2)
             v == ntohl(d, p)
             high == Octets(d, p, 2)
             low == Octets(d, p + 2, 2)
  <1>1. p + 2 \in Nat /\ p + 2 + 1 \in Nat
    OBVIOUS
  <1>2. x \in Nat
    BY NtohsTyped
  <1>3. y \in Nat /\ y < 65536
    <2> DEFINE m == At(d, p + 2)
               n == At(d, p + 2 + 1)
    <2>1. /\ m \in Nat /\ m < 256
          /\ n \in Nat /\ n < 256
      BY OctetMeans, <1>1, AtTyped
    <2>2. y = 256 * m + n
      BY SMT DEF ntohs
    <2> HIDE DEF y, m, n
    <2> QED
      BY <2>1, <2>2, SMT
  <1>4. v = 65536 * x + y
    BY SMT DEF ntohl
  <1>5. htons(x) = high /\ htons(y) = low
    <2>1. htons(ntohs(d, p)) = Octets(d, p, 2)
      BY NumberBack
    <2>2. htons(ntohs(d, p + 2)) = Octets(d, p + 2, 2)
      BY <1>1, NumberBack
    <2> QED
      BY <2>1, <2>2
  <1>6. high \o low = Octets(d, p, 4)
    <2>1. 2 \in Nat /\ 4 = 2 + 2
      OBVIOUS
    <2>2. Adjoining(d, p, 2, p + 2, 2, 4)
      BY <2>1, OctetsJoined
    <2> QED
      BY <2>2 DEF Adjoining
  <1>7. htonl(v) = htons(v \div 65536) \o htons(v)
    BY SMT DEF htonl
  <1> HIDE DEF x, y, v, high, low
  <1>8. /\ v \div 65536 = x /\ v % 256 = y % 256
        /\ (v \div 256) % 256 = (y \div 256) % 256
    <2>1. v \div 65536 = x
      BY <1>2, <1>3, <1>4, SMT
    <2>2. v % 256 = y % 256
      BY <1>2, <1>3, <1>4, SMT
    <2>3. (v \div 256) % 256 = (y \div 256) % 256
      BY <1>2, <1>3, <1>4, SMT
    <2> QED
      BY <2>1, <2>2, <2>3, SMT
  <1>9. htons(v) = htons(y)
    BY <1>8, SMT DEF htons
  <1>10. htonl(v) = high \o low
    <2>1. htons(v \div 65536) = htons(x)
      BY <1>8, SMT
    <2> QED
      BY <1>5, <1>7, <1>9, <2>1, SMT
  <1> QED
    BY <1>6, <1>10, SMT DEF v

LEMMA LabelsGoUp ==
    ASSUME NEW d \in Seq(Octet), NEW p \in Nat, NEW n, NEW start, LabelsFrom(d, p, n, start)
    PROVE  \A m \in 0 .. n : \A i \in 0 .. m : start[i] <= start[m]
  <1> DEFINE T == {m \in 0 .. n : \A i \in 0 .. m : start[i] <= start[m]}
  <1>1. /\ n \in Nat /\ start \in [0 .. n -> Nat]
        /\ \A i \in 0 .. n - 1 : start[i + 1] = start[i] + At(d, start[i]) + 1
    BY DEF LabelsFrom
  <1>2. 0 \in T
    BY <1>1
  <1>3. ASSUME NEW m \in 1 .. n, m - 1 \in T
        PROVE  m \in T
    <2>1. m - 1 \in 0 .. n - 1 /\ m \in 0 .. n /\ m - 1 + 1 = m /\ m - 1 \in 0 .. n
      BY <1>1
    <2>2. start[m] = start[m - 1] + At(d, start[m - 1]) + 1
      BY <1>1, <2>1
    <2>3. At(d, start[m - 1]) \in Nat /\ start[m - 1] \in Nat /\ start[m] \in Nat
      <3>1. start[m - 1] \in Nat
        BY <1>1, <2>1
      <3>2. At(d, start[m - 1]) \in Nat
        <4>1. At(d, start[m - 1]) \in Octet
          BY <3>1, AtTyped
        <4>2. Octet \subseteq Nat
          BY OctetMeans
        <4> QED
          BY <4>1, <4>2
      <3> QED
        BY <1>1, <2>1, <3>1, <3>2
    <2>4. \A i \in 0 .. m - 1 : start[i] <= start[m - 1] /\ start[i] \in Nat
      BY <1>1, <1>3
    <2>5. start[m - 1] <= start[m]
      BY <2>2, <2>3
    <2>6. \A i \in 0 .. m : start[i] <= start[m]
      <3> SUFFICES ASSUME NEW i \in 0 .. m
                   PROVE  start[i] <= start[m]
        OBVIOUS
      <3>1. CASE i = m
        BY <2>3, <3>1
      <3>2. CASE i # m
        <4>1. i \in 0 .. m - 1
          BY <3>2
        <4> QED
          BY <2>3, <2>4, <2>5, <4>1
      <3> QED
        BY <3>1, <3>2
    <2> QED
      BY <2>1, <2>6
  <1>4. \A m \in T : \A i \in 0 .. m : start[i] <= start[m]
    OBVIOUS
  <1> HIDE DEF T
  <1>5. \A m \in 1 .. n : m - 1 \in T => m \in T
    BY <1>3
  <1>6. \A m \in 0 .. n : m \in T
    BY <1>1, <1>2, <1>5, HoldsUpTo
  <1> QED
    BY <1>4, <1>6

LEMMA AtNat ==
    ASSUME NEW d \in Seq(Octet), NEW p \in Nat
    PROVE  At(d, p) \in Nat
  <1>1. At(d, p) \in Octet
    BY AtTyped
  <1>2. Octet \subseteq Nat
    BY OctetMeans
  <1> QED
    BY <1>1, <1>2

(* The label at s of datagram d, and a dot, are in a text behind its first *)
(* k octets.                                                               *)
LabelIn(text, k, d, s) ==
    /\ k + At(d, s) + 1 <= Len(text)
    /\ \A j \in 1 .. At(d, s) : text[k + j] = At(d, s + j)
    /\ text[k + At(d, s) + 1] = Dot

WithLabel(text, label, rest) ==
    /\ text \in Seq(Octet) /\ Len(text) = Len(label) + 1 + Len(rest)
    /\ \A j \in 1 .. Len(label) : text[j] = label[j]
    /\ text[Len(label) + 1] = Dot
    /\ \A j \in 1 .. Len(rest) : text[Len(label) + 1 + j] = rest[j]

LEMMA LabelledText ==
    ASSUME NEW label \in Seq(Octet), NEW rest \in Seq(Octet)
    PROVE  WithLabel(label \o <<Dot>> \o rest, label, rest)
  <1> DEFINE dot == <<Dot>>
             front == label \o dot
             text == label \o <<Dot>> \o rest
             L == Len(label)
             R == Len(rest)
  <1>1. dot \in Seq(Octet) /\ Len(dot) = 1 /\ dot[1] = Dot
    BY DotOctet
  <1>2. text = front \o rest /\ L \in Nat /\ R \in Nat
    OBVIOUS
  <1> HIDE DEF dot
  <1>0. \A u, v \in Seq(Octet) :
            /\ u \o v \in Seq(Octet) /\ Len(u \o v) = Len(u) + Len(v)
            /\ \A j \in 1 .. Len(u) + Len(v) :
                  (u \o v)[j] = IF j <= Len(u) THEN u[j] ELSE v[j - Len(u)]
    BY ConcatProperties
  <1>3. /\ front \in Seq(Octet) /\ Len(front) = L + 1
        /\ \A j \in 1 .. L + 1 : front[j] = IF j <= L THEN label[j] ELSE dot[j - L]
    <2>1. /\ front \in Seq(Octet) /\ Len(front) = Len(label) + Len(dot)
          /\ \A j \in 1 .. Len(label) + Len(dot) :
                front[j] = IF j <= Len(label) THEN label[j] ELSE dot[j - Len(label)]
      BY <1>0, <1>1
    <2> HIDE DEF front
    <2> QED
      BY <1>1, <2>1
  <1> HIDE DEF front, text
  <1>4. /\ text \in Seq(Octet) /\ Len(text) = (L + 1) + R
        /\ \A j \in 1 .. (L + 1) + R :
              text[j] = IF j <= L + 1 THEN front[j] ELSE rest[j - (L + 1)]
    <2>1. /\ front \o rest \in Seq(Octet) /\ Len(front \o rest) = Len(front) + Len(rest)
          /\ \A j \in 1 .. Len(front) + Len(rest) :
                (front \o rest)[j] = IF j <= Len(front) THEN front[j] ELSE rest[j - Len(front)]
      BY <1>0, <1>3
    <2> QED
      BY <1>2, <1>3, <2>1
  <1> HIDE DEF L, R
  <1>5. \A j \in 1 .. L : text[j] = label[j]
    BY <1>2, <1>3, <1>4
  <1>6. text[L + 1] = Dot
    <2>1. L + 1 \in 1 .. L + 1 /\ L + 1 \in 1 .. (L + 1) + R /\ ~ L + 1 <= L /\ (L + 1) - L = 1
      BY <1>2
    <2> QED
      BY <1>1, <1>3, <1>4, <2>1
  <1>7. ASSUME NEW j \in 1 .. R
        PROVE  text[L + 1 + j] = rest[j]
    <2>1. L + 1 + j \in 1 .. (L + 1) + R /\ ~ L + 1 + j <= L + 1 /\ (L + 1 + j) - (L + 1) = j
      BY <1>2
    <2> QED
      BY <1>4, <2>1
  <1> QED
    BY <1>4, <1>5, <1>6, <1>7 DEF L, R, text, WithLabel

(* What the recursion of parse_qname has from the label numbered i on.     *)
SuffixIs(name, d, n, start, i) ==
    /\ name.end = start[n] + 1
    /\ Len(name.text) = start[n] - start[i]
    /\ \A j \in 1 .. Len(name.text) : name.text[j] # 0
    /\ \A m \in i .. n - 1 : LabelIn(name.text, start[m] - start[i], d, start[m])

LEMMA SuffixStep ==
    ASSUME NEW d \in Seq(Octet), NEW p \in Nat, NEW n, NEW start, LabelsFrom(d, p, n, start),
           NEW i \in 0 .. n - 1,
           SuffixIs(NameFrom(d)[start[i + 1]], d, n, start, i + 1)
    PROVE  SuffixIs(NameFrom(d)[start[i]], d, n, start, i)
  <1> DEFINE s == start[i]
             L == At(d, s)
             label == Octets(d, s + 1, L)
             rest == NameFrom(d)[start[i + 1]]
             name == NameFrom(d)[s]
             R == Len(rest.text)
  <1>1. /\ n \in Nat /\ start \in [0 .. n -> Nat]
        /\ LabelAt(d, s) /\ start[i + 1] = s + L + 1
    BY DEF LabelsFrom
  <1>2. /\ i \in 0 .. n /\ i + 1 \in 0 .. n /\ i \in Nat
    BY <1>1
  <1>3. s \in Nat /\ start[i + 1] \in Nat /\ start[n] \in Nat
    BY <1>1, <1>2
  <1>4. L \in Nat /\ L # 0 /\ \A j \in 1 .. L : At(d, s + j) # 0
    <2>1. L \in Nat
      BY <1>3, AtNat
    <2> QED
      BY <1>1, <2>1 DEF LabelAt
  <1>5. /\ label \in Seq(Octet) /\ Len(label) = L
        /\ \A j \in 1 .. L : label[j] = At(d, s + j)
    <2>1. s + 1 \in Nat /\ \A j \in 1 .. L : s + 1 + j - 1 = s + j
      <3> HIDE DEF s, L
      <3> QED
        BY <1>3, <1>4
    <2>2. \A j \in 1 .. L : label[j] = At(d, s + 1 + j - 1)
      BY <1>4, <2>1, OctetsAt
    <2>3. label \in Seq(Octet) /\ Len(label) = L
      BY <1>4, <2>1, OctetsTyped
    <2> HIDE DEF label, L, s
    <2> QED
      BY <2>1, <2>2, <2>3
  <1>6. name = Labelled(label, rest) /\ rest \in ParsedNames /\ name \in ParsedNames
    <2>1. name = Labelled(label, NameFrom(d)[s + L + 1])
      BY <1>3, <1>4, NameFromIs
    <2> QED
      BY <1>1, <1>3, <2>1, NameFromIs
  <1> HIDE DEF label, rest, name, L, s
  <1>7. name.end = rest.end /\ name.text = label \o <<Dot>> \o rest.text
    BY <1>6 DEF Labelled, ParsedName
  <1>8. rest.text \in Seq(Octet) /\ name.text \in Seq(Octet)
    BY <1>6 DEF ParsedNames
  <1>9. /\ Len(name.text) = L + 1 + R /\ R \in Nat
        /\ \A j \in 1 .. L : name.text[j] = At(d, s + j)
        /\ name.text[L + 1] = Dot
        /\ \A j \in 1 .. R : name.text[L + 1 + j] = rest.text[j]
    <2> DEFINE tail == rest.text
               text == name.text
    <2>1. tail \in Seq(Octet) /\ text = label \o <<Dot>> \o tail /\ R = Len(tail)
      BY <1>7, <1>8
    <2> HIDE DEF tail, R
    <2>0. WithLabel(label \o <<Dot>> \o tail, label, tail)
      BY <1>5, <2>1, LabelledText
    <2> HIDE DEF text
    <2>2. /\ Len(text) = Len(label) + 1 + Len(tail)
          /\ \A j \in 1 .. Len(label) : text[j] = label[j]
          /\ text[Len(label) + 1] = Dot
          /\ \A j \in 1 .. Len(tail) : text[Len(label) + 1 + j] = tail[j]
      BY <2>0, <2>1 DEF WithLabel
    <2>3. R \in Nat
      BY <2>1
    <2>4. /\ Len(text) = L + 1 + R
          /\ \A j \in 1 .. L : text[j] = At(d, s + j)
          /\ text[L + 1] = Dot
          /\ \A j \in 1 .. R : text[L + 1 + j] = tail[j]
      BY <1>5, <2>1, <2>2
    <2> QED
      BY <2>3, <2>4 DEF text, tail
  <1>10. /\ rest.end = start[n] + 1 /\ R = start[n] - start[i + 1]
         /\ \A j \in 1 .. R : rest.text[j] # 0
         /\ \A m \in i + 1 .. n - 1 : LabelIn(rest.text, start[m] - start[i + 1], d, start[m])
    BY DEF SuffixIs, rest
  <1>11. name.end = start[n] + 1 /\ Len(name.text) = start[n] - s
    <2> HIDE DEF R
    <2>1. name.end = start[n] + 1
      BY <1>7, <1>10
    <2>2. Len(name.text) = L + 1 + R /\ R = start[n] - start[i + 1] /\ start[i + 1] = s + L + 1
      BY <1>1, <1>9, <1>10
    <2>3. \A u, v, w, x, y \in Nat : v = w + x + 1 /\ y = u - v => x + 1 + y = u - w
      OBVIOUS
    <2> QED
      BY <1>3, <1>4, <1>9, <2>1, <2>2, <2>3
  <1> HIDE DEF R
  <1>12. ASSUME NEW j \in 1 .. Len(name.text)
         PROVE  name.text[j] # 0
    <2>1. CASE j <= L
      BY <1>4, <1>9, <2>1
    <2>2. CASE j = L + 1
      BY <1>9, <2>2 DEF Dot
    <2>3. CASE j > L + 1
      <3>1. j - (L + 1) \in 1 .. R /\ L + 1 + (j - (L + 1)) = j
        BY <1>4, <1>9, <2>3
      <3> QED
        BY <1>9, <1>10, <3>1
    <2> QED
      BY <1>4, <2>1, <2>2, <2>3
  <1>13. LabelIn(name.text, 0, d, s)
    <2>1. /\ 0 + L + 1 <= Len(name.text) /\ \A j \in 1 .. L : name.text[0 + j] = At(d, s + j)
          /\ name.text[0 + L + 1] = Dot
      BY <1>4, <1>9
    <2> QED
      BY <2>1 DEF LabelIn, L
  <1>14. ASSUME NEW m \in i + 1 .. n - 1
         PROVE  LabelIn(name.text, start[m] - s, d, start[m])
    <2> DEFINE k == start[m] - start[i + 1]
               M == At(d, start[m])
    <2>1. m \in 0 .. n /\ start[m] \in Nat /\ start[i + 1] <= start[m]
      <3>1. m \in 0 .. n /\ i + 1 \in 0 .. m
        BY <1>1, <1>2
      <3> QED
        BY <1>1, <3>1, LabelsGoUp
    <2>2. M \in Nat
      BY <2>1, AtNat
    <2>3. k \in Nat /\ start[m] - s = L + 1 + k
      BY <1>1, <1>3, <1>4, <2>1, SMTT(30)
    <2>4. LabelIn(rest.text, k, d, start[m])
      BY <1>10
    <2>5. /\ k + M + 1 <= R
          /\ \A j \in 1 .. M : rest.text[k + j] = At(d, start[m] + j)
          /\ rest.text[k + M + 1] = Dot
      BY <2>4 DEF LabelIn, R
    <2> HIDE DEF k, M
    <2>6. L + 1 + k + M + 1 <= Len(name.text)
      BY <1>4, <1>9, <2>2, <2>3, <2>5
    <2>7. ASSUME NEW j \in 1 .. M
          PROVE  name.text[L + 1 + k + j] = At(d, start[m] + j)
      <3>1. k + j \in 1 .. R /\ L + 1 + (k + j) = L + 1 + k + j
        BY <1>4, <1>9, <2>2, <2>3, <2>5
      <3> QED
        BY <1>9, <2>5, <3>1
    <2>8. name.text[L + 1 + k + M + 1] = Dot
      <3>1. k + M + 1 \in 1 .. R /\ L + 1 + (k + M + 1) = L + 1 + k + M + 1
        BY <1>4, <1>9, <2>2, <2>3, <2>5
      <3> QED
        BY <1>9, <2>5, <3>1
    <2>9. LabelIn(name.text, L + 1 + k, d, start[m])
      BY <2>6, <2>7, <2>8 DEF LabelIn, M
    <2> QED
      BY <2>3, <2>9
  <1>15. \A m \in i .. n - 1 : LabelIn(name.text, start[m] - s, d, start[m])
    <2> SUFFICES ASSUME NEW m \in i .. n - 1
                 PROVE  LabelIn(name.text, start[m] - s, d, start[m])
      OBVIOUS
    <2>1. CASE m = i
      <3>1. start[m] = s /\ start[m] - s = 0
        BY <1>3, <2>1 DEF s
      <3> QED
        BY <1>13, <3>1
    <2>2. CASE m # i
      <3>1. m \in i + 1 .. n - 1
        BY <1>1, <1>2, <2>2
      <3> QED
        BY <1>14, <3>1
    <2> QED
      BY <2>1, <2>2
  <1> QED
    BY <1>11, <1>12, <1>15 DEF SuffixIs, name, s

LEMMA PlainParsed ==
    ASSUME NEW d \in Seq(Octet), NEW p \in Nat, NEW n, NEW start, LabelsFrom(d, p, n, start)
    PROVE  SuffixIs(NameFrom(d)[p], d, n, start, 0)
  <1> DEFINE T == {j \in 0 .. n : SuffixIs(NameFrom(d)[start[n - j]], d, n, start, n - j)}
  <1>1. /\ n \in Nat /\ start \in [0 .. n -> Nat] /\ start[0] = p /\ At(d, start[n]) = 0
    BY DEF LabelsFrom
  <1>2. 0 \in T
    <2>1. start[n] \in Nat /\ n - 0 = n /\ 0 \in 0 .. n
      BY <1>1
    <2> DEFINE name == NameFrom(d)[start[n]]
    <2>2. name = ParsedName(<<>>, start[n] + 1)
      BY <1>1, <2>1, NameFromIs
    <2> HIDE DEF name
    <2>3. name.text = <<>> /\ name.end = start[n] + 1
      BY <2>2 DEF ParsedName
    <2>4. SuffixIs(name, d, n, start, n)
      BY <1>1, <2>1, <2>3 DEF SuffixIs
    <2> QED
      BY <2>1, <2>4 DEF name
  <1>3. ASSUME NEW j \in 1 .. n, j - 1 \in T
        PROVE  j \in T
    <2> DEFINE i == n - j
    <2>1. i \in 0 .. n - 1 /\ n - (j - 1) = i + 1 /\ j \in 0 .. n
      BY <1>1
    <2>2. SuffixIs(NameFrom(d)[start[n - (j - 1)]], d, n, start, n - (j - 1))
      BY <1>3
    <2>3. SuffixIs(NameFrom(d)[start[i + 1]], d, n, start, i + 1)
      BY <2>1, <2>2
    <2> HIDE DEF i
    <2>4. SuffixIs(NameFrom(d)[start[i]], d, n, start, i)
      BY <2>1, <2>3, SuffixStep
    <2> QED
      BY <2>1, <2>4 DEF i
  <1>4. \A j \in T : SuffixIs(NameFrom(d)[start[n - j]], d, n, start, n - j)
    OBVIOUS
  <1> HIDE DEF T
  <1>5. \A j \in 1 .. n : j - 1 \in T => j \in T
    BY <1>3
  <1>6. n \in T
    <2>1. \A j \in 0 .. n : j \in T
      BY <1>1, <1>2, <1>5, HoldsUpTo
    <2> QED
      BY <1>1, <2>1
  <1>7. n - n = 0
    BY <1>1
  <1> QED
    BY <1>1, <1>4, <1>6, <1>7

(* A label that is in a text is what dump_name finds there.                *)
LEMMA LabelFound ==
    ASSUME NEW d \in Seq(Octet), NEW s \in Nat, LabelAt(d, s),
           NEW text \in Seq(Octet), NEW k \in Nat, LabelIn(text, k, d, s)
    PROVE  Label(text, k) = Octets(d, s + 1, At(d, s))
  <1> DEFINE L == At(d, s)
             u == SubSeq(text, k + 1, Len(text))
             label == Label(text, k)
             octets == Octets(d, s + 1, L)
  <1>1. L \in Nat
    BY AtNat
  <1>2. /\ octets \in Seq(Octet) /\ Len(octets) = L
        /\ \A j \in 1 .. L : octets[j] = At(d, s + j)
    <2>1. s + 1 \in Nat /\ \A j \in Nat : s + 1 + j - 1 = s + j
      OBVIOUS
    <2>2. \A j \in 1 .. L : octets[j] = At(d, s + 1 + j - 1)
      BY <1>1, <2>1, OctetsAt
    <2>3. octets \in Seq(Octet) /\ Len(octets) = L
      BY <1>1, <2>1, OctetsTyped
    <2> HIDE DEF octets, L
    <2> QED
      BY <1>1, <2>1, <2>2, <2>3
  <1>3. /\ k + L + 1 <= Len(text) /\ text[k + L + 1] = Dot
        /\ \A j \in 1 .. L : text[k + j] = At(d, s + j) /\ At(d, s + j) # Dot
    BY DEF LabelIn, LabelAt
  <1> HIDE DEF L, octets
  <1>4. /\ u \in Seq(Octet) /\ Len(u) = Len(text) - k
        /\ \A j \in 1 .. Len(text) - k : u[j] = text[k + j]
    BY <1>1, <1>3
  <1>5. Dot \in Octet /\ label = UpTo(u, Dot)
    <2> HIDE DEF u, label
    <2>1. Dot \in Octet
      BY DotOctet
    <2> QED
      BY <2>1 DEF u, label, Label
  <1> HIDE DEF u, label
  <1>6. /\ label \in Seq(Octet) /\ Len(label) <= Len(u)
        /\ \A j \in 1 .. Len(label) : label[j] = u[j] /\ u[j] # Dot
        /\ Len(label) < Len(u) => u[Len(label) + 1] = Dot
    <2> DEFINE w == UpTo(u, Dot)
    <2>1. /\ w \in Seq(Octet) /\ Len(w) <= Len(u)
          /\ \A j \in 1 .. Len(w) : w[j] = u[j] /\ u[j] # Dot
          /\ Len(w) < Len(u) => u[Len(w) + 1] = Dot
      BY <1>4, <1>5, UpToTyped
    <2>2. label = w
      BY <1>5
    <2> HIDE DEF w
    <2> QED
      BY <2>1, <2>2
  <1> DEFINE N == Len(label)
  <1>7. N \in Nat
    BY <1>6
  <1>8. u[L + 1] = Dot /\ L < Len(u) /\ \A j \in 1 .. L : u[j] = At(d, s + j) /\ u[j] # Dot
    <2>1. Len(text) \in Nat
      OBVIOUS
    <2>2. L + 1 \in 1 .. Len(text) - k /\ k + (L + 1) = k + L + 1
      BY <1>1, <1>3, <2>1
    <2>3. \A j \in 1 .. L : j \in 1 .. Len(text) - k
      BY <1>1, <2>1, <2>2
    <2> QED
      BY <1>1, <1>3, <1>4, <2>1, <2>2, <2>3
  <1>9. N = L
    <2>1. ~ N < L
      <3> SUFFICES ASSUME N < L
                   PROVE  FALSE
        OBVIOUS
      <3>1. N + 1 \in 1 .. L /\ N < Len(u)
        BY <1>1, <1>4, <1>7, <1>8
      <3> QED
        BY <1>6, <1>8, <3>1
    <2>2. ~ L < N
      <3> SUFFICES ASSUME L < N
                   PROVE  FALSE
        OBVIOUS
      <3>1. L + 1 \in 1 .. N
        BY <1>1, <1>7
      <3> QED
        BY <1>6, <1>8, <3>1
    <2> QED
      BY <1>1, <1>7, <2>1, <2>2
  <1>10. \A j \in 1 .. L : label[j] = octets[j]
    BY <1>2, <1>6, <1>8, <1>9
  <1>11. label = octets
    BY <1>2, <1>6, <1>9, <1>10, SeqEqual
  <1> QED
    BY <1>11 DEF label, octets, L

LEMMA MeasuredBack ==
    ASSUME NEW d \in Seq(Octet), NEW s \in Nat
    PROVE  Measured(Octets(d, s + 1, At(d, s))) = Octets(d, s, 1 + At(d, s))
  <1> DEFINE L == At(d, s)
             label == Octets(d, s + 1, L)
  <1>1. L \in Nat /\ L < 256
    BY OctetMeans, AtNat, AtTyped
  <1>2. Len(label) = L
    <2>1. s + 1 \in Nat
      OBVIOUS
    <2> QED
      BY <1>1, <2>1, OctetsTyped
  <1>3. Octets(d, s, 1) = <<L>>
    BY OctetAlone
  <1>4. Octets(d, s, 1) \o label = Octets(d, s, 1 + L)
    <2> HIDE DEF L
    <2>1. 1 \in Nat /\ 1 + L = 1 + L
      OBVIOUS
    <2>2. Adjoining(d, s, 1, s + 1, L, 1 + L)
      BY <1>1, <2>1, OctetsJoined
    <2> QED
      BY <2>2 DEF Adjoining
  <1> HIDE DEF L, label
  <1>5. Len(label) % 256 = L
    BY <1>1, <1>2, SMT
  <1>6. Measured(label) = <<L>> \o label
    BY <1>5 DEF Measured
  <1>7. Measured(label) = Octets(d, s, 1 + L)
    BY <1>3, <1>4, <1>6
  <1> QED
    BY <1>7 DEF L, label

(* What dump_name writes from the label numbered i on.                     *)
LEMMA WireStep ==
    ASSUME NEW d \in Seq(Octet), NEW p \in Nat, NEW n, NEW start, LabelsFrom(d, p, n, start),
           NEW text \in Seq(Octet), Len(text) = start[n] - p,
           NEW i \in 0 .. n - 1, LabelIn(text, start[i] - p, d, start[i]),
           WireFrom(text)[start[i + 1] - p]
               = Octets(d, start[i + 1], start[n] + 1 - start[i + 1])
    PROVE  WireFrom(text)[start[i] - p] = Octets(d, start[i], start[n] + 1 - start[i])
  <1> DEFINE s == start[i]
             L == At(d, s)
             e == start[n]
             k == s - p
             label == Label(text, k)
             later == start[i + 1]
  <1>1. /\ n \in Nat /\ start \in [0 .. n -> Nat] /\ start[0] = p
        /\ LabelAt(d, s) /\ later = s + L + 1
    BY DEF LabelsFrom
  <1>2. i \in 0 .. n /\ i + 1 \in 0 .. n /\ 0 \in 0 .. i /\ n \in 0 .. n /\ i + 1 \in 0 .. n
    BY <1>1
  <1>3. s \in Nat /\ later \in Nat /\ e \in Nat
    BY <1>1, <1>2
  <1>4. p <= s /\ later <= e
    BY <1>1, <1>2, LabelsGoUp
  <1>5. L \in Nat
    BY <1>3, AtNat
  <1>6. LabelIn(text, k, d, s) /\ Len(text) = e - p
    OBVIOUS
  <1>7. WireFrom(text)[later - p] = Octets(d, later, e + 1 - later)
    OBVIOUS
  <1> HIDE DEF e, later, s
  <1>8. k \in Nat /\ ~ k >= Len(text)
    BY <1>1, <1>3, <1>4, <1>5, <1>6, SMTT(30)
  <1>9. label = Octets(d, s + 1, L) /\ Len(label) = L
    <2>1. LabelIn(text, k, d, s)
      BY <1>6
    <2> HIDE DEF k
    <2>2. label = Octets(d, s + 1, L)
      BY <1>1, <1>3, <1>8, <2>1, LabelFound
    <2>3. s + 1 \in Nat
      BY <1>3
    <2>4. Len(Octets(d, s + 1, L)) = L
      BY <1>5, <2>3, OctetsTyped
    <2> QED
      BY <2>2, <2>4
  <1>10. Measured(label) = Octets(d, s, 1 + L)
    BY <1>3, <1>9, MeasuredBack
  <1>11. WireFrom(text)[k] = Measured(label) \o WireFrom(text)[k + Len(label) + 1]
    <2> HIDE DEF k
    <2> QED
      BY <1>8, WireFromIs
  <1>12. k + L + 1 = later - p
    BY <1>1, <1>3, <1>5, SMTT(30)
  <1> DEFINE M == e + 1 - later
  <1>13. WireFrom(text)[k] = Octets(d, s, 1 + L) \o Octets(d, later, M)
    <2> HIDE DEF k, label
    <2> QED
      BY <1>7, <1>9, <1>10, <1>11, <1>12
  <1>14. /\ M \in Nat /\ 1 + L \in Nat /\ later = s + (1 + L) /\ (1 + L) + M = e + 1 - s
    <2>1. later = s + L + 1
      BY <1>1
    <2> HIDE DEF L
    <2> QED
      BY <1>3, <1>4, <1>5, <2>1
  <1> HIDE DEF M
  <1> DEFINE a == 1 + L
             c == e + 1 - s
  <1>15. Adjoining(d, s, a, later, M, c)
    <2>1. a \in Nat /\ later = s + a /\ c = a + M
      BY <1>14
    <2> HIDE DEF a, c
    <2> QED
      BY <1>3, <1>14, <2>1, OctetsJoined
  <1> HIDE DEF L
  <1>16. WireFrom(text)[k] = Octets(d, s, c)
    <2>1. WireFrom(text)[k] = Octets(d, s, a) \o Octets(d, later, M)
      BY <1>13
    <2> HIDE DEF a, c
    <2> QED
      BY <1>15, <2>1 DEF Adjoining
  <1> QED
    BY <1>16 DEF k, s, e

LEMMA NoZeroWhole ==
    ASSUME NEW text \in Seq(Octet), \A j \in 1 .. Len(text) : text[j] # 0
    PROVE  String(text) = text
  <1> DEFINE u == String(text)
  <1>1. 0 \in Octet
    BY OctetMeans
  <1>2. /\ u \in Seq(Octet) /\ Len(u) <= Len(text)
        /\ \A j \in 1 .. Len(u) : u[j] = text[j]
        /\ Len(u) < Len(text) => text[Len(u) + 1] = 0
    BY <1>1, UpToTyped DEF String
  <1> HIDE DEF u
  <1>3. Len(u) = Len(text)
    BY <1>2
  <1>4. u = text
    BY <1>2, <1>3, SeqEqual
  <1> QED
    BY <1>4 DEF u

(* parse_qname and dump_name: a name of labels without dots and zeros, and *)
(* without a pointer, is written octet for octet as it was read            *)
(* (protocol.c:18-55).                                                     *)
THEOREM NameWrittenBack ==
    ASSUME NEW d \in Seq(Octet), NEW p \in Nat, PlainName(d, p)
    PROVE  /\ parse_qname(d, p).end - p \in Nat
           /\ dump_name(parse_qname(d, p).text) = Octets(d, p, parse_qname(d, p).end - p)
  <1> DEFINE name == NameFrom(d)[p]
             text == name.text
  <1>1. PICK n, start : LabelsFrom(d, p, n, start)
    BY DEF PlainName
  <1>2. SuffixIs(name, d, n, start, 0)
    BY <1>1, PlainParsed
  <1>3. /\ n \in Nat /\ start \in [0 .. n -> Nat] /\ start[0] = p
    BY <1>1 DEF LabelsFrom
  <1>4. name \in ParsedNames
    BY NameFromIs
  <1> HIDE DEF name
  <1>5. text \in Seq(Octet)
    BY <1>4 DEF ParsedNames
  <1>6. /\ name.end = start[n] + 1 /\ Len(text) = start[n] - p
        /\ \A j \in 1 .. Len(text) : text[j] # 0
        /\ \A m \in 0 .. n - 1 : LabelIn(text, start[m] - p, d, start[m])
    BY <1>2, <1>3 DEF SuffixIs
  <1>7. parse_qname(d, p).text = String(text) /\ parse_qname(d, p).end = name.end
    BY ParseUnfolds DEF ParsedName, name
  <1> HIDE DEF text
  <1>8. parse_qname(d, p).text = text /\ parse_qname(d, p).end = start[n] + 1
    BY <1>5, <1>6, <1>7, NoZeroWhole
  <1>9. start[n] \in Nat /\ p <= start[n]
    <2>1. n \in 0 .. n /\ 0 \in 0 .. n
      BY <1>3
    <2>2. start[0] <= start[n]
      BY <1>1, <2>1, LabelsGoUp
    <2> QED
      BY <1>3, <2>1, <2>2
  <1> DEFINE Back(i) == WireFrom(text)[start[i] - p] = Octets(d, start[i], start[n] + 1 - start[i])
             T == {j \in 0 .. n : Back(n - j)}
  <1>10. 0 \in T
    <2>1. start[n] - p \in Nat /\ start[n] - p >= Len(text) /\ start[n] + 1 - start[n] = 1
      BY <1>5, <1>6, <1>9
    <2>2. WireFrom(text)[start[n] - p] = <<0>>
      BY <1>5, <2>1, WireFromIs
    <2>3. Octets(d, start[n], 1) = <<0>>
      BY <1>1, <1>9, OctetAlone DEF LabelsFrom
    <2>4. Back(n)
      BY <2>1, <2>2, <2>3
    <2>5. n - 0 = n /\ 0 \in 0 .. n
      BY <1>3
    <2> HIDE DEF Back
    <2> QED
      BY <2>4, <2>5
  <1>11. ASSUME NEW j \in 1 .. n, j - 1 \in T
         PROVE  j \in T
    <2> DEFINE i == n - j
    <2>1. i \in 0 .. n - 1 /\ n - (j - 1) = i + 1 /\ j \in 0 .. n
      BY <1>3
    <2>2. Back(n - (j - 1))
      BY <1>11
    <2> HIDE DEF i
    <2>3. Back(i + 1)
      <3> HIDE DEF Back
      <3> QED
        BY <2>1, <2>2
    <2>4. Back(i)
      BY <1>1, <1>5, <1>6, <2>1, <2>3, WireStep
    <2> HIDE DEF Back
    <2> QED
      BY <2>1, <2>4 DEF i
  <1>12. \A j \in T : Back(n - j)
    OBVIOUS
  <1> HIDE DEF T, Back
  <1>13. \A j \in 1 .. n : j - 1 \in T => j \in T
    BY <1>11
  <1>14. n \in T
    <2>1. \A j \in 0 .. n : j \in T
      BY <1>3, <1>10, <1>13, HoldsUpTo
    <2> QED
      BY <1>3, <2>1
  <1>15. Back(0)
    <2>1. n - n = 0
      BY <1>3
    <2> QED
      BY <1>12, <1>14, <2>1
  <1> DEFINE end == start[n] + 1
  <1>16. WireFrom(text)[0] = Octets(d, p, end - p)
    <2>1. p - p = 0
      OBVIOUS
    <2> QED
      BY <1>3, <1>15, <2>1 DEF Back
  <1>17. dump_name(text) = WireFrom(text)[0]
    BY DumpUnfolds
  <1>18. end - p \in Nat
    BY <1>9
  <1>19. parse_qname(d, p).text = text /\ parse_qname(d, p).end = end
    BY <1>8
  <1> HIDE DEF end
  <1> QED
    BY <1>16, <1>17, <1>18, <1>19, Zenon

LEMMA QuestionWrittenBack ==
    ASSUME NEW d \in Seq(Octet), NEW p \in Nat, PlainName(d, p)
    PROVE  /\ parse_question(d, p).end - p \in Nat
           /\ dump_question(parse_question(d, p)) = Octets(d, p, parse_question(d, p).end - p)
  <1> DEFINE q == parse_question(d, p)
             e == parse_qname(d, p).end
             text == parse_qname(d, p).text
             n == e - p
             end == e + 4
  <1>1. n \in Nat /\ dump_name(text) = Octets(d, p, n)
    BY NameWrittenBack
  <1>2. e \in Nat
    BY ParseTyped DEF ParsedNames
  <1>3. /\ q.qname = text /\ q.qtype = ntohs(d, e) /\ q.qclass = ntohs(d, e + 2)
        /\ q.end = end
    BY DEF parse_question
  <1> HIDE DEF q, e, text
  <1>4. /\ e = p + n /\ e + 2 \in Nat /\ e + 2 = p + (n + 2) /\ n + 2 \in Nat
        /\ end - p = (n + 2) + 2 /\ end - p \in Nat /\ 2 \in Nat
    BY <1>1, <1>2
  <1> DEFINE f == e + 2
             m == n + 2
             c == end - p
  <1> HIDE DEF n, end
  <1>5. /\ f \in Nat /\ m \in Nat /\ e = p + n /\ f = p + m /\ c = m + 2 /\ m = n + 2
        /\ c \in Nat
    BY <1>4
  <1>6. /\ htons(ntohs(d, e)) = Octets(d, e, 2)
        /\ htons(ntohs(d, f)) = Octets(d, f, 2)
    BY <1>2, <1>5, NumberBack
  <1>7. dump_question(q) = dump_name(text) \o htons(ntohs(d, e)) \o htons(ntohs(d, f))
    BY <1>3 DEF dump_question
  <1> HIDE DEF f, m, c
  <1>8. Adjoining(d, p, n, e, 2, m) /\ Adjoining(d, p, m, f, 2, c)
    BY <1>1, <1>4, <1>5, OctetsJoined
  <1>9. dump_question(q) = Octets(d, p, n) \o Octets(d, e, 2) \o Octets(d, f, 2)
    BY <1>1, <1>6, <1>7
  <1>10. dump_question(q) = Octets(d, p, c)
    BY <1>8, <1>9 DEF Adjoining
  <1>11. c = q.end - p
    BY <1>3 DEF c
  <1> QED
    BY <1>5, <1>10, <1>11 DEF q

(* The octets of the question, and of the message from its third octet to  *)
(* the end of the question.                                                *)
QuestionOctets(d) == Octets(d, HeaderLength, QuestionEnd(d) - HeaderLength)

LEMMA HeaderAndQuestion ==
    ASSUME NEW d \in Seq(Octet), NEW id \in Nat, PlainName(d, HeaderLength)
    PROVE  dump_header(d, id) \o dump_question(parse_question(d, HeaderLength))
               = htons(id) \o Octets(d, 2, QuestionEnd(d) - 2)
  <1> DEFINE H == HeaderLength
             b == QuestionEnd(d) - H
             c == QuestionEnd(d) - 2
             front == htons(id)
             head == Octets(d, 2, 10)
             question == Octets(d, H, b)
  <1>1. H \in Nat /\ H = 12 /\ HeaderLength - 2 = 10
    BY DEF HeaderLength
  <1>2. b \in Nat /\ dump_question(parse_question(d, HeaderLength)) = question
    BY <1>1, QuestionWrittenBack DEF QuestionEnd
  <1>3. QuestionEnd(d) \in Nat
    BY <1>1, QuestionTyped DEF QuestionEnd, ParsedQuestions
  <1>4. dump_header(d, id) = front \o head
    BY <1>1 DEF dump_header
  <1>5. c = 10 + b /\ H = 2 + 10
    BY <1>1, <1>3
  <1>6. 2 \in Nat /\ 10 \in Nat
    OBVIOUS
  <1>7. front \in Seq(Octet) /\ head \in Seq(Octet) /\ question \in Seq(Octet)
    BY <1>1, <1>2, <1>6, HtonsTyped, OctetsTyped
  <1> HIDE DEF H, b, c
  <1>8. Adjoining(d, 2, 10, H, b, c)
    BY <1>2, <1>5, <1>6, OctetsJoined
  <1>9. head \o question = Octets(d, 2, c)
    BY <1>8 DEF Adjoining
  <1> HIDE DEF front, head, question
  <1>10. (front \o head) \o question = front \o (head \o question)
    BY <1>7, ConcatAssociative, SMTT(30)
  <1>11. dump_header(d, id) \o dump_question(parse_question(d, HeaderLength))
             = front \o Octets(d, 2, c)
    BY <1>2, <1>4, <1>9, <1>10
  <1> QED
    BY <1>11 DEF c, front

(* What a query is forwarded as, and what a reply from here begins with.   *)
ForwardedWhole ==
    last.kind = "forwarded" /\ PlainName(last.in, HeaderLength) =>
        last.out = htons(RelayId) \o Octets(last.in, 2, QuestionEnd(last.in) - 2)

(* A query of one question goes on octet for octet up to the end of its    *)
(* question, but for its id, if its name is written without a pointer and  *)
(* without dots and zeros in its labels; what follows the question is left *)
(* out (handle.c:192-206).                                                 *)
THEOREM QueryForwardedWhole == Spec => []ForwardedWhole
  <1>1. Init => ForwardedWhole
    BY DEF Init, Nothing, ForwardedWhole
  <1>2. ForwardedWhole /\ [Next]_vars => ForwardedWhole'
    <2> SUFFICES ASSUME ForwardedWhole, [Next]_vars
                 PROVE  ForwardedWhole'
      OBVIOUS
    <2>1. ASSUME NEW d \in Datagram, ReceiveResponse(d)
          PROVE  ForwardedWhole'
      BY <2>1 DEF ReceiveResponse, ForwardedWhole
    <2>2. ASSUME NEW d \in Datagram, RefuseMalformed(d)
          PROVE  ForwardedWhole'
      BY <2>2 DEF RefuseMalformed, Reply, ForwardedWhole
    <2>3. ASSUME NEW d \in Datagram, ReceiveQuery(d)
          PROVE  ForwardedWhole'
      <3> DEFINE h == parse_header(d)
                 q == parse_question(d, HeaderLength)
                 list == Found(q.qtype, q.qname)
      <3>1. d \in Seq(Octet) /\ RelayId \in Nat
        BY MessagesAssumption, IdsTyped
      <3>2. \/ Reply("forwarded", d, Forwarded(d, q))
            \/ Reply("blocked", d, Blocked(h, q))
            \/ Reply("answered", d, Answered(h, q, list))
        BY <2>3, Zenon DEF ReceiveQuery
      <3>3. PlainName(d, HeaderLength) =>
                Forwarded(d, q) = htons(RelayId) \o Octets(d, 2, QuestionEnd(d) - 2)
        BY <3>1, HeaderAndQuestion DEF Forwarded
      <3> HIDE DEF h, q, list
      <3>4. CASE Reply("forwarded", d, Forwarded(d, q))
        BY <3>3, <3>4 DEF Reply, ForwardedWhole
      <3>5. CASE Reply("blocked", d, Blocked(h, q))
        BY <3>5 DEF Reply, ForwardedWhole
      <3>6. CASE Reply("answered", d, Answered(h, q, list))
        BY <3>6 DEF Reply, ForwardedWhole
      <3> QED
        BY <3>2, <3>4, <3>5, <3>6
    <2>4. CASE UNCHANGED vars
      BY <2>4 DEF vars, ForwardedWhole
    <2> QED
      BY <2>1, <2>2, <2>3, <2>4 DEF Next
  <1> QED
    BY <1>1, <1>2, PTL DEF Spec

(* What is behind the name of the record at p or the pointer in its place, *)
(* and the record with its name in full.                                   *)
Behind(d, p) == RecordName(d, p).end

WrittenOut(d, p) ==
    Octets(d, NamePlace(d, p), parse_qname(d, NamePlace(d, p)).end - NamePlace(d, p))
        \o Octets(d, Behind(d, p), RecordEnd(d, p) - Behind(d, p))

Grouped(s, t, u) == (s \o t) \o u = s \o (t \o u)

LEMMA GroupedEither ==
    ASSUME NEW T, NEW s \in Seq(T), NEW t \in Seq(T), NEW u \in Seq(T)
    PROVE  Grouped(s, t, u)
  BY ConcatAssociative DEF Grouped

(* parse_resource_record and dump_resource_record: all octets of a record  *)
(* are written as they were read, and a pointer in the place of its name   *)
(* as the name it leads to (protocol.c:159-214).                           *)
THEOREM RecordWrittenBack ==
    ASSUME NEW d \in Seq(Octet), NEW p \in Nat, PlainName(d, NamePlace(d, p))
    PROVE  dump_resource_record(parse_resource_record(d, p)) = WrittenOut(d, p)
  <1> DEFINE r == parse_resource_record(d, p)
             z == NamePlace(d, p)
             text == RecordName(d, p).text
             n == parse_qname(d, z).end - z
             e == Behind(d, p)
             m == ntohs(d, e + 8)
             name == Octets(d, z, n)
  <1>1. z \in Nat /\ At(d, p + 1) \in Nat
    <2>1. p + 1 \in Nat
      OBVIOUS
    <2> QED
      BY <2>1, AtNat DEF NamePlace
  <1>2. e \in Nat
    BY RecordNameTyped DEF Behind, ParsedNames
  <1>3. text = parse_qname(d, z).text
    BY DEF RecordName, ParsedName, NamePlace
  <1>4. n \in Nat /\ dump_name(text) = name
    BY <1>1, <1>3, NameWrittenBack
  <1>5. /\ e + 8 \in Nat /\ e + 4 \in Nat /\ e + 2 \in Nat /\ e + 10 \in Nat
    BY <1>2
  <1>6. m \in Nat
    BY <1>5, NtohsTyped
  <1>7. /\ r.name = text /\ r.type = ntohs(d, e) /\ r.class = ntohs(d, e + 2)
        /\ r.ttl = ntohl(d, e + 4) /\ r.rdata = Octets(d, e + 10, m)
        /\ r.end = e + 10 + m
    BY DEF parse_resource_record, Behind
  <1>8. /\ htons(ntohs(d, e)) = Octets(d, e, 2)
        /\ htons(ntohs(d, e + 2)) = Octets(d, e + 2, 2)
        /\ htonl(ntohl(d, e + 4)) = Octets(d, e + 4, 4)
        /\ htons(ntohs(d, e + 8)) = Octets(d, e + 8, 2)
    <2>1. htons(ntohs(d, e)) = Octets(d, e, 2)
      BY <1>2, NumberBack
    <2>2. htons(ntohs(d, e + 2)) = Octets(d, e + 2, 2)
      BY <1>5, NumberBack
    <2>3. htonl(ntohl(d, e + 4)) = Octets(d, e + 4, 4)
      BY <1>5, LongNumberBack
    <2>4. htons(ntohs(d, e + 8)) = Octets(d, e + 8, 2)
      BY <1>5, NumberBack
    <2> QED
      BY <2>1, <2>2, <2>3, <2>4
  <1>9. WrittenOut(d, p) = name \o Octets(d, e, r.end - e)
    BY DEF WrittenOut, RecordEnd
  <1> DEFINE a == Octets(d, e, 2)
             b == Octets(d, e + 2, 2)
             c == Octets(d, e + 4, 4)
             l == Octets(d, e + 8, 2)
             x == Octets(d, e + 10, m)
             whole == Octets(d, e, r.end - e)
  <1>10. Len(x) = m
    BY <1>5, <1>6, OctetsTyped
  <1>11. dump_resource_record(r) = name \o a \o b \o c \o l \o x
    <2>1. dump_resource_record(r) =
              dump_name(r.name) \o htons(r.type) \o htons(r.class) \o htonl(r.ttl)
                  \o htons(Len(r.rdata)) \o r.rdata
      BY DEF dump_resource_record
    <2>2. r.rdata = x /\ htons(Len(x)) = l
      BY <1>7, <1>8, <1>10
    <2> HIDE DEF r, x, l, name, a, b, c, text, e
    <2>3. /\ dump_name(r.name) = name /\ htons(r.type) = a /\ htons(r.class) = b
          /\ htonl(r.ttl) = c
      BY <1>4, <1>7, <1>8 DEF a, b, c
    <2> QED
      BY <2>1, <2>2, <2>3
  <1>12. /\ name \in Seq(Octet) /\ a \in Seq(Octet) /\ b \in Seq(Octet) /\ c \in Seq(Octet)
         /\ l \in Seq(Octet) /\ x \in Seq(Octet)
    <2>1. 2 \in Nat /\ 4 \in Nat
      OBVIOUS
    <2> QED
      BY <1>1, <1>2, <1>4, <1>5, <1>6, <2>1, OctetsTyped
  <1>13. ((((a \o b) \o c) \o l) \o x) = whole
    <2> DEFINE t == e + 2
               u == e + 4
               v == e + 8
               w == e + 10
               k == r.end - e
    <2>1. /\ t = e + 2 /\ u = e + 4 /\ v = e + 8 /\ w = e + 10 /\ k = 10 + m
          /\ 2 \in Nat /\ 4 \in Nat /\ 8 \in Nat /\ 10 \in Nat
          /\ 4 = 2 + 2 /\ 8 = 4 + 4 /\ 10 = 8 + 2
      BY <1>2, <1>6, <1>7
    <2>2. a = Octets(d, e, 2) /\ b = Octets(d, t, 2) /\ c = Octets(d, u, 4)
          /\ l = Octets(d, v, 2) /\ x = Octets(d, w, m) /\ whole = Octets(d, e, k)
      OBVIOUS
    <2> HIDE DEF t, u, v, w, k, a, b, c, l, x, whole, e, m
    <2>3. Adjoining(d, e, 2, t, 2, 4)
      BY <1>2, <2>1, OctetsJoined
    <2>4. Adjoining(d, e, 4, u, 4, 8)
      BY <1>2, <2>1, OctetsJoined
    <2>5. Adjoining(d, e, 8, v, 2, 10)
      BY <1>2, <2>1, OctetsJoined
    <2>6. Adjoining(d, e, 10, w, m, k)
      BY <1>2, <1>6, <2>1, OctetsJoined
    <2> QED
      BY <2>2, <2>3, <2>4, <2>5, <2>6 DEF Adjoining
  <1> HIDE DEF name, a, b, c, l, x, whole
  <1>14. name \o a \o b \o c \o l \o x = name \o ((((a \o b) \o c) \o l) \o x)
    <2>1. \A s, t \in Seq(Octet) : s \o t \in Seq(Octet)
      BY ConcatProperties
    <2>2. /\ a \o b \in Seq(Octet) /\ (a \o b) \o c \in Seq(Octet)
          /\ ((a \o b) \o c) \o l \in Seq(Octet)
      BY <1>12, <2>1
    <2> DEFINE ab == a \o b
               abc == ab \o c
               abcl == abc \o l
    <2>3. ab \in Seq(Octet) /\ abc \in Seq(Octet) /\ abcl \in Seq(Octet)
      BY <2>2
    <2> HIDE DEF ab, abc, abcl
    <2>4. /\ Grouped(name, a, b) /\ Grouped(name, ab, c) /\ Grouped(name, abc, l)
          /\ Grouped(name, abcl, x)
      BY <1>12, <2>3, GroupedEither
    <2> QED
      BY <2>4, Zenon DEF Grouped, abcl, abc, ab
  <1>15. dump_resource_record(r) = name \o whole
    BY <1>11, <1>13, <1>14
  <1> QED
    BY <1>9, <1>15 DEF r, whole

LEMMA RecordsPlaced ==
    ASSUME NEW d \in Seq(Octet), NEW at, PlainResponse(d, at)
    PROVE  /\ DOMAIN Records(d) = 1 .. RecordCount(d)
           /\ \A k \in 1 .. RecordCount(d) :
                 at[k] \in Nat /\ Records(d)[k] = parse_resource_record(d, at[k])
  <1> DEFINE N == RecordCount(d)
             g == RecordsUpTo(d)
             Placed(k) == /\ g[k].end = at[k + 1] /\ Len(g[k].records) = k
                          /\ \A m \in 1 .. k :
                                /\ at[m] \in Nat
                                /\ g[k].records[m] = parse_resource_record(d, at[m])
             T == {k \in 0 .. N : Placed(k)}
  <1>1. N \in Nat /\ ReadInTurn(d, g, N)
    BY HeaderTyped, RecordsRead
  <1>2. /\ at[1] = QuestionEnd(d)
        /\ \A k \in 1 .. N : at[k + 1] = parse_resource_record(d, at[k]).end
    BY DEF PlainResponse, RecordEnd
  <1> HIDE DEF N, g
  <1>3. 0 \in T
    <2>1. g[0].records = <<>> /\ g[0].end = QuestionEnd(d)
      BY <1>1 DEF ReadInTurn, NoneRead, QuestionEnd
    <2>2. Placed(0)
      BY <1>2, <2>1
    <2> HIDE DEF Placed
    <2> QED
      BY <1>1, <2>2
  <1>4. ASSUME NEW k \in 1 .. N, k - 1 \in T
        PROVE  k \in T
    <2> DEFINE before == g[k - 1]
               r == parse_resource_record(d, at[k])
    <2>1. k - 1 \in 0 .. N /\ k \in 0 .. N /\ (k - 1) + 1 = k
      BY <1>1
    <2>2. Placed(k - 1)
      BY <1>4
    <2>3. before \in ReadStates
      BY <1>1, <2>1 DEF ReadInTurn
    <2>4. before.end = at[k] /\ Len(before.records) = k - 1
      BY <2>1, <2>2
    <2>5. g[k] = Read(before, r)
      <3>1. g[k] = Read(before, parse_resource_record(d, before.end))
        BY <1>1 DEF ReadInTurn
      <3> QED
        BY <2>4, <3>1
    <2>6. before.records \in Seq(ParsedRecords) /\ at[k] \in Nat
      BY <2>3, <2>4 DEF ReadStates
    <2>7. r \in ParsedRecords
      BY <2>6, RecordTyped
    <2>8. \A m \in 1 .. k - 1 :
              at[m] \in Nat /\ before.records[m] = parse_resource_record(d, at[m])
      BY <2>2
    <2>9. g[k].records = Append(before.records, r) /\ g[k].end = at[k + 1]
      BY <1>2, <2>5 DEF Read
    <2> HIDE DEF before, r
    <2>10. /\ Len(g[k].records) = k /\ g[k].records[k] = r
           /\ \A m \in 1 .. k - 1 : g[k].records[m] = before.records[m]
      BY <2>4, <2>6, <2>7, <2>9
    <2>11. \A m \in 1 .. k :
               at[m] \in Nat /\ g[k].records[m] = parse_resource_record(d, at[m])
      <3> SUFFICES ASSUME NEW m \in 1 .. k
                   PROVE  at[m] \in Nat /\ g[k].records[m] = parse_resource_record(d, at[m])
        OBVIOUS
      <3>1. CASE m = k
        BY <2>6, <2>10, <3>1 DEF r
      <3>2. CASE m # k
        <4>1. m \in 1 .. k - 1
          BY <3>2
        <4> QED
          BY <2>8, <2>10, <4>1
      <3> QED
        BY <3>1, <3>2
    <2>12. Placed(k)
      BY <2>9, <2>10, <2>11
    <2> HIDE DEF Placed
    <2> QED
      BY <2>1, <2>12
  <1>5. \A k \in T : Placed(k)
    OBVIOUS
  <1> HIDE DEF T, Placed
  <1>6. N \in T
    <2>1. \A k \in 1 .. N : k - 1 \in T => k \in T
      BY <1>4
    <2>2. \A k \in 0 .. N : k \in T
      BY <1>1, <1>3, <2>1, HoldsUpTo
    <2> QED
      BY <1>1, <2>2
  <1>7. /\ Len(g[N].records) = N
        /\ \A m \in 1 .. N :
              at[m] \in Nat /\ g[N].records[m] = parse_resource_record(d, at[m])
    BY <1>5, <1>6 DEF Placed
  <1>8. Records(d) = g[N].records
    BY <1>1 DEF ReadInTurn
  <1>9. DOMAIN Records(d) = 1 .. N
    <2>1. Records(d) \in Seq(ParsedRecords)
      BY RecordsTyped
    <2> QED
      BY <1>7, <1>8, <2>1
  <1> QED
    BY <1>7, <1>8, <1>9 DEF N

(* handle_send_response: a response goes on octet for octet but for its id *)
(* and for the pointers in front of its records, in whose place the names  *)
(* are written that they lead to (handle.c:291-331, protocol.c:159-214).   *)
THEOREM ResponseRelayedWhole ==
    ASSUME NEW d \in Datagram, NEW at, PlainResponse(d, at)
    PROVE  Relayed(d) = htons(ClientId) \o Octets(d, 2, QuestionEnd(d) - 2)
                            \o FlattenSeq([k \in 1 .. RecordCount(d) |-> WrittenOut(d, at[k])])
  <1> DEFINE N == RecordCount(d)
             records == Records(d)
             parts == [k \in DOMAIN records |-> dump_resource_record(records[k])]
             whole == [k \in 1 .. N |-> WrittenOut(d, at[k])]
             head == dump_header(d, ClientId) \o dump_question(parse_question(d, HeaderLength))
  <1>1. d \in Seq(Octet) /\ ClientId \in Nat
    BY MessagesAssumption, IdsTyped
  <1>2. PlainName(d, HeaderLength)
    BY DEF PlainResponse
  <1>3. head = htons(ClientId) \o Octets(d, 2, QuestionEnd(d) - 2)
    BY <1>1, <1>2, HeaderAndQuestion
  <1>4. Relayed(d) = head \o FlattenSeq(parts)
    BY Zenon DEF Relayed
  <1>5. /\ DOMAIN records = 1 .. N
        /\ \A k \in 1 .. N : at[k] \in Nat /\ records[k] = parse_resource_record(d, at[k])
    BY <1>1, RecordsPlaced
  <1>6. \A k \in 1 .. N : dump_resource_record(records[k]) = WrittenOut(d, at[k])
    <2> SUFFICES ASSUME NEW k \in 1 .. N
                 PROVE  dump_resource_record(records[k]) = WrittenOut(d, at[k])
      OBVIOUS
    <2>1. PlainName(d, NamePlace(d, at[k])) /\ at[k] \in Nat
      BY <1>5 DEF PlainResponse
    <2>2. dump_resource_record(parse_resource_record(d, at[k])) = WrittenOut(d, at[k])
      BY <1>1, <2>1, RecordWrittenBack
    <2> QED
      BY <1>5, <2>2
  <1> HIDE DEF records, head
  <1>7. parts = whole
    BY <1>5, <1>6
  <1> HIDE DEF parts, whole
  <1>8. Relayed(d) = head \o FlattenSeq(whole)
    BY <1>4, <1>7
  <1> QED
    BY <1>3, <1>8 DEF whole

(* A reply made here begins with the id of the query, ten octets of flags  *)
(* and counts, and the question of the query.                              *)
EchoOf(d, out) ==
    \E counts, rest :
        /\ counts \in Seq(Octet) /\ Len(counts) = 10
        /\ out = Octets(d, 0, 2) \o counts \o QuestionOctets(d) \o rest

EchoedQuestion ==
    last.kind \in {"answered", "blocked"} /\ PlainName(last.in, HeaderLength) =>
        EchoOf(last.in, last.out)

SplitHeader(d, own) ==
    \E counts \in Seq(Octet) : Len(counts) = 10 /\ own = Octets(d, 0, 2) \o counts

(* The sequence of n and the sequence of m octets make one of n + m.       *)
JoinedTo(s, t, n) == s \o t \in Seq(Octet) /\ Len(s \o t) = n

LEMMA Joined ==
    ASSUME NEW s \in Seq(Octet), NEW t \in Seq(Octet), NEW n \in Nat,
           Len(s) + Len(t) = n
    PROVE  JoinedTo(s, t, n)
  <1>1. s \o t \in Seq(Octet)
    OBVIOUS
  <1>2. Len(s \o t) = Len(s) + Len(t)
    OBVIOUS
  <1> QED
    BY <1>1, <1>2 DEF JoinedTo

LEMMA OwnHeaderSplit ==
    ASSUME NEW d \in Seq(Octet), NEW aa \in {0, 1}, NEW rcode \in 0 .. 15, NEW qdcount \in Nat,
           NEW ancount \in Nat, NEW nscount \in Nat, NEW arcount \in Nat
    PROVE  SplitHeader(d, own_header(parse_header(d).id, aa, rcode, qdcount, ancount, nscount,
                                     arcount))
  <1> DEFINE id == Octets(d, 0, 2)
             f == <<128 + 4 * aa, rcode>>
             a == htons(qdcount)
             b == htons(ancount)
             c == htons(nscount)
             e == htons(arcount)
             fa == f \o a
             fab == fa \o b
             fabc == fab \o c
             fabce == fabc \o e
             own == own_header(parse_header(d).id, aa, rcode, qdcount, ancount, nscount, arcount)
  <1>1. 0 \in Nat /\ 2 \in Nat
    OBVIOUS
  <1>2. id \in Seq(Octet) /\ htons(parse_header(d).id) = id
    BY <1>1, OctetsTyped, NumberBack DEF parse_header
  <1>3. f \in Seq(Octet) /\ Len(f) = 2
    BY OctetMeans
  <1>4. /\ a \in Seq(Octet) /\ b \in Seq(Octet) /\ c \in Seq(Octet) /\ e \in Seq(Octet)
        /\ Len(a) = 2 /\ Len(b) = 2 /\ Len(c) = 2 /\ Len(e) = 2
    BY HtonsTyped
  <1>5. own = htons(parse_header(d).id) \o f \o a \o b \o c \o e
    BY DEF own_header
  <1> HIDE DEF id, f, a, b, c, e, own
  <1>6. own = id \o f \o a \o b \o c \o e
    BY <1>2, <1>5
  <1>7. fa \in Seq(Octet) /\ Len(fa) = 4
    <2>1. 4 \in Nat /\ Len(f) + Len(a) = 4
      BY <1>3, <1>4
    <2>2. JoinedTo(f, a, 4)
      BY <1>3, <1>4, <2>1, Joined, Zenon
    <2> QED
      BY <2>2 DEF JoinedTo
  <1> HIDE DEF fa
  <1>8. fab \in Seq(Octet) /\ Len(fab) = 6
    <2>1. 6 \in Nat /\ Len(fa) + Len(b) = 6
      BY <1>4, <1>7
    <2>2. JoinedTo(fa, b, 6)
      BY <1>4, <1>7, <2>1, Joined, Zenon
    <2> QED
      BY <2>2 DEF JoinedTo
  <1> HIDE DEF fab
  <1>9. fabc \in Seq(Octet) /\ Len(fabc) = 8
    <2>1. 8 \in Nat /\ Len(fab) + Len(c) = 8
      BY <1>4, <1>8
    <2>2. JoinedTo(fab, c, 8)
      BY <1>4, <1>8, <2>1, Joined, Zenon
    <2> QED
      BY <2>2 DEF JoinedTo
  <1> HIDE DEF fabc
  <1>10. fabce \in Seq(Octet) /\ Len(fabce) = 10
    <2>1. 10 \in Nat /\ Len(fabc) + Len(e) = 10
      BY <1>4, <1>9
    <2>2. JoinedTo(fabc, e, 10)
      BY <1>4, <1>9, <2>1, Joined, Zenon
    <2> QED
      BY <2>2 DEF JoinedTo
  <1>11. /\ Grouped(id, f, a) /\ Grouped(id, fa, b) /\ Grouped(id, fab, c)
         /\ Grouped(id, fabc, e)
    BY <1>2, <1>3, <1>4, <1>7, <1>8, <1>9, GroupedEither
  <1>12. own = id \o fabce
    BY <1>6, <1>11, Zenon DEF Grouped, fa, fab, fabc, fabce
  <1> HIDE DEF fabce
  <1>13. SplitHeader(d, own)
    BY <1>10, <1>12 DEF SplitHeader, id
  <1> QED
    BY <1>13 DEF own

LEMMA Echoes ==
    ASSUME NEW d \in Seq(Octet), PlainName(d, HeaderLength),
           NEW aa \in {0, 1}, NEW rcode \in 0 .. 15, NEW ancount \in Nat, NEW nscount \in Nat,
           NEW arcount \in Nat, NEW rest
    PROVE  EchoOf(d, own_header(parse_header(d).id, aa, rcode, 1, ancount, nscount, arcount)
                         \o dump_question(parse_question(d, HeaderLength)) \o rest)
  <1> DEFINE own == own_header(parse_header(d).id, aa, rcode, 1, ancount, nscount, arcount)
             question == dump_question(parse_question(d, HeaderLength))
  <1>1. 1 \in Nat /\ HeaderLength \in Nat
    BY DEF HeaderLength
  <1>2. question = QuestionOctets(d)
    BY <1>1, QuestionWrittenBack DEF QuestionOctets, QuestionEnd
  <1>a. SplitHeader(d, own)
    BY <1>1, OwnHeaderSplit
  <1> HIDE DEF own, question
  <1>3. PICK counts \in Seq(Octet) : Len(counts) = 10 /\ own = Octets(d, 0, 2) \o counts
    BY <1>a, Zenon DEF SplitHeader
  <1>4. own \o question \o rest = Octets(d, 0, 2) \o counts \o QuestionOctets(d) \o rest
    BY <1>2, <1>3
  <1>5. EchoOf(d, own \o question \o rest)
    BY <1>3, <1>4 DEF EchoOf
  <1> QED
    BY <1>5 DEF own, question

LEMMA ReceiveQueryEchoes ==
    ASSUME Inv, NEW d \in Datagram, ReceiveQuery(d)
    PROVE  EchoedQuestion'
  <1> DEFINE h == parse_header(d)
             q == parse_question(d, HeaderLength)
             list == Found(q.qtype, q.qname)
  <1>1. d \in Seq(Octet) /\ HeaderLength \in Nat
    BY MessagesAssumption, IdsTyped DEF HeaderLength
  <1>2. \/ Reply("forwarded", d, Forwarded(d, q))
        \/ Reply("blocked", d, Blocked(h, q))
        \/ Reply("answered", d, Answered(h, q, list))
    BY Zenon DEF ReceiveQuery
  <1>3. q.qname \in Names
    BY NamesTyped DEF Asked
  <1>4. list \in Seq(Entry)
    <2> HIDE DEF q
    <2> QED
      BY <1>3, FoundTyped DEF Inv
  <1>5. CASE Reply("forwarded", d, Forwarded(d, q))
    <2> HIDE DEF q, h, list
    <2> QED
      BY <1>5 DEF Reply, EchoedQuestion
  <1>6. CASE Reply("blocked", d, Blocked(h, q))
    <2> DEFINE rest == dump_error_authority(SoaData)
               own == own_header(h.id, 1, NAME_ERROR, 1, 0, 1, 0)
    <2>1. Blocked(h, q) = own \o dump_question(q) \o rest
      BY DEF Blocked, get_error_header
    <2>2. 1 \in {0, 1} /\ NAME_ERROR \in 0 .. 15 /\ 0 \in Nat /\ 1 \in Nat
      BY DEF NAME_ERROR
    <2>3. PlainName(d, HeaderLength) => EchoOf(d, own \o dump_question(q) \o rest)
      BY <1>1, <2>2, Echoes
    <2> HIDE DEF q, h, list, own, rest
    <2>4. last' = [kind |-> "blocked", in |-> d, out |-> Blocked(h, q)]
      BY <1>6 DEF Reply
    <2> QED
      BY <2>1, <2>3, <2>4 DEF EchoedQuestion
  <1>7. CASE Reply("answered", d, Answered(h, q, list))
    <2> DEFINE aliases == IF q.qtype = A THEN Found(CNAME, q.qname) ELSE NoList
               body == aliases \o list
               rest == FlattenSeq([k \in DOMAIN body |-> SentRecord(body[k])])
               n1 == CountIn(list, "ANSWER")
               n2 == CountIn(list, "AUTHORITY")
               n3 == CountIn(list, "ADDITIONAL")
               own == own_header(h.id, 0, 0, 1, n1, n2, n3)
    <2>1. Answered(h, q, list) = own \o dump_question(q) \o rest
      BY Zenon DEF Answered
    <2>2. n1 \in Nat /\ n2 \in Nat /\ n3 \in Nat
      BY <1>4, CountTyped
    <2> HIDE DEF rest, n1, n2, n3
    <2>3. PlainName(d, HeaderLength) => EchoOf(d, own \o dump_question(q) \o rest)
      <3>1. 0 \in {0, 1} /\ 0 \in 0 .. 15
        OBVIOUS
      <3> QED
        BY <1>1, <2>2, <3>1, Echoes
    <2> HIDE DEF q, h, list, own
    <2>4. last' = [kind |-> "answered", in |-> d, out |-> Answered(h, q, list)]
      BY <1>7 DEF Reply
    <2> QED
      BY <2>1, <2>3, <2>4 DEF EchoedQuestion
  <1> QED
    BY <1>2, <1>5, <1>6, <1>7

(* A query that is answered from the cache or refused as blocked gets its  *)
(* id and its question back octet for octet, in their places, if its name  *)
(* is plain (handle.c:85-101, 119-153).                                    *)
THEOREM QuestionComesBack == Spec => []EchoedQuestion
  <1>1. Init => EchoedQuestion
    BY DEF Init, Nothing, EchoedQuestion
  <1>2. Inv /\ EchoedQuestion /\ [Next]_vars => EchoedQuestion'
    <2> SUFFICES ASSUME Inv, EchoedQuestion, [Next]_vars
                 PROVE  EchoedQuestion'
      OBVIOUS
    <2>1. ASSUME NEW d \in Datagram, ReceiveResponse(d)
          PROVE  EchoedQuestion'
      BY <2>1 DEF ReceiveResponse, EchoedQuestion
    <2>2. ASSUME NEW d \in Datagram, RefuseMalformed(d)
          PROVE  EchoedQuestion'
      BY <2>2 DEF RefuseMalformed, Reply, EchoedQuestion
    <2>3. ASSUME NEW d \in Datagram, ReceiveQuery(d)
          PROVE  EchoedQuestion'
      BY <2>3, ReceiveQueryEchoes
    <2>4. CASE UNCHANGED vars
      BY <2>4 DEF vars, EchoedQuestion
    <2> QED
      BY <2>1, <2>2, <2>3, <2>4 DEF Next
  <1> QED
    BY <1>1, <1>2, InitInv, NextInv, PTL DEF Spec
-----------------------------------------------------------------------------
(* What a reader of the format finds: the labels of a plain name are the   *)
(* octets between their lengths, wherever the name stands.                 *)

LEMMA FormatOctets ==
    ASSUME NEW d \in Seq(Octet), NEW p \in Nat
    PROVE  Format!Octet(d, p) = At(d, p) /\ Format!Short(d, p) = ntohs(d, p)
  <1>1. \A q : Format!Octet(d, q) = At(d, q)
    BY DEF Format!Octet, At
  <1> DEFINE x == At(d, p)
             y == At(d, p + 1)
  <1>2. x \in Nat /\ y \in Nat
    BY AtNat
  <1>3. Format!Short(d, p) = x * 256 + y /\ ntohs(d, p) = 256 * x + y
    BY <1>1 DEF Format!Short, ntohs
  <1> HIDE DEF x, y
  <1>4. x * 256 + y = 256 * x + y
    BY <1>2, SMT
  <1> QED
    BY <1>1, <1>3, <1>4

LEMMA FormatLong ==
    ASSUME NEW d \in Seq(Octet), NEW p \in Nat
    PROVE  Format!Long(d, p) = ntohl(d, p)
  <1> DEFINE x == ntohs(d, p)
             y == ntohs(d, p + 2)
  <1>1. p + 2 \in Nat
    OBVIOUS
  <1>2. x \in Nat /\ y \in Nat
    BY <1>1, NtohsTyped
  <1>3. Format!Short(d, p) = x /\ Format!Short(d, p + 2) = y
    BY <1>1, FormatOctets
  <1>4. Format!Long(d, p) = x * 65536 + y
    BY <1>3, SMT DEF Format!Long
  <1>5. ntohl(d, p) = 65536 * x + y
    BY SMT DEF ntohl
  <1> HIDE DEF x, y
  <1>6. x * 65536 + y = 65536 * x + y
    BY <1>2, SMT
  <1> QED
    BY <1>4, <1>5, <1>6

NameValues == [labels: Seq(Seq(Octet)), end: Nat]

(* The steps of the reader.                                                *)
LEMMA StepIs ==
    ASSUME NEW d \in Seq(Octet), NEW p \in Nat, NEW from
    PROVE  /\ At(d, p) = 0 => Format!NameStep(d, from, p) = Format!Name(<<>>, p + 1)
           /\ At(d, p) \in 1 .. Pointer - 1 =>
                 Format!NameStep(d, from, p)
                     = Format!Prefixed(Octets(d, p + 1, At(d, p)), from[p + At(d, p) + 1])
           /\ At(d, p) >= Pointer =>
                 Format!NameStep(d, from, p)
                     = Format!Name(IF Format!Target(d, p) < p
                                     THEN from[Format!Target(d, p)].labels ELSE <<>>, p + 2)
  <1> DEFINE n == At(d, p)
             label == [k \in 1 .. n |-> Format!Octet(d, p + k)]
  <1>1. n \in Nat /\ Format!Octet(d, p) = n
    BY AtNat, FormatOctets
  <1>2. label = Octets(d, p + 1, n)
    <2>1. \A k \in 1 .. n : Format!Octet(d, p + k) = At(d, p + 1 + k - 1)
      <3> SUFFICES ASSUME NEW k \in 1 .. n
                   PROVE  Format!Octet(d, p + k) = At(d, p + 1 + k - 1)
        OBVIOUS
      <3>1. p + k \in Nat /\ p + 1 + k - 1 = p + k
        BY <1>1
      <3> QED
        BY <3>1, FormatOctets
    <2> QED
      BY <2>1 DEF Octets
  <1>3. Format!NameStep(d, from, p)
            = CASE n = 0 -> Format!Name(<<>>, p + 1)
                [] n >= 192 ->
                      Format!Name(IF Format!Target(d, p) < p
                                    THEN from[Format!Target(d, p)].labels ELSE <<>>, p + 2)
                [] OTHER -> Format!Prefixed(label, from[p + n + 1])
    BY <1>1, Zenon DEF Format!NameStep
  <1> HIDE DEF n, label
  <1>4. Pointer = 192
    BY DEF Pointer
  <1>5. n = 0 => Format!NameStep(d, from, p) = Format!Name(<<>>, p + 1)
    BY <1>3
  <1>6. ASSUME n \in 1 .. Pointer - 1
        PROVE  Format!NameStep(d, from, p) = Format!Prefixed(label, from[p + n + 1])
    <2>1. n # 0 /\ ~ n >= 192
      BY <1>4, <1>6
    <2> QED
      BY <1>3, <2>1
  <1>7. ASSUME n >= Pointer
        PROVE  Format!NameStep(d, from, p)
                   = Format!Name(IF Format!Target(d, p) < p
                                   THEN from[Format!Target(d, p)].labels ELSE <<>>, p + 2)
    <2>1. n # 0 /\ n >= 192
      BY <1>1, <1>4, <1>7
    <2> QED
      BY <1>3, <2>1
  <1> QED
    BY <1>2, <1>5, <1>6, <1>7 DEF n

LEMMA TargetTyped ==
    ASSUME NEW d \in Seq(Octet), NEW p \in Nat, At(d, p) >= Pointer
    PROVE  /\ Format!Target(d, p) \in Nat
           /\ At(d, p) = Pointer => Format!Target(d, p) = At(d, p + 1)
  <1> DEFINE x == At(d, p)
             y == At(d, p + 1)
  <1>1. x \in Nat /\ y \in Nat /\ x >= 192 /\ Pointer = 192
    BY AtNat, SMTT(30) DEF Pointer
  <1>2. Format!Target(d, p) = ntohs(d, p) - 49152
    BY FormatOctets, SMT DEF Format!Target
  <1>3. ntohs(d, p) = 256 * x + y
    BY SMT DEF ntohs
  <1> HIDE DEF x, y
  <1>4. 256 * x + y - 49152 \in Nat /\ (x = 192 => 256 * x + y - 49152 = y)
    BY <1>1, SMT
  <1> QED
    BY <1>1, <1>2, <1>3, <1>4, SMT DEF x, y

LEMMA StepTyped ==
    ASSUME NEW d \in Seq(Octet), NEW p \in Nat, NEW from \in [Nat -> NameValues]
    PROVE  Format!NameStep(d, from, p) \in NameValues
  <1> DEFINE n == At(d, p)
  <1>1. n \in Nat /\ Pointer = 192
    BY AtNat DEF Pointer
  <1>2. CASE n = 0
    <2>1. Format!NameStep(d, from, p) = Format!Name(<<>>, p + 1)
      BY <1>2, StepIs
    <2>2. <<>> \in Seq(Seq(Octet)) /\ p + 1 \in Nat
      OBVIOUS
    <2> QED
      BY <2>1, <2>2, SMT DEF Format!Name, NameValues
  <1>3. CASE n \in 1 .. Pointer - 1
    <2> DEFINE label == Octets(d, p + 1, n)
               rest == from[p + n + 1]
    <2>1. Format!NameStep(d, from, p) = Format!Prefixed(label, rest)
      BY <1>3, StepIs
    <2>2. p + 1 \in Nat /\ p + n + 1 \in Nat
      BY <1>1
    <2>3. label \in Seq(Octet)
      BY <1>1, <2>2, OctetsTyped
    <2>4. rest \in NameValues
      BY <2>2
    <2> HIDE DEF label, rest
    <2>5. rest.labels \in Seq(Seq(Octet)) /\ rest.end \in Nat
      BY <2>4 DEF NameValues
    <2>6. <<label>> \in Seq(Seq(Octet))
      BY <2>3
    <2>7. <<label>> \o rest.labels \in Seq(Seq(Octet))
      BY <2>5, <2>6, ConcatProperties
    <2> QED
      BY <2>1, <2>5, <2>7 DEF Format!Prefixed, Format!Name, NameValues
  <1>4. CASE n >= Pointer
    <2> DEFINE t == Format!Target(d, p)
               labels == IF t < p THEN from[t].labels ELSE <<>>
    <2>1. Format!NameStep(d, from, p) = Format!Name(labels, p + 2)
      BY <1>4, StepIs
    <2>2. t \in Nat
      BY <1>4, TargetTyped
    <2> HIDE DEF t
    <2>3. from[t] \in NameValues
      BY <2>2
    <2>4. from[t].labels \in Seq(Seq(Octet))
      BY <2>3 DEF NameValues
    <2>5. <<>> \in Seq(Seq(Octet))
      OBVIOUS
    <2>6. labels \in Seq(Seq(Octet))
      BY <2>4, <2>5
    <2>7. p + 2 \in Nat
      OBVIOUS
    <2> HIDE DEF labels
    <2> QED
      BY <2>1, <2>6, <2>7 DEF Format!Name, NameValues
  <1>5. n = 0 \/ n \in 1 .. Pointer - 1 \/ n >= Pointer
    <2> HIDE DEF n
    <2> QED
      BY <1>1
  <1> QED
    BY <1>2, <1>3, <1>4, <1>5, Zenon

NamesIn(d) ==
    CHOOSE from :
        from = [steps \in 0 .. Len(d) + 2 |->
                   IF steps = 0 THEN [q \in Nat |-> Format!Name(<<>>, q)]
                                ELSE [q \in Nat |-> Format!NameStep(d, from[steps - 1], q)]]

ReadBySteps(d, g) ==
    /\ \A k \in 1 .. Len(d) + 2 : \A q \in Nat : g[k][q] = Format!NameStep(d, g[k - 1], q)
    /\ \A k \in 0 .. Len(d) + 2 : g[k] \in [Nat -> NameValues]
    /\ \A p \in Nat : Format!NameAt(d, p) = g[Len(d) + 2][p]

LEMMA NamesInIs ==
    ASSUME NEW d \in Seq(Octet)
    PROVE  ReadBySteps(d, NamesIn(d))
  <1> DEFINE N == Len(d) + 2
             S == [Nat -> NameValues]
             init == [q \in Nat |-> Format!Name(<<>>, q)]
             After(s) == [q \in Nat |-> Format!NameStep(d, s, q)]
             step == [k \in 1 .. N |-> [s \in S |-> After(s)]]
             Code(f) == [k \in 0 .. N |-> IF k = 0 THEN init ELSE After(f[k - 1])]
             g == NamesIn(d)
  <1>1. N \in Nat
    OBVIOUS
  <1>2. \A s \in S : After(s) \in S
    BY StepTyped
  <1>3. init \in S
    BY DEF Format!Name, NameValues
  <1>4. \A k \in 1 .. N : \A s \in S : step[k][s] = After(s)
    OBVIOUS
  <1>5. g = CHOOSE f : f = Code(f)
    BY Zenon DEF NamesIn
  <1>6. \A p \in Nat : Format!NameAt(d, p) = g[N][p]
    BY Zenon DEF Format!NameAt, NamesIn
  <1>a. \A s : \A q \in Nat : After(s)[q] = Format!NameStep(d, s, q)
    OBVIOUS
  <1> HIDE DEF N, S, init, step, After, g
  <1>7. Rounds(N, S, init, step)
    BY <1>1, <1>2, <1>3, <1>4 DEF Rounds
  <1>8. PICK f \in [0 .. N -> S] :
            f = [k \in 0 .. N |-> IF k = 0 THEN init ELSE step[k][f[k - 1]]]
    BY <1>7, RoundsExist
  <1>9. ASSUME NEW k \in 0 .. N
        PROVE  f[k] = Code(f)[k]
    <2>1. k # 0 => k \in 1 .. N /\ f[k - 1] \in S
      BY <1>1
    <2> QED
      BY <1>4, <1>8, <2>1
  <1>10. f = Code(f)
    <2>1. f = [k \in 0 .. N |-> f[k]]
      OBVIOUS
    <2> QED
      BY <1>9, <2>1
  <1>11. g = Code(g)
    <2> HIDE DEF Code
    <2> QED
      BY <1>5, <1>10
  <1>12. ASSUME NEW k \in 1 .. N
         PROVE  g[k] = After(g[k - 1])
    BY <1>1, <1>11
  <1>13. g[0] = init
    BY <1>1, <1>11
  <1>14. \A k \in 0 .. N : g[k] \in S
    <2> DEFINE T == {k \in 0 .. N : g[k] \in S}
    <2>1. 0 \in T
      BY <1>1, <1>3, <1>13
    <2>2. \A k \in 1 .. N : k - 1 \in T => k \in T
      BY <1>1, <1>2, <1>12
    <2>3. \A k \in T : g[k] \in S
      OBVIOUS
    <2> HIDE DEF T
    <2> QED
      BY <1>1, <2>1, <2>2, <2>3, HoldsUpTo
  <1> QED
    BY <1>6, <1>12, <1>14, <1>a DEF ReadBySteps, N, S, g

(* The labels from the one numbered i on.                                  *)
LabelsOf(d, n, start, i) ==
    [m \in 1 .. n - i |-> Octets(d, start[i + m - 1] + 1, At(d, start[i + m - 1]))]

LEMMA FewLabels ==
    ASSUME NEW d \in Seq(Octet), NEW p \in Nat, NEW n, NEW start, LabelsFrom(d, p, n, start)
    PROVE  n <= Len(d)
  <1> DEFINE T == {m \in 0 .. n : start[m] >= m}
  <1>1. /\ n \in Nat /\ start \in [0 .. n -> Nat]
        /\ \A i \in 0 .. n - 1 : LabelAt(d, start[i]) /\ start[i + 1] = start[i] + At(d, start[i]) + 1
    BY DEF LabelsFrom
  <1>2. 0 \in T
    BY <1>1
  <1>3. ASSUME NEW m \in 1 .. n, m - 1 \in T
        PROVE  m \in T
    <2>1. m - 1 \in 0 .. n - 1 /\ m \in 0 .. n /\ m - 1 + 1 = m /\ m - 1 \in 0 .. n
      BY <1>1
    <2>2. start[m] = start[m - 1] + At(d, start[m - 1]) + 1
      BY <1>1, <2>1
    <2>3. start[m - 1] \in Nat /\ start[m - 1] >= m - 1
      BY <1>1, <1>3, <2>1
    <2>4. At(d, start[m - 1]) \in Nat
      BY <2>3, AtNat
    <2>5. start[m] >= m
      BY <1>1, <2>2, <2>3, <2>4
    <2> QED
      BY <2>1, <2>5
  <1>4. \A m \in T : start[m] >= m
    OBVIOUS
  <1> HIDE DEF T
  <1>5. \A m \in 1 .. n : m - 1 \in T => m \in T
    BY <1>3
  <1>6. \A m \in 0 .. n : m \in T
    BY <1>1, <1>2, <1>5, HoldsUpTo
  <1> SUFFICES ASSUME n > 0
               PROVE  n <= Len(d)
    BY <1>1
  <1>7. n - 1 \in 0 .. n - 1 /\ n - 1 \in 0 .. n
    BY <1>1
  <1>8. start[n - 1] \in Nat /\ start[n - 1] >= n - 1 /\ LabelAt(d, start[n - 1])
    BY <1>1, <1>4, <1>6, <1>7
  <1>9. At(d, start[n - 1]) # 0
    BY <1>8 DEF LabelAt
  <1>10. ~ start[n - 1] >= Len(d)
    BY <1>8, <1>9, AtTyped
  <1> QED
    BY <1>1, <1>8, <1>10

LEMMA LabelsPrefixed ==
    ASSUME NEW d \in Seq(Octet), NEW n \in Nat, NEW start \in [0 .. n -> Nat],
           NEW i \in 0 .. n - 1
    PROVE  <<Octets(d, start[i] + 1, At(d, start[i]))>> \o LabelsOf(d, n, start, i + 1)
               = LabelsOf(d, n, start, i)
  <1> DEFINE label == Octets(d, start[i] + 1, At(d, start[i]))
             rest == LabelsOf(d, n, start, i + 1)
             all == LabelsOf(d, n, start, i)
             T == Seq(Octet)
  <1>1. \A m \in 0 .. n : Octets(d, start[m] + 1, At(d, start[m])) \in T
    <2> SUFFICES ASSUME NEW m \in 0 .. n
                 PROVE  Octets(d, start[m] + 1, At(d, start[m])) \in T
      OBVIOUS
    <2>1. start[m] \in Nat /\ start[m] + 1 \in Nat
      OBVIOUS
    <2>2. At(d, start[m]) \in Nat
      BY <2>1, AtNat
    <2> QED
      BY <2>1, <2>2, OctetsTyped
  <1>2. /\ rest \in Seq(T) /\ Len(rest) = n - i - 1
        /\ \A m \in 1 .. n - i - 1 :
              rest[m] = Octets(d, start[i + m] + 1, At(d, start[i + m]))
    <2>1. n - (i + 1) = n - i - 1 /\ n - i - 1 \in Nat
      OBVIOUS
    <2>2. \A m \in 1 .. n - i - 1 : i + 1 + m - 1 = i + m /\ i + m \in 0 .. n
      OBVIOUS
    <2>3. rest = [m \in 1 .. n - i - 1 |-> Octets(d, start[i + m] + 1, At(d, start[i + m]))]
      BY <2>1, <2>2 DEF LabelsOf
    <2>4. \A m \in 1 .. n - i - 1 : Octets(d, start[i + m] + 1, At(d, start[i + m])) \in T
      BY <1>1, <2>2
    <2> DEFINE c == n - i - 1
               F(m) == Octets(d, start[i + m] + 1, At(d, start[i + m]))
    <2>5. c \in Nat /\ (\A m \in 1 .. c : F(m) \in T) /\ rest = [m \in 1 .. c |-> F(m)]
      BY <2>1, <2>3, <2>4
    <2> HIDE DEF c, F, T, rest
    <2>6. rest \in Seq(T) /\ Len(rest) = c /\ \A m \in 1 .. c : rest[m] = F(m)
      BY <2>5
    <2> QED
      BY <2>6 DEF c, F
  <1>3. /\ all \in Seq(T) /\ Len(all) = n - i
        /\ \A m \in 1 .. n - i :
              all[m] = Octets(d, start[i + m - 1] + 1, At(d, start[i + m - 1]))
    <2>1. n - i \in Nat /\ \A m \in 1 .. n - i : i + m - 1 \in 0 .. n
      OBVIOUS
    <2> QED
      BY <1>1, <2>1 DEF LabelsOf
  <1>4. label \in T
    BY <1>1
  <1> HIDE DEF rest, all, T
  <1> DEFINE both == <<label>> \o rest
  <1>5. /\ both \in Seq(T) /\ Len(both) = n - i /\ both[1] = label
        /\ \A m \in 2 .. n - i : both[m] = rest[m - 1]
    <2> HIDE DEF label
    <2>1. <<label>> \in Seq(T) /\ Len(<<label>>) = 1 /\ <<label>>[1] = label
      BY <1>4
    <2>2. both \in Seq(T)
      BY <1>2, <2>1, ConcatProperties
    <2>3. Len(both) = 1 + (n - i - 1) /\ both[1] = label
      BY <1>2, <1>4
    <2>4. ASSUME NEW m \in 2 .. n - i
          PROVE  both[m] = rest[m - 1]
      <3>1. m \in 1 .. Len(<<label>>) + Len(rest) /\ ~ m <= Len(<<label>>)
        BY <1>2, <2>1
      <3>2. both[m] = rest[m - Len(<<label>>)]
        BY <1>2, <2>1, <3>1, ConcatProperties
      <3> QED
        BY <2>1, <3>2
    <2> QED
      BY <2>2, <2>3, <2>4
  <1>6. \A m \in 1 .. n - i : both[m] = all[m]
    <2> SUFFICES ASSUME NEW m \in 1 .. n - i
                 PROVE  both[m] = all[m]
      OBVIOUS
    <2>1. CASE m = 1
      <3>1. i + m - 1 = i
        BY <2>1
      <3> QED
        BY <1>3, <1>5, <2>1, <3>1
    <2>2. CASE m # 1
      <3>1. m - 1 \in 1 .. n - i - 1 /\ m \in 2 .. n - i /\ i + (m - 1) = i + m - 1
        BY <2>2
      <3> QED
        BY <1>2, <1>3, <1>5, <3>1
    <2> QED
      BY <2>1, <2>2
  <1> HIDE DEF both, label
  <1>7. both = all
    BY <1>3, <1>5, <1>6, SeqEqual
  <1> QED
    BY <1>7 DEF both, all, rest, label

LEMMA NameRead ==
    ASSUME NEW d \in Seq(Octet), NEW p \in Nat, NEW n, NEW start, LabelsFrom(d, p, n, start)
    PROVE  \A k \in n + 1 .. Len(d) + 2 :
               NamesIn(d)[k][p] = Format!Name(LabelsOf(d, n, start, 0), start[n] + 1)
  <1> DEFINE N == Len(d) + 2
             g == NamesIn(d)
             end == start[n] + 1
             Got(j) == \A k \in j + 1 .. N :
                           g[k][start[n - j]] = Format!Name(LabelsOf(d, n, start, n - j), end)
             T == {j \in 0 .. n : Got(j)}
  <1>1. /\ n \in Nat /\ start \in [0 .. n -> Nat] /\ start[0] = p /\ At(d, start[n]) = 0
        /\ \A i \in 0 .. n - 1 : LabelAt(d, start[i]) /\ start[i + 1] = start[i] + At(d, start[i]) + 1
    BY DEF LabelsFrom
  <1>2. /\ N \in Nat
        /\ \A k \in 1 .. N : \A q \in Nat : g[k][q] = Format!NameStep(d, g[k - 1], q)
    BY NamesInIs DEF ReadBySteps
  <1> HIDE DEF N, g, end
  <1>3. 0 \in T
    <2>1. n - 0 = n /\ n \in 0 .. n /\ start[n] \in Nat
      BY <1>1
    <2>2. LabelsOf(d, n, start, n) = <<>>
      <3>1. 1 .. n - n = {}
        BY <1>1
      <3> QED
        BY <3>1 DEF LabelsOf
    <2>3. ASSUME NEW k \in 0 + 1 .. N
          PROVE  g[k][start[n]] = Format!Name(<<>>, end)
      <3>1. k \in 1 .. N
        OBVIOUS
      <3>2. g[k][start[n]] = Format!NameStep(d, g[k - 1], start[n])
        BY <1>2, <2>1, <3>1
      <3> QED
        BY <1>1, <2>1, <3>2, StepIs DEF end
    <2>4. Got(0)
      BY <2>1, <2>2, <2>3
    <2>5. 0 \in 0 .. n
      BY <1>1
    <2> HIDE DEF Got
    <2> QED
      BY <2>4, <2>5
  <1>4. ASSUME NEW j \in 1 .. n, j - 1 \in T
        PROVE  j \in T
    <2> DEFINE i == n - j
               s == start[i]
               label == Octets(d, s + 1, At(d, s))
               rest == LabelsOf(d, n, start, i + 1)
    <2>1. i \in 0 .. n - 1 /\ n - (j - 1) = i + 1 /\ i \in 0 .. n /\ j \in 0 .. n
      BY <1>1
    <2>2. s \in Nat /\ LabelAt(d, s) /\ start[i + 1] = s + At(d, s) + 1
      BY <1>1, <2>1
    <2>3. ASSUME NEW k \in j + 1 .. N
          PROVE  g[k][s] = Format!Name(LabelsOf(d, n, start, i), end)
      <3>1. k \in 1 .. N /\ k - 1 \in (j - 1) + 1 .. N
        BY <1>1, <1>2
      <3>2. g[k][s] = Format!NameStep(d, g[k - 1], s)
        BY <1>2, <2>2, <3>1
      <3>3. g[k - 1][start[i + 1]] = Format!Name(rest, end)
        BY <1>4, <2>1, <3>1
      <3>4. At(d, s) \in 1 .. Pointer - 1
        BY <2>2 DEF LabelAt
      <3> HIDE DEF s, i, rest, label
      <3>5. g[k][s] = Format!Prefixed(Octets(d, s + 1, At(d, s)), g[k - 1][s + At(d, s) + 1])
        BY <2>2, <3>2, <3>4, StepIs
      <3>6. g[k][s] = Format!Prefixed(label, Format!Name(rest, end))
        BY <2>2, <3>3, <3>5 DEF label
      <3>7. g[k][s] = Format!Name(<<label>> \o rest, end)
        BY <3>6 DEF Format!Prefixed, Format!Name
      <3>8. <<label>> \o rest = LabelsOf(d, n, start, i)
        BY <1>1, <2>1, LabelsPrefixed DEF label, s, rest
      <3> QED
        BY <3>7, <3>8
    <2>4. Got(j)
      BY <2>3
    <2> HIDE DEF Got
    <2> QED
      BY <2>1, <2>4
  <1>5. \A j \in T : Got(j)
    OBVIOUS
  <1> HIDE DEF T, Got
  <1>6. \A j \in 1 .. n : j - 1 \in T => j \in T
    BY <1>4
  <1>7. Got(n)
    <2>1. \A j \in 0 .. n : j \in T
      BY <1>1, <1>3, <1>6, HoldsUpTo
    <2> QED
      BY <1>1, <1>5, <2>1
  <1>8. n - n = 0
    BY <1>1
  <1> QED
    BY <1>1, <1>7, <1>8 DEF Got, N, g, end

LEMMA PlainMeant ==
    ASSUME NEW d \in Seq(Octet), NEW p \in Nat, NEW n, NEW start, LabelsFrom(d, p, n, start)
    PROVE  Format!NameAt(d, p) = Format!Name(LabelsOf(d, n, start, 0), start[n] + 1)
  <1>1. n \in Nat /\ n <= Len(d)
    BY FewLabels DEF LabelsFrom
  <1>2. Len(d) + 2 \in n + 1 .. Len(d) + 2
    BY <1>1
  <1>3. Format!NameAt(d, p) = NamesIn(d)[Len(d) + 2][p]
    BY NamesInIs DEF ReadBySteps
  <1> QED
    BY <1>2, <1>3, NameRead

LEMMA PointerMeant ==
    ASSUME NEW d \in Seq(Octet), NEW p \in Nat, At(d, p) = Pointer, At(d, p + 1) < p,
           NEW n, NEW start, LabelsFrom(d, At(d, p + 1), n, start)
    PROVE  Format!NameAt(d, p) = Format!Name(LabelsOf(d, n, start, 0), p + 2)
  <1> DEFINE t == At(d, p + 1)
             N == Len(d) + 2
             g == NamesIn(d)
             labels == LabelsOf(d, n, start, 0)
  <1>1. t \in Nat
    BY AtNat
  <1>2. n \in Nat /\ n <= Len(d)
    BY <1>1, FewLabels DEF LabelsFrom
  <1>3. N - 1 \in n + 1 .. N /\ N \in 1 .. N
    BY <1>2
  <1>4. Format!NameAt(d, p) = g[N][p] /\ g[N][p] = Format!NameStep(d, g[N - 1], p)
    BY <1>3, NamesInIs DEF ReadBySteps
  <1>5. g[N - 1][t] = Format!Name(labels, start[n] + 1)
    BY <1>1, <1>3, NameRead
  <1>6. At(d, p) >= Pointer
    BY DEF Pointer
  <1>7. Format!Target(d, p) = t
    BY <1>6, TargetTyped
  <1> HIDE DEF g, N, labels
  <1>8. Format!NameStep(d, g[N - 1], p)
            = Format!Name(IF Format!Target(d, p) < p
                            THEN g[N - 1][Format!Target(d, p)].labels ELSE <<>>, p + 2)
    BY <1>6, StepIs
  <1>9. Format!NameStep(d, g[N - 1], p) = Format!Name(g[N - 1][t].labels, p + 2)
    BY <1>7, <1>8
  <1>10. g[N - 1][t].labels = labels
    BY <1>5 DEF Format!Name
  <1> QED
    BY <1>4, <1>9, <1>10 DEF labels

(* The c octets at p of datagram d are at q of datagram out.               *)
Copied(d, p, out, q, c) == \A j \in 0 .. c - 1 : At(out, q + j) = At(d, p + j)

LEMMA OctetsCopied ==
    ASSUME NEW d \in Seq(Octet), NEW p \in Nat, NEW out \in Seq(Octet), NEW q \in Nat, NEW c \in Nat,
           Octets(out, q, c) = Octets(d, p, c)
    PROVE  Copied(d, p, out, q, c)
  <1> SUFFICES ASSUME NEW j \in 0 .. c - 1
               PROVE  At(out, q + j) = At(d, p + j)
    BY DEF Copied
  <1>1. j + 1 \in 1 .. c /\ q + (j + 1) - 1 = q + j /\ p + (j + 1) - 1 = p + j
    OBVIOUS
  <1>2. /\ \A k \in 1 .. c : Octets(out, q, c)[k] = At(out, q + k - 1)
        /\ \A k \in 1 .. c : Octets(d, p, c)[k] = At(d, p + k - 1)
    BY OctetsAt
  <1>3. /\ Octets(out, q, c)[j + 1] = At(out, q + (j + 1) - 1)
        /\ Octets(d, p, c)[j + 1] = At(d, p + (j + 1) - 1)
    BY <1>1, <1>2, Zenon
  <1> QED
    BY <1>1, <1>3

LEMMA LabelCopied ==
    ASSUME NEW d \in Seq(Octet), NEW out \in Seq(Octet), NEW s \in Nat, NEW t \in Nat, LabelAt(d, s),
           \A j \in 0 .. At(d, s) : At(out, t + j) = At(d, s + j)
    PROVE  /\ LabelAt(out, t) /\ At(out, t) = At(d, s)
           /\ Octets(out, t + 1, At(out, t)) = Octets(d, s + 1, At(d, s))
  <1> DEFINE n == At(d, s)
  <1>1. n \in Nat
    BY AtNat
  <1>2. At(out, t) = n
    <2>1. 0 \in 0 .. n /\ t + 0 = t /\ s + 0 = s
      BY <1>1
    <2> QED
      BY <2>1
  <1>3. /\ n \in 1 .. Pointer - 1
        /\ \A j \in 1 .. n : At(d, s + j) # 0 /\ At(d, s + j) # Dot
    BY DEF LabelAt
  <1>4. \A j \in 1 .. n : At(out, t + j) = At(d, s + j)
    BY <1>1
  <1> HIDE DEF n
  <1>5. LabelAt(out, t)
    BY <1>2, <1>3, <1>4 DEF LabelAt
  <1>6. Octets(out, t + 1, n) = Octets(d, s + 1, n)
    <2>1. \A k \in 1 .. n : At(out, t + 1 + k - 1) = At(d, s + 1 + k - 1)
      <3> SUFFICES ASSUME NEW k \in 1 .. n
                   PROVE  At(out, t + 1 + k - 1) = At(d, s + 1 + k - 1)
        OBVIOUS
      <3>1. t + 1 + k - 1 = t + k /\ s + 1 + k - 1 = s + k
        BY <1>1
      <3> QED
        BY <1>4, <3>1
    <2> QED
      BY <2>1 DEF Octets
  <1> QED
    BY <1>2, <1>5, <1>6 DEF n

(* A plain name that is copied is the same plain name.                     *)
SamePlace(d, n, start, out, q, moved) ==
    /\ LabelsFrom(out, q, n, moved)
    /\ LabelsOf(out, n, moved, 0) = LabelsOf(d, n, start, 0)
    /\ moved[n] - q = start[n] - start[0]

LEMMA PlainCopied ==
    ASSUME NEW d \in Seq(Octet), NEW p \in Nat, NEW n, NEW start, LabelsFrom(d, p, n, start),
           NEW out \in Seq(Octet), NEW q \in Nat, NEW c, c = start[n] + 1 - p,
           Copied(d, p, out, q, c)
    PROVE  \E moved : SamePlace(d, n, start, out, q, moved)
  <1> DEFINE moved == [i \in 0 .. n |-> start[i] - p + q]
  <1>1. /\ n \in Nat /\ start \in [0 .. n -> Nat] /\ start[0] = p /\ At(d, start[n]) = 0
        /\ \A i \in 0 .. n - 1 : LabelAt(d, start[i]) /\ start[i + 1] = start[i] + At(d, start[i]) + 1
    BY DEF LabelsFrom
  <1>2. \A m \in 0 .. n : start[m] \in Nat /\ p <= start[m] /\ start[m] <= start[n]
    <2> SUFFICES ASSUME NEW m \in 0 .. n
                 PROVE  start[m] \in Nat /\ p <= start[m] /\ start[m] <= start[n]
      OBVIOUS
    <2>1. 0 \in 0 .. m /\ n \in 0 .. n /\ m \in 0 .. n
      BY <1>1
    <2> QED
      BY <1>1, <2>1, LabelsGoUp
  <1>3. /\ moved \in [0 .. n -> Nat] /\ \A m \in 0 .. n : moved[m] = start[m] - p + q
    <2>1. \A m \in 0 .. n : start[m] - p + q \in Nat
      BY <1>2
    <2> QED
      BY <2>1
  <1> HIDE DEF moved
  <1>4. start[n] \in Nat /\ p <= start[n] /\ 0 \in 0 .. n /\ n \in 0 .. n
    BY <1>1, <1>2
  <1>5. ASSUME NEW m \in 0 .. n, NEW j \in Nat, start[m] + j <= start[n]
        PROVE  At(out, moved[m] + j) = At(d, start[m] + j)
    <2> DEFINE i == start[m] - p + j
    <2>1. start[m] \in Nat /\ p <= start[m]
      BY <1>2
    <2>2. i \in 0 .. c - 1
      <3> DEFINE a == start[m]
                 b == start[n]
      <3>1. a \in Nat /\ b \in Nat /\ p <= a /\ a + j <= b
        BY <1>4, <1>5, <2>1
      <3> HIDE DEF a, b
      <3>2. a - p + j \in 0 .. (b + 1 - p) - 1
        BY <3>1
      <3> QED
        BY <3>2 DEF a, b
    <2>3. At(out, q + i) = At(d, p + i)
      BY <2>2 DEF Copied
    <2>4. q + i = moved[m] + j /\ p + i = start[m] + j
      BY <1>3, <2>1
    <2> QED
      BY <2>3, <2>4
  <1>6. ASSUME NEW i \in 0 .. n - 1
        PROVE  /\ LabelAt(out, moved[i]) /\ At(out, moved[i]) = At(d, start[i])
               /\ Octets(out, moved[i] + 1, At(out, moved[i]))
                      = Octets(d, start[i] + 1, At(d, start[i]))
    <2>1. i \in 0 .. n /\ i + 1 \in 0 .. n
      BY <1>1
    <2>2. /\ LabelAt(d, start[i]) /\ start[i] \in Nat /\ moved[i] \in Nat
          /\ start[i] + At(d, start[i]) + 1 <= start[n]
      BY <1>1, <1>2, <1>3, <2>1
    <2>3. At(d, start[i]) \in Nat
      BY <2>2, AtNat
    <2>4. \A j \in 0 .. At(d, start[i]) : At(out, moved[i] + j) = At(d, start[i] + j)
      <3> SUFFICES ASSUME NEW j \in 0 .. At(d, start[i])
                   PROVE  At(out, moved[i] + j) = At(d, start[i] + j)
        OBVIOUS
      <3>1. j \in Nat /\ start[i] + j <= start[n]
        BY <1>4, <2>2, <2>3, SMTT(30)
      <3> QED
        BY <1>5, <2>1, <3>1
    <2> QED
      BY <2>2, <2>4, LabelCopied, SMTT(30)
  <1>7. LabelsFrom(out, q, n, moved)
    <2>1. moved[0] = q
      BY <1>1, <1>3, <1>4
    <2>2. At(out, moved[n]) = 0
      <3>1. start[n] + 0 = start[n] /\ moved[n] + 0 = moved[n] /\ moved[n] \in Nat
        BY <1>3, <1>4
      <3> QED
        BY <1>1, <1>4, <1>5, <3>1
    <2>3. \A i \in 0 .. n - 1 : moved[i + 1] = moved[i] + At(out, moved[i]) + 1
      <3> SUFFICES ASSUME NEW i \in 0 .. n - 1
                   PROVE  moved[i + 1] = moved[i] + At(out, moved[i]) + 1
        OBVIOUS
      <3>1. i \in 0 .. n /\ i + 1 \in 0 .. n
        BY <1>1
      <3>2. start[i + 1] = start[i] + At(d, start[i]) + 1 /\ start[i] \in Nat
        BY <1>1, <1>2, <3>1
      <3>3. At(d, start[i]) \in Nat
        BY <3>2, AtNat
      <3>4. moved[i + 1] = start[i + 1] - p + q /\ moved[i] = start[i] - p + q
        BY <1>3, <3>1
      <3> QED
        BY <1>6, <3>2, <3>3, <3>4
    <2> QED
      BY <1>1, <1>3, <1>6, <2>1, <2>2, <2>3 DEF LabelsFrom
  <1>8. LabelsOf(out, n, moved, 0) = LabelsOf(d, n, start, 0)
    <2>1. \A m \in 1 .. n - 0 : Octets(out, moved[0 + m - 1] + 1, At(out, moved[0 + m - 1]))
                                    = Octets(d, start[0 + m - 1] + 1, At(d, start[0 + m - 1]))
      <3> SUFFICES ASSUME NEW m \in 1 .. n - 0
                   PROVE  Octets(out, moved[0 + m - 1] + 1, At(out, moved[0 + m - 1]))
                              = Octets(d, start[0 + m - 1] + 1, At(d, start[0 + m - 1]))
        OBVIOUS
      <3>1. 0 + m - 1 \in 0 .. n - 1
        BY <1>1
      <3> QED
        BY <1>6, <3>1
    <2> QED
      BY <2>1 DEF LabelsOf
  <1>9. moved[n] - q = start[n] - start[0]
    BY <1>1, <1>3, <1>4
  <1> QED
    BY <1>7, <1>8, <1>9 DEF SamePlace

LEMMA PlainEnd ==
    ASSUME NEW d \in Seq(Octet), NEW p \in Nat, NEW n, NEW start, LabelsFrom(d, p, n, start)
    PROVE  parse_qname(d, p).end = start[n] + 1
  <1>1. SuffixIs(NameFrom(d)[p], d, n, start, 0)
    BY PlainParsed
  <1>2. NameFrom(d)[p].end = start[n] + 1
    BY <1>1 DEF SuffixIs
  <1> QED
    BY <1>2, ParseUnfolds DEF ParsedName

(* Both readers agree on where a plain name ends; and what the labels are  *)
(* does not depend on where the name is.                                   *)
LEMMA NameCopied ==
    ASSUME NEW d \in Seq(Octet), NEW p \in Nat, PlainName(d, p),
           NEW out \in Seq(Octet), NEW q \in Nat,
           Copied(d, p, out, q, parse_qname(d, p).end - p)
    PROVE  /\ Format!NameAt(d, p).end = parse_qname(d, p).end
           /\ Format!NameAt(out, q)
                  = Format!Name(Format!NameAt(d, p).labels, q + (parse_qname(d, p).end - p))
  <1>1. PICK n, start : LabelsFrom(d, p, n, start)
    BY DEF PlainName
  <1> DEFINE e == parse_qname(d, p).end
             c == e - p
  <1>2. e = start[n] + 1
    BY <1>1, PlainEnd
  <1>3. c = start[n] + 1 - p
    <2> DEFINE a == start[n]
    <2>1. e = a + 1 /\ a \in Nat
      BY <1>1, <1>2 DEF LabelsFrom
    <2> HIDE DEF a, e
    <2>2. e - p = a + 1 - p
      BY <2>1
    <2> QED
      BY <2>2 DEF a
  <1> HIDE DEF c
  <1>4. PICK moved : SamePlace(d, n, start, out, q, moved)
    BY <1>1, <1>3, PlainCopied DEF c
  <1>5. /\ LabelsFrom(out, q, n, moved)
        /\ LabelsOf(out, n, moved, 0) = LabelsOf(d, n, start, 0)
        /\ moved[n] - q = start[n] - start[0]
    BY <1>4 DEF SamePlace
  <1>6. /\ n \in Nat /\ start \in [0 .. n -> Nat] /\ moved \in [0 .. n -> Nat] /\ start[0] = p
    BY <1>1, <1>5 DEF LabelsFrom
  <1>7. start[n] \in Nat /\ moved[n] \in Nat
    BY <1>6
  <1>8. moved[n] + 1 = q + c
    <2> DEFINE a == start[n]
               b == moved[n]
    <2>1. a \in Nat /\ b \in Nat /\ b - q = a - p /\ c = a + 1 - p
      BY <1>3, <1>5, <1>6, <1>7
    <2> HIDE DEF a, b
    <2>2. b + 1 = q + c
      BY <2>1
    <2> QED
      BY <2>2 DEF b
  <1>9. Format!NameAt(d, p) = Format!Name(LabelsOf(d, n, start, 0), start[n] + 1)
    BY <1>1, PlainMeant
  <1>10. Format!NameAt(out, q) = Format!Name(LabelsOf(out, n, moved, 0), moved[n] + 1)
    BY <1>5, PlainMeant
  <1>11. /\ Format!NameAt(d, p).end = start[n] + 1
         /\ Format!NameAt(d, p).labels = LabelsOf(d, n, start, 0)
    BY <1>9 DEF Format!Name
  <1>12. Format!NameAt(out, q) = Format!Name(Format!NameAt(d, p).labels, q + c)
    BY <1>5, <1>8, <1>10, <1>11
  <1> QED
    BY <1>2, <1>11, <1>12 DEF c

LEMMA PointerNamed ==
    ASSUME NEW d \in Seq(Octet), NEW p \in Nat, At(d, p) = Pointer, At(d, p + 1) < p,
           PlainName(d, At(d, p + 1))
    PROVE  Format!NameAt(d, p) = Format!Name(Format!NameAt(d, At(d, p + 1)).labels, p + 2)
  <1> DEFINE t == At(d, p + 1)
  <1>1. t \in Nat
    BY AtNat
  <1>2. PICK n, start : LabelsFrom(d, t, n, start)
    BY DEF PlainName
  <1>3. Format!NameAt(d, p) = Format!Name(LabelsOf(d, n, start, 0), p + 2)
    BY <1>2, PointerMeant
  <1> HIDE DEF t
  <1>4. Format!NameAt(d, t) = Format!Name(LabelsOf(d, n, start, 0), start[n] + 1)
    BY <1>1, <1>2, PlainMeant
  <1>5. Format!NameAt(d, t).labels = LabelsOf(d, n, start, 0)
    BY <1>4 DEF Format!Name
  <1> QED
    BY <1>3, <1>5 DEF t

-----------------------------------------------------------------------------
(* A sequence of octets that stands somewhere in another.                  *)
StandsIn(s, t, k) ==
    k + Len(s) <= Len(t) /\ \A j \in 0 .. Len(s) - 1 : At(t, k + j) = At(s, j)

LEMMA StandsAlone ==
    ASSUME NEW s \in Seq(Octet)
    PROVE  StandsIn(s, s, 0)
  BY DEF StandsIn

LEMMA AtJoined ==
    ASSUME NEW s \in Seq(Octet), NEW t \in Seq(Octet)
    PROVE  /\ s \o t \in Seq(Octet) /\ Len(s \o t) = Len(s) + Len(t)
           /\ \A j \in 0 .. Len(s) - 1 : At(s \o t, j) = At(s, j)
           /\ \A j \in 0 .. Len(t) - 1 : At(s \o t, Len(s) + j) = At(t, j)
  <1> DEFINE u == s \o t
             a == Len(s)
             b == Len(t)
  <1>1. a \in Nat /\ b \in Nat
    OBVIOUS
  <1>2. u \in Seq(Octet) /\ Len(u) = a + b
    BY ConcatProperties
  <1>3. \A i \in 1 .. a + b : u[i] = IF i <= a THEN s[i] ELSE t[i - a]
    BY ConcatProperties
  <1>4. Len(s) = a /\ Len(t) = b
    OBVIOUS
  <1> HIDE DEF u, a, b
  <1>5. ASSUME NEW j \in 0 .. a - 1
        PROVE  At(u, j) = At(s, j)
    <2>1. j + 1 \in 1 .. a + b /\ j + 1 <= a /\ j < Len(u) /\ j < Len(s)
      BY <1>1, <1>2, <1>4
    <2> QED
      BY <1>3, <2>1 DEF At
  <1>6. ASSUME NEW j \in 0 .. b - 1
        PROVE  At(u, a + j) = At(t, j)
    <2> DEFINE k == a + j
               i == k + 1
    <2>1. /\ k \in Nat /\ i \in 1 .. a + b /\ ~ i <= a /\ i - a = j + 1
          /\ k < a + b /\ j < b
      BY <1>1
    <2>2. k < Len(u) /\ j < Len(t)
      BY <1>2, <1>4, <2>1
    <2> HIDE DEF i
    <2>3. u[i] = t[j + 1]
      BY <1>3, <2>1
    <2>4. u[k + 1] = t[j + 1]
      BY <2>3 DEF i
    <2> HIDE DEF k
    <2>5. At(u, k) = At(t, j)
      BY <2>2, <2>4 DEF At
    <2> QED
      BY <2>5 DEF k
  <1> QED
    BY <1>2, <1>5, <1>6 DEF u, a, b

LEMMA StandsLeft ==
    ASSUME NEW s \in Seq(Octet), NEW t \in Seq(Octet), NEW u \in Seq(Octet), NEW k \in Nat,
           StandsIn(s, t, k)
    PROVE  StandsIn(s, t \o u, k)
  <1> DEFINE v == t \o u
  <1>1. /\ Len(v) = Len(t) + Len(u) /\ \A j \in 0 .. Len(t) - 1 : At(v, j) = At(t, j)
    BY AtJoined
  <1>2. /\ k + Len(s) <= Len(t) /\ \A j \in 0 .. Len(s) - 1 : At(t, k + j) = At(s, j)
    BY DEF StandsIn
  <1>3. Len(s) \in Nat /\ Len(t) \in Nat /\ Len(u) \in Nat
    OBVIOUS
  <1> HIDE DEF v
  <1>4. ASSUME NEW j \in 0 .. Len(s) - 1
        PROVE  At(v, k + j) = At(s, j)
    <2>1. k + j \in 0 .. Len(t) - 1
      BY <1>2, <1>3
    <2> QED
      BY <1>1, <1>2, <2>1
  <1>5. k + Len(s) <= Len(v)
    BY <1>1, <1>2, <1>3
  <1> QED
    BY <1>4, <1>5 DEF StandsIn, v

LEMMA StandsRight ==
    ASSUME NEW t \in Seq(Octet), NEW u \in Seq(Octet), NEW n, n = Len(t)
    PROVE  StandsIn(u, t \o u, n)
  <1> DEFINE v == t \o u
             a == Len(t)
             b == Len(u)
  <1>1. Len(v) = a + b /\ \A j \in 0 .. b - 1 : At(v, a + j) = At(u, j)
    BY AtJoined
  <1>2. a \in Nat /\ b \in Nat
    OBVIOUS
  <1>3. a + b <= Len(v)
    <2> HIDE DEF v, a, b
    <2> QED
      BY <1>1, <1>2
  <1> QED
    BY <1>1, <1>3 DEF StandsIn

LEMMA StandsFurther ==
    ASSUME NEW s \in Seq(Octet), NEW t \in Seq(Octet), NEW u \in Seq(Octet), NEW k \in Nat, NEW m \in Nat,
           StandsIn(s, t, k), StandsIn(t, u, m), NEW n, n = m + k
    PROVE  StandsIn(s, u, n)
  <1>1. /\ k + Len(s) <= Len(t) /\ \A j \in 0 .. Len(s) - 1 : At(t, k + j) = At(s, j)
        /\ m + Len(t) <= Len(u) /\ \A j \in 0 .. Len(t) - 1 : At(u, m + j) = At(t, j)
    BY DEF StandsIn
  <1>2. Len(s) \in Nat /\ Len(t) \in Nat /\ Len(u) \in Nat
    OBVIOUS
  <1>3. ASSUME NEW j \in 0 .. Len(s) - 1
        PROVE  At(u, n + j) = At(s, j)
    <2>1. k + j \in 0 .. Len(t) - 1 /\ n + j = m + (k + j)
      BY <1>1, <1>2
    <2> QED
      BY <1>1, <2>1
  <1>4. n + Len(s) <= Len(u)
    BY <1>1, <1>2
  <1> QED
    BY <1>3, <1>4 DEF StandsIn

(* A number that is written is the number that is read.                    *)
LEMMA ShortRead ==
    ASSUME NEW v \in Word, NEW d \in Seq(Octet), NEW p \in Nat, StandsIn(htons(v), d, p)
    PROVE  ntohs(d, p) = v /\ Format!Short(d, p) = v
  <1> DEFINE h == v \div 256
             l == v % 256
  <1>0. v \in Nat /\ v <= 65535
    BY WordMeans, SMT
  <1>1. h % 256 = h /\ 256 * h + l = v
    BY <1>0, SMT
  <1>2. htons(v) = <<h, l>>
    BY <1>1 DEF htons
  <1>a. l \in Nat /\ h \in Nat
    BY <1>0, SMT
  <1> HIDE DEF h, l
  <1>3. Len(htons(v)) = 2 /\ At(htons(v), 0) = h /\ At(htons(v), 1) = l
    BY <1>2 DEF At
  <1>4. 0 \in 0 .. 2 - 1 /\ 1 \in 0 .. 2 - 1 /\ p + 0 = p
    OBVIOUS
  <1>5. At(d, p) = h /\ At(d, p + 1) = l
    BY <1>3, <1>4 DEF StandsIn
  <1>6. ntohs(d, p) = 256 * h + l
    BY <1>5 DEF ntohs
  <1>7. 256 * h + l = v
    BY <1>1
  <1>8. ntohs(d, p) = v
    BY <1>6, <1>7
  <1> QED
    BY <1>8, FormatOctets

LEMMA HalvesBack ==
    ASSUME NEW v \in Nat, NEW high, NEW low, high = v \div 65536, low = v % 65536
    PROVE  65536 * high + low = v
  BY SMT

LEMMA LowHalf ==
    ASSUME NEW v \in Nat, NEW low, low = v % 65536
    PROVE  low \in Word
  BY WordMeans, SMT

LEMMA LongRead ==
    ASSUME NEW v \in Nat, v \div 65536 \in Word, NEW d \in Seq(Octet), NEW p \in Nat,
           StandsIn(htonl(v), d, p)
    PROVE  Format!Long(d, p) = v
  <1> DEFINE high == v \div 65536
             low == v % 65536
             a == htons(high)
             b == htons(low)
  <1>1. high \in Word /\ low \in Word /\ 65536 * high + low = v
    <2>1. high = v \div 65536 /\ low = v % 65536
      OBVIOUS
    <2> HIDE DEF high, low
    <2>2. 65536 * high + low = v
      BY <2>1, HalvesBack, SMTT(30)
    <2>3. high \in Word /\ low \in Word
      BY <2>1, LowHalf
    <2> QED
      BY <2>2, <2>3
  <1>2. htons(v) = b
    <2>1. (v \div 256) % 256 = ((v % 65536) \div 256) % 256 /\ v % 256 = (v % 65536) % 256
      BY SMT
    <2> QED
      BY <2>1 DEF htons
  <1>3. htonl(v) = a \o b
    BY <1>2 DEF htonl
  <1>4. high \in Nat /\ low \in Nat
    <2>1. Word \subseteq Nat
      BY WordMeans, SMT
    <2> QED
      BY <1>1, <2>1
  <1> HIDE DEF high, low
  <1>5. a \in Seq(Octet) /\ b \in Seq(Octet) /\ Len(a) = 2 /\ Len(b) = 2
    BY <1>4, HtonsTyped
  <1> HIDE DEF a, b
  <1>6. StandsIn(a, a \o b, 0) /\ StandsIn(b, a \o b, 2)
    <2>1. 0 \in Nat /\ StandsIn(a, a, 0)
      BY <1>5, StandsAlone
    <2>2. StandsIn(a, a \o b, 0)
      BY <1>5, <2>1, StandsLeft
    <2>a. a \in Seq(Octet) /\ b \in Seq(Octet)
      BY <1>5
    <2>b. 2 = Len(a)
      BY <1>5
    <2>c. \A n : n = Len(a) => StandsIn(b, a \o b, n)
      BY <2>a, StandsRight
    <2>3. StandsIn(b, a \o b, 2)
      BY <2>b, <2>c
    <2> QED
      BY <1>5, <2>2, <2>3
  <1>7. a \o b \in Seq(Octet) /\ StandsIn(a \o b, d, p) /\ p = p + 0 /\ 0 \in Nat /\ 2 \in Nat
        /\ p + 2 \in Nat
    BY <1>3, <1>5, ConcatProperties
  <1>8. StandsIn(a, d, p) /\ StandsIn(b, d, p + 2)
    <2> DEFINE t == a \o b
               q == p + 2
    <2>1. /\ t \in Seq(Octet) /\ StandsIn(t, d, p) /\ StandsIn(a, t, 0) /\ StandsIn(b, t, 2)
          /\ p = p + 0 /\ q = p + 2
      BY <1>6, <1>7
    <2> HIDE DEF t, q
    <2>2. StandsIn(a, d, p)
      BY <1>5, <1>7, <2>1, StandsFurther
    <2>3. StandsIn(b, d, q)
      BY <1>5, <1>7, <2>1, StandsFurther
    <2> QED
      BY <2>2, <2>3 DEF q
  <1>9. ntohs(d, p) = high /\ ntohs(d, p + 2) = low
    BY <1>1, <1>7, <1>8, ShortRead DEF a, b
  <1>10. ntohl(d, p) = 65536 * high + low
    BY <1>9, SMT DEF ntohl
  <1> QED
    BY <1>1, <1>10, FormatLong


(* Two parts of what stands in a sequence stand there next to each other.  *)
LEMMA StandsBoth ==
    ASSUME NEW s \in Seq(Octet), NEW t \in Seq(Octet), NEW u \in Seq(Octet), NEW k \in Nat,
           StandsIn(s \o t, u, k), NEW m, m = k + Len(s)
    PROVE  StandsIn(s, u, k) /\ StandsIn(t, u, m)
  <1> DEFINE v == s \o t
             a == Len(s)
             b == Len(t)
             c == Len(u)
  <1>1. /\ v \in Seq(Octet) /\ Len(v) = a + b
        /\ \A j \in 0 .. a - 1 : At(v, j) = At(s, j)
        /\ \A j \in 0 .. b - 1 : At(v, a + j) = At(t, j)
    BY AtJoined
  <1>2. a \in Nat /\ b \in Nat /\ c \in Nat /\ m = k + a
    OBVIOUS
  <1>3. k + Len(v) <= c /\ \A j \in 0 .. Len(v) - 1 : At(u, k + j) = At(v, j)
    BY DEF StandsIn
  <1> HIDE DEF v, a, b, c
  <1>4. k + a <= c /\ \A j \in 0 .. a - 1 : At(u, k + j) = At(s, j)
    BY <1>1, <1>2, <1>3
  <1>5. m + b <= c
    BY <1>1, <1>2, <1>3
  <1>6. ASSUME NEW j \in 0 .. b - 1
        PROVE  At(u, m + j) = At(t, j)
    <2>a. Len(v) = a + b
      BY <1>1
    <2>b. m = k + a /\ a \in Nat /\ b \in Nat
      BY <1>2
    <2>1. a + j \in 0 .. Len(v) - 1 /\ m + j = k + (a + j)
      BY <2>a, <2>b, SMTT(30)
    <2> QED
      BY <1>1, <1>3, <2>1
  <1> QED
    BY <1>4, <1>5, <1>6 DEF StandsIn, a, b, c

LEMMA WordNat == Word \subseteq Nat
  BY WordMeans, SMT

(* Where a sequence ends that begins at q.                                 *)
EndsAt(s, q, e) == s \in Seq(Octet) /\ e \in Nat /\ e = q + Len(s)

LEMMA EndMoves ==
    ASSUME NEW q \in Nat, NEW s, NEW e, EndsAt(s, q, e), NEW t \in Seq(Octet),
           NEW n, n = Len(t), NEW f, f = e + n
    PROVE  EndsAt(s \o t, q, f)
  <1> DEFINE u == s \o t
             a == Len(s)
             b == Len(t)
  <1>1. s \in Seq(Octet) /\ e \in Nat /\ e = q + a
    BY DEF EndsAt
  <1>2. a \in Nat /\ b \in Nat
    BY <1>1
  <1>3. u \in Seq(Octet) /\ Len(u) = a + b
    BY <1>1, AtJoined
  <1>4. f = e + b
    OBVIOUS
  <1> HIDE DEF u, a, b
  <1>5. f \in Nat /\ f = q + Len(u)
    BY <1>1, <1>2, <1>3, <1>4, SMTT(30)
  <1> QED
    BY <1>3, <1>5 DEF EndsAt, u

LEMMA StandsEnd ==
    ASSUME NEW s, NEW t \in Seq(Octet), NEW u \in Seq(Octet), NEW q \in Nat, NEW e,
           EndsAt(s, q, e), StandsIn(s \o t, u, q)
    PROVE  StandsIn(s, u, q) /\ StandsIn(t, u, e)
  BY StandsBoth DEF EndsAt

(* What a name that is written means in the place where it stands.         *)
NameStands(d, p, out, q, c) ==
    /\ c \in Nat /\ Format!NameAt(d, p).end = p + c
    /\ Format!NameAt(out, q) = Format!Name(Format!NameAt(d, p).labels, q + c)

LEMMA NameMeant ==
    ASSUME NEW d \in Seq(Octet), NEW p \in Nat, PlainName(d, p),
           NEW out \in Seq(Octet), NEW q \in Nat,
           StandsIn(dump_name(parse_qname(d, p).text), out, q)
    PROVE  NameStands(d, p, out, q, Len(dump_name(parse_qname(d, p).text)))
  <1> DEFINE e == parse_qname(d, p).end
             c == e - p
             s == dump_name(parse_qname(d, p).text)
  <1>1. c \in Nat /\ s = Octets(d, p, c)
    BY NameWrittenBack
  <1>2. e \in Nat
    BY ParseTyped DEF ParsedNames
  <1> HIDE DEF e
  <1>3. e = p + c
    BY <1>2
  <1> HIDE DEF c
  <1>4. s \in Seq(Octet) /\ Len(s) = c /\ \A j \in 1 .. c : s[j] = At(d, p + j - 1)
    <2> HIDE DEF s
    <2> QED
      BY <1>1, OctetsTyped, OctetsAt
  <1>5. \A j \in 0 .. c - 1 : At(out, q + j) = At(s, j)
    BY <1>4 DEF StandsIn
  <1> HIDE DEF s
  <1>6. ASSUME NEW j \in 0 .. c - 1
        PROVE  At(out, q + j) = At(d, p + j)
    <2>1. j + 1 \in 1 .. c /\ p + (j + 1) - 1 = p + j /\ j < Len(s)
      BY <1>1, <1>4
    <2>2. At(s, j) = s[j + 1]
      BY <2>1 DEF At
    <2> QED
      BY <1>4, <1>5, <2>1, <2>2
  <1>7. Copied(d, p, out, q, c)
    BY <1>6 DEF Copied
  <1>8. /\ Format!NameAt(d, p).end = e
        /\ Format!NameAt(out, q) = Format!Name(Format!NameAt(d, p).labels, q + c)
    BY <1>7, NameCopied DEF e, c
  <1> QED
    BY <1>1, <1>3, <1>4, <1>8 DEF NameStands, s

(* A question that is written means what it meant where it was read.       *)
QuestionStands(d, p, type, class, out, q, size) ==
    Format!QuestionOf(out, Format!NameAt(out, q))
        = [says |-> <<Format!NameAt(d, p).labels, type, class>>, end |-> q + size]

LEMMA QuestionMeant ==
    ASSUME NEW d \in Seq(Octet), NEW p \in Nat, PlainName(d, p),
           NEW r, r.qname = parse_qname(d, p).text, r.qtype \in Word, r.qclass \in Word,
           NEW out \in Seq(Octet), NEW q \in Nat, StandsIn(dump_question(r), out, q)
    PROVE  QuestionStands(d, p, r.qtype, r.qclass, out, q, Len(dump_question(r)))
  <1> DEFINE n == dump_name(r.qname)
             t == htons(r.qtype)
             u == htons(r.qclass)
             e == q + Len(n)
  <1>1. n \in Seq(Octet)
    BY ParseTyped, DumpNameTyped DEF ParsedNames
  <1>2. t \in Seq(Octet) /\ Len(t) = 2 /\ u \in Seq(Octet) /\ Len(u) = 2
    BY WordNat, HtonsTyped
  <1>3. dump_question(r) = (n \o t) \o u
    BY DEF dump_question
  <1>4. EndsAt(n, q, e) /\ e \in Nat
    BY <1>1 DEF EndsAt
  <1> HIDE DEF n, t, u, e
  <1> DEFINE v == n \o t
             w == v \o u
             f == e + 2
             g == e + 4
  <1>5. f \in Nat /\ g \in Nat /\ g = f + 2
    BY <1>4
  <1>6. EndsAt(v, q, f)
    BY <1>2, <1>4, EndMoves
  <1> HIDE DEF f, g
  <1>a. v \in Seq(Octet)
    BY <1>6 DEF EndsAt
  <1> HIDE DEF v
  <1>7. EndsAt(w, q, g)
    BY <1>2, <1>5, <1>6, EndMoves
  <1>8. StandsIn(w, out, q)
    BY <1>3 DEF w, v
  <1>9. StandsIn(v, out, q) /\ StandsIn(u, out, f)
    BY <1>2, <1>6, <1>8, StandsEnd
  <1>10. StandsIn(n, out, q) /\ StandsIn(t, out, e)
    BY <1>2, <1>4, <1>9, StandsEnd DEF v
  <1>11. NameStands(d, p, out, q, Len(n))
    BY <1>10, NameMeant DEF n
  <1>12. Format!NameAt(out, q) = Format!Name(Format!NameAt(d, p).labels, e)
    BY <1>11 DEF NameStands, e
  <1>13. Format!Short(out, e) = r.qtype /\ Format!Short(out, f) = r.qclass
    BY <1>4, <1>5, <1>9, <1>10, ShortRead DEF t, u
  <1>14. g = q + Len(dump_question(r))
    BY <1>3, <1>7 DEF EndsAt, w, v
  <1> QED
    BY <1>12, <1>13, <1>14 DEF QuestionStands, Format!QuestionOf, Format!Name, f, g

(* What the rdata of a record says, read by itself.                        *)
RdataSays(type, x) == Format!RdataAt(x, type, 0, Len(x))

LEMMA BetweenCopied ==
    ASSUME NEW x \in Seq(Octet), NEW out \in Seq(Octet), NEW q \in Nat,
           Copied(x, 0, out, q, Len(x)), NEW a \in Nat, NEW b \in Nat, b <= Len(x),
           NEW s, s = q + a, NEW t, t = q + b
    PROVE  Format!Between(out, s, t) = Format!Between(x, a, b)
  <1> DEFINE n == Len(x)
  <1>1. n \in Nat /\ b <= n /\ t - s = b - a
    OBVIOUS
  <1>2. /\ \A p : Format!Octet(out, p) = At(out, p)
        /\ \A p : Format!Octet(x, p) = At(x, p)
    BY DEF Format!Octet, At
  <1> HIDE DEF n
  <1>3. ASSUME NEW k \in 1 .. b - a
        PROVE  Format!Octet(out, s + k - 1) = Format!Octet(x, a + k - 1)
    <2> DEFINE j == a + k - 1
    <2>1. j \in 0 .. n - 1 /\ s + k - 1 = q + j /\ 0 + j = j
      BY <1>1
    <2> HIDE DEF j
    <2>2. At(out, q + j) = At(x, 0 + j)
      BY <2>1 DEF Copied, n
    <2> QED
      BY <1>2, <2>1, <2>2, Zenon DEF j
  <1> QED
    BY <1>1, <1>3 DEF Format!Between

(* A name within what is copied is the same name there.                    *)
LEMMA NameInside ==
    ASSUME NEW x \in Seq(Octet), NEW out \in Seq(Octet), NEW q \in Nat,
           Copied(x, 0, out, q, Len(x)), NEW p \in Nat, NameWithin(x, p), NEW s, s = q + p
    PROVE  LET e == parse_qname(x, p).end
           IN  /\ e \in Nat /\ p <= e /\ e <= Len(x) /\ Format!NameAt(x, p).end = e
               /\ Format!NameAt(out, s).labels = Format!NameAt(x, p).labels
               /\ Format!NameAt(out, s).end = q + e
  <1> DEFINE e == parse_qname(x, p).end
             c == e - p
             n == Len(x)
             inside == Format!NameAt(x, p)
             outside == Format!NameAt(out, s)
  <1>1. PlainName(x, p) /\ e <= n
    BY DEF NameWithin
  <1>2. c \in Nat /\ e \in Nat /\ n \in Nat /\ s \in Nat
    <2>1. c \in Nat
      BY <1>1, NameWrittenBack
    <2>2. e \in Nat
      BY ParseTyped DEF ParsedNames
    <2> QED
      BY <2>1, <2>2
  <1> HIDE DEF e, n
  <1>3. p <= e
    BY <1>2
  <1>4. Copied(x, p, out, s, c)
    <2>1. ASSUME NEW j \in 0 .. c - 1
          PROVE  At(out, s + j) = At(x, p + j)
      <3> DEFINE i == p + j
      <3>1. i \in 0 .. n - 1 /\ s + j = q + i /\ 0 + i = i
        BY <1>1, <1>2
      <3> HIDE DEF i
      <3>2. At(out, q + i) = At(x, 0 + i)
        BY <3>1 DEF Copied, n
      <3> QED
        BY <3>1, <3>2, Zenon DEF i
    <2> QED
      BY <2>1, Zenon DEF Copied
  <1>5. inside.end = e /\ outside = Format!Name(inside.labels, s + c)
    BY <1>1, <1>2, <1>4, NameCopied DEF e
  <1> HIDE DEF inside, outside
  <1>6. outside.labels = inside.labels /\ outside.end = s + c
    BY <1>5 DEF Format!Name
  <1>7. s + c = q + e
    BY <1>2
  <1> QED
    BY <1>1, <1>2, <1>3, <1>5, <1>6, <1>7 DEF e, n, inside, outside

(* What is in front of its names, the names, and what is behind them.      *)
Parts(d, p, start, names, end, stop) ==
    [front |-> Format!Between(d, p, start), names |-> names,
     rest |-> Format!Between(d, end, stop)]

LEMMA RdataParts ==
    ASSUME NEW d, NEW type, NEW p, NEW n, NEW start, start = p + Format!InFront(type),
           NEW first, first = Format!NameAt(d, start),
           NEW second, second = Format!NameAt(d, first.end)
    PROVE  /\ type \in Format!OneName =>
                 Format!RdataAt(d, type, p, n)
                     = Parts(d, p, start, <<first.labels>>, first.end, p + n)
           /\ type \in Format!TwoNames =>
                 Format!RdataAt(d, type, p, n)
                     = Parts(d, p, start, <<first.labels, second.labels>>, second.end, p + n)
           /\ type \notin Format!OneName \union Format!TwoNames =>
                 Format!RdataAt(d, type, p, n) = Parts(d, p, start, <<>>, start, p + n)
  <1> DEFINE named == CASE type \in Format!OneName -> Format!Name(<<first.labels>>, first.end)
                        [] type \in Format!TwoNames ->
                              Format!Name(<<first.labels, second.labels>>, second.end)
                        [] OTHER -> Format!Name(<<>>, start)
  <1>1. Format!RdataAt(d, type, p, n) = Parts(d, p, start, named.labels, named.end, p + n)
    BY Zenon DEF Format!RdataAt, Parts
  <1>2. ~ (type \in Format!OneName /\ type \in Format!TwoNames)
    BY DEF Format!OneName, Format!TwoNames
  <1>3. /\ type \in Format!OneName => named = Format!Name(<<first.labels>>, first.end)
        /\ type \in Format!TwoNames =>
              named = Format!Name(<<first.labels, second.labels>>, second.end)
        /\ type \notin Format!OneName \union Format!TwoNames => named = Format!Name(<<>>, start)
    BY <1>2
  <1>4. ASSUME NEW labels, NEW end, named = Format!Name(labels, end)
        PROVE  named.labels = labels /\ named.end = end
    BY <1>4 DEF Format!Name
  <1> HIDE DEF named
  <1>5. /\ type \in Format!OneName => named.labels = <<first.labels>> /\ named.end = first.end
        /\ type \in Format!TwoNames =>
              named.labels = <<first.labels, second.labels>> /\ named.end = second.end
        /\ type \notin Format!OneName \union Format!TwoNames =>
              named.labels = <<>> /\ named.end = start
    BY <1>3, <1>4, Zenon
  <1> QED
    BY <1>1, <1>5, Zenon

(* What rdata says does not depend on where it stands, if its names are    *)
(* plain.                                                                  *)
LEMMA RdataMeant ==
    ASSUME NEW x \in Seq(Octet), NEW type, PlainRdata(type, x),
           NEW out \in Seq(Octet), NEW q \in Nat, Copied(x, 0, out, q, Len(x))
    PROVE  Format!RdataAt(out, type, q, Len(x)) = RdataSays(type, x)
  <1> DEFINE n == Len(x)
             f == Format!InFront(type)
             s == q + f
             t == q + n
             here == Format!RdataAt(out, type, q, n)
             there == Format!RdataAt(x, type, 0, n)
  <1>1. n \in Nat /\ f \in Nat /\ s \in Nat /\ 0 + f = f /\ 0 + n = n
    BY DEF Format!InFront
  <1>2. /\ type \in Format!OneName \union Format!TwoNames => NameWithin(x, f)
        /\ type \in Format!TwoNames => NameWithin(x, parse_qname(x, f).end)
    BY DEF PlainRdata
  <1>3. ASSUME NEW a \in Nat, a <= n, NEW b, b = q + a
        PROVE  /\ Format!Between(out, q, b) = Format!Between(x, 0, a)
               /\ Format!Between(out, b, t) = Format!Between(x, a, n)
    <2>1. q = q + 0 /\ 0 \in Nat /\ n <= Len(x)
      BY <1>1
    <2>2. Format!Between(out, q, b) = Format!Between(x, 0, a)
      BY <1>3, <2>1, BetweenCopied
    <2>3. Format!Between(out, b, t) = Format!Between(x, a, n)
      BY <1>1, <1>3, <2>1, BetweenCopied
    <2> QED
      BY <2>2, <2>3
  <1> DEFINE first == Format!NameAt(x, f)
             firstOut == Format!NameAt(out, s)
             second == Format!NameAt(x, first.end)
             secondOut == Format!NameAt(out, firstOut.end)
             e == parse_qname(x, f).end
             g == parse_qname(x, e).end
  <1>4. ASSUME type \in Format!OneName \union Format!TwoNames
        PROVE  /\ e \in Nat /\ f <= e /\ e <= n /\ first.end = e
               /\ firstOut.labels = first.labels /\ firstOut.end = q + e
    BY <1>1, <1>2, <1>4, NameInside
  <1>5. ASSUME type \in Format!TwoNames
        PROVE  /\ g \in Nat /\ g <= n /\ second.end = g
               /\ secondOut.labels = second.labels /\ secondOut.end = q + g
    <2>1. e \in Nat /\ first.end = e /\ firstOut.end = q + e
      BY <1>4, <1>5
    <2>2. NameWithin(x, e)
      BY <1>2, <1>5
    <2> HIDE DEF e, first, firstOut
    <2>3. LET m == parse_qname(x, e).end
          IN  /\ m \in Nat /\ e <= m /\ m <= Len(x) /\ Format!NameAt(x, e).end = m
              /\ Format!NameAt(out, q + e).labels = Format!NameAt(x, e).labels
              /\ Format!NameAt(out, q + e).end = q + m
      BY <2>1, <2>2, NameInside
    <2> QED
      BY <2>1, <2>3
  <1>6. /\ type \in Format!OneName =>
             /\ here = Parts(out, q, s, <<firstOut.labels>>, firstOut.end, t)
             /\ there = Parts(x, 0, f, <<first.labels>>, first.end, n)
        /\ type \in Format!TwoNames =>
             /\ here = Parts(out, q, s, <<firstOut.labels, secondOut.labels>>, secondOut.end, t)
             /\ there = Parts(x, 0, f, <<first.labels, second.labels>>, second.end, n)
        /\ type \notin Format!OneName \union Format!TwoNames =>
             /\ here = Parts(out, q, s, <<>>, s, t)
             /\ there = Parts(x, 0, f, <<>>, f, n)
    <2>1. f = 0 + Format!InFront(type)
      BY <1>1
    <2> HIDE DEF f
    <2>2. s = q + Format!InFront(type)
      BY DEF f
    <2> HIDE DEF n, s, first, second, firstOut, secondOut, t
    <2>3. first = Format!NameAt(x, f) /\ second = Format!NameAt(x, first.end)
      BY DEF first, second
    <2>4. firstOut = Format!NameAt(out, s) /\ secondOut = Format!NameAt(out, firstOut.end)
      BY DEF firstOut, secondOut
    <2>5. t = q + n /\ 0 + n = n
      BY <1>1 DEF t
    <2> QED
      BY <2>1, <2>2, <2>3, <2>4, <2>5, RdataParts
  <1> HIDE DEF first, firstOut, second, secondOut, here, there, s, t, e, g, n
  <1>7. CASE type \in Format!OneName
    <2>1. /\ here = Parts(out, q, s, <<firstOut.labels>>, firstOut.end, t)
          /\ there = Parts(x, 0, f, <<first.labels>>, first.end, n)
      BY <1>6, <1>7
    <2>2. /\ Format!Between(out, q, s) = Format!Between(x, 0, f)
          /\ Format!Between(out, firstOut.end, t) = Format!Between(x, first.end, n)
      BY <1>1, <1>3, <1>4, <1>7 DEF s
    <2>3. here = there
      BY <1>4, <1>7, <2>1, <2>2 DEF Parts
    <2> QED
      BY <2>3 DEF here, there, RdataSays, n
  <1>8. CASE type \in Format!TwoNames
    <2>1. /\ here = Parts(out, q, s, <<firstOut.labels, secondOut.labels>>, secondOut.end, t)
          /\ there = Parts(x, 0, f, <<first.labels, second.labels>>, second.end, n)
      BY <1>6, <1>8
    <2>2. /\ Format!Between(out, q, s) = Format!Between(x, 0, f)
          /\ Format!Between(out, secondOut.end, t) = Format!Between(x, second.end, n)
      BY <1>1, <1>3, <1>4, <1>5, <1>8 DEF s
    <2>3. here = there
      BY <1>4, <1>5, <1>8, <2>1, <2>2 DEF Parts
    <2> QED
      BY <2>3 DEF here, there, RdataSays, n
  <1>9. CASE type \notin Format!OneName \union Format!TwoNames
    <2>1. f = 0
      BY <1>9 DEF Format!InFront, Format!OneName
    <2>2. /\ here = Parts(out, q, s, <<>>, s, t)
          /\ there = Parts(x, 0, f, <<>>, f, n)
      BY <1>6, <1>9
    <2>3. f <= n
      BY <1>1, <2>1
    <2>4. /\ Format!Between(out, q, s) = Format!Between(x, 0, f)
          /\ Format!Between(out, s, t) = Format!Between(x, f, n)
      BY <1>1, <1>3, <2>3 DEF s
    <2>5. here = there
      BY <2>2, <2>4 DEF Parts
    <2> QED
      BY <2>5 DEF here, there, RdataSays, n
  <1> QED
    BY <1>7, <1>8, <1>9

LEMMA RdataStands ==
    ASSUME NEW x \in Seq(Octet), NEW type, PlainRdata(type, x),
           NEW out \in Seq(Octet), NEW q \in Nat, StandsIn(x, out, q)
    PROVE  Format!RdataAt(out, type, q, Len(x)) = RdataSays(type, x)
  <1>1. ASSUME NEW j \in 0 .. Len(x) - 1
        PROVE  At(out, q + j) = At(x, 0 + j)
    <2>1. 0 + j = j
      OBVIOUS
    <2> QED
      BY <2>1 DEF StandsIn
  <1>2. Copied(x, 0, out, q, Len(x))
    BY <1>1, Zenon DEF Copied
  <1> QED
    BY <1>2, RdataMeant

(* So does a record, and it may come from a datagram or from the cache.    *)
RecordStands(d, p, r, out, q, size) ==
    Format!RecordAfter(out, Format!NameAt(out, q))
        = [says |-> <<Format!NameAt(d, p).labels, r.type, r.class, r.ttl,
                      RdataSays(r.type, r.rdata)>>,
           end |-> q + size]

DoubleWord(v) == v \in Nat /\ v \div 65536 \in Word      \* u32

WrittenRecord(r) ==
    /\ r.type \in Word /\ r.class \in Word
    /\ DoubleWord(r.ttl)
    /\ r.rdata \in Seq(Octet) /\ Len(r.rdata) \in Word
    /\ PlainRdata(r.type, r.rdata)

LEMMA RecordMeant ==
    ASSUME NEW d \in Seq(Octet), NEW p \in Nat, PlainName(d, p),
           NEW r, WrittenRecord(r), r.name = parse_qname(d, p).text,
           NEW out \in Seq(Octet), NEW q \in Nat, StandsIn(dump_resource_record(r), out, q)
    PROVE  RecordStands(d, p, r, out, q, Len(dump_resource_record(r)))
  <1> DEFINE n == dump_name(r.name)
             t == htons(r.type)
             u == htons(r.class)
             l == htonl(r.ttl)
             m == htons(Len(r.rdata))
             x == r.rdata
             e == q + Len(n)
             size == Len(x)
  <1>1. n \in Seq(Octet)
    BY ParseTyped, DumpNameTyped DEF ParsedNames
  <1>a. /\ r.type \in Nat /\ r.class \in Nat /\ r.ttl \in Nat /\ size \in Nat
        /\ x \in Seq(Octet) /\ size \in Word
    <2>1. /\ r.type \in Word /\ r.class \in Word /\ r.ttl \in Nat
          /\ r.rdata \in Seq(Octet) /\ Len(r.rdata) \in Word
      BY DEF WrittenRecord, DoubleWord
    <2>2. r.type \in Nat /\ r.class \in Nat /\ Len(r.rdata) \in Nat
      BY <2>1, WordNat
    <2> QED
      BY <2>1, <2>2
  <1>2. /\ t \in Seq(Octet) /\ 2 = Len(t) /\ u \in Seq(Octet) /\ 2 = Len(u)
        /\ l \in Seq(Octet) /\ 4 = Len(l) /\ m \in Seq(Octet) /\ 2 = Len(m)
    BY <1>a, HtonsTyped
  <1>3. dump_resource_record(r) = ((((n \o t) \o u) \o l) \o m) \o x
    BY DEF dump_resource_record
  <1>4. EndsAt(n, q, e) /\ e \in Nat
    BY <1>1 DEF EndsAt
  <1> HIDE DEF n, t, u, l, m, x, e, size
  <1> DEFINE n1 == n \o t
             n2 == n1 \o u
             n3 == n2 \o l
             n4 == n3 \o m
             n5 == n4 \o x
             e1 == e + 2
             e2 == e + 4
             e3 == e + 8
             e4 == e + 10
             e5 == e4 + size
  <1>b. /\ e1 \in Nat /\ e2 \in Nat /\ e3 \in Nat /\ e4 \in Nat /\ e5 \in Nat
        /\ e1 = e + 2 /\ e2 = e1 + 2 /\ e3 = e2 + 4 /\ e4 = e3 + 2 /\ e5 = e4 + size
    BY <1>a, <1>4
  <1> HIDE DEF e1, e2, e3, e4, e5
  <1>5. EndsAt(n1, q, e1)
    BY <1>2, <1>4, <1>b, EndMoves
  <1> HIDE DEF n1
  <1>6. EndsAt(n2, q, e2)
    BY <1>2, <1>5, <1>b, EndMoves
  <1> HIDE DEF n2
  <1>7. EndsAt(n3, q, e3)
    BY <1>2, <1>6, <1>b, EndMoves
  <1> HIDE DEF n3
  <1>8. EndsAt(n4, q, e4)
    BY <1>2, <1>7, <1>b, EndMoves
  <1> HIDE DEF n4
  <1>c. size = Len(x)
    BY DEF size, x
  <1>9. EndsAt(n5, q, e5)
    BY <1>a, <1>c, <1>8, <1>b, EndMoves
  <1>10. n5 = dump_resource_record(r)
    BY <1>3 DEF n1, n2, n3, n4, n5
  <1>11. StandsIn(n4, out, q) /\ StandsIn(x, out, e4)
    BY <1>a, <1>8, <1>10, StandsEnd
  <1>12. StandsIn(n3, out, q) /\ StandsIn(m, out, e3)
    BY <1>2, <1>7, <1>11, StandsEnd DEF n4
  <1>13. StandsIn(n2, out, q) /\ StandsIn(l, out, e2)
    BY <1>2, <1>6, <1>12, StandsEnd DEF n3
  <1>14. StandsIn(n1, out, q) /\ StandsIn(u, out, e1)
    BY <1>2, <1>5, <1>13, StandsEnd DEF n2
  <1>15. StandsIn(n, out, q) /\ StandsIn(t, out, e)
    BY <1>2, <1>4, <1>14, StandsEnd DEF n1
  <1>16. Format!NameAt(out, q) = Format!Name(Format!NameAt(d, p).labels, e)
    <2>1. NameStands(d, p, out, q, Len(n))
      BY <1>15, NameMeant DEF n
    <2> QED
      BY <2>1 DEF NameStands, e
  <1>d. r.type \in Word /\ r.class \in Word /\ r.ttl \in Nat /\ r.ttl \div 65536 \in Word
    BY DEF WrittenRecord, DoubleWord
  <1>e. m = htons(size)
    BY DEF m, size, x
  <1>17. /\ Format!Short(out, e) = r.type /\ Format!Short(out, e1) = r.class
         /\ Format!Short(out, e3) = size
    BY <1>4, <1>a, <1>b, <1>d, <1>e, <1>12, <1>14, <1>15, ShortRead, SMTT(30) DEF t, u
  <1>18. Format!Long(out, e2) = r.ttl
    <2>1. StandsIn(htonl(r.ttl), out, e2)
      BY <1>13 DEF l
    <2>2. e2 \in Nat /\ r.ttl \in Nat /\ r.ttl \div 65536 \in Word
      BY <1>b, <1>d
    <2> DEFINE v == r.ttl
    <2> HIDE DEF v
    <2>3. StandsIn(htonl(v), out, e2) /\ v \in Nat /\ v \div 65536 \in Word
      BY <2>1, <2>2 DEF v
    <2>4. Format!Long(out, e2) = v
      BY <2>2, <2>3, LongRead
    <2> QED
      BY <2>4 DEF v
  <1>f. PlainRdata(r.type, x) /\ e4 = e + 10
    BY DEF WrittenRecord, x, e4
  <1>19. Format!RdataAt(out, r.type, e + 10, size) = RdataSays(r.type, x)
    BY <1>a, <1>b, <1>c, <1>f, <1>11, RdataStands
  <1> DEFINE name == Format!NameAt(out, q)
  <1>20. name.labels = Format!NameAt(d, p).labels /\ name.end = e
    BY <1>16 DEF Format!Name
  <1>21. e + 10 + size = q + Len(n5) /\ r.rdata = x
    BY <1>9 DEF EndsAt, e4, e5, x
  <1>22. /\ Format!Short(out, e + 2) = r.class /\ Format!Short(out, e + 8) = size
         /\ Format!Long(out, e + 4) = r.ttl
    BY <1>17, <1>18 DEF e1, e2, e3
  <1> HIDE DEF n5, name
  <1>23. Format!RecordAfter(out, name)
             = [says |-> <<name.labels, r.type, r.class, r.ttl, RdataSays(r.type, x)>>,
                end |-> e + 10 + size]
    BY <1>17, <1>19, <1>20, <1>22, Zenon DEF Format!RecordAfter, Format!RecordOf
  <1> QED
    BY <1>10, <1>20, <1>21, <1>23, Zenon DEF RecordStands, name

-----------------------------------------------------------------------------
(* What the records of a message say and where each of them is.            *)
OneByOne(d, N, place, says) ==
    \A k \in 1 .. N :
        Format!RecordAfter(d, Format!NameAt(d, place[k])) = [says |-> says[k], end |-> place[k + 1]]

BodyUpTo(d, end) ==
    CHOOSE upTo :
        upTo = [k \in 0 .. Format!Announced(d) |->
                   IF k = 0 THEN [records |-> <<>>, end |-> end]
                   ELSE Format!With(upTo[k - 1],
                                    Format!RecordAfter(d, Format!NameAt(d, upTo[k - 1].end)))]

LEMMA AnnouncedTyped ==
    ASSUME NEW d \in Seq(Octet)
    PROVE  Format!Announced(d) \in Nat /\ Format!Announced(d) = RecordCount(d)
  <1>1. 6 \in Nat /\ 8 \in Nat /\ 10 \in Nat
    OBVIOUS
  <1>2. Format!Short(d, 6) = ntohs(d, 6) /\ Format!Short(d, 8) = ntohs(d, 8)
        /\ Format!Short(d, 10) = ntohs(d, 10)
    BY <1>1, FormatOctets
  <1>3. Format!Announced(d) = RecordCount(d)
    BY <1>2, Zenon DEF Format!Announced, RecordCount, parse_header
  <1> QED
    BY <1>3, HeaderTyped

LEMMA BodySays ==
    ASSUME NEW d \in Seq(Octet), NEW N, N = Format!Announced(d), NEW S, NEW says \in Seq(S),
           Len(says) = N, NEW place, OneByOne(d, N, place, says)
    PROVE  Format!Body(d, place[1]) = [records |-> says, end |-> place[N + 1]]
  <1> DEFINE end == place[1]
             After(s) == Format!With(s, Format!RecordAfter(d, Format!NameAt(d, s.end)))
             init == [records |-> <<>>, end |-> end]
             Code(f) == [k \in 0 .. N |-> IF k = 0 THEN init ELSE After(f[k - 1])]
             State(k) == [records |-> SubSeq(says, 1, k), end |-> place[k + 1]]
             h == [k \in 0 .. N |-> State(k)]
             g == BodyUpTo(d, end)
  <1>1. N \in Nat
    BY AnnouncedTyped
  <1>2. g = CHOOSE f : f = Code(f)
    BY Zenon DEF BodyUpTo
  <1>3. Format!Body(d, end) = g[N]
    BY Zenon DEF Format!Body, BodyUpTo
  <1>4. State(0) = init
    <2>1. SubSeq(says, 1, 0) = <<>> /\ 0 + 1 = 1
      OBVIOUS
    <2> QED
      BY <2>1
  <1>5. ASSUME NEW k \in 1 .. N
        PROVE  State(k) = After(State(k - 1))
    <2> DEFINE r == Format!RecordAfter(d, Format!NameAt(d, place[k]))
               s == State(k - 1)
    <2>1. (k - 1) + 1 = k
      BY <1>1
    <2>2. s.records = SubSeq(says, 1, k - 1) /\ s.end = place[k]
      BY <2>1
    <2>3. r = [says |-> says[k], end |-> place[k + 1]]
      BY DEF OneByOne
    <2>4. SubSeq(says, 1, k) = Append(SubSeq(says, 1, k - 1), says[k])
      BY <1>1
    <2>5. After(s) = Format!With(s, r)
      BY <2>2
    <2> HIDE DEF s, r
    <2>6. Format!With(s, r) = [records |-> Append(s.records, r.says), end |-> r.end]
      BY Zenon DEF Format!With
    <2> HIDE DEF After
    <2>7. After(s) = [records |-> SubSeq(says, 1, k), end |-> place[k + 1]]
      BY <2>2, <2>3, <2>4, <2>5, <2>6
    <2> QED
      BY <2>7 DEF s
  <1> HIDE DEF After, init, State, g
  <1>6. h = Code(h)
    <2> SUFFICES ASSUME NEW k \in 0 .. N
                 PROVE  h[k] = Code(h)[k]
      BY Zenon
    <2>1. k # 0 => k \in 1 .. N /\ h[k - 1] = State(k - 1)
      BY <1>1
    <2> QED
      BY <1>4, <1>5, <2>1
  <1> HIDE DEF h
  <1>7. g = Code(g)
    <2> HIDE DEF Code
    <2> QED
      BY <1>2, <1>6
  <1>8. g[0] = init /\ \A k \in 1 .. N : g[k] = After(g[k - 1])
    BY <1>1, <1>7
  <1>9. \A k \in 0 .. N : g[k] = State(k)
    <2> DEFINE T == {k \in 0 .. N : g[k] = State(k)}
    <2>1. 0 \in T
      BY <1>1, <1>4, <1>8
    <2>2. \A k \in 1 .. N : k - 1 \in T => k \in T
      BY <1>1, <1>5, <1>8
    <2>3. \A k \in T : g[k] = State(k)
      OBVIOUS
    <2> HIDE DEF T
    <2> QED
      BY <1>1, <2>1, <2>2, <2>3, HoldsUpTo
  <1>10. g[N] = State(N)
    BY <1>1, <1>9
  <1>11. SubSeq(says, 1, N) = says
    OBVIOUS
  <1>12. State(N) = [records |-> says, end |-> place[N + 1]]
    BY <1>11 DEF State
  <1> QED
    BY <1>3, <1>10, <1>12 DEF g

(* Every message has places of its records, whatever it is.                *)
LEMMA NameValueTyped ==
    ASSUME NEW d \in Seq(Octet), NEW p \in Nat
    PROVE  Format!NameAt(d, p) \in NameValues
  <1> DEFINE N == Len(d) + 2
  <1>1. N \in 0 .. N
    OBVIOUS
  <1>2. NamesIn(d)[N] \in [Nat -> NameValues] /\ Format!NameAt(d, p) = NamesIn(d)[N][p]
    BY <1>1, NamesInIs DEF ReadBySteps
  <1> QED
    BY <1>2

LEMMA RecordAfterEnd ==
    ASSUME NEW d \in Seq(Octet), NEW p \in Nat
    PROVE  Format!RecordAfter(d, Format!NameAt(d, p)).end \in Nat
  <1> DEFINE name == Format!NameAt(d, p)
             e == name.end
             n == Format!Short(d, e + 8)
  <1>1. e \in Nat
    BY NameValueTyped DEF NameValues
  <1>2. e + 8 \in Nat
    BY <1>1
  <1> HIDE DEF e
  <1>3. n \in Nat
    BY <1>2, FormatOctets, NtohsTyped
  <1>4. Format!RecordAfter(d, name).end = e + 10 + n
    BY DEF Format!RecordAfter, Format!RecordOf, e
  <1> HIDE DEF n, name
  <1> QED
    BY <1>1, <1>3, <1>4 DEF name

LEMMA SomePlaces ==
    ASSUME NEW d \in Seq(Octet), NEW end \in Nat
    PROVE  \E place, S, says : /\ says \in Seq(S) /\ Len(says) = Format!Announced(d)
                               /\ place[1] = end
                               /\ OneByOne(d, Format!Announced(d), place, says)
  <1> DEFINE N == Format!Announced(d)
             R(p) == Format!RecordAfter(d, Format!NameAt(d, p))
             step == [k \in 1 .. N |-> [p \in Nat |-> R(p).end]]
  <1>1. N \in Nat
    BY AnnouncedTyped
  <1>2. ASSUME NEW k \in 1 .. N, NEW p \in Nat
        PROVE  step[k][p] = R(p).end /\ step[k][p] \in Nat
    BY RecordAfterEnd
  <1>a. \A p : R(p) = [says |-> R(p).says, end |-> R(p).end]
    BY DEF Format!RecordAfter, Format!RecordOf
  <1>b. \A p : R(p) = Format!RecordAfter(d, Format!NameAt(d, p))
    OBVIOUS
  <1> HIDE DEF N, step, R
  <1>3. Rounds(N, Nat, end, step)
    BY <1>1, <1>2 DEF Rounds
  <1>4. PICK f \in [0 .. N -> Nat] :
            f = [k \in 0 .. N |-> IF k = 0 THEN end ELSE step[k][f[k - 1]]]
    BY <1>3, RoundsExist
  <1> DEFINE place == [k \in 1 .. N + 1 |-> f[k - 1]]
             says == [k \in 1 .. N |-> R(place[k]).says]
             S == {R(place[k]).says : k \in 1 .. N}
  <1>5. place[1] = end
    BY <1>1, <1>4
  <1>6. ASSUME NEW k \in 1 .. N
        PROVE  place[k + 1] = R(place[k]).end
    <2>1. k \in 0 .. N /\ k # 0 /\ k - 1 \in 0 .. N /\ k \in 1 .. N + 1 /\ k + 1 \in 1 .. N + 1
          /\ (k + 1) - 1 = k
      BY <1>1
    <2>2. f[k] = step[k][f[k - 1]] /\ f[k - 1] \in Nat
      BY <1>4, <2>1
    <2>3. place[k] = f[k - 1] /\ place[k + 1] = f[k]
      BY <2>1
    <2> QED
      BY <1>2, <2>2, <2>3
  <1> HIDE DEF place
  <1>7. says \in Seq(S) /\ Len(says) = N
    BY <1>1, SMTT(30)
  <1>8. OneByOne(d, N, place, says)
    <2>1. ASSUME NEW k \in 1 .. N
          PROVE  R(place[k]) = [says |-> says[k], end |-> place[k + 1]]
      <3>1. says[k] = R(place[k]).says
        OBVIOUS
      <3> QED
        BY <1>6, <1>a, <3>1
    <2> HIDE DEF says
    <2> QED
      BY <1>b, <2>1 DEF OneByOne
  <1> HIDE DEF says, S
  <1> QED
    BY <1>5, <1>7, <1>8 DEF N

(* Where the parts stand that are written behind a head.                   *)
Placed(out, head, seqs, place) ==
    /\ place[1] = Len(head) /\ place[Len(seqs) + 1] = Len(out)
    /\ \A k \in 1 .. Len(seqs) : /\ place[k] \in Nat /\ place[k + 1] = place[k] + Len(seqs[k])
                                 /\ StandsIn(seqs[k], out, place[k])

LEMMA PartsPlaced ==
    ASSUME NEW head \in Seq(Octet), NEW seqs \in Seq(Seq(Octet))
    PROVE  \E place : Placed(head \o FlattenSeq(seqs), head, seqs, place)
  <1> DEFINE N == Len(seqs)
  <1>1. PICK f \in [0 .. N -> Seq(Octet)] :
            /\ f[0] = <<>>
            /\ \A k \in 1 .. N : f[k] = f[k - 1] \o seqs[k]
            /\ FlattenSeq(seqs) = f[N]
    BY FlattenIs
  <1>2. N \in Nat /\ \A k \in 1 .. N : seqs[k] \in Seq(Octet)
    OBVIOUS
  <1> DEFINE out == [k \in 0 .. N |-> head \o f[k]]
             place == [k \in 1 .. N + 1 |-> Len(out[k - 1])]
  <1>3. out[0] = head
    <2>1. out[0] = head \o <<>>
      BY <1>1, <1>2
    <2> QED
      BY <2>1, ConcatEmptySeq
  <1>4. ASSUME NEW k \in 1 .. N
        PROVE  /\ out[k - 1] \in Seq(Octet) /\ out[k] = out[k - 1] \o seqs[k]
               /\ place[k] = Len(out[k - 1]) /\ place[k + 1] = Len(out[k])
    <2>1. k \in 0 .. N /\ k - 1 \in 0 .. N /\ k \in 1 .. N + 1 /\ k + 1 \in 1 .. N + 1
          /\ (k + 1) - 1 = k
      BY <1>2
    <2>2. f[k - 1] \in Seq(Octet) /\ seqs[k] \in Seq(Octet) /\ f[k] = f[k - 1] \o seqs[k]
      BY <1>1, <1>2, <2>1
    <2>3. out[k - 1] = head \o f[k - 1] /\ out[k] = head \o f[k]
      BY <2>1
    <2>4. Grouped(head, f[k - 1], seqs[k])
      BY <2>2, GroupedEither
    <2>5. out[k - 1] \in Seq(Octet)
      BY <2>2, <2>3, AtJoined
    <2>6. place[k] = Len(out[k - 1]) /\ place[k + 1] = Len(out[k])
      BY <2>1
    <2> HIDE DEF out, place
    <2> QED
      BY <2>2, <2>3, <2>4, <2>5, <2>6 DEF Grouped
  <1>5. place[1] = Len(head)
    BY <1>2, <1>3
  <1>6. out[N] = head \o FlattenSeq(seqs) /\ place[N + 1] = Len(out[N])
    <2>1. N \in 0 .. N /\ N + 1 \in 1 .. N + 1 /\ (N + 1) - 1 = N
      BY <1>2
    <2> QED
      BY <1>1, <2>1
  <1> HIDE DEF out, place, N
  <1>7. ASSUME NEW k \in 1 .. N
        PROVE  /\ out[k] \in Seq(Octet) /\ place[k] \in Nat
               /\ place[k + 1] = place[k] + Len(seqs[k])
               /\ StandsIn(seqs[k], out[k], place[k])
    <2>1. out[k - 1] \in Seq(Octet) /\ seqs[k] \in Seq(Octet) /\ place[k] = Len(out[k - 1])
          /\ out[k] = out[k - 1] \o seqs[k]
      BY <1>2, <1>4
    <2>2. out[k] \in Seq(Octet) /\ Len(out[k]) = Len(out[k - 1]) + Len(seqs[k])
      BY <2>1, AtJoined
    <2>3. StandsIn(seqs[k], out[k], place[k])
      BY <2>1, StandsRight
    <2>4. place[k + 1] = place[k] + Len(seqs[k])
      BY <1>4, <2>1, <2>2
    <2>5. Len(out[k - 1]) \in Nat
      BY <2>1, LenProperties
    <2>6. place[k] \in Nat
      BY <2>1, <2>5
    <2> QED
      BY <2>2, <2>3, <2>4, <2>6
  <1> DEFINE T == {m \in 0 .. N : \A k \in 1 .. m : StandsIn(seqs[k], out[m], place[k])}
  <1>8. 0 \in T
    BY <1>2
  <1>9. ASSUME NEW m \in 1 .. N, m - 1 \in T
        PROVE  m \in T
    <2>1. m \in 0 .. N /\ \A k \in 1 .. m - 1 : StandsIn(seqs[k], out[m - 1], place[k])
      BY <1>2, <1>9
    <2>2. ASSUME NEW k \in 1 .. m
          PROVE  StandsIn(seqs[k], out[m], place[k])
      <3>1. CASE k = m
        BY <1>7, <3>1
      <3>2. CASE k # m
        <4>1. k \in 1 .. m - 1 /\ k \in 1 .. N
          BY <1>2, <3>2
        <4>2. /\ out[m - 1] \in Seq(Octet) /\ seqs[m] \in Seq(Octet) /\ seqs[k] \in Seq(Octet)
              /\ place[k] \in Nat /\ out[m] = out[m - 1] \o seqs[m]
          BY <1>2, <1>4, <1>7, <4>1
        <4>3. StandsIn(seqs[k], out[m - 1], place[k])
          BY <2>1, <4>1
        <4>4. StandsIn(seqs[k], out[m - 1] \o seqs[m], place[k])
          BY <4>2, <4>3, StandsLeft
        <4> QED
          BY <4>2, <4>4
      <3> QED
        BY <3>1, <3>2
    <2> QED
      BY <2>1, <2>2
  <1>10. \A m \in T : \A k \in 1 .. m : StandsIn(seqs[k], out[m], place[k])
    OBVIOUS
  <1> HIDE DEF T
  <1>11. N \in T
    <2>1. \A m \in 1 .. N : m - 1 \in T => m \in T
      BY <1>9
    <2>2. \A m \in 0 .. N : m \in T
      BY <1>2, <1>8, <2>1, HoldsUpTo
    <2> QED
      BY <1>2, <2>2
  <1>12. Placed(out[N], head, seqs, place)
    BY <1>5, <1>6, <1>7, <1>10, <1>11 DEF Placed, N
  <1> QED
    BY <1>6, <1>12

-----------------------------------------------------------------------------
(* Header and question written again mean the same but for the id.         *)
LEMMA PlainEndMeant ==
    ASSUME NEW d \in Seq(Octet), NEW p \in Nat, PlainName(d, p)
    PROVE  Format!NameAt(d, p).end = parse_qname(d, p).end
  <1>1. Copied(d, p, d, p, parse_qname(d, p).end - p)
    BY DEF Copied
  <1> QED
    BY <1>1, NameCopied

QuestionIn(d) == Format!QuestionOf(d, Format!NameAt(d, HeaderLength))

LEMMA QuestionRead ==
    ASSUME NEW d \in Seq(Octet), PlainName(d, HeaderLength)
    PROVE  /\ QuestionIn(d) = [says |-> <<Format!NameAt(d, HeaderLength).labels,
                                          parse_question(d, HeaderLength).qtype,
                                          parse_question(d, HeaderLength).qclass>>,
                               end |-> QuestionEnd(d)]
           /\ QuestionEnd(d)
                  = HeaderLength + Len(dump_question(parse_question(d, HeaderLength)))
  <1> DEFINE p == HeaderLength
             name == Format!NameAt(d, p)
             e == parse_qname(d, p).end
             q == parse_question(d, p)
             n == q.end - p
  <1>1. p \in Nat
    BY DEF HeaderLength
  <1>2. name.end = e /\ e \in Nat
    BY <1>1, PlainEndMeant, ParseTyped DEF ParsedNames
  <1>3. q.qtype = ntohs(d, e) /\ q.qclass = ntohs(d, e + 2) /\ q.end = e + 4
    BY DEF parse_question
  <1>4. Format!Short(d, e) = ntohs(d, e) /\ Format!Short(d, e + 2) = ntohs(d, e + 2)
    <2>1. e + 2 \in Nat
      BY <1>2
    <2> HIDE DEF e
    <2> QED
      BY <1>2, <2>1, FormatOctets
  <1>5. QuestionIn(d) = [says |-> <<name.labels, q.qtype, q.qclass>>, end |-> q.end]
    <2> HIDE DEF e, q
    <2>1. Format!QuestionOf(d, name)
              = [says |-> <<name.labels, Format!Short(d, e), Format!Short(d, e + 2)>>,
                 end |-> e + 4]
      BY <1>2, Zenon DEF Format!QuestionOf
    <2> HIDE DEF name
    <2> QED
      BY <1>3, <1>4, <2>1 DEF QuestionIn, name
  <1>6. n \in Nat /\ dump_question(q) = Octets(d, p, n)
    BY <1>1, QuestionWrittenBack
  <1> HIDE DEF n
  <1>7. Len(dump_question(q)) = n
    BY <1>1, <1>6, OctetsTyped
  <1>8. q.end \in Nat
    BY <1>2, <1>3
  <1> HIDE DEF q, p
  <1>9. q.end = p + n
    BY <1>1, <1>8 DEF n
  <1> QED
    BY <1>5, <1>7, <1>9 DEF QuestionEnd, q, p

HeadAgain(d, id) == dump_header(d, id) \o dump_question(parse_question(d, HeaderLength))

HeadSame(d, out, id) ==
    /\ Format!Short(out, 0) = id
    /\ \A p \in 2 .. 10 : Format!Short(out, p) = Format!Short(d, p)
    /\ QuestionIn(out) = QuestionIn(d)

LEMMA ShortsCopied ==
    ASSUME NEW d \in Seq(Octet), NEW out \in Seq(Octet), StandsIn(Octets(d, 2, 10), out, 2)
    PROVE  \A p \in 2 .. 10 : Format!Short(out, p) = Format!Short(d, p)
  <1> DEFINE s == Octets(d, 2, 10)
  <1>1. 2 \in Nat /\ 10 \in Nat
    OBVIOUS
  <1>2. Len(s) = 10 /\ \A k \in 1 .. 10 : s[k] = At(d, 2 + k - 1)
    BY <1>1, OctetsTyped, OctetsAt
  <1> HIDE DEF s
  <1>3. \A j \in 0 .. 9 : At(out, 2 + j) = At(s, j)
    BY <1>2 DEF StandsIn, s
  <1>4. ASSUME NEW j \in 0 .. 9
        PROVE  At(out, 2 + j) = At(d, 2 + j)
    <2>1. j + 1 \in 1 .. 10 /\ 2 + (j + 1) - 1 = 2 + j /\ j < 10
      OBVIOUS
    <2>2. At(s, j) = s[j + 1]
      BY <1>2, <2>1 DEF At
    <2>3. s[j + 1] = At(d, 2 + j)
      BY <1>2, <2>1
    <2> QED
      BY <1>3, <2>2, <2>3
  <1>5. ASSUME NEW p \in 2 .. 10
        PROVE  Format!Short(out, p) = Format!Short(d, p)
    <2>1. p - 2 \in 0 .. 9 /\ p - 1 \in 0 .. 9 /\ 2 + (p - 2) = p /\ 2 + (p - 1) = p + 1
      OBVIOUS
    <2>2. At(out, p) = At(d, p) /\ At(out, p + 1) = At(d, p + 1)
      BY <1>4, <2>1
    <2>3. ntohs(out, p) = ntohs(d, p)
      BY <2>2, Zenon DEF ntohs
    <2>4. p \in Nat
      OBVIOUS
    <2> QED
      BY <2>3, <2>4, FormatOctets
  <1> QED
    BY <1>5

LEMMA WordIs ==
    ASSUME NEW v \in Nat, v <= 65535
    PROVE  v \in Word
  <1>1. v = v % 65536
    BY SMT
  <1> QED
    BY <1>1, LowHalf

LEMMA NtohsWord ==
    ASSUME NEW d \in Seq(Octet), NEW p \in Nat
    PROVE  ntohs(d, p) \in Word
  <1> DEFINE x == At(d, p)
             y == At(d, p + 1)
             v == ntohs(d, p)
  <1>1. /\ x \in Nat /\ x < 256
        /\ y \in Nat /\ y < 256
    BY OctetMeans, AtTyped
  <1>2. v = 256 * x + y
    BY DEF ntohs
  <1> HIDE DEF x, y, v
  <1>a. v \in Nat /\ v <= 65535
    BY <1>1, <1>2, SMT
  <1>3. v \in Word
    BY <1>a, WordIs
  <1> QED
    BY <1>3 DEF v

LEMMA QuestionAgain ==
    ASSUME NEW d \in Seq(Octet), PlainName(d, HeaderLength), NEW out \in Seq(Octet),
           StandsIn(dump_question(parse_question(d, HeaderLength)), out, HeaderLength)
    PROVE  QuestionIn(out) = QuestionIn(d)
  <1> DEFINE r == parse_question(d, HeaderLength)
             c == dump_question(r)
  <1>0. HeaderLength = 12 /\ HeaderLength \in Nat
    BY DEF HeaderLength
  <1>3. r.qname = parse_qname(d, HeaderLength).text /\ r.qtype \in Word /\ r.qclass \in Word
    <2> DEFINE e == parse_qname(d, HeaderLength).end
    <2>3. e \in Nat
      BY <1>0, ParseTyped DEF ParsedNames
    <2>4. r.qname = parse_qname(d, HeaderLength).text /\ r.qtype = ntohs(d, e)
          /\ r.qclass = ntohs(d, e + 2)
      BY DEF parse_question
    <2> HIDE DEF e, r
    <2>5. e + 2 \in Nat
      BY <2>3
    <2> QED
      BY <2>3, <2>4, <2>5, NtohsWord
  <1> HIDE DEF c, r
  <1>11. QuestionStands(d, HeaderLength, r.qtype, r.qclass, out, HeaderLength, Len(c))
    BY <1>0, <1>3, QuestionMeant DEF c, r
  <1>12. QuestionIn(out) = QuestionIn(d)
    <2>1. QuestionEnd(d) = HeaderLength + Len(c)
      BY QuestionRead DEF c, r
    <2>2. QuestionIn(d) = [says |-> <<Format!NameAt(d, HeaderLength).labels, r.qtype, r.qclass>>,
                           end |-> QuestionEnd(d)]
      BY QuestionRead, Zenon DEF r
    <2>3. QuestionIn(out)
              = [says |-> <<Format!NameAt(d, HeaderLength).labels, r.qtype, r.qclass>>,
                 end |-> HeaderLength + Len(c)]
      BY <1>11, Zenon DEF QuestionStands, QuestionIn
    <2> QED
      BY <2>1, <2>2, <2>3
  <1> QED
    BY <1>12

LEMMA HeadMeant ==
    ASSUME NEW d \in Seq(Octet), NEW id \in Word, PlainName(d, HeaderLength),
           NEW out \in Seq(Octet), StandsIn(HeadAgain(d, id), out, 0)
    PROVE  HeadSame(d, out, id) /\ Len(HeadAgain(d, id)) = QuestionEnd(d)
  <1> DEFINE r == parse_question(d, HeaderLength)
             a == htons(id)
             b == Octets(d, 2, 10)
             c == dump_question(r)
             t == a \o b
  <1>0. HeaderLength = 12 /\ HeaderLength \in Nat
    BY DEF HeaderLength
  <1>1. a \in Seq(Octet) /\ 2 = Len(a)
    BY WordNat, HtonsTyped
  <1>2. b \in Seq(Octet) /\ 10 = Len(b)
    BY OctetsTyped
  <1>3. c \in Seq(Octet)
    <2>1. r \in ParsedQuestions
      BY <1>0, QuestionTyped
    <2> QED
      BY <2>1, DumpQuestionTyped DEF ParsedQuestions
  <1>4. HeadAgain(d, id) = t \o c
    <2>1. HeaderLength - 2 = 10
      BY <1>0
    <2> QED
      BY <2>1 DEF HeadAgain, dump_header
  <1> HIDE DEF a, b, c, r
  <1>5. EndsAt(a, 0, 2)
    BY <1>1 DEF EndsAt
  <1>6. EndsAt(t, 0, 12)
    <2>1. 12 = 2 + 10 /\ 0 \in Nat
      OBVIOUS
    <2> QED
      BY <1>2, <1>5, <2>1, EndMoves
  <1> HIDE DEF t
  <1>7. StandsIn(t, out, 0) /\ StandsIn(c, out, 12)
    BY <1>3, <1>4, <1>6, StandsEnd
  <1>8. StandsIn(a, out, 0) /\ StandsIn(b, out, 2)
    BY <1>2, <1>5, <1>7, StandsEnd DEF t
  <1>9. Format!Short(out, 0) = id
    BY <1>8, ShortRead DEF a
  <1>10. \A p \in 2 .. 10 : Format!Short(out, p) = Format!Short(d, p)
    BY <1>8, ShortsCopied DEF b
  <1>12. QuestionIn(out) = QuestionIn(d)
    BY <1>0, <1>7, QuestionAgain DEF c, r
  <1>13. Len(HeadAgain(d, id)) = QuestionEnd(d)
    <2>1. QuestionEnd(d) = HeaderLength + Len(c)
      BY QuestionRead DEF c, r
    <2>2. Len(t) = 12 /\ t \in Seq(Octet)
      BY <1>6 DEF EndsAt
    <2>3. Len(t \o c) = Len(t) + Len(c)
      BY <1>3, <2>2, AtJoined
    <2> QED
      BY <1>0, <1>4, <2>1, <2>2, <2>3
  <1> QED
    BY <1>9, <1>10, <1>12, <1>13 DEF HeadSame

(* A message whose head and whose records mean the same means the same.    *)
LEMMA MeaningIs ==
    ASSUME NEW d
    PROVE  Format!Meaning(d)
               = [id |-> Format!Short(d, 0), flags |-> Format!Short(d, 2),
                  counts |-> [k \in 1 .. 4 |-> Format!Short(d, 2 * k + 2)],
                  question |-> QuestionIn(d).says,
                  records |-> Format!Body(d, QuestionIn(d).end).records,
                  whole |-> Format!Body(d, QuestionIn(d).end).end = Len(d)]
  <1>1. HeaderLength = 12
    BY DEF HeaderLength
  <1>2. Format!Meaning(d) = Format!Asking(d, QuestionIn(d))
    BY <1>1, Zenon DEF Format!Meaning, QuestionIn
  <1>3. Format!Asking(d, QuestionIn(d))
            = Format!Message(d, QuestionIn(d).says, Format!Body(d, QuestionIn(d).end))
    BY Zenon DEF Format!Asking
  <1> QED
    BY <1>2, <1>3, Zenon DEF Format!Message

LEMMA OtherId ==
    ASSUME NEW a, NEW b, NEW f, NEW c, NEW q, NEW r, NEW w, NEW in, NEW out,
           in = [id |-> a, flags |-> f, counts |-> c, question |-> q, records |-> r, whole |-> w],
           out = [id |-> b, flags |-> f, counts |-> c, question |-> q, records |-> r, whole |-> w]
    PROVE  out = [in EXCEPT !.id = b]
  OBVIOUS

LEMMA SameMeaning ==
    ASSUME NEW d, NEW out, NEW id, HeadSame(d, out, id),
           Format!Body(out, QuestionIn(d).end)
               = [records |-> Format!Body(d, QuestionIn(d).end).records, end |-> Len(out)]
    PROVE  Same(Format!Meaning(d), Format!Meaning(out), id)
  <1> DEFINE in == Format!Meaning(d)
             sent == Format!Meaning(out)
             body == Format!Body(d, QuestionIn(d).end)
             counts == [k \in 1 .. 4 |-> Format!Short(d, 2 * k + 2)]
  <1>1. in = [id |-> Format!Short(d, 0), flags |-> Format!Short(d, 2), counts |-> counts,
              question |-> QuestionIn(d).says, records |-> body.records,
              whole |-> body.end = Len(d)]
    BY MeaningIs, Zenon
  <1>2. [k \in 1 .. 4 |-> Format!Short(out, 2 * k + 2)] = counts
    <2>1. \A k \in 1 .. 4 : 2 * k + 2 \in 2 .. 10
      OBVIOUS
    <2>2. \A k \in 1 .. 4 : Format!Short(out, 2 * k + 2) = Format!Short(d, 2 * k + 2)
      BY <2>1 DEF HeadSame
    <2> QED
      BY <2>2, Zenon
  <1>3. QuestionIn(out) = QuestionIn(d) /\ Format!Short(out, 0) = id
        /\ Format!Short(out, 2) = Format!Short(d, 2)
    BY DEF HeadSame
  <1>4. Format!Body(out, QuestionIn(d).end).end = Len(out)
        /\ Format!Body(out, QuestionIn(d).end).records = body.records
    OBVIOUS
  <1>5. sent = [id |-> id, flags |-> Format!Short(d, 2), counts |-> counts,
                question |-> QuestionIn(d).says, records |-> body.records, whole |-> TRUE]
    <2>1. sent = [id |-> Format!Short(out, 0), flags |-> Format!Short(out, 2),
                  counts |-> [k \in 1 .. 4 |-> Format!Short(out, 2 * k + 2)],
                  question |-> QuestionIn(out).says,
                  records |-> Format!Body(out, QuestionIn(out).end).records,
                  whole |-> Format!Body(out, QuestionIn(out).end).end = Len(out)]
      BY MeaningIs, Zenon
    <2> HIDE DEF counts, sent, body
    <2> QED
      BY <1>2, <1>3, <1>4, <2>1
  <1> HIDE DEF in, sent, body, counts
  <1> DEFINE a == Format!Short(d, 0)
             f == Format!Short(d, 2)
             q == QuestionIn(d).says
             r == body.records
             x == body.end
             y == Len(d)
             w == in.whole
  <1>6. in = [id |-> a, flags |-> f, counts |-> counts, question |-> q, records |-> r,
              whole |-> x = y]
    BY <1>1
  <1>7. sent = [id |-> id, flags |-> f, counts |-> counts, question |-> q, records |-> r,
                whole |-> TRUE]
    BY <1>5
  <1> HIDE DEF a, f, q, r, x, y
  <1>8. in.whole = (x = y) /\ sent.whole = TRUE
    BY <1>6, <1>7, Zenon
  <1>9. in = [id |-> a, flags |-> f, counts |-> counts, question |-> q, records |-> r,
              whole |-> in.whole]
    BY <1>6, <1>8, Zenon
  <1>10. sent = [id |-> id, flags |-> f, counts |-> counts, question |-> q, records |-> r,
                 whole |-> sent.whole]
    BY <1>7, <1>8, Zenon
  <1>11. in.whole => in.whole = sent.whole
    BY <1>8, Zenon
  <1>12. in.whole => sent = [in EXCEPT !.id = id]
    <2> HIDE DEF w
    <2>1. in = [id |-> a, flags |-> f, counts |-> counts, question |-> q, records |-> r,
                whole |-> w]
      BY <1>9 DEF w
    <2>2. w = sent.whole => sent = [id |-> id, flags |-> f, counts |-> counts, question |-> q,
                                    records |-> r, whole |-> w]
      BY <1>10, Zenon
    <2>3. ASSUME w = sent.whole
          PROVE  sent = [in EXCEPT !.id = id]
      <3>1. sent = [id |-> id, flags |-> f, counts |-> counts, question |-> q, records |-> r,
                    whole |-> w]
        BY <2>2, <2>3, Zenon
      <3> HIDE DEF a, f, q, r, w, in, sent, counts
      <3> QED
        BY <2>1, <3>1, OtherId
    <2> QED
      BY <1>11, <2>3, Zenon DEF w
  <1> QED
    BY <1>12, Zenon DEF Same, in, sent

LEMMA AnnouncedSame ==
    ASSUME NEW d, NEW out, NEW id, HeadSame(d, out, id)
    PROVE  Format!Announced(out) = Format!Announced(d)
  <1>1. 6 \in 2 .. 10 /\ 8 \in 2 .. 10 /\ 10 \in 2 .. 10
    OBVIOUS
  <1>2. /\ Format!Short(out, 6) = Format!Short(d, 6)
        /\ Format!Short(out, 8) = Format!Short(d, 8)
        /\ Format!Short(out, 10) = Format!Short(d, 10)
    BY <1>1 DEF HeadSame
  <1> QED
    BY <1>2, Zenon DEF Format!Announced

LEMMA SomeBody ==
    ASSUME NEW d \in Seq(Octet), NEW end \in Nat
    PROVE  \E place, S, says : /\ says \in Seq(S) /\ Len(says) = Format!Announced(d)
                               /\ place[1] = end
                               /\ Format!Body(d, end)
                                      = [records |-> says, end |-> place[Format!Announced(d) + 1]]
  <1>1. PICK place, S, says : /\ says \in Seq(S) /\ Len(says) = Format!Announced(d)
                              /\ place[1] = end
                              /\ OneByOne(d, Format!Announced(d), place, says)
    BY SomePlaces
  <1>2. Format!Body(d, place[1]) = [records |-> says, end |-> place[Format!Announced(d) + 1]]
    BY <1>1, BodySays, ZenonT(60)
  <1> QED
    BY <1>1, <1>2

LEMMA NoBody ==
    ASSUME NEW d \in Seq(Octet), NEW end \in Nat
    PROVE  /\ Format!Announced(d) = 0 <=> Format!Body(d, end).records = <<>>
           /\ Format!Announced(d) = 0 => Format!Body(d, end) = [records |-> <<>>, end |-> end]
  <1>1. PICK place, S, says :
            /\ says \in Seq(S) /\ Len(says) = Format!Announced(d)
            /\ place[1] = end
            /\ Format!Body(d, end) = [records |-> says, end |-> place[Format!Announced(d) + 1]]
    BY SomeBody
  <1>2. Len(says) = 0 <=> says = <<>>
    BY <1>1
  <1>3. Format!Body(d, end).records = says
    BY <1>1
  <1>4. Format!Announced(d) = 0 => Format!Announced(d) + 1 = 1
    OBVIOUS
  <1> QED
    BY <1>1, <1>2, <1>3, <1>4

LEMMA ForwardMeant ==
    ASSUME NEW d \in Datagram, PlainName(d, HeaderLength),
           Format!Meaning(d).records = <<>>
    PROVE  Same(Format!Meaning(d), Format!Meaning(HeadAgain(d, RelayId)), RelayId)
  <1> DEFINE out == HeadAgain(d, RelayId)
             end == QuestionIn(d).end
  <1>1. d \in Seq(Octet) /\ RelayId \in Word /\ HeaderLength \in Nat
    BY MessagesAssumption DEF HeaderLength
  <1>2. out \in Seq(Octet)
    <2>1. parse_question(d, HeaderLength) \in ParsedQuestions
      BY <1>1, QuestionTyped
    <2>2. Forwarded(d, parse_question(d, HeaderLength)) \in Seq(Octet)
      BY <2>1, ForwardedTyped
    <2> QED
      BY <2>2 DEF Forwarded, HeadAgain
  <1>3. HeadSame(d, out, RelayId) /\ Len(out) = QuestionEnd(d)
    BY <1>1, <1>2, StandsAlone, HeadMeant
  <1>4. end = QuestionEnd(d)
    BY <1>1, QuestionRead
  <1>5. Len(out) \in Nat
    BY <1>2
  <1>6. Format!Body(d, end).records = <<>>
    BY MeaningIs
  <1> HIDE DEF out, end
  <1>7. end \in Nat
    BY <1>3, <1>4, <1>5
  <1>8. Format!Announced(d) = 0 /\ Format!Announced(out) = 0
    BY <1>1, <1>3, <1>6, <1>7, NoBody, AnnouncedSame
  <1>9. Format!Body(out, end) = [records |-> <<>>, end |-> end]
    BY <1>2, <1>7, <1>8, NoBody
  <1>10. Format!Body(out, end) = [records |-> Format!Body(d, end).records, end |-> Len(out)]
    BY <1>3, <1>4, <1>6, <1>9
  <1> QED
    BY <1>3, <1>10, SameMeaning DEF out, end

(* Where the clients write the names of their queries plainly, a query     *)
(* without records means the same to the upstream server as it came, but   *)
(* for its id (handle.c:192-206).                                          *)
THEOREM QueryKeepsMeaning ==
    ASSUME PlainQueries
    PROVE  Spec => []ForwardedSame
  <1>1. Init => ForwardedSame
    BY DEF Init, Nothing, ForwardedSame
  <1>2. ForwardedSame /\ [Next]_vars => ForwardedSame'
    <2> SUFFICES ASSUME ForwardedSame, [Next]_vars
                 PROVE  ForwardedSame'
      OBVIOUS
    <2>1. ASSUME NEW d \in Datagram, ReceiveResponse(d)
          PROVE  ForwardedSame'
      BY <2>1 DEF ReceiveResponse, ForwardedSame
    <2>2. ASSUME NEW d \in Datagram, RefuseMalformed(d)
          PROVE  ForwardedSame'
      BY <2>2 DEF RefuseMalformed, Reply, ForwardedSame
    <2>3. ASSUME NEW d \in Datagram, ReceiveQuery(d)
          PROVE  ForwardedSame'
      <3> DEFINE h == parse_header(d)
                 q == parse_question(d, HeaderLength)
                 list == Found(q.qtype, q.qname)
      <3>1. PlainName(d, HeaderLength)
        BY <2>3 DEF ReceiveQuery, Query, PlainQueries
      <3>2. \/ Reply("forwarded", d, Forwarded(d, q))
            \/ Reply("blocked", d, Blocked(h, q))
            \/ Reply("answered", d, Answered(h, q, list))
        BY <2>3, Zenon DEF ReceiveQuery
      <3>3. Format!Meaning(d).records = <<>> =>
                Same(Format!Meaning(d), Format!Meaning(Forwarded(d, q)), RelayId)
        BY <3>1, ForwardMeant DEF Forwarded, HeadAgain
      <3> HIDE DEF h, q, list
      <3>4. CASE Reply("forwarded", d, Forwarded(d, q))
        BY <3>3, <3>4 DEF Reply, ForwardedSame
      <3>5. CASE Reply("blocked", d, Blocked(h, q))
        BY <3>5 DEF Reply, ForwardedSame
      <3>6. CASE Reply("answered", d, Answered(h, q, list))
        BY <3>6 DEF Reply, ForwardedSame
      <3> QED
        BY <3>2, <3>4, <3>5, <3>6
    <2>4. CASE UNCHANGED vars
      BY <2>4 DEF vars, ForwardedSame
    <2> QED
      BY <2>1, <2>2, <2>3, <2>4 DEF Next
  <1> QED
    BY <1>1, <1>2, PTL DEF Spec

-----------------------------------------------------------------------------
(* A record as the code reads it says what it says by the format, if the   *)
(* pointer in front of it stands for a whole name and leads back and there *)
(* is none in its rdata.                                                   *)
SaysOf(d, p, r) ==
    <<Format!NameAt(d, p).labels, r.type, r.class, r.ttl, RdataSays(r.type, r.rdata)>>

RecordIsRead(d, p, r) ==
    /\ Format!RecordAfter(d, Format!NameAt(d, p))
           = [says |-> SaysOf(d, NamePlace(d, p), r), end |-> r.end]
    /\ WrittenRecord(r)
    /\ r.name = parse_qname(d, NamePlace(d, p)).text

LEMMA WordBound ==
    ASSUME NEW v \in Word
    PROVE  v < 65536
  BY WordMeans, SMT

LEMMA NtohlWord ==
    ASSUME NEW d \in Seq(Octet), NEW p \in Nat
    PROVE  DoubleWord(ntohl(d, p))
  <1> DEFINE x == ntohs(d, p)
             y == ntohs(d, p + 2)
             v == ntohl(d, p)
             high == v \div 65536
  <1>1. p + 2 \in Nat
    OBVIOUS
  <1>2. x \in Word /\ y \in Word
    BY <1>1, NtohsWord
  <1>3. v = 65536 * x + y
    BY SMT DEF ntohl
  <1>4. v \in Nat
    BY NtohsTyped
  <1>5. x \in Nat /\ y \in Nat /\ y < 65536
    <2>1. x \in Nat /\ y \in Nat
      BY <1>2, WordNat
    <2>2. y < 65536
      BY <1>2, WordBound
    <2> QED
      BY <2>1, <2>2
  <1> HIDE DEF x, y, v
  <1>6. high = x
    BY <1>3, <1>5, SMT
  <1> HIDE DEF high
  <1>7. v \in Nat /\ high \in Word
    BY <1>2, <1>4, <1>6
  <1> QED
    BY <1>7 DEF v, high, DoubleWord

LEMMA RecordRead ==
    ASSUME NEW d \in Seq(Octet), NEW p \in Nat, PlainName(d, NamePlace(d, p)), PlainRecord(d, p)
    PROVE  RecordIsRead(d, p, parse_resource_record(d, p))
  <1> DEFINE r == parse_resource_record(d, p)
             t == NamePlace(d, p)
             name == Format!NameAt(d, p)
             read == RecordName(d, p)
             e == read.end
             n == ntohs(d, e + 8)
  <1>a. PointsBack(d, p) /\ PlainRdata(r.type, r.rdata)
    BY DEF PlainRecord
  <1>1. /\ read.text = parse_qname(d, t).text /\ e = name.end
        /\ name.labels = Format!NameAt(d, t).labels
    <2>1. CASE At(d, p) = Pointer
      <3>1. /\ read = ParsedName(parse_qname(d, At(d, p + 1)).text, p + 2)
            /\ t = At(d, p + 1)
        BY <2>1 DEF RecordName, NamePlace
      <3>2. name = Format!Name(Format!NameAt(d, t).labels, p + 2)
        BY <1>a, <2>1, <3>1, PointerNamed DEF PointsBack
      <3> HIDE DEF t, name, read
      <3> QED
        BY <3>1, <3>2 DEF ParsedName, Format!Name
    <2>2. CASE At(d, p) # Pointer
      <3>1. read = parse_qname(d, p) /\ t = p
        BY <2>2 DEF RecordName, NamePlace
      <3>2. name.end = parse_qname(d, p).end
        BY <3>1, PlainEndMeant
      <3> HIDE DEF t, read
      <3> QED
        BY <3>1, <3>2
    <2> QED
      BY <2>1, <2>2
  <1>2. e \in Nat
    BY RecordNameTyped DEF ParsedNames
  <1>3. r = [name |-> read.text, type |-> ntohs(d, e), class |-> ntohs(d, e + 2),
             ttl |-> ntohl(d, e + 4), rdata |-> Octets(d, e + 10, n), end |-> e + 10 + n]
    BY Zenon DEF parse_resource_record
  <1> HIDE DEF e, r, t, name, read
  <1>4. e + 2 \in Nat /\ e + 4 \in Nat /\ e + 8 \in Nat /\ e + 10 \in Nat
    BY <1>2
  <1>5. n \in Word /\ n \in Nat
    BY <1>4, NtohsWord, WordNat
  <1>6. /\ r.name = read.text /\ r.type = ntohs(d, e) /\ r.class = ntohs(d, e + 2)
        /\ r.ttl = ntohl(d, e + 4) /\ r.rdata = Octets(d, e + 10, n) /\ r.end = e + 10 + n
    BY <1>3
  <1>7. WrittenRecord(r)
    <2>1. r.type \in Word /\ r.class \in Word
      BY <1>2, <1>4, <1>6, NtohsWord
    <2>2. DoubleWord(ntohl(d, e + 4))
      BY <1>4, NtohlWord
    <2>3. DoubleWord(r.ttl)
      BY <1>6, <2>2
    <2>4. r.rdata \in Seq(Octet) /\ Len(r.rdata) = n
      BY <1>4, <1>5, <1>6, OctetsTyped
    <2> HIDE DEF n
    <2> QED
      BY <1>a, <1>5, <2>1, <2>3, <2>4 DEF WrittenRecord
  <1>8. /\ Format!Short(d, e) = r.type /\ Format!Short(d, e + 2) = r.class
        /\ Format!Long(d, e + 4) = r.ttl /\ Format!Short(d, e + 8) = n
    BY <1>2, <1>4, <1>6, FormatOctets, FormatLong
  <1>9. Format!RdataAt(d, r.type, e + 10, n) = RdataSays(r.type, r.rdata)
    <2> DEFINE q == e + 10
               x == r.rdata
    <2>1. q \in Nat /\ x = Octets(d, q, n)
      BY <1>4, <1>6
    <2> HIDE DEF n, q, x
    <2>2. x \in Seq(Octet) /\ Len(x) = n
      BY <1>5, <2>1, OctetsTyped
    <2>3. \A k \in 1 .. n : x[k] = At(d, q + k - 1)
      BY <1>5, <2>1, OctetsAt
    <2>4. ASSUME NEW j \in 0 .. n - 1
          PROVE  At(d, q + j) = At(x, 0 + j)
      <3>1. j + 1 \in 1 .. n /\ q + (j + 1) - 1 = q + j /\ 0 + j < Len(x) /\ 0 + j + 1 = j + 1
        BY <1>5, <2>1, <2>2
      <3>2. At(x, 0 + j) = x[j + 1]
        BY <3>1 DEF At
      <3>3. x[j + 1] = At(d, q + (j + 1) - 1)
        BY <2>3, <3>1, Zenon
      <3> QED
        BY <3>1, <3>2, <3>3
    <2>5. Copied(x, 0, d, q, Len(x))
      BY <2>2, <2>4, Zenon DEF Copied
    <2>6. Format!RdataAt(d, r.type, q, Len(x)) = RdataSays(r.type, x)
      BY <1>a, <2>1, <2>2, <2>5, RdataMeant DEF x
    <2> QED
      BY <2>2, <2>6 DEF q, x
  <1> HIDE DEF n
  <1>10. Format!RecordAfter(d, name)
             = [says |-> <<name.labels, r.type, r.class, r.ttl, RdataSays(r.type, r.rdata)>>,
                end |-> r.end]
    BY <1>1, <1>6, <1>8, <1>9, Zenon DEF Format!RecordAfter, Format!RecordOf
  <1>11. Format!RecordAfter(d, name) = [says |-> SaysOf(d, t, r), end |-> r.end]
    BY <1>1, <1>10, Zenon DEF SaysOf
  <1>12. r.name = parse_qname(d, t).text
    BY <1>1, <1>6
  <1> QED
    BY <1>7, <1>11, <1>12 DEF RecordIsRead, r, t, name

(* The records of a response are what the format finds in it.              *)
ReadInPlace(d, at, k) ==
    /\ RecordIsRead(d, at[k], Records(d)[k])
    /\ PlainName(d, NamePlace(d, at[k])) /\ NamePlace(d, at[k]) \in Nat
    /\ at[k] \in Nat /\ at[k + 1] = Records(d)[k].end

LEMMA RecordsInPlace ==
    ASSUME NEW d \in Seq(Octet), NEW at, PlainResponse(d, at),
           \A k \in 1 .. RecordCount(d) : PlainRecord(d, at[k])
    PROVE  \A k \in 1 .. RecordCount(d) : ReadInPlace(d, at, k)
  <1> DEFINE N == RecordCount(d)
             records == Records(d)
  <1>4. \A k \in 1 .. N : at[k] \in Nat /\ records[k] = parse_resource_record(d, at[k])
    BY RecordsPlaced
  <1>5. ASSUME NEW k \in 1 .. N
        PROVE  ReadInPlace(d, at, k)
    <2>1. PlainName(d, NamePlace(d, at[k])) /\ at[k] \in Nat /\ PlainRecord(d, at[k])
          /\ at[k + 1] = RecordEnd(d, at[k])
      BY <1>4 DEF PlainResponse
    <2>2. RecordIsRead(d, at[k], parse_resource_record(d, at[k]))
      BY <2>1, RecordRead
    <2>3. NamePlace(d, at[k]) \in Nat
      <3> DEFINE p == at[k]
      <3>1. p \in Nat
        BY <2>1
      <3> HIDE DEF p
      <3>2. p + 1 \in Nat
        BY <3>1
      <3>3. At(d, p + 1) \in Nat
        BY <3>2, AtNat
      <3>4. NamePlace(d, p) \in Nat
        BY <3>1, <3>3 DEF NamePlace
      <3> QED
        BY <3>4 DEF p
    <2> QED
      BY <1>4, <2>1, <2>2, <2>3 DEF RecordEnd, ReadInPlace
  <1> QED
    BY <1>5

LEMMA RecordsMean ==
    ASSUME NEW d \in Seq(Octet), NEW at, PlainResponse(d, at),
           \A k \in 1 .. RecordCount(d) : ReadInPlace(d, at, k)
    PROVE  Format!Meaning(d).records
               = [k \in 1 .. RecordCount(d) |-> SaysOf(d, NamePlace(d, at[k]), Records(d)[k])]
  <1> DEFINE N == RecordCount(d)
             end == QuestionIn(d).end
             says == [k \in 1 .. N |-> SaysOf(d, NamePlace(d, at[k]), Records(d)[k])]
             S == {says[k] : k \in 1 .. N}
  <1>1. PlainName(d, HeaderLength) /\ at[1] = QuestionEnd(d)
    BY DEF PlainResponse
  <1>2. N = Format!Announced(d) /\ N \in Nat
    BY AnnouncedTyped
  <1>3. says \in Seq(S) /\ Len(says) = N
    BY <1>2
  <1>4. OneByOne(d, N, at, says)
    <2>1. ASSUME NEW k \in 1 .. N
          PROVE  Format!RecordAfter(d, Format!NameAt(d, at[k])) = [says |-> says[k], end |-> at[k + 1]]
      BY DEF ReadInPlace, RecordIsRead
    <2> QED
      BY <2>1, Zenon DEF OneByOne
  <1>5. at[1] = end
    BY <1>1, QuestionRead
  <1>6. Format!Meaning(d).records = Format!Body(d, end).records
    BY MeaningIs
  <1> HIDE DEF N, says, S, end
  <1>7. Format!Body(d, at[1]) = [records |-> says, end |-> at[N + 1]]
    BY <1>2, <1>3, <1>4, BodySays
  <1>8. Format!Meaning(d).records = says
    BY <1>5, <1>6, <1>7
  <1> QED
    BY <1>8 DEF says, N

LEMMA RelayMeant ==
    ASSUME NEW d \in Datagram, NEW at, PlainResponse(d, at),
           \A k \in 1 .. RecordCount(d) : PlainRecord(d, at[k])
    PROVE  Same(Format!Meaning(d), Format!Meaning(Relayed(d)), ClientId)
  <1> DEFINE N == RecordCount(d)
             records == Records(d)
             parts == [k \in DOMAIN records |-> dump_resource_record(records[k])]
             head == HeadAgain(d, ClientId)
             out == Relayed(d)
             end == QuestionIn(d).end
             says == [k \in 1 .. N |-> SaysOf(d, NamePlace(d, at[k]), records[k])]
             S == {says[k] : k \in 1 .. N}
  <1>1. d \in Seq(Octet) /\ ClientId \in Word /\ ClientId \in Nat /\ HeaderLength \in Nat
    BY MessagesAssumption, IdsTyped DEF HeaderLength
  <1>2. PlainName(d, HeaderLength) /\ at[1] = QuestionEnd(d)
    BY DEF PlainResponse
  <1>3. N \in Nat
    BY <1>1, HeaderTyped
  <1>4. /\ DOMAIN records = 1 .. N
        /\ \A k \in 1 .. N : at[k] \in Nat /\ records[k] = parse_resource_record(d, at[k])
    BY <1>1, RecordsPlaced
  <1>5. \A k \in 1 .. N : ReadInPlace(d, at, k)
    BY <1>1, RecordsInPlace
  <1>6. parts \in Seq(Seq(Octet)) /\ Len(parts) = N
    <2>1. \A k \in 1 .. N : dump_resource_record(records[k]) \in Seq(Octet)
      <3> SUFFICES ASSUME NEW k \in 1 .. N
                   PROVE  dump_resource_record(records[k]) \in Seq(Octet)
        OBVIOUS
      <3>1. records[k] \in ParsedRecords
        BY <1>1, <1>4, RecordTyped
      <3> HIDE DEF records
      <3> QED
        BY <3>1, DumpRecordTyped DEF ParsedRecords
    <2> HIDE DEF records, N
    <2> QED
      BY <1>3, <1>4, <2>1
  <1>7. head \in Seq(Octet)
    <2>1. parse_question(d, HeaderLength) \in ParsedQuestions
      BY <1>1, QuestionTyped
    <2>2. dump_question(parse_question(d, HeaderLength)) \in Seq(Octet)
      BY <2>1, DumpQuestionTyped DEF ParsedQuestions
    <2>3. dump_header(d, ClientId) \in Seq(Octet)
      BY <1>1, DumpHeaderTyped
    <2> QED
      BY <2>2, <2>3, AtJoined DEF HeadAgain
  <1>8. out = head \o FlattenSeq(parts)
    BY Zenon DEF Relayed, HeadAgain
  <1>9. out \in Seq(Octet)
    BY RelayedTyped
  <1>10. \A k \in 1 .. N : parts[k] = dump_resource_record(records[k])
    BY <1>4
  <1>11. end = QuestionEnd(d)
    BY <1>1, <1>2, QuestionRead
  <1>12. N = Format!Announced(d)
    BY <1>1, AnnouncedTyped
  <1>a. says \in Seq(S) /\ Len(says) = N
    BY <1>3
  <1>b. \A k \in 1 .. N : says[k] = SaysOf(d, NamePlace(d, at[k]), records[k])
    OBVIOUS
  <1> HIDE DEF N, records, parts, head, out, end, says, S
  <1>13. StandsIn(head, out, 0)
    <2>1. FlattenSeq(parts) \in Seq(Octet) /\ 0 \in Nat
      BY <1>6, FlattenTyped
    <2> QED
      BY <1>7, <1>8, <2>1, StandsAlone, StandsLeft
  <1>14. HeadSame(d, out, ClientId) /\ Len(head) = QuestionEnd(d)
    BY <1>1, <1>2, <1>9, <1>13, HeadMeant DEF head
  <1>15. PICK place : Placed(out, head, parts, place)
    BY <1>6, <1>7, <1>8, PartsPlaced
  <1>16. /\ place[1] = Len(head) /\ place[N + 1] = Len(out)
         /\ \A k \in 1 .. N : /\ place[k] \in Nat /\ place[k + 1] = place[k] + Len(parts[k])
                              /\ StandsIn(parts[k], out, place[k])
    BY <1>6, <1>15 DEF Placed
  <1>18. OneByOne(out, N, place, says)
    <2>1. ASSUME NEW k \in 1 .. N
          PROVE  Format!RecordAfter(out, Format!NameAt(out, place[k]))
                     = [says |-> says[k], end |-> place[k + 1]]
      <3> DEFINE r == records[k]
                 t == NamePlace(d, at[k])
                 q == place[k]
      <3>1. /\ t \in Nat /\ PlainName(d, t) /\ q \in Nat
            /\ WrittenRecord(r) /\ r.name = parse_qname(d, t).text
        BY <1>5, <1>16 DEF ReadInPlace, RecordIsRead, records
      <3>2. StandsIn(dump_resource_record(r), out, q)
        BY <1>10, <1>16
      <3>3. says[k] = SaysOf(d, t, r) /\ place[k + 1] = q + Len(dump_resource_record(r))
        BY <1>b, <1>10, <1>16
      <3> HIDE DEF r, t, q
      <3>4. RecordStands(d, t, r, out, q, Len(dump_resource_record(r)))
        BY <1>1, <1>9, <3>1, <3>2, RecordMeant
      <3> QED
        BY <3>3, <3>4, Zenon DEF RecordStands, SaysOf, q
    <2> QED
      BY <2>1, Zenon DEF OneByOne
  <1>19. N = Format!Announced(out)
    BY <1>12, <1>14, AnnouncedSame
  <1>20. Format!Body(d, end).records = says
    <2>1. Format!Meaning(d).records = Format!Body(d, end).records
      BY MeaningIs DEF end
    <2>2. Format!Meaning(d).records = says
      BY <1>1, <1>5, RecordsMean DEF says, N, records
    <2> QED
      BY <2>1, <2>2
  <1>21. Format!Body(out, place[1]) = [records |-> says, end |-> place[N + 1]]
    BY <1>9, <1>19, <1>18, <1>a, BodySays
  <1>22. place[1] = end
    BY <1>11, <1>14, <1>16
  <1>23. Format!Body(out, end) = [records |-> Format!Body(d, end).records, end |-> Len(out)]
    BY <1>16, <1>20, <1>21, <1>22
  <1> QED
    BY <1>14, <1>23, SameMeaning DEF out, end

(* Where the upstream server compresses no more than the names in front of *)
(* records, and writes those in their rdata in full, a response means the  *)
(* same to the client as it came, but for its id: its names, those in the  *)
(* rdata too, have the same labels (handle.c:291-331, protocol.c:159-214). *)
(* A pointer in rdata leads to other octets than it did.                   *)
THEOREM ResponseKeepsMeaning ==
    ASSUME PlainResponses
    PROVE  Spec => []RelayedSame
  <1>1. Init => RelayedSame
    BY DEF Init, Nothing, RelayedSame
  <1>2. RelayedSame /\ [Next]_vars => RelayedSame'
    <2> SUFFICES ASSUME RelayedSame, [Next]_vars
                 PROVE  RelayedSame'
      OBVIOUS
    <2>1. ASSUME NEW d \in Datagram, ReceiveResponse(d)
          PROVE  RelayedSame'
      <3>1. Same(Format!Meaning(d), Format!Meaning(Relayed(d)), ClientId)
        BY <2>1, RelayMeant DEF ReceiveResponse, PlainResponses
      <3>2. \/ last' = [kind |-> "relayed", in |-> d, out |-> Relayed(d)]
            \/ last' = [kind |-> "dropped", in |-> d, out |-> <<>>]
        BY <2>1, Zenon DEF ReceiveResponse
      <3> QED
        BY <3>1, <3>2 DEF RelayedSame
    <2>2. ASSUME NEW d \in Datagram, RefuseMalformed(d)
          PROVE  RelayedSame'
      BY <2>2 DEF RefuseMalformed, Reply, RelayedSame
    <2>3. ASSUME NEW d \in Datagram, ReceiveQuery(d)
          PROVE  RelayedSame'
      <3>1. \E out, kind : kind # "relayed" /\ Reply(kind, d, out)
        BY <2>3 DEF ReceiveQuery
      <3> QED
        BY <3>1 DEF Reply, RelayedSame
    <2>4. CASE UNCHANGED vars
      BY <2>4 DEF vars, RelayedSame
    <2> QED
      BY <2>1, <2>2, <2>3, <2>4 DEF Next
  <1> QED
    BY <1>1, <1>2, PTL DEF Spec

-----------------------------------------------------------------------------
(* The puts for a cache and a name are puts.                               *)
AllFor(puts, t, name) ==
    \A k \in 1 .. Len(puts) : puts[k] \in Put /\ Sourced(puts[k]) /\ ForName(puts[k], t, name)

LEMMA MoreFor ==
    ASSUME NEW puts \in Seq(Put), NEW p \in Put, NEW t, NEW name, AllFor(puts, t, name),
           Sourced(p), ForName(p, t, name)
    PROVE  AllFor(Append(puts, p), t, name) /\ Len(Append(puts, p)) = Len(puts) + 1
  <1> DEFINE all == Append(puts, p)
             n == Len(puts)
  <1>1. /\ n \in Nat /\ Len(all) = n + 1 /\ all[n + 1] = p
        /\ \A k \in 1 .. n : all[k] = puts[k]
    OBVIOUS
  <1>2. \A k \in 1 .. n + 1 : k \in 1 .. n \/ k = n + 1
    BY <1>1
  <1>3. \A k \in 1 .. n :
            puts[k] \in Put /\ Sourced(puts[k]) /\ ForName(puts[k], t, name)
    BY DEF AllFor
  <1> HIDE DEF all, n
  <1>4. \A k \in 1 .. n + 1 : all[k] \in Put /\ Sourced(all[k]) /\ ForName(all[k], t, name)
    BY <1>1, <1>2, <1>3
  <1>5. AllFor(all, t, name)
    BY <1>1, <1>4, Zenon DEF AllFor
  <1> QED
    BY <1>1, <1>5 DEF all, n

LEMMA PutsForIs ==
    ASSUME NEW puts \in Seq(Put), \A k \in 1 .. Len(puts) : Sourced(puts[k]), NEW t, NEW name
    PROVE  /\ PutsIn(puts, t, name) \in Seq(Put) /\ Len(PutsIn(puts, t, name)) <= Len(puts)
           /\ AllFor(PutsIn(puts, t, name), t, name)
  <1> DEFINE N == Len(puts)
             g == PutsUpTo(puts, t, name)
             T == {k \in 0 .. N : Len(g[k]) <= k /\ AllFor(g[k], t, name)}
  <1>1. N \in Nat /\ \A k \in 1 .. N : puts[k] \in Put /\ Sourced(puts[k])
    BY ElementOfSeq
  <1>2. Collected(puts, t, name, g, N)
    BY PutsInIs
  <1> HIDE DEF g, N
  <1>3. /\ g[0] = <<>>
        /\ \A k \in 1 .. N :
              g[k] = IF ForName(puts[k], t, name) THEN Append(g[k - 1], puts[k]) ELSE g[k - 1]
        /\ \A k \in 0 .. N : g[k] \in Seq(Put)
        /\ PutsIn(puts, t, name) = g[N]
    BY <1>2 DEF Collected
  <1>4. 0 \in T
    BY <1>1, <1>3 DEF AllFor
  <1>5. ASSUME NEW k \in 1 .. N, k - 1 \in T
        PROVE  k \in T
    <2>1. /\ k - 1 \in 0 .. N /\ k \in 0 .. N /\ Len(g[k - 1]) <= k - 1
          /\ AllFor(g[k - 1], t, name) /\ g[k - 1] \in Seq(Put)
      BY <1>1, <1>3, <1>5
    <2>2. CASE ForName(puts[k], t, name)
      <3>1. g[k] = Append(g[k - 1], puts[k])
        BY <1>3, <2>2
      <3>2. AllFor(g[k], t, name) /\ Len(g[k]) = Len(g[k - 1]) + 1
        BY <1>1, <2>1, <2>2, <3>1, MoreFor
      <3>3. Len(g[k - 1]) \in Nat
        BY <2>1
      <3>4. Len(g[k]) <= k
        BY <1>1, <2>1, <3>2, <3>3
      <3> QED
        BY <2>1, <3>2, <3>4
    <2>3. CASE ~ ForName(puts[k], t, name)
      <3>1. g[k] = g[k - 1]
        BY <1>3, <2>3
      <3>2. Len(g[k - 1]) \in Nat
        BY <2>1
      <3>3. Len(g[k]) <= k
        BY <1>1, <2>1, <3>1, <3>2
      <3> QED
        BY <2>1, <3>1, <3>3
    <2> QED
      BY <2>2, <2>3
  <1>6. \A k \in T : Len(g[k]) <= k /\ AllFor(g[k], t, name)
    OBVIOUS
  <1> HIDE DEF T
  <1>7. N \in T
    <2>1. \A k \in 1 .. N : k - 1 \in T => k \in T
      BY <1>5
    <2>2. \A k \in 0 .. N : k \in T
      BY <1>1, <1>4, <2>1, HoldsUpTo
    <2> QED
      BY <1>1, <2>2
  <1>8. N \in 0 .. N
    BY <1>1
  <1> QED
    BY <1>3, <1>6, <1>7, <1>8 DEF N

(* The sections of a list are its parts.                                   *)
LEMMA CountsAdd ==
    ASSUME NEW list \in Seq(Entry)
    PROVE  /\ CountIn(list, "ANSWER") + CountIn(list, "AUTHORITY") + CountIn(list, "ADDITIONAL")
                  = Len(list)
           /\ \A section : CountIn(list, section) \in 0 .. Len(list)
  <1> DEFINE D == 1 .. Len(list)
             In(section) == {k \in D : list[k].section = section}
             a == In("ANSWER")
             b == In("AUTHORITY")
             c == In("ADDITIONAL")
  <1>1. Len(list) \in Nat /\ DOMAIN list = D
    OBVIOUS
  <1>2. IsFiniteSet(D) /\ Cardinality(D) = Len(list)
    BY <1>1, FS_Interval
  <1>3. \A section : CountIn(list, section) = Cardinality(In(section))
    BY <1>1 DEF CountIn
  <1>4. \A k \in D : list[k].section \in RrType
    <2> SUFFICES ASSUME NEW k \in D
                 PROVE  list[k].section \in RrType
      OBVIOUS
    <2>1. list[k] \in Entry
      BY ElementOfSeq
    <2> QED
      BY <2>1 DEF Entry
  <1>5. D = (a \union b) \union c
    BY <1>4 DEF RrType
  <1>6. a \intersect b = {} /\ (a \union b) \intersect c = {}
    OBVIOUS
  <1>7. \A section : In(section) \in SUBSET D
    OBVIOUS
  <1> HIDE DEF D
  <1>8. ASSUME NEW section
        PROVE  /\ IsFiniteSet(In(section)) /\ Cardinality(In(section)) \in Nat
               /\ Cardinality(In(section)) <= Cardinality(D)
    <2> DEFINE I == In(section)
    <2>1. I \in SUBSET D
      BY <1>7
    <2> HIDE DEF I
    <2> QED
      BY <1>2, <2>1, FS_Subset, FS_CardinalityType DEF I
  <1>9. /\ IsFiniteSet(a) /\ IsFiniteSet(b) /\ IsFiniteSet(c)
        /\ Cardinality(a) \in Nat /\ Cardinality(b) \in Nat /\ Cardinality(c) \in Nat
    BY <1>8
  <1>10. /\ CountIn(list, "ANSWER") = Cardinality(a)
         /\ CountIn(list, "AUTHORITY") = Cardinality(b)
         /\ CountIn(list, "ADDITIONAL") = Cardinality(c)
    BY <1>3
  <1>11. \A section : CountIn(list, section) \in 0 .. Len(list)
    <2> SUFFICES ASSUME NEW section
                 PROVE  CountIn(list, section) \in 0 .. Len(list)
      OBVIOUS
    <2> DEFINE n == CountIn(list, section)
               m == Len(list)
    <2>1. n \in Nat /\ n <= m
      BY <1>2, <1>3, <1>8
    <2> HIDE DEF n, m
    <2>2. m \in Nat
      BY <1>1 DEF m
    <2>3. n \in 0 .. m
      BY <2>1, <2>2
    <2> QED
      BY <2>3 DEF n, m
  <1> HIDE DEF a, b, c
  <1>12. IsFiniteSet(a \union b) /\ Cardinality(a \union b) = Cardinality(a) + Cardinality(b)
    <2>1. Cardinality(a \intersect b) = 0
      BY <1>6, FS_EmptySet
    <2>2. /\ IsFiniteSet(a \union b)
          /\ Cardinality(a \union b)
                 = Cardinality(a) + Cardinality(b) - Cardinality(a \intersect b)
      BY <1>9, FS_Union, ZenonT(30)
    <2> QED
      BY <1>9, <2>1, <2>2
  <1>13. Cardinality(D) = Cardinality(a \union b) + Cardinality(c)
    <2>1. Cardinality((a \union b) \intersect c) = 0
      BY <1>6, FS_EmptySet
    <2>2. Cardinality(a \union b) \in Nat
      BY <1>12, FS_CardinalityType
    <2>3. Cardinality((a \union b) \union c)
              = Cardinality(a \union b) + Cardinality(c) - Cardinality((a \union b) \intersect c)
      BY <1>9, <1>12, FS_Union, ZenonT(30)
    <2> QED
      BY <1>5, <1>9, <2>1, <2>2, <2>3
  <1> QED
    BY <1>2, <1>9, <1>10, <1>11, <1>12, <1>13

LEMMA LeastDouble ==
    ASSUME NEW m \in Nat, NEW v, DoubleWord(v)
    PROVE  DoubleWord(Least(m, v))
  <1> DEFINE low == Least(m, v)
             h == low \div 65536
             g == v \div 65536
  <1>1. v \in Nat /\ g \in Word
    BY DEF DoubleWord
  <1>2. low \in Nat /\ low <= v
    BY <1>1 DEF Least
  <1> HIDE DEF low
  <1>3. h \in Nat /\ g \in Nat /\ h <= g
    BY <1>1, <1>2, SMT
  <1> HIDE DEF h, g
  <1>4. g <= 65535
    BY WordMeans, <1>1, SMT
  <1>5. h <= 65535
    BY <1>3, <1>4, SMT
  <1>6. h \in Word
    BY <1>3, <1>5, WordIs
  <1> QED
    BY <1>2, <1>6 DEF h, low, DoubleWord

-----------------------------------------------------------------------------
(* What is sent of an entry, and the name that it is sent with: it stands  *)
(* in a datagram, where it was read.                                       *)
AsSent(e) ==
    [name |-> e.name, type |-> e.type, class |-> e.class,
     ttl |-> IF e.record_time = 0 THEN HostsTtl ELSE e.ttl, rdata |-> e.rdata]

NamedIn(p, question, s, t) ==
    /\ s \in Seq(Octet) /\ t \in Nat /\ PlainName(s, t)
    /\ WrittenRecord(AsSent(p.entry))
    /\ AsSent(p.entry).name = parse_qname(s, t).text
    /\ SaysOf(s, t, AsSent(p.entry)) = Said(p, question)

Named(p, question) == \E s, t : NamedIn(p, question, s, t)

LEMMA SmallWords == 0 \in Word /\ 1 \in Word /\ 4 \in Word
  BY WordMeans, SMT

LEMMA HostsTtlWritten == DoubleWord(HostsTtl)
  <1> DEFINE h == HostsTtl \div 65536
  <1>1. HostsTtl \in Nat /\ h \in Word
    BY MessagesAssumption
  <1> HIDE DEF h
  <1>2. HostsTtl \in Nat /\ h \in Word
    BY <1>1
  <1> QED
    BY <1>2 DEF h, DoubleWord

LEMMA HostsNamed ==
    ASSUME NEW d \in Datagram, PlainName(d, HeaderLength), NEW p \in Put, OfHosts(p),
           p.key = Asked(d)
    PROVE  Named(p, Format!Meaning(d).question)
  <1> DEFINE e == p.entry
             r == AsSent(e)
             q == Format!Meaning(d).question
             labels == Format!NameAt(d, HeaderLength).labels
  <1>1. d \in Seq(Octet) /\ HeaderLength \in Nat
    BY MessagesAssumption DEF HeaderLength
  <1>2. /\ r.name = e.name /\ r.type = e.type /\ r.class = e.class /\ r.rdata = e.rdata
        /\ r.ttl = IF e.record_time = 0 THEN HostsTtl ELSE e.ttl
    BY DEF AsSent
  <1>3. /\ p.from = <<>> /\ e.record_time = 0 /\ e.name = p.key /\ e.type = 1 /\ e.class = 1
        /\ Len(e.rdata) = 4
    BY DEF OfHosts
  <1>4. e \in Entry
    BY DEF Put
  <1>5. e.rdata \in Seq(Octet)
    BY <1>4 DEF Entry
  <1>6. q[1] = labels
    <2>1. q = QuestionIn(d).says
      BY MeaningIs
    <2>2. QuestionIn(d).says = <<labels, parse_question(d, HeaderLength).qtype,
                                 parse_question(d, HeaderLength).qclass>>
      BY <1>1, QuestionRead
    <2> QED
      BY <2>1, <2>2
  <1>7. Asked(d) = parse_qname(d, HeaderLength).text
    BY DEF Asked, parse_question
  <1> HIDE DEF e, r, q, labels
  <1>8. r.ttl = HostsTtl /\ r.type = 1 /\ r.class = 1 /\ r.name = parse_qname(d, HeaderLength).text
    BY <1>2, <1>3, <1>7
  <1>9. 1 \in Word /\ 4 \in Word
    BY SmallWords
  <1>10. DoubleWord(HostsTtl)
    BY HostsTtlWritten
  <1>a. PlainRdata(1, r.rdata)
    BY DEF PlainRdata, Format!OneName, Format!TwoNames
  <1>11. WrittenRecord(r)
    BY <1>2, <1>3, <1>5, <1>8, <1>9, <1>10, <1>a DEF WrittenRecord
  <1>12. SaysOf(d, HeaderLength, r) = Said(p, q)
    <2>1. Said(p, q) = <<q[1], 1, 1, HostsTtl, RdataSays(1, e.rdata)>>
      BY <1>3, Zenon DEF Said, A, e, RdataSays
    <2>2. SaysOf(d, HeaderLength, r)
              = <<labels, r.type, r.class, r.ttl, RdataSays(r.type, r.rdata)>>
      BY DEF SaysOf, labels
    <2> QED
      BY <1>2, <1>6, <1>8, <2>1, <2>2
  <1>13. NamedIn(p, q, d, HeaderLength)
    BY <1>1, <1>8, <1>11, <1>12 DEF NamedIn, r, e
  <1> QED
    BY <1>13 DEF Named, q

LEMMA ResponseNamed ==
    ASSUME PlainResponses, NEW p \in Put, OfResponse(p), NEW question
    PROVE  Named(p, question)
  <1> DEFINE d == p.from
             n == p.number
             e == p.entry
             r == AsSent(e)
  <1>1. d \in Datagram /\ parse_header(d).qr = 1 /\ n \in DOMAIN Records(d)
        /\ e = Cached(SectionOf(parse_header(d), n), Records(d)[n])
    BY DEF OfResponse
  <1>2. d \in Seq(Octet)
    BY <1>1, MessagesAssumption
  <1>3. d # <<>>
    <2>1. ASSUME d = <<>>
          PROVE  FALSE
      <3>1. At(d, 2) = 0
        BY <2>1 DEF At
      <3>2. parse_header(d).qr = 0
        BY <3>1 DEF parse_header
      <3> QED
        BY <1>1, <3>2
    <2> QED
      BY <2>1
  <1> HIDE DEF d, n, e, r
  <1> DEFINE at == PlacesIn(d)
  <1>4. /\ PlainResponse(d, at)
        /\ \A k \in 1 .. RecordCount(d) : PlainRecord(d, at[k])
    BY <1>1 DEF PlainResponses
  <1> HIDE DEF at
  <1>5. n \in 1 .. RecordCount(d)
    BY <1>1, <1>2, <1>4, RecordsPlaced
  <1>6. \A k \in 1 .. RecordCount(d) : ReadInPlace(d, at, k)
    BY <1>2, <1>4, RecordsInPlace
  <1> DEFINE record == Records(d)[n]
             t == NamePlace(d, at[n])
             says == Format!Meaning(d).records
             labels == Format!NameAt(d, t).labels
  <1>7. /\ PlainName(d, t) /\ t \in Nat /\ WrittenRecord(record)
        /\ record.name = parse_qname(d, t).text
    BY <1>5, <1>6 DEF ReadInPlace, RecordIsRead
  <1>8. says[n] = SaysOf(d, t, record)
    <2>1. says = [k \in 1 .. RecordCount(d) |->
                     SaysOf(d, NamePlace(d, at[k]), Records(d)[k])]
      BY <1>2, <1>4, <1>6, RecordsMean DEF says
    <2> QED
      BY <1>5, <2>1, Zenon DEF t, record
  <1> HIDE DEF record, t, says
  <1>9. /\ e.name = record.name /\ e.type = record.type /\ e.class = record.class
        /\ e.rdata = record.rdata /\ e.ttl = Least(MaxTtl, record.ttl) /\ e.record_time # 0
    BY <1>1 DEF Cached, Now, record
  <1>10. /\ r.name = record.name /\ r.type = record.type /\ r.class = record.class
         /\ r.rdata = record.rdata /\ r.ttl = Least(MaxTtl, record.ttl)
    BY <1>9 DEF AsSent, r
  <1>11. WrittenRecord(r)
    <2>1. DoubleWord(Least(MaxTtl, record.ttl))
      BY <1>7, MessagesAssumption, LeastDouble DEF WrittenRecord
    <2>2. DoubleWord(r.ttl)
      BY <1>10, <2>1
    <2> QED
      BY <1>7, <1>10, <2>2 DEF WrittenRecord
  <1>12. SaysOf(d, t, r) = Said(p, question)
    <2>1. Said(p, question) = SaidOf(says[n])
      BY <1>3 DEF Said, says, d, n
    <2> DEFINE rdata == RdataSays(record.type, record.rdata)
    <2>2. says[n] = <<labels, record.type, record.class, record.ttl, rdata>>
      BY <1>8 DEF SaysOf
    <2>4. SaysOf(d, t, r) = <<labels, r.type, r.class, r.ttl, rdata>>
      BY <1>10 DEF SaysOf, labels
    <2> HIDE DEF labels, rdata
    <2>3. SaidOf(says[n]) = <<labels, record.type, record.class, Least(MaxTtl, record.ttl), rdata>>
      BY <2>2 DEF SaidOf
    <2> QED
      BY <1>10, <2>1, <2>3, <2>4
  <1>13. NamedIn(p, question, d, t)
    BY <1>2, <1>7, <1>10, <1>11, <1>12 DEF NamedIn, r, e
  <1> QED
    BY <1>13 DEF Named

-----------------------------------------------------------------------------
(* A head made here, with its question.                                    *)
OwnHead(d, id, ancount, nscount, arcount) ==
    own_header(id, 0, 0, 1, ancount, nscount, arcount)
        \o dump_question(parse_question(d, HeaderLength))

OwnHeadRead(d, out, id, ancount, nscount, arcount) ==
    /\ Format!Short(out, 0) = id /\ Format!Short(out, 4) = 1
    /\ Format!Short(out, 6) = ancount /\ Format!Short(out, 8) = nscount
    /\ Format!Short(out, 10) = arcount
    /\ QuestionIn(out) = QuestionIn(d)

LEMMA OwnHeadMeant ==
    ASSUME NEW d \in Seq(Octet), PlainName(d, HeaderLength), NEW id \in Word,
           NEW ancount \in Word, NEW nscount \in Word, NEW arcount \in Word,
           NEW out \in Seq(Octet), StandsIn(OwnHead(d, id, ancount, nscount, arcount), out, 0)
    PROVE  /\ OwnHeadRead(d, out, id, ancount, nscount, arcount)
           /\ OwnHead(d, id, ancount, nscount, arcount) \in Seq(Octet)
           /\ Len(OwnHead(d, id, ancount, nscount, arcount)) = QuestionEnd(d)
  <1> DEFINE h1 == htons(id)
             fl == <<128 + 4 * 0, 0>>
             qd == htons(1)
             an == htons(ancount)
             ns == htons(nscount)
             ar == htons(arcount)
             c == dump_question(parse_question(d, HeaderLength))
  <1>0. HeaderLength = 12 /\ HeaderLength \in Nat
    BY DEF HeaderLength
  <1>1. /\ h1 \in Seq(Octet) /\ 2 = Len(h1) /\ qd \in Seq(Octet) /\ 2 = Len(qd)
        /\ an \in Seq(Octet) /\ 2 = Len(an) /\ ns \in Seq(Octet) /\ 2 = Len(ns)
        /\ ar \in Seq(Octet) /\ 2 = Len(ar)
    BY WordNat, HtonsTyped
  <1>2. fl \in Seq(Octet) /\ 2 = Len(fl)
    <2>1. 128 + 4 * 0 \in Octet /\ 0 \in Octet
      BY OctetMeans
    <2> QED
      BY <2>1
  <1>3. c \in Seq(Octet)
    <2>1. parse_question(d, HeaderLength) \in ParsedQuestions
      BY <1>0, QuestionTyped
    <2> QED
      BY <2>1, DumpQuestionTyped DEF ParsedQuestions
  <1>4. OwnHead(d, id, ancount, nscount, arcount)
            = (((((h1 \o fl) \o qd) \o an) \o ns) \o ar) \o c
    BY DEF OwnHead, own_header
  <1> HIDE DEF h1, fl, qd, an, ns, ar, c
  <1> DEFINE n1 == h1 \o fl
             n2 == n1 \o qd
             n3 == n2 \o an
             n4 == n3 \o ns
             n5 == n4 \o ar
             n6 == n5 \o c
             size == Len(c)
             e6 == 12 + size
  <1>5. /\ 4 = 2 + 2 /\ 6 = 4 + 2 /\ 8 = 6 + 2 /\ 10 = 8 + 2 /\ 12 = 10 + 2 /\ 0 \in Nat
        /\ size \in Nat /\ e6 \in Nat
    BY <1>3
  <1>6. EndsAt(h1, 0, 2)
    BY <1>1 DEF EndsAt
  <1>7. EndsAt(n1, 0, 4)
    BY <1>2, <1>5, <1>6, EndMoves
  <1> HIDE DEF n1
  <1>8. EndsAt(n2, 0, 6)
    BY <1>1, <1>5, <1>7, EndMoves
  <1> HIDE DEF n2
  <1>9. EndsAt(n3, 0, 8)
    BY <1>1, <1>5, <1>8, EndMoves
  <1> HIDE DEF n3
  <1>10. EndsAt(n4, 0, 10)
    BY <1>1, <1>5, <1>9, EndMoves
  <1> HIDE DEF n4
  <1>11. EndsAt(n5, 0, 12)
    BY <1>1, <1>5, <1>10, EndMoves
  <1> HIDE DEF n5
  <1>12. EndsAt(n6, 0, e6)
    BY <1>3, <1>5, <1>11, EndMoves
  <1>13. n6 = OwnHead(d, id, ancount, nscount, arcount)
    BY <1>4 DEF n1, n2, n3, n4, n5
  <1>b. StandsIn(n5 \o c, out, 0)
    BY <1>13
  <1>14. StandsIn(n5, out, 0) /\ StandsIn(c, out, 12)
    BY <1>3, <1>5, <1>11, <1>b, StandsEnd
  <1>15. StandsIn(n4, out, 0) /\ StandsIn(ar, out, 10)
    BY <1>1, <1>5, <1>10, <1>14, StandsEnd DEF n5
  <1>16. StandsIn(n3, out, 0) /\ StandsIn(ns, out, 8)
    BY <1>1, <1>5, <1>9, <1>15, StandsEnd DEF n4
  <1>17. StandsIn(n2, out, 0) /\ StandsIn(an, out, 6)
    BY <1>1, <1>5, <1>8, <1>16, StandsEnd DEF n3
  <1>18. StandsIn(n1, out, 0) /\ StandsIn(qd, out, 4)
    BY <1>1, <1>5, <1>7, <1>17, StandsEnd DEF n2
  <1>19. StandsIn(h1, out, 0)
    BY <1>2, <1>5, <1>6, <1>18, StandsEnd DEF n1
  <1>a. 4 \in Nat /\ 6 \in Nat /\ 8 \in Nat /\ 10 \in Nat
    OBVIOUS
  <1>20. Format!Short(out, 0) = id
    BY <1>5, <1>19, ShortRead DEF h1
  <1>21. Format!Short(out, 4) = 1
    BY <1>a, <1>18, SmallWords, ShortRead DEF qd
  <1>22. Format!Short(out, 6) = ancount
    BY <1>a, <1>17, ShortRead DEF an
  <1>23. Format!Short(out, 8) = nscount
    BY <1>a, <1>16, ShortRead DEF ns
  <1>24. Format!Short(out, 10) = arcount
    BY <1>a, <1>15, ShortRead DEF ar
  <1>25. QuestionIn(out) = QuestionIn(d)
    BY <1>0, <1>14, QuestionAgain DEF c
  <1>26. OwnHeadRead(d, out, id, ancount, nscount, arcount)
    BY <1>20, <1>21, <1>22, <1>23, <1>24, <1>25, Zenon DEF OwnHeadRead
  <1>27. n6 \in Seq(Octet) /\ Len(n6) = e6
    BY <1>5, <1>12 DEF EndsAt
  <1>28. QuestionEnd(d) = e6
    BY <1>0, QuestionRead DEF c
  <1> QED
    BY <1>13, <1>26, <1>27, <1>28

(* A reply from the cache says what its records said where they are from.  *)
Written(list) == [k \in DOMAIN list |-> SentRecord(list[k])]

CachedAnswer(d, list) ==
    OwnHead(d, parse_header(d).id, CountIn(list, "ANSWER"), CountIn(list, "AUTHORITY"),
            CountIn(list, "ADDITIONAL"))
        \o FlattenSeq(Written(list))

LEMMA OwnHeadTyped ==
    ASSUME NEW d \in Seq(Octet), NEW id \in Nat, NEW ancount \in Nat, NEW nscount \in Nat,
           NEW arcount \in Nat
    PROVE  OwnHead(d, id, ancount, nscount, arcount) \in Seq(Octet)
  <1> DEFINE question == dump_question(parse_question(d, HeaderLength))
             header == own_header(id, 0, 0, 1, ancount, nscount, arcount)
  <1>1. HeaderLength \in Nat
    BY DEF HeaderLength
  <1>2. parse_question(d, HeaderLength) \in ParsedQuestions
    BY <1>1, QuestionTyped
  <1>3. question \in Seq(Octet)
    BY <1>2, DumpQuestionTyped DEF ParsedQuestions
  <1>4. 0 \in {0, 1} /\ 0 \in 0 .. 15 /\ 1 \in Nat
    OBVIOUS
  <1>5. header \in Seq(Octet)
    BY <1>4, OwnHeaderTyped
  <1> HIDE DEF question, header
  <1>6. header \o question \in Seq(Octet)
    BY <1>3, <1>5, AtJoined
  <1> QED
    BY <1>6 DEF OwnHead, question, header

LEMMA EntriesTyped ==
    ASSUME NEW puts \in Seq(Put)
    PROVE  /\ EntriesOf(puts) \in Seq(Entry) /\ Len(EntriesOf(puts)) = Len(puts)
           /\ DOMAIN EntriesOf(puts) = 1 .. Len(puts)
           /\ \A k \in 1 .. Len(puts) : EntriesOf(puts)[k] = puts[k].entry
  <1>1. \A k \in 1 .. Len(puts) : puts[k].entry \in Entry
    <2> SUFFICES ASSUME NEW k \in 1 .. Len(puts)
                 PROVE  puts[k].entry \in Entry
      OBVIOUS
    <2>1. puts[k] \in Put
      BY ElementOfSeq
    <2> QED
      BY <2>1 DEF Put
  <1>2. Len(puts) \in Nat /\ DOMAIN puts = 1 .. Len(puts)
    OBVIOUS
  <1>3. EntriesOf(puts) = [k \in 1 .. Len(puts) |-> puts[k].entry]
    BY <1>2 DEF EntriesOf
  <1> QED
    BY <1>1, <1>2, <1>3

LEMMA PutWritten ==
    ASSUME NEW p, NEW question, Named(p, question), NEW out \in Seq(Octet), NEW q \in Nat,
           StandsIn(SentRecord(p.entry), out, q)
    PROVE  Format!RecordAfter(out, Format!NameAt(out, q))
               = [says |-> Said(p, question), end |-> q + Len(SentRecord(p.entry))]
  <1> DEFINE e == p.entry
             r == AsSent(e)
  <1>1. SentRecord(e) = dump_resource_record(r)
    BY Zenon DEF SentRecord, AsSent
  <1> HIDE DEF r, e
  <1>2. PICK s, t : /\ s \in Seq(Octet) /\ t \in Nat /\ PlainName(s, t) /\ WrittenRecord(r)
                    /\ r.name = parse_qname(s, t).text /\ SaysOf(s, t, r) = Said(p, question)
    BY Zenon DEF Named, NamedIn, r, e
  <1>3. StandsIn(dump_resource_record(r), out, q)
    BY <1>1 DEF e
  <1>4. RecordStands(s, t, r, out, q, Len(dump_resource_record(r)))
    BY <1>2, <1>3, RecordMeant
  <1> QED
    BY <1>1, <1>2, <1>4, Zenon DEF RecordStands, SaysOf, e

LEMMA AnswerMeant ==
    ASSUME NEW d \in Datagram, PlainName(d, HeaderLength), NEW puts \in Seq(Put),
           Len(puts) \in Word,
           \A k \in 1 .. Len(puts) : Named(puts[k], Format!Meaning(d).question),
           NEW out, out = CachedAnswer(d, EntriesOf(puts))
    PROVE  AnswerOf(puts, Format!Meaning(d), Format!Meaning(out))
  <1> DEFINE N == Len(puts)
             list == EntriesOf(puts)
             parts == Written(list)
             id == parse_header(d).id
             a == CountIn(list, "ANSWER")
             b == CountIn(list, "AUTHORITY")
             c == CountIn(list, "ADDITIONAL")
             head == OwnHead(d, id, a, b, c)
             question == Format!Meaning(d).question
             says == [k \in 1 .. N |-> Said(puts[k], question)]
             S == {says[k] : k \in 1 .. N}
  <1>1. d \in Seq(Octet) /\ HeaderLength \in Nat
    BY MessagesAssumption DEF HeaderLength
  <1>2. /\ list \in Seq(Entry) /\ Len(list) = N /\ N \in Nat /\ DOMAIN list = 1 .. N
        /\ \A k \in 1 .. N : list[k] = puts[k].entry /\ list[k] \in Entry
    <2>1. /\ list \in Seq(Entry) /\ Len(list) = N /\ DOMAIN list = 1 .. N
          /\ \A k \in 1 .. N : list[k] = puts[k].entry
      BY EntriesTyped
    <2> HIDE DEF list, N
    <2> QED
      BY <2>1, ElementOfSeq
  <1>3. a + b + c = N /\ a \in 0 .. N /\ b \in 0 .. N /\ c \in 0 .. N
    BY <1>2, CountsAdd
  <1>4. id = ntohs(d, 0) /\ id \in Word /\ id \in Nat
    <2>1. id = ntohs(d, 0)
      BY DEF parse_header
    <2>2. 0 \in Nat
      OBVIOUS
    <2> QED
      BY <1>1, <2>1, <2>2, NtohsWord, WordNat
  <1>5. /\ parts = [k \in 1 .. N |-> SentRecord(list[k])]
        /\ \A k \in 1 .. N : SentRecord(list[k]) \in Seq(Octet)
    BY <1>2, SentRecordTyped DEF Written
  <1>6. out = head \o FlattenSeq(parts)
    BY DEF CachedAnswer
  <1>7. says \in Seq(S) /\ Len(says) = N /\ \A k \in 1 .. N : says[k] = Said(puts[k], question)
    BY <1>2
  <1>8. N \in Word /\ \A k \in 1 .. N : Named(puts[k], question)
    OBVIOUS
  <1> HIDE DEF N, list, parts, id, a, b, c, head, question, says, S
  <1>9. a \in Word /\ b \in Word /\ c \in Word /\ a \in Nat /\ b \in Nat /\ c \in Nat
    <2>1. N < 65536
      BY <1>8, WordBound
    <2>2. \A v \in 0 .. N : v \in Nat /\ v <= 65535
      BY <1>2, <2>1, SMT
    <2>3. \A v \in 0 .. N : v \in Word
      BY <2>2, WordIs
    <2> QED
      BY <1>2, <1>3, <2>3
  <1>10. parts \in Seq(Seq(Octet)) /\ Len(parts) = N
    BY <1>2, <1>5
  <1>11. head \in Seq(Octet)
    BY <1>1, <1>4, <1>9, OwnHeadTyped DEF head
  <1>12. FlattenSeq(parts) \in Seq(Octet)
    BY <1>10, FlattenTyped
  <1>13. out \in Seq(Octet)
    BY <1>6, <1>11, <1>12, AtJoined
  <1>14. StandsIn(head, out, 0)
    <2>1. 0 \in Nat
      OBVIOUS
    <2> QED
      BY <1>6, <1>11, <1>12, <2>1, StandsAlone, StandsLeft
  <1>15. OwnHeadRead(d, out, id, a, b, c) /\ Len(head) = QuestionEnd(d)
    BY <1>1, <1>4, <1>9, <1>13, <1>14, OwnHeadMeant DEF head
  <1>16. PICK place : Placed(out, head, parts, place)
    BY <1>6, <1>10, <1>11, PartsPlaced
  <1>17. /\ place[1] = Len(head) /\ place[N + 1] = Len(out)
         /\ \A k \in 1 .. N : /\ place[k] \in Nat /\ place[k + 1] = place[k] + Len(parts[k])
                              /\ StandsIn(parts[k], out, place[k])
    BY <1>10, <1>16 DEF Placed
  <1>18. OneByOne(out, N, place, says)
    <2>1. ASSUME NEW k \in 1 .. N
          PROVE  Format!RecordAfter(out, Format!NameAt(out, place[k]))
                     = [says |-> says[k], end |-> place[k + 1]]
      <3> DEFINE p == puts[k]
                 q == place[k]
      <3>1. parts[k] = SentRecord(p.entry)
        BY <1>2, <1>5
      <3>2. /\ Named(p, question) /\ q \in Nat /\ StandsIn(SentRecord(p.entry), out, q)
            /\ place[k + 1] = q + Len(SentRecord(p.entry)) /\ says[k] = Said(p, question)
        BY <1>7, <1>8, <1>17, <3>1
      <3> HIDE DEF p, q
      <3>3. Format!RecordAfter(out, Format!NameAt(out, q))
                = [says |-> Said(p, question), end |-> q + Len(SentRecord(p.entry))]
        BY <1>13, <3>2, PutWritten
      <3> QED
        BY <3>2, <3>3, Zenon DEF q
    <2> QED
      BY <2>1, Zenon DEF OneByOne
  <1>19. N = Format!Announced(out)
    BY <1>3, <1>15, Zenon DEF OwnHeadRead, Format!Announced
  <1>20. Format!Body(out, place[1]) = [records |-> says, end |-> place[N + 1]]
    BY <1>7, <1>13, <1>18, <1>19, BodySays
  <1> DEFINE in == Format!Meaning(d)
             sent == Format!Meaning(out)
             body == Format!Body(out, QuestionIn(out).end)
  <1>21. QuestionIn(out) = QuestionIn(d) /\ QuestionIn(d).end = place[1]
    BY <1>1, <1>15, <1>17, QuestionRead DEF OwnHeadRead
  <1>22. body.records = says /\ body.end = Len(out)
    BY <1>17, <1>20, <1>21
  <1>23. sent = [id |-> Format!Short(out, 0), flags |-> Format!Short(out, 2),
                 counts |-> [k \in 1 .. 4 |-> Format!Short(out, 2 * k + 2)],
                 question |-> QuestionIn(out).says, records |-> body.records,
                 whole |-> body.end = Len(out)]
    BY MeaningIs, Zenon
  <1>24. in.id = Format!Short(d, 0) /\ in.question = QuestionIn(d).says
    BY MeaningIs
  <1> HIDE DEF in, sent, body
  <1>25. /\ sent.id = Format!Short(out, 0) /\ sent.question = QuestionIn(out).says
         /\ sent.records = body.records
         /\ sent.counts = [k \in 1 .. 4 |-> Format!Short(out, 2 * k + 2)]
    BY <1>23
  <1>26. sent.whole
    <2>1. sent.whole = (body.end = Len(out))
      BY <1>23, Zenon
    <2> QED
      BY <1>22, <2>1, Zenon
  <1>27. sent.id = in.id
    <2>1. 0 \in Nat
      OBVIOUS
    <2>2. Format!Short(d, 0) = ntohs(d, 0)
      BY <1>1, <2>1, FormatOctets
    <2> QED
      BY <1>4, <1>15, <1>24, <1>25, <2>2 DEF OwnHeadRead
  <1>28. sent.counts = <<1, a, b, c>>
    <2>1. /\ Format!Short(out, 4) = 1 /\ Format!Short(out, 6) = a
          /\ Format!Short(out, 8) = b /\ Format!Short(out, 10) = c
      BY <1>15 DEF OwnHeadRead
    <2> DEFINE f(k) == Format!Short(out, 2 * k + 2)
    <2>2. f(1) = 1 /\ f(2) = a /\ f(3) = b /\ f(4) = c
      <3>1. 2 * 1 + 2 = 4 /\ 2 * 2 + 2 = 6 /\ 2 * 3 + 2 = 8 /\ 2 * 4 + 2 = 10
        OBVIOUS
      <3> QED
        BY <2>1, <3>1, Zenon
    <2>3. sent.counts = [k \in 1 .. 4 |-> f(k)]
      BY <1>25
    <2> HIDE DEF f
    <2> QED
      BY <2>2, <2>3
  <1>29. sent.records = [k \in DOMAIN puts |-> Said(puts[k], in.question)]
    <2>1. DOMAIN puts = 1 .. N
      BY DEF N
    <2>2. sent.records = says
      BY <1>22, <1>25
    <2> QED
      BY <2>1, <2>2, Zenon DEF says, question, in
  <1>30. sent.question = in.question
    BY <1>21, <1>24, <1>25
  <1> QED
    BY <1>26, <1>27, <1>28, <1>29, <1>30, Zenon DEF AnswerOf, sent, in, a, b, c, list

-----------------------------------------------------------------------------
(* What is found is what was put for the name.                             *)
LEMMA FoundFor ==
    ASSUME Kept(table, stored), NEW t, NEW name \in Names, Found(t, name) # NoList
    PROVE  t \in CacheType /\ Found(t, name) = EntriesOf(PutsFor(t, name))
  <1>1. t \in CacheType /\ Found(t, name) = cache_find(table[t], name)
    BY DEF Found
  <1>2. TableOK(Octet, Entry, table[t]) /\ KeyAllowed(name)
    BY <1>1 DEF Kept, cache_find
  <1>3. Len(name) < KeyRoom
    <2>1. SUFFICES ASSUME ~ Len(name) < KeyRoom
                   PROVE  FALSE
      OBVIOUS
    <2>2. ~ Len(name) <= TrieLength
      <3>1. Len(name) \in Nat
        BY NamesTyped
      <3> QED
        BY <2>1, <3>1, MessagesAssumption
    <2>3. cache_find(table[t], name) = NoList
      <3>1. name \in Seq(Octet) /\ Hash(name) \in Nat
        BY NamesTyped, HashAssumption
      <3> QED
        BY <1>2, <2>1, <2>2, <3>1, TooLongNotFound
    <2> QED
      BY <1>1, <2>3
  <1> QED
    BY <1>1, <1>2, <1>3 DEF Kept, Fits, PutsFor

LEMMA NoAlias ==
    ASSUME Kept(table, stored), NEW name \in Names, PutsFor(CNAME, name) = <<>>
    PROVE  Found(CNAME, name) = NoList
  <1>1. EntriesOf(<<>>) = <<>>
    BY DEF EntriesOf
  <1> QED
    BY <1>1, FoundFor DEF NoList

(* The header counts in 16 bits.                                           *)
FewStored == MaxStored \in Word /\ Len(Loaded.stored) \in Word

StoredFew == Len(stored) \in Word

LEMMA InitFew ==
    ASSUME FewStored
    PROVE  Init => StoredFew
  BY DEF Init, FewStored, StoredFew

LEMMA NextFew ==
    ASSUME FewStored, Inv, StoredFew, [Next]_vars, Inv'
    PROVE  StoredFew'
  <1>1. Len(stored') \in Nat
    BY DEF Inv, Kept
  <1>2. ASSUME NEW d \in Datagram, ReceiveResponse(d)
        PROVE  StoredFew'
    <2>1. Len(stored') <= MaxStored
      BY <1>2 DEF ReceiveResponse
    <2>2. MaxStored < 65536 /\ MaxStored \in Nat
      BY WordBound, MessagesAssumption DEF FewStored
    <2>3. Len(stored') <= 65535
      BY <1>1, <2>1, <2>2, SMT
    <2> QED
      BY <1>1, <2>3, WordIs DEF StoredFew
  <1>3. ASSUME NEW d \in Datagram, Query(d)
        PROVE  StoredFew'
    BY <1>3 DEF Query, StoredFew
  <1>4. CASE UNCHANGED vars
    BY <1>4 DEF vars, StoredFew
  <1> QED
    BY <1>2, <1>3, <1>4 DEF Next, RefuseMalformed, ReceiveQuery

LEMMA AnswersRight ==
    ASSUME PlainResponses, Kept(table, stored), StoredFew,
           NEW d \in Datagram, PlainName(d, HeaderLength),
           NEW q, q = parse_question(d, HeaderLength),
           NEW list, list = Found(q.qtype, q.qname), list # NoList
    PROVE  Answers(Asked(d), Format!Meaning(d), Format!Meaning(Answered(parse_header(d), q, list)))
  <1> DEFINE name == Asked(d)
             h == parse_header(d)
             in == Format!Meaning(d)
             puts == PutsFor(q.qtype, name)
             out == Answered(h, q, list)
  <1>1. d \in Seq(Octet) /\ HeaderLength \in Nat /\ name \in Names /\ name = q.qname
    BY MessagesAssumption, NamesTyped DEF HeaderLength, Asked
  <1>2. q.qtype \in CacheType /\ list = EntriesOf(puts)
    BY <1>1, FoundFor
  <1>3. in.question[2] = q.qtype
    <2>1. in.question = QuestionIn(d).says
      BY MeaningIs
    <2>2. QuestionIn(d).says = <<Format!NameAt(d, HeaderLength).labels, q.qtype, q.qclass>>
      BY <1>1, QuestionRead
    <2> QED
      BY <2>1, <2>2
  <1>4. /\ stored \in Seq(Put) /\ \A k \in 1 .. Len(stored) : Sourced(stored[k])
        /\ Len(stored) \in Word
    BY DEF Kept, StoredFew
  <1>5. /\ puts \in Seq(Put) /\ Len(puts) <= Len(stored)
        /\ AllFor(puts, q.qtype, name)
    BY <1>4, PutsForIs DEF PutsFor
  <1> HIDE DEF puts, in, name, h
  <1>6. Len(puts) \in Word
    <2>1. Len(puts) \in Nat /\ Len(stored) \in Nat /\ Len(stored) < 65536
      BY <1>4, <1>5, WordBound
    <2>2. Len(puts) <= 65535
      BY <1>5, <2>1, SMT
    <2> QED
      BY <2>1, <2>2, WordIs
  <1>7. ASSUME NEW k \in 1 .. Len(puts)
        PROVE  Named(puts[k], in.question)
    <2> DEFINE p == puts[k]
    <2>1. p \in Put /\ Sourced(p) /\ p.key = name
      BY <1>5 DEF AllFor, ForName
    <2> HIDE DEF p
    <2>2. Named(p, in.question)
      BY <2>1, HostsNamed, ResponseNamed DEF Sourced, in, name
    <2> QED
      BY <2>2 DEF p
  <1>8. CASE q.qtype = A /\ PutsFor(CNAME, name) # <<>>
    BY <1>3, <1>8 DEF Answers, in, name
  <1>9. CASE ~ (q.qtype = A /\ PutsFor(CNAME, name) # <<>>)
    <2> DEFINE aliases == IF q.qtype = A THEN Found(CNAME, q.qname) ELSE NoList
               body == aliases \o list
    <2>1. aliases = <<>>
      BY <1>1, <1>9, NoAlias DEF NoList
    <2>2. list \in Seq(Entry)
      BY <1>2, <1>5, EntriesTyped
    <2> HIDE DEF aliases
    <2>3. body = list
      BY <2>1, <2>2, ConcatEmptySeq
    <2>4. out = own_header(h.id, 0, 0, 1, CountIn(list, "ANSWER"), CountIn(list, "AUTHORITY"),
                           CountIn(list, "ADDITIONAL"))
                    \o dump_question(q) \o FlattenSeq([k \in DOMAIN body |-> SentRecord(body[k])])
      BY Zenon DEF Answered, aliases
    <2> HIDE DEF body, out
    <2>5. out = CachedAnswer(d, list)
      BY <2>3, <2>4, Zenon DEF CachedAnswer, OwnHead, Written, h
    <2>6. AnswerOf(puts, in, Format!Meaning(out))
      BY <1>2, <1>5, <1>6, <1>7, <2>5, AnswerMeant DEF in
    <2> QED
      BY <1>3, <2>6, Zenon DEF Answers, puts, in, name, out, h
  <1> QED
    BY <1>8, <1>9

(* Where the clients and the upstream server write names no other way than *)
(* that, and the caches hold no more than a header counts, an answer from  *)
(* the cache is well-formed, repeats id and question, and its records mean *)
(* what they meant when they came, the names in their rdata too, but for   *)
(* the ttl (handle.c:58-153).                                              *)
THEOREM AnswerKeepsMeaning ==
    ASSUME PlainQueries, PlainResponses, FewStored
    PROVE  Spec => []AnsweredSame
  <1> DEFINE AnswerInv == Inv /\ StoredFew
  <1>1. Init => AnswerInv /\ AnsweredSame
    <2>1. Init => AnsweredSame
      BY DEF Init, Nothing, AnsweredSame
    <2> QED
      BY <2>1, InitInv, InitFew
  <1>2. AnswerInv /\ [Next]_vars => AnswerInv'
    BY NextInv, NextFew
  <1>3. AnswerInv /\ AnsweredSame /\ [Next]_vars => AnsweredSame'
    <2> SUFFICES ASSUME AnswerInv, AnsweredSame, [Next]_vars
                 PROVE  AnsweredSame'
      OBVIOUS
    <2>1. ASSUME NEW d \in Datagram, ReceiveResponse(d)
          PROVE  AnsweredSame'
      BY <2>1 DEF ReceiveResponse, AnsweredSame
    <2>2. ASSUME NEW d \in Datagram, RefuseMalformed(d)
          PROVE  AnsweredSame'
      BY <2>2 DEF RefuseMalformed, Reply, AnsweredSame
    <2>3. ASSUME NEW d \in Datagram, ReceiveQuery(d)
          PROVE  AnsweredSame'
      <3> DEFINE h == parse_header(d)
                 q == parse_question(d, HeaderLength)
                 list == Found(q.qtype, q.qname)
      <3>1. PlainName(d, HeaderLength) /\ UNCHANGED <<table, stored>>
        BY <2>3 DEF ReceiveQuery, Query, PlainQueries
      <3>2. \/ Reply("forwarded", d, Forwarded(d, q))
            \/ Reply("blocked", d, Blocked(h, q))
            \/ list # NoList /\ Reply("answered", d, Answered(h, q, list))
        BY <2>3, Zenon DEF ReceiveQuery
      <3>3. ASSUME list # NoList
            PROVE  Answers(Asked(d), Format!Meaning(d), Format!Meaning(Answered(h, q, list)))
        BY <3>1, <3>3, AnswersRight DEF Inv
      <3>4. ASSUME NEW name, NEW in, NEW sent, Answers(name, in, sent)
            PROVE  Answers(name, in, sent)'
        BY <3>1, <3>4 DEF Answers, AnswerOf, PutsFor
      <3> QED
        BY <3>2, <3>3, <3>4 DEF Reply, AnsweredSame
    <2>4. CASE UNCHANGED vars
      BY <2>4 DEF vars, AnsweredSame, Answers, AnswerOf, PutsFor
    <2> QED
      BY <2>1, <2>2, <2>3, <2>4 DEF Next
  <1> QED
    BY <1>1, <1>2, <1>3, PTL DEF Spec
=============================================================================

------------------------------ MODULE Messages ------------------------------
(***************************************************************************)
(* What handle.c does with the octets of a datagram: a response is read,   *)
(* its records are put into the caches and it is written again for the     *)
(* client; a query is read and answered from the caches, refused, or       *)
(* written again for the upstream server.  Composes Codec and NameTable.   *)
(*                                                                         *)
(* Each datagram is handled in one step and time stands still: Relay has   *)
(* the threads and the ids, RecordCache the expiry.  The id a message is   *)
(* written with is a constant here, and so is the ttl that the clock       *)
(* leaves to an entry of the hosts file.                                   *)
(***************************************************************************)
EXTENDS Codec, NameTable, FiniteSets

CONSTANTS
    Datagram,       \* the datagrams that arrive
    HostsLines,     \* [domain, address]
    MaxTtl,         \* 180
    RelayId,        \* the id a query is forwarded with
    ClientId,       \* the id a response is relayed with
    HostsTtl,
    SoaData,        \* the rdata of the record that comes with a name error
    MaxStored       \* bound: entries put into the caches

A == 1
CNAME == 5
AAAA == 28
CacheType == {A, AAAA, CNAME}
RrType == {"ANSWER", "AUTHORITY", "ADDITIONAL"}
FORMAT_ERROR == 1

ASSUME MessagesAssumption ==
    /\ Datagram \subseteq Seq(Octet)
    /\ HostsLines \in Seq([domain: Seq(Octet) \ {<<>>}, address: [1 .. 4 -> Octet]])
    /\ SoaData \in Seq(Octet)
    /\ TrieLength \in Nat /\ KeyRoom \in Nat /\ TrieLength < KeyRoom
    /\ InitCapacity \in Nat \ {0}
    /\ MaxTtl \in Nat /\ MaxStored \in Nat
    /\ RelayId \in Word /\ ClientId \in Word
    /\ HostsTtl \in Nat /\ HostsTtl \div 65536 \in Word       \* u32

VARIABLES
    table,          \* the trie and the hash map of each cache
    stored,         \* history: what has been put into the caches, in order
    last            \* the latest datagram and what was sent for it

vars == <<table, stored, last>>

(* The names that are asked for or in the hosts file.  A domain of the     *)
(* file gets a dot at its end.                                             *)
Asked(d) == parse_question(d, HeaderLength).qname

HostsName(entry) ==
    IF Last(entry.domain) = Dot THEN entry.domain ELSE Append(entry.domain, Dot)

Names ==
    {Asked(d) : d \in Datagram} \union {HostsName(HostsLines[k]) : k \in DOMAIN HostsLines}

(* Neither trie_insert nor hash_map_entry_ctor checks a name: the trie has *)
(* children for these octets only, and the struct behind a key's room      *)
(* holds two pointers (trie.h:8, hash_map.h:25-30).                        *)
ASSUME NamesAssumption ==
    \A name \in Names :
        KeyAllowed(name) =>
            IF Len(name) <= TrieLength
              THEN \A k \in DOMAIN name : name[k] \in 33 .. 127
              ELSE Len(name) < KeyRoom + 16

ASSUME HashAssumption == \A name \in Names : Hash(name) \in Nat

Now == 1            \* time(NULL), later than the 0 of the hosts file

Entry == [section: RrType, record_time: {0, Now}, ttl: 0 .. MaxTtl, name: Seq(Octet),
          type: Nat, class: Nat, rdata: Seq(Octet)]

(* An entry put into a cache, and where it is from: record "number" of a   *)
(* response, or no datagram for the hosts file.                            *)
Put == [cache: CacheType, key: Names, entry: Entry,
        from: Datagram \union {<<>>}, number: Nat]

Nothing == [kind |-> "nothing", in |-> <<>>, out |-> <<>>]
Kinds == {"nothing", "refused", "blocked", "answered", "forwarded", "relayed", "dropped"}

TypeOK ==
    /\ DOMAIN table = CacheType
    /\ stored \in Seq(Put)
    /\ last.kind \in Kinds
    /\ last.in \in Seq(Octet) /\ last.out \in Seq(Octet)

-----------------------------------------------------------------------------
(* The caches.                                                             *)
CachePut(c, p) ==
    [table |-> [c.table EXCEPT ![p.cache] = cache_insert(@, p.key, p.entry)],
     stored |-> Append(c.stored, p)]

(* One after the other; what is of another type goes to no cache.          *)
AllPut(c, puts) ==
    LET upTo[k \in 0 .. Len(puts)] ==
            IF k = 0 THEN c
            ELSE IF puts[k].cache \in CacheType THEN CachePut(upTo[k - 1], puts[k])
            ELSE upTo[k - 1]
    IN  upTo[Len(puts)]

(* read_hosts_file: an address 0.0.0.0 goes to all three caches.           *)
Zero(address) == address = <<0, 0, 0, 0>>

HostsPuts(entry) ==
    LET name == HostsName(entry)
        e == [section |-> "ANSWER", record_time |-> 0, ttl |-> 0, name |-> name,
              type |-> 1, class |-> 1, rdata |-> entry.address]
        caches == IF Zero(entry.address) THEN <<A, AAAA, CNAME>> ELSE <<A>>
    IN  [k \in DOMAIN caches |->
            [cache |-> caches[k], key |-> name, entry |-> e, from |-> <<>>, number |-> 0]]

Loaded ==
    LET upTo[k \in 0 .. Len(HostsLines)] ==
            IF k = 0 THEN [table |-> [t \in CacheType |-> EmptyTable], stored |-> <<>>]
                     ELSE AllPut(upTo[k - 1], HostsPuts(HostsLines[k]))
    IN  upTo[Len(HostsLines)]

Init ==
    /\ table = Loaded.table
    /\ stored = Loaded.stored
    /\ last = Nothing

-----------------------------------------------------------------------------
(* handle_receive_response: all records are read, section by section.      *)
SectionOf(h, k) ==
    IF k <= h.ancount THEN "ANSWER"
    ELSE IF k <= h.ancount + h.nscount THEN "AUTHORITY" ELSE "ADDITIONAL"

RecordCount(d) ==
    parse_header(d).ancount + parse_header(d).nscount + parse_header(d).arcount

NoneRead(d) == [records |-> <<>>, end |-> parse_question(d, HeaderLength).end]
Read(before, r) == [records |-> Append(before.records, r), end |-> r.end]

Records(d) ==
    LET upTo[k \in 0 .. RecordCount(d)] ==
            IF k = 0 THEN NoneRead(d)
                     ELSE Read(upTo[k - 1], parse_resource_record(d, upTo[k - 1].end))
    IN  upTo[RecordCount(d)].records

Least(a, b) == IF a < b THEN a ELSE b

(* A fault: the ttl is not limited.                                        *)
CachedForever(section, r) ==
    [section |-> section, record_time |-> Now, ttl |-> r.ttl, name |-> r.name,
     type |-> r.type, class |-> r.class, rdata |-> r.rdata]

Cached(section, r) ==
    [section |-> section, record_time |-> Now, ttl |-> Least(MaxTtl, r.ttl),
     name |-> r.name, type |-> r.type, class |-> r.class, rdata |-> r.rdata]

(* The records of a response, for the name asked for.                      *)
ResponsePuts(d) ==
    LET h == parse_header(d)
        records == Records(d)
    IN  IF h.rcode # 0
          THEN <<>>
          ELSE [k \in DOMAIN records |->
                   [cache |-> records[k].type, key |-> Asked(d),
                    entry |-> Cached(SectionOf(h, k), records[k]),
                    from |-> d, number |-> k]]

(* handle_send_response.                                                   *)
Relayed(d) ==
    LET records == Records(d)
    IN  dump_header(d, ClientId) \o dump_question(parse_question(d, HeaderLength))
            \o FlattenSeq([k \in DOMAIN records |-> dump_resource_record(records[k])])

ReceiveResponse(d) ==
    /\ parse_header(d).qr = 1
    /\ \E c \in {AllPut([table |-> table, stored |-> stored], ResponsePuts(d))} :
          /\ Len(c.stored) <= MaxStored
          /\ table' = c.table
          /\ stored' = c.stored
    /\ \/ last' = [kind |-> "relayed", in |-> d, out |-> Relayed(d)]
       \/ last' = [kind |-> "dropped", in |-> d, out |-> <<>>]

-----------------------------------------------------------------------------
(* handle_receive_query, handle_read_cache and handle_send_query.          *)
Found(qtype, name) ==
    IF qtype \in CacheType THEN cache_find(table[qtype], name) ELSE NoList

SentRecord(e) ==
    dump_resource_record([name |-> e.name, type |-> e.type, class |-> e.class,
                          ttl |-> IF e.record_time = 0 THEN HostsTtl ELSE e.ttl,
                          rdata |-> e.rdata])

CountIn(list, section) == Cardinality({k \in DOMAIN list : list[k].section = section})

(* A fault: the counts of the last two sections are swapped.               *)
AnsweredSwapped(h, q, list) ==
    LET aliases == IF q.qtype = A THEN Found(CNAME, q.qname) ELSE NoList
        body == aliases \o list
    IN  own_header(h.id, 0, 0, 1, CountIn(list, "ANSWER"), CountIn(list, "ADDITIONAL"),
                   CountIn(list, "AUTHORITY"))
            \o dump_question(q) \o FlattenSeq([k \in DOMAIN body |-> SentRecord(body[k])])

Answered(h, q, list) ==
    LET aliases == IF q.qtype = A THEN Found(CNAME, q.qname) ELSE NoList
        body == aliases \o list
    IN  own_header(h.id, 0, 0, 1, CountIn(list, "ANSWER"), CountIn(list, "AUTHORITY"),
                   CountIn(list, "ADDITIONAL"))
            \o dump_question(q) \o FlattenSeq([k \in DOMAIN body |-> SentRecord(body[k])])

Blocked(h, q) ==
    get_error_header(h.id, NAME_ERROR) \o dump_question(q) \o dump_error_authority(SoaData)

Forwarded(d, q) == dump_header(d, RelayId) \o dump_question(q)

Query(d) ==
    /\ parse_header(d).qr = 0
    /\ UNCHANGED <<table, stored>>

Reply(kind, d, out) == last' = [kind |-> kind, in |-> d, out |-> out]

RefuseMalformed(d) ==
    /\ Query(d)
    /\ parse_header(d).qdcount # 1
    /\ Reply("refused", d, get_error_header(0, FORMAT_ERROR))

Blocking(list) == \E k \in DOMAIN list : Zero(list[k].rdata)

ReceiveQuery(d) ==
    /\ Query(d)
    /\ parse_header(d).qdcount = 1
    /\ LET h == parse_header(d)
           q == parse_question(d, HeaderLength)
           list == Found(q.qtype, q.qname)
       IN  \/ list = NoList /\ Reply("forwarded", d, Forwarded(d, q))
           \/ Blocking(list) /\ Reply("blocked", d, Blocked(h, q))
           \/ list # NoList /\ ~ Blocking(list) /\ Reply("answered", d, Answered(h, q, list))

Next == \E d \in Datagram : ReceiveResponse(d) \/ RefuseMalformed(d) \/ ReceiveQuery(d)

Spec == Init /\ [][Next]_vars

-----------------------------------------------------------------------------
(* Properties.                                                             *)
Format == INSTANCE MessageMeaning

(* Those of the puts that are to cache t for a name, in order.             *)
PutsIn(puts, t, name) ==
    LET upTo[k \in 0 .. Len(puts)] ==
            IF k = 0 THEN <<>>
            ELSE IF puts[k].cache = t /\ puts[k].key = name
                   THEN Append(upTo[k - 1], puts[k])
            ELSE upTo[k - 1]
    IN  upTo[Len(puts)]

PutsFor(t, name) == PutsIn(stored, t, name)

EntriesOf(puts) == [k \in DOMAIN puts |-> puts[k].entry]

(* Whatever names are stored in whatever order, however the hash map grows *)
(* and its hashes collide: what is found for a name that fits an entry is  *)
(* what has been stored for it, all of it, in order, and for no other name *)
(* (trie.h:65-103, hash_map.h:64-114).                                     *)
FoundIsStored ==
    \A t \in CacheType, name \in Names :
        KeyAllowed(name) /\ Len(name) < KeyRoom =>
            cache_find(table[t], name) = EntriesOf(PutsFor(t, name))

(* The hash map keeps every entry in the chain of its hash, knows their    *)
(* number, and is never fuller than its load factor allows, though the     *)
(* names too long for an entry are stored again and again                  *)
(* (hash_map.h:82-102).                                                    *)
HashMapSound ==
    \A t \in CacheType :
        LET chains == table[t].hash_map
        IN  /\ \A k \in DOMAIN chains : \A e \in Range(chains[k]) :
                  Index(e.hash, Len(chains)) = k
            /\ table[t].size = Cardinality(Places(chains))
            /\ 4 * table[t].size <= 3 * Len(chains)

Same(in, out, id) == in.whole => out = [in EXCEPT !.id = id]

(* A response means the same to the client as it came from the upstream    *)
(* server, but for the id: names, types, ttls, the names and octets of     *)
(* rdata, counts and flags (handle.c:291-331, protocol.c:159-214).  It     *)
(* does where its only pointers stand for whole names of records           *)
(* (PlainMessages).                                                        *)
RelayedSame ==
    last.kind = "relayed" =>
        Same(Format!Meaning(last.in), Format!Meaning(last.out), ClientId)

(* A query means the same to the upstream server as it came from the       *)
(* client, but for the id, if it brings no records: they would be left     *)
(* out, and the counts still announce them (handle.c:192-206).             *)
ForwardedSame ==
    last.kind = "forwarded" /\ Format!Meaning(last.in).records = <<>> =>
        Same(Format!Meaning(last.in), Format!Meaning(last.out), RelayId)

(* What an entry of the cache says, if it is sent for question q: what the *)
(* record it is from said, but for the ttl.                                *)
SaidOf(record) == [record EXCEPT ![4] = Least(MaxTtl, @)]
Said(p, q) ==
    IF p.from = <<>>
      THEN <<q[1], A, 1, HostsTtl, Format!RdataAt(p.entry.rdata, A, 0, 4)>>
      ELSE SaidOf(Format!Meaning(p.from).records[p.number])

AnswerOf(puts, in, out) ==
    /\ out.whole
    /\ out.id = in.id
    /\ out.question = in.question
    /\ out.records = [k \in DOMAIN puts |-> Said(puts[k], in.question)]
    /\ out.counts = <<1, CountIn(EntriesOf(puts), "ANSWER"),
                      CountIn(EntriesOf(puts), "AUTHORITY"),
                      CountIn(EntriesOf(puts), "ADDITIONAL")>>

Answers(name, in, out) ==
    LET qtype == in.question[2]
    IN  \/ qtype = A /\ PutsFor(CNAME, name) # <<>>
        \/ AnswerOf(PutsFor(qtype, name), in, out)

(* An answer from the cache to a query for a name that has no alias there  *)
(* is well-formed, repeats id and question, and has the records that came  *)
(* for that name and type, from the upstream server or the hosts file, in  *)
(* their sections and with the same meaning but for the ttl                *)
(* (handle.c:58-153).                                                      *)
AnsweredSame ==
    last.kind = "answered" =>
        Answers(Asked(last.in), Format!Meaning(last.in), Format!Meaning(last.out))
=============================================================================

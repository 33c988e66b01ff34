---------------------------- MODULE RecordCache ----------------------------
(***************************************************************************)
(* The records the cache keeps for each name: the linked lists of list.h,  *)
(* filled from the hosts file (main.c) and from upstream responses         *)
(* (handle_receive_response), refreshed and read by handle_read_cache.     *)
(* Each of the three caches maps a name to a list; how a name is found     *)
(* (trie.h, hash_map.h) is left out, and so is the lock.                   *)
(*                                                                         *)
(* Lists are modelled with their pointers, because the entry of a blocked  *)
(* name is one node that is linked into the lists of all three caches.     *)
(* A list's head node carries no record and is never erased: it is left    *)
(* implicit, "first" being its next pointer and NULL standing for it.      *)
(***************************************************************************)
EXTENDS Integers, Sequences, FiniteSets, Functions

CONSTANTS
    Name,
    QType,          \* the types clients ask for
    HostsLines,     \* the lines of the hosts file: [name, zero], zero for 0.0.0.0
    UpstreamAnswers, \* the answers the upstream server gives: sequences of records
    MaxTtl,         \* 180
    Grace,          \* 10
    WordSize,       \* 2^32: a served ttl is a u32
    MaxNode,        \* bound: list nodes allocated
    MaxNow          \* bound: seconds

A == 1
CNAME == 5
AAAA == 28
CacheType == {A, AAAA, CNAME}       \* one cache for each
RrType == {"ANSWER", "AUTHORITY", "ADDITIONAL"}
NULL == 0

Record == [section: RrType, type: Nat, ttl: Nat, zero: BOOLEAN]

ASSUME RecordCacheAssumption ==
    /\ QType \subseteq Nat
    /\ HostsLines \in Seq([name: Name, zero: BOOLEAN])
    /\ \A answer \in UpstreamAnswers : answer \in Seq(Record)
    /\ MaxTtl \in Nat /\ Grace \in Nat
    /\ WordSize \in Nat /\ WordSize > MaxTtl
    /\ MaxNode \in Nat /\ MaxNow \in Nat \ {0}

VARIABLES
    now,            \* time(NULL)
    line,           \* the lines of the hosts file read so far
    node,           \* the ListNodes allocated, in order: a node is its index
    freed,          \* the nodes freed
    list,           \* list[t, n]: the List of name n in cache t
    misused,        \* the lists whose handling has used a freed node
    forwarded,      \* the <<name, type>> sent upstream
    last            \* the latest answer given from the cache

store == <<node, freed, list, misused>>
vars == <<now, line, store, forwarded, last>>

Node == 1 .. Len(node)
List == [first: Nat, tail: Nat, size: Int]
ListNode == [section: RrType, ttl: 0 .. MaxTtl, record_time: Nat, zero: BOOLEAN,
             prev: Nat, next: Nat]

SentRecord == [section: RrType, ttl: Nat, sent_ttl: Nat]

NoAnswer == [kind |-> "none"]
Answer == [kind: {"NAME_ERROR", "NO_ERROR"}, name: Name, qtype: QType,
           ancount: Nat, nscount: Nat, arcount: Nat, body: Seq(SentRecord)]

TypeOK ==
    /\ now \in 1 .. MaxNow
    /\ line \in 0 .. Len(HostsLines)
    /\ node \in Seq(ListNode)
    /\ freed \subseteq Node
    /\ list \in [CacheType \X Name -> List]
    /\ misused \subseteq CacheType \X Name
    /\ forwarded \subseteq Name \X QType
    /\ last \in {NoAnswer} \union Answer

Init ==
    /\ now = 1
    /\ line = 0
    /\ node = <<>>
    /\ freed = {}
    /\ list = [i \in CacheType \X Name |-> [first |-> NULL, tail |-> NULL, size |-> 0]]
    /\ misused = {}
    /\ forwarded = {}
    /\ last = NoAnswer

-----------------------------------------------------------------------------
(* list.h.  The operators take and return the lists and their nodes as one *)
(* record.                                                                 *)
Heap == [node |-> node, freed |-> freed, list |-> list, misused |-> misused]

(* The two pointers that make node n follow node p, where they are nodes.  *)
Joined(h, p, n) ==
    [k \in DOMAIN h.node |-> [h.node[k] EXCEPT !.next = IF k = p THEN n ELSE @,
                                               !.prev = IF k = n THEN p ELSE @]]

list_push_back(h, i, n) ==
    LET tail == h.list[i].tail
    IN  [node |-> Joined(h, tail, n),
         freed |-> h.freed,
         list |-> [h.list EXCEPT ![i] =
                      [first |-> IF tail = NULL THEN n ELSE @.first,
                       tail |-> n, size |-> @.size + 1]],
         misused |-> h.misused \union {j \in {i} : tail \in h.freed}]

(* A fault: the tail is left behind.                                       *)
list_erase_not_tail(h, i, n) ==
    LET prev == h.node[n].prev
        next == h.node[n].next
    IN  [node |-> Joined(h, prev, next),
         freed |-> h.freed \union {n},
         list |-> [h.list EXCEPT ![i].first = IF prev = NULL THEN next ELSE @,
                                 ![i].size = @ - 1],
         misused |-> h.misused]

list_erase(h, i, n) ==
    LET prev == h.node[n].prev
        next == h.node[n].next
    IN  [node |-> Joined(h, prev, next),
         freed |-> h.freed \union {n},
         list |-> [h.list EXCEPT ![i] =
                      [first |-> IF prev = NULL THEN next ELSE @.first,
                       tail |-> IF n = @.tail THEN prev ELSE @.tail,
                       size |-> @.size - 1]],
         misused |-> h.misused \union
                        {j \in {i} : {prev, next, h.list[i].tail} \intersect h.freed # {}}]

(* The nodes met from the first of list i on.                              *)
Walk(h, i) ==
    LET from[n \in 0 .. Len(h.node)] ==
            IF n = NULL THEN <<>> ELSE <<n>> \o from[h.node[n].next]
    IN  from[h.list[i].first]

(* Two faults: the ttl is taken for the time of expiry, and no regard for  *)
(* the mark of the hosts file.                                             *)
ExpiredByTtl(e) == e.ttl # 0 /\ now - e.ttl > Grace
ExpiredUnmarked(e) == now - (e.record_time + e.ttl) > Grace

Expired(e) == e.ttl # 0 /\ now - (e.record_time + e.ttl) > Grace

(* The record of node n is looked at.                                      *)
Refresh(h, i, n) == IF Expired(h.node[n]) THEN list_erase(h, i, n) ELSE h

list_update(h, i) ==
    LET w == Walk(h, i)
        passed[k \in 0 .. Len(w)] ==
            IF k = 0 THEN h ELSE Refresh(passed[k - 1], i, w[k])
    IN  passed[Len(w)]

NewNode(section, ttl, record_time, zero) ==
    [section |-> section, ttl |-> ttl, record_time |-> record_time, zero |-> zero,
     prev |-> NULL, next |-> NULL]

Allocated(h, e) ==
    [node |-> Append(h.node, e), freed |-> h.freed, list |-> h.list,
     misused |-> h.misused]

(* Nothing can be said of the program once freed memory is used: malloc    *)
(* may have given the address to another node by then, of any list.  The   *)
(* model ends there, with the lists as they were before the operation.     *)
Outcome(h) == IF h.misused = {} THEN h ELSE [Heap EXCEPT !.misused = h.misused]

SetHeap(h) ==
    /\ node' = Outcome(h).node
    /\ freed' = Outcome(h).freed
    /\ list' = Outcome(h).list
    /\ misused' = Outcome(h).misused

-----------------------------------------------------------------------------
(* A fault: a blocked name only goes to the A cache.                       *)
LoadHostsLineA ==
    /\ line < Len(HostsLines) /\ misused = {}
    /\ LET entry == HostsLines[line + 1]
           n == Len(node) + 1
           h == Allocated(Heap, NewNode("ANSWER", 0, 0, entry.zero))
       IN  SetHeap(list_push_back(h, <<A, entry.name>>, n))
    /\ line' = line + 1
    /\ UNCHANGED <<now, forwarded, last>>

(* read_hosts_file: an entry that never expires goes to the A cache; one   *)
(* with the address 0.0.0.0 goes to all three, the same node each time.    *)
LoadHostsLine ==
    /\ line < Len(HostsLines) /\ misused = {}
    /\ LET entry == HostsLines[line + 1]
           n == Len(node) + 1
           h == Allocated(Heap, NewNode("ANSWER", 0, 0, entry.zero))
           inA == list_push_back(h, <<A, entry.name>>, n)
           inAAAA == list_push_back(inA, <<AAAA, entry.name>>, n)
           inCNAME == list_push_back(inAAAA, <<CNAME, entry.name>>, n)
       IN  SetHeap(IF entry.zero THEN inCNAME ELSE inA)
    /\ line' = line + 1
    /\ UNCHANGED <<now, forwarded, last>>

Serving == line = Len(HostsLines)

Least(a, b) == IF a < b THEN a ELSE b

(* A fault: the ttl is not limited.                                        *)
CacheRecordUncapped(h, name, rr) ==
    LET n == Len(h.node) + 1
        e == NewNode(rr.section, rr.ttl, now, rr.zero)
    IN  IF rr.type \in CacheType
          THEN list_push_back(Allocated(h, e), <<rr.type, name>>, n)
          ELSE h

(* handle_receive_response, with rcode NO_ERROR: every record of type A,   *)
(* AAAA or CNAME becomes a node of the list of the name asked for.         *)
CacheRecord(h, name, rr) ==
    LET n == Len(h.node) + 1
        e == NewNode(rr.section, Least(MaxTtl, rr.ttl), now, rr.zero)
    IN  IF rr.type \in CacheType
          THEN list_push_back(Allocated(h, e), <<rr.type, name>>, n)
          ELSE h

CacheAnswer(h, name, answer) ==
    LET cached[k \in 0 .. Len(answer)] ==
            IF k = 0 THEN h ELSE CacheRecord(cached[k - 1], name, answer[k])
    IN  cached[Len(answer)]

ReceiveResponse ==
    /\ Serving /\ misused = {}
    /\ \E q \in forwarded, answer \in UpstreamAnswers :
          /\ Len(node) + Len(answer) <= MaxNode
          /\ SetHeap(CacheAnswer(Heap, q[1], answer))
    /\ UNCHANGED <<now, line, forwarded, last>>

Count(h, nodes, section) ==
    Cardinality({k \in DOMAIN nodes : h.node[nodes[k]].section = section})

(* A record as it is sent: what is left of its ttl, as a u32.              *)
Sent(e) ==
    [section |-> e.section, ttl |-> e.ttl,
     sent_ttl |-> (e.ttl - (now - e.record_time)) % WordSize]

(* The name error for a 0.0.0.0 entry: no answers, one authority record.   *)
SOA == [section |-> "AUTHORITY", ttl |-> 10800, sent_ttl |-> 10800]

NameError(name, qtype) ==
    [kind |-> "NAME_ERROR", name |-> name, qtype |-> qtype,
     ancount |-> 0, nscount |-> 1, arcount |-> 0, body |-> <<SOA>>]

(* The counts come from the list of the type asked for, the body also has  *)
(* the CNAMEs in front of the addresses.                                   *)
FoundAnswer(h, name, qtype, found) ==
    LET cnames == IF qtype = A THEN Walk(h, <<CNAME, name>>) ELSE <<>>
        body == cnames \o found
    IN  [kind |-> "NO_ERROR", name |-> name, qtype |-> qtype,
         ancount |-> Count(h, found, "ANSWER"),
         nscount |-> Count(h, found, "AUTHORITY"),
         arcount |-> Count(h, found, "ADDITIONAL"),
         body |-> [k \in DOMAIN body |-> Sent(h.node[body[k]])]]

Blocking(h, found) == \E k \in DOMAIN found : h.node[found[k]].zero

(* handle_read_cache: the list is refreshed, then answered from, unless    *)
(* nothing is left in it.                                                  *)
ReadCache(name, qtype) ==
    /\ Serving /\ misused = {}
    /\ LET i == <<qtype, name>>
           h == IF qtype \in CacheType THEN list_update(Heap, i) ELSE Heap
           found == IF qtype \in CacheType THEN Walk(h, i) ELSE <<>>
       IN  /\ SetHeap(h)
           /\ \/ /\ h.misused # {}
                 /\ UNCHANGED <<forwarded, last>>
              \/ /\ h.misused = {} /\ found = <<>>
                 /\ forwarded' = forwarded \union {<<name, qtype>>}
                 /\ last' = NoAnswer
              \/ /\ h.misused = {} /\ Blocking(h, found)
                 /\ last' = NameError(name, qtype)
                 /\ UNCHANGED forwarded
              \/ /\ h.misused = {} /\ found # <<>> /\ ~ Blocking(h, found)
                 /\ last' = FoundAnswer(h, name, qtype, found)
                 /\ UNCHANGED forwarded
    /\ UNCHANGED <<now, line>>

Tick ==
    /\ now < MaxNow /\ misused = {}
    /\ now' = now + 1
    /\ UNCHANGED <<line, store, forwarded, last>>

Next ==
    \/ LoadHostsLine
    \/ ReceiveResponse
    \/ \E name \in Name, qtype \in QType : ReadCache(name, qtype)
    \/ Tick

Spec == Init /\ [][Next]_vars

-----------------------------------------------------------------------------
(* Properties.                                                             *)

BlockedNames == {HostsLines[k].name : k \in {j \in DOMAIN HostsLines : HostsLines[j].zero}}
Lists == CacheType \X (Name \ BlockedNames)
Last0(s) == IF s = <<>> THEN NULL ELSE s[Len(s)]

(* No list leads to a freed node.  Those of names that are not blocked are *)
(* what list_push_back and list_erase take them for, though the lists of   *)
(* blocked names share nodes and lose records: the walk from the head ends *)
(* at the tail, has as many nodes as the size says, and every node that    *)
(* may be erased points back to the one before it; and no freed node has   *)
(* been used for one of them (list.h:94-138).                              *)
ListsIntact ==
    /\ \A i \in CacheType \X Name : Range(Walk(Heap, i)) \intersect freed = {}
    /\ \A i \in Lists :
          LET w == Walk(Heap, i)
          IN  /\ i \notin misused
              /\ list[i].tail = Last0(w)
              /\ list[i].size = Len(w)
              /\ \A k \in DOMAIN w :
                    node[w[k]].ttl # 0 =>
                        node[w[k]].prev = Last0(SubSeq(w, 1, k - 1))

(* A name the hosts file blocks is refused whenever an address or an alias *)
(* is asked for, whatever is cached for it meanwhile (handle.c:76-113,     *)
(* main.c:95-101): such a query is never forwarded and never answered      *)
(* otherwise.                                                              *)
BlockedRefused ==
    \A name \in BlockedNames :
        /\ \A t \in CacheType : <<name, t>> \notin forwarded
        /\ last # NoAnswer /\ last.name = name => last.kind = "NAME_ERROR"

(* The entries of the hosts file stay where main.c:95-101 has put them: a  *)
(* blocked name's in all three caches, though these share the node, and an *)
(* address with the A cache, unless its name is also blocked.              *)
HostsKept ==
    \A k \in 1 .. line :
        LET held(t) == k \in Range(Walk(Heap, <<t, HostsLines[k].name>>))
        IN  /\ HostsLines[k].zero => \A t \in CacheType : held(t)
            /\ HostsLines[k].name \notin BlockedNames => held(A)

Entry(e) ==
    [section |-> e.section, ttl |-> e.ttl, record_time |-> e.record_time, zero |-> e.zero]

Entries(h, i) ==
    LET w == Walk(h, i) IN [k \in 1 .. Len(w) |-> Entry(h.node[w[k]])]

Promise == INSTANCE TtlCache WITH
    Index <- Lists,
    entries <- [i \in Lists |-> Entries(Heap, i)]

(* The linked lists of names that are not blocked implement sequences of   *)
(* entries with an expiry time: no entry is lost before the last seconds   *)
(* of its ttl, out of order, or brought back (list.h:91-138).              *)
KeepsPromise == Promise!Spec

(* No freed node is used (list.h:91-138).  One can be where the hosts file *)
(* blocks a name: the name's entry is one node in three lists              *)
(* (main.c:95-101), so that a node is erased by way of one of them that is *)
(* the tail of another.                                                    *)
FreedUnused == misused = {}
=============================================================================

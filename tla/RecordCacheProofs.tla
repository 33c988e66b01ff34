-------------------------- MODULE RecordCacheProofs --------------------------
(***************************************************************************)
(* Proofs about RecordCache, for any hosts file, any answers from upstream *)
(* and lists of any length.                                                *)
(*                                                                         *)
(* Nodes are allocated in ascending order, and every next pointer leads to *)
(* a later node, every prev pointer to an earlier one, even where the      *)
(* lists of a blocked name share nodes.  So a walk ends, and a list that   *)
(* shares nothing is its live nodes in ascending order.                    *)
(***************************************************************************)
EXTENDS RecordCache, NumberFacts, FiniteSetTheorems, SequenceTheorems

Lists3 == CacheType \X Name

(* The lists of a blocked name are one family, every other list is its own.*)
Home(i) == IF i[2] \in BlockedNames THEN <<NULL, i[2]>> ELSE i
Homes == (CacheType \union {NULL}) \X Name

HeapTyped(h) ==
    /\ h = [node |-> h.node, freed |-> h.freed, list |-> h.list, misused |-> h.misused]
    /\ h.node \in Seq(ListNode)
    /\ h.freed \subseteq 1 .. Len(h.node)
    /\ h.list \in [Lists3 -> List]
    /\ h.misused \subseteq Lists3

(* "own" gives each node its family: no pointer leaves it.                 *)
Linking(h, own) ==
    /\ \A n \in 1 .. Len(h.node) :
          /\ own[n] \in Homes
          /\ h.node[n].next # NULL =>
                /\ h.node[n].next \in n + 1 .. Len(h.node)
                /\ own[h.node[n].next] = own[n]
          /\ h.node[n].prev # NULL =>
                /\ h.node[n].prev \in 1 .. n - 1
                /\ own[h.node[n].prev] = own[n]
    /\ \A i \in Lists3 :
          /\ h.list[i].first # NULL =>
                h.list[i].first \in 1 .. Len(h.node) /\ own[h.list[i].first] = Home(i)
          /\ h.list[i].tail # NULL =>
                h.list[i].tail \in 1 .. Len(h.node) /\ own[h.list[i].tail] = Home(i)

Live(h, own, i) == {n \in 1 .. Len(h.node) : own[n] = i /\ n \notin h.freed}

(* A list that is not of a blocked name: its live nodes, doubly linked.    *)
Ordered(h, own, i) ==
    /\ i \notin h.misused
    /\ h.list[i].size = Cardinality(Live(h, own, i))
    /\ h.list[i].first \in Live(h, own, i) \union {NULL}
    /\ h.list[i].tail \in Live(h, own, i) \union {NULL}
    /\ \A n \in Live(h, own, i) :
          /\ h.node[n].next = NULL <=> n = h.list[i].tail
          /\ h.node[n].next # NULL =>
                /\ h.node[n].next \in Live(h, own, i)
                /\ h.node[h.node[n].next].prev = n
          /\ h.node[n].prev = NULL <=> n = h.list[i].first
          /\ h.node[n].prev # NULL =>
                /\ h.node[n].prev \in Live(h, own, i)
                /\ h.node[h.node[n].prev].next = n

(* The nodes of the first L lines of the hosts file.                       *)
FromHosts(h, own, L) ==
    /\ L <= Len(h.node)
    /\ \A k \in 1 .. L :
          /\ own[k] = Home(<<A, HostsLines[k].name>>)
          /\ h.node[k].ttl = 0 /\ h.node[k].zero = HostsLines[k].zero
    /\ \A n \in h.freed : h.node[n].ttl # 0

(* A blocked name: no pointer of the family passes over one of its         *)
(* entries, and each of its lists begins at or before them and ends at or  *)
(* behind them.                                                            *)
Anchors(h, own, k, b) ==
    /\ \A t \in CacheType :
          h.list[<<t, b>>].first \in 1 .. k /\ h.list[<<t, b>>].tail >= k
    /\ \A n \in 1 .. Len(h.node) : own[n] = <<NULL, b>> =>
          /\ n < k => h.node[n].next \in 1 .. k
          /\ n > k => h.node[n].prev >= k

Anchored(h, own, L) ==
    \A k \in 1 .. L : HostsLines[k].zero => Anchors(h, own, k, HostsLines[k].name)

(* While the hosts file is read, the A cache has all entries of a blocked  *)
(* name, or those behind the last for 0.0.0.0.                             *)
Loading(h, own) ==
    \A b \in BlockedNames :
        /\ \A t \in CacheType :
              h.list[<<t, b>>].tail # NULL => h.list[<<t, b>>].first # NULL
        /\ \A n \in 1 .. Len(h.node) : own[n] = <<NULL, b>> =>
              /\ n <= h.list[<<A, b>>].tail
              /\ n # h.list[<<A, b>>].tail => h.node[n].next # NULL

Good(h, own) ==
    /\ HeapTyped(h)
    /\ Linking(h, own)
    /\ \A i \in Lists : Ordered(h, own, i)

Dated(h) == \A n \in 1 .. Len(h.node) : h.node[n].record_time <= now

(* "main" has the nodes that lists lead to: none is freed, and a node that *)
(* may be erased points back to the only one of them that leads to it.     *)
Solid(h, main) ==
    /\ main \subseteq 1 .. Len(h.node) /\ main \intersect h.freed = {}
    /\ \A n \in main : h.node[n].next # NULL =>
          /\ h.node[n].next \in main
          /\ h.node[h.node[n].next].ttl # 0 => h.node[h.node[n].next].prev = n
    /\ \A i \in Lists3 : h.list[i].first \in main \union {NULL}

Whole(h, own, L) ==
    /\ Good(h, own) /\ FromHosts(h, own, L) /\ Anchored(h, own, L)
    /\ \E main : Solid(h, main)

CacheInv ==
    /\ TypeOK /\ Dated(Heap) /\ BlockedRefused
    /\ \E own \in [Node -> Homes] :
          /\ Whole(Heap, own, line)
          /\ ~ Serving => Len(node) = line /\ Loading(Heap, own)

-----------------------------------------------------------------------------
(* What list_push_back and list_erase do to each node and each list.       *)

SameData(h, g, n) ==
    /\ g.node[n].section = h.node[n].section /\ g.node[n].ttl = h.node[n].ttl
    /\ g.node[n].record_time = h.node[n].record_time
    /\ g.node[n].zero = h.node[n].zero

Pushed(h, g, i, n) ==
    LET tail == h.list[i].tail
    IN  /\ HeapTyped(g) /\ Len(g.node) = Len(h.node) /\ g.freed = h.freed
        /\ \A m \in 1 .. Len(h.node) :
              /\ SameData(h, g, m)
              /\ g.node[m].next = IF m = tail THEN n ELSE h.node[m].next
              /\ g.node[m].prev = IF m = n THEN tail ELSE h.node[m].prev
        /\ \A j \in Lists3 \ {i} : g.list[j] = h.list[j]
        /\ g.list[i].first = IF tail = NULL THEN n ELSE h.list[i].first
        /\ g.list[i].tail = n /\ g.list[i].size = h.list[i].size + 1
        /\ g.misused = h.misused \union {j \in {i} : tail \in h.freed}

Erased(h, g, i, n) ==
    LET prev == h.node[n].prev
        next == h.node[n].next
    IN  /\ HeapTyped(g) /\ Len(g.node) = Len(h.node) /\ g.freed = h.freed \union {n}
        /\ \A m \in 1 .. Len(h.node) :
              /\ SameData(h, g, m)
              /\ g.node[m].next = IF m = prev THEN next ELSE h.node[m].next
              /\ g.node[m].prev = IF m = next THEN prev ELSE h.node[m].prev
        /\ \A j \in Lists3 \ {i} : g.list[j] = h.list[j]
        /\ g.list[i].first = IF prev = NULL THEN next ELSE h.list[i].first
        /\ g.list[i].tail = IF n = h.list[i].tail THEN prev ELSE h.list[i].tail
        /\ g.list[i].size = h.list[i].size - 1
        /\ g.misused =
              h.misused \union
                  {j \in {i} : {prev, next, h.list[i].tail} \intersect h.freed # {}}

Appended(h, g, e) ==
    /\ HeapTyped(g) /\ Len(g.node) = Len(h.node) + 1
    /\ \A n \in 1 .. Len(h.node) : g.node[n] = h.node[n]
    /\ g.node[Len(h.node) + 1] = e
    /\ g.freed = h.freed /\ g.list = h.list /\ g.misused = h.misused

LEMMA JoinNodes ==
    ASSUME NEW h, HeapTyped(h), NEW p \in Nat, NEW n \in Nat
    PROVE  LET g == [node |-> Joined(h, p, n)]
           IN  /\ g.node \in Seq(ListNode) /\ Len(g.node) = Len(h.node)
               /\ \A m \in 1 .. Len(h.node) :
                     /\ SameData(h, g, m)
                     /\ g.node[m].next = IF m = p THEN n ELSE h.node[m].next
                     /\ g.node[m].prev = IF m = n THEN p ELSE h.node[m].prev
  <1> DEFINE g == [node |-> Joined(h, p, n)]
  <1>1. h.node \in Seq(ListNode) /\ DOMAIN h.node = 1 .. Len(h.node)
    BY DEF HeapTyped
  <1>2. ASSUME NEW m \in 1 .. Len(h.node)
        PROVE  /\ g.node[m] \in ListNode /\ SameData(h, g, m)
               /\ g.node[m].next = IF m = p THEN n ELSE h.node[m].next
               /\ g.node[m].prev = IF m = n THEN p ELSE h.node[m].prev
    <2> DEFINE r == h.node[m]
               r2 == [r EXCEPT !.next = IF m = p THEN n ELSE @,
                               !.prev = IF m = n THEN p ELSE @]
    <2>1. r \in ListNode
      BY <1>1
    <2>2. g.node[m] = r2
      BY <1>1 DEF Joined
    <2> HIDE DEF r
    <2>3. /\ r2 \in ListNode
          /\ r2.section = r.section /\ r2.ttl = r.ttl
          /\ r2.record_time = r.record_time /\ r2.zero = r.zero
          /\ r2.next = IF m = p THEN n ELSE r.next
          /\ r2.prev = IF m = n THEN p ELSE r.prev
      BY <2>1 DEF ListNode
    <2> HIDE DEF r2, g
    <2> QED
      BY <2>2, <2>3 DEF SameData, r
  <1>3. DOMAIN g.node = 1 .. Len(h.node)
    BY <1>1 DEF Joined
  <1>4. g.node = [m \in 1 .. Len(h.node) |-> g.node[m]]
    BY <1>1, <1>3 DEF Joined
  <1> HIDE DEF g
  <1>5. g.node \in Seq(ListNode) /\ Len(g.node) = Len(h.node)
    BY <1>1, <1>2, <1>4
  <1> QED
    BY <1>2, <1>5 DEF g

LEMMA PushBack ==
    ASSUME NEW h, HeapTyped(h), NEW i \in Lists3, NEW n \in 1 .. Len(h.node),
           h.list[i].tail \in 0 .. Len(h.node)
    PROVE  Pushed(h, list_push_back(h, i, n), i, n)
  <1> DEFINE tail == h.list[i].tail
             nodes == Joined(h, tail, n)
             lists == [h.list EXCEPT ![i] = [first |-> IF tail = NULL THEN n ELSE @.first,
                                             tail |-> n, size |-> @.size + 1]]
             marks == h.misused \union {j \in {i} : tail \in h.freed}
             g == list_push_back(h, i, n)
  <1>1. g = [node |-> nodes, freed |-> h.freed, list |-> lists, misused |-> marks]
    BY DEF list_push_back
  <1>2. /\ h.list \in [Lists3 -> List] /\ h.misused \subseteq Lists3
        /\ h.freed \subseteq 1 .. Len(h.node) /\ tail \in Nat
    BY DEF HeapTyped
  <1>3. /\ lists \in [Lists3 -> List]
        /\ \A j \in Lists3 \ {i} : lists[j] = h.list[j]
        /\ lists[i].first = IF tail = NULL THEN n ELSE h.list[i].first
        /\ lists[i].tail = n /\ lists[i].size = h.list[i].size + 1
    BY <1>2 DEF List
  <1>4. /\ nodes \in Seq(ListNode) /\ Len(nodes) = Len(h.node)
        /\ \A m \in 1 .. Len(h.node) :
              /\ SameData(h, [node |-> nodes], m)
              /\ nodes[m].next = IF m = tail THEN n ELSE h.node[m].next
              /\ nodes[m].prev = IF m = n THEN tail ELSE h.node[m].prev
    <2> HIDE DEF tail
    <2> QED
      BY <1>2, JoinNodes
  <1>5. marks \subseteq Lists3
    BY <1>2
  <1> HIDE DEF nodes, lists, marks, g
  <1>6. /\ g.node = nodes /\ g.freed = h.freed /\ g.list = lists /\ g.misused = marks
        /\ g = [node |-> g.node, freed |-> g.freed, list |-> g.list, misused |-> g.misused]
    BY <1>1
  <1>7. HeapTyped(g)
    BY <1>2, <1>3, <1>4, <1>5, <1>6 DEF HeapTyped
  <1>8. \A m \in 1 .. Len(h.node) : SameData(h, g, m)
    BY <1>4, <1>6 DEF SameData
  <1> QED
    BY <1>3, <1>4, <1>6, <1>7, <1>8 DEF Pushed, marks, g

LEMMA EraseNode ==
    ASSUME NEW h, HeapTyped(h), NEW i \in Lists3, NEW n \in 1 .. Len(h.node)
    PROVE  Erased(h, list_erase(h, i, n), i, n)
  <1> DEFINE prev == h.node[n].prev
             next == h.node[n].next
             nodes == Joined(h, prev, next)
             lists == [h.list EXCEPT ![i] = [first |-> IF prev = NULL THEN next ELSE @.first,
                                             tail |-> IF n = @.tail THEN prev ELSE @.tail,
                                             size |-> @.size - 1]]
             marks == h.misused \union
                         {j \in {i} : {prev, next, h.list[i].tail} \intersect h.freed # {}}
             g == list_erase(h, i, n)
  <1>1. g = [node |-> nodes, freed |-> h.freed \union {n}, list |-> lists,
             misused |-> marks]
    BY DEF list_erase
  <1>2. /\ h.list \in [Lists3 -> List] /\ h.misused \subseteq Lists3
        /\ h.freed \subseteq 1 .. Len(h.node)
    BY DEF HeapTyped
  <1>3. prev \in Nat /\ next \in Nat
    <2>1. h.node[n] \in ListNode
      BY DEF HeapTyped
    <2> QED
      BY <2>1 DEF ListNode
  <1>4. /\ lists \in [Lists3 -> List]
        /\ \A j \in Lists3 \ {i} : lists[j] = h.list[j]
        /\ lists[i].first = IF prev = NULL THEN next ELSE h.list[i].first
        /\ lists[i].tail = IF n = h.list[i].tail THEN prev ELSE h.list[i].tail
        /\ lists[i].size = h.list[i].size - 1
    <2> HIDE DEF prev, next
    <2> QED
      BY <1>2, <1>3 DEF List
  <1>5. /\ nodes \in Seq(ListNode) /\ Len(nodes) = Len(h.node)
        /\ \A m \in 1 .. Len(h.node) :
              /\ SameData(h, [node |-> nodes], m)
              /\ nodes[m].next = IF m = prev THEN next ELSE h.node[m].next
              /\ nodes[m].prev = IF m = next THEN prev ELSE h.node[m].prev
    <2> HIDE DEF prev, next
    <2> QED
      BY <1>3, JoinNodes
  <1>6. marks \subseteq Lists3
    BY <1>2
  <1> HIDE DEF nodes, lists, marks, g
  <1>7. /\ g.node = nodes /\ g.freed = h.freed \union {n}
        /\ g.list = lists /\ g.misused = marks
        /\ g = [node |-> g.node, freed |-> g.freed, list |-> g.list, misused |-> g.misused]
    BY <1>1
  <1>8. HeapTyped(g)
    BY <1>2, <1>4, <1>5, <1>6, <1>7 DEF HeapTyped
  <1>9. \A m \in 1 .. Len(h.node) : SameData(h, g, m)
    BY <1>5, <1>7 DEF SameData
  <1> QED
    BY <1>4, <1>5, <1>7, <1>8, <1>9 DEF Erased, marks, g

LEMMA AppendNode ==
    ASSUME NEW h, HeapTyped(h), NEW e \in ListNode
    PROVE  Appended(h, Allocated(h, e), e)
  <1> DEFINE nodes == Append(h.node, e)
             g == Allocated(h, e)
  <1>1. /\ h.node \in Seq(ListNode) /\ h.list \in [Lists3 -> List]
        /\ h.freed \subseteq 1 .. Len(h.node) /\ h.misused \subseteq Lists3
    BY DEF HeapTyped
  <1>2. /\ nodes \in Seq(ListNode) /\ Len(nodes) = Len(h.node) + 1
        /\ \A n \in 1 .. Len(h.node) : nodes[n] = h.node[n]
        /\ nodes[Len(h.node) + 1] = e
    BY <1>1
  <1> HIDE DEF nodes
  <1>3. /\ g.node = nodes /\ g.freed = h.freed /\ g.list = h.list
        /\ g.misused = h.misused
        /\ g = [node |-> g.node, freed |-> g.freed, list |-> g.list, misused |-> g.misused]
    BY DEF nodes, Allocated
  <1> HIDE DEF g
  <1>4. HeapTyped(g)
    BY <1>1, <1>2, <1>3 DEF HeapTyped
  <1> QED
    BY <1>2, <1>3, <1>4 DEF Appended, g

-----------------------------------------------------------------------------
(* A new node at the end of a list.                                        *)

NewPushed(h, g, i, e) ==
    LET n == Len(h.node) + 1
        tail == h.list[i].tail
    IN  /\ HeapTyped(g) /\ Len(g.node) = n /\ g.freed = h.freed
        /\ \A m \in 1 .. Len(h.node) :
              /\ SameData(h, g, m) /\ g.node[m].prev = h.node[m].prev
              /\ g.node[m].next = IF m = tail THEN n ELSE h.node[m].next
        /\ g.node[n].next = NULL /\ g.node[n].prev = tail
        /\ g.node[n].section = e.section /\ g.node[n].ttl = e.ttl
        /\ g.node[n].record_time = e.record_time /\ g.node[n].zero = e.zero
        /\ \A j \in Lists3 \ {i} : g.list[j] = h.list[j]
        /\ g.list[i].first = IF tail = NULL THEN n ELSE h.list[i].first
        /\ g.list[i].tail = n /\ g.list[i].size = h.list[i].size + 1
        /\ g.misused = h.misused \union {j \in {i} : tail \in h.freed}

LEMMA PushNew ==
    ASSUME NEW h, HeapTyped(h), NEW i \in Lists3, NEW e \in ListNode, e.next = NULL,
           h.list[i].tail \in 0 .. Len(h.node)
    PROVE  NewPushed(h, list_push_back(Allocated(h, e), i, Len(h.node) + 1), i, e)
  <1> DEFINE n == Len(h.node) + 1
             a == Allocated(h, e)
             g == list_push_back(a, i, n)
  <1>1. Len(h.node) \in Nat
    BY DEF HeapTyped
  <1>2. Appended(h, a, e)
    BY AppendNode
  <1> HIDE DEF a
  <1>3. Pushed(a, g, i, n)
    <2>1. /\ HeapTyped(a) /\ n \in 1 .. Len(a.node)
          /\ a.list[i].tail \in 0 .. Len(a.node)
      BY <1>1, <1>2 DEF Appended
    <2> QED
      BY <2>1, PushBack
  <1> HIDE DEF g
  <1>4. h.list[i].tail # n
    BY <1>1
  <1>5. \A m \in 1 .. Len(h.node) :
            /\ SameData(h, g, m) /\ g.node[m].prev = h.node[m].prev
            /\ g.node[m].next = IF m = h.list[i].tail THEN n ELSE h.node[m].next
    <2> SUFFICES ASSUME NEW m \in 1 .. Len(h.node)
                 PROVE  /\ SameData(h, g, m) /\ g.node[m].prev = h.node[m].prev
                        /\ g.node[m].next = IF m = h.list[i].tail THEN n ELSE h.node[m].next
      OBVIOUS
    <2>1. a.node[m] = h.node[m] /\ a.list = h.list /\ m \in 1 .. Len(a.node) /\ m # n
      BY <1>1, <1>2 DEF Appended
    <2>2. /\ SameData(a, g, m)
          /\ g.node[m].next = IF m = a.list[i].tail THEN n ELSE a.node[m].next
          /\ g.node[m].prev = IF m = n THEN a.list[i].tail ELSE a.node[m].prev
      BY <1>3, <2>1 DEF Pushed
    <2> QED
      BY <2>1, <2>2 DEF SameData
  <1>6. /\ g.node[n].next = NULL /\ g.node[n].prev = h.list[i].tail
        /\ g.node[n].section = e.section /\ g.node[n].ttl = e.ttl
        /\ g.node[n].record_time = e.record_time /\ g.node[n].zero = e.zero
    <2>1. a.node[n] = e /\ a.list = h.list /\ n \in 1 .. Len(a.node)
      BY <1>1, <1>2 DEF Appended
    <2> QED
      BY <1>3, <1>4, <2>1 DEF Pushed, SameData
  <1>7. /\ HeapTyped(g) /\ Len(g.node) = n /\ g.freed = h.freed
        /\ \A j \in Lists3 \ {i} : g.list[j] = h.list[j]
        /\ g.list[i].first = IF h.list[i].tail = NULL THEN n ELSE h.list[i].first
        /\ g.list[i].tail = n /\ g.list[i].size = h.list[i].size + 1
        /\ g.misused = h.misused \union {j \in {i} : h.list[i].tail \in h.freed}
    BY <1>2, <1>3 DEF Appended, Pushed
  <1> QED
    BY <1>5, <1>6, <1>7 DEF NewPushed, a, g

(* The families of the lists.                                              *)
LEMMA HomeIs ==
    ASSUME NEW i \in Lists3
    PROVE  /\ Home(i) \in Homes
           /\ i \in Lists => Home(i) = i
           /\ \A j \in Lists : Home(i) = j => i = j
           /\ i \notin Lists => i[2] \in BlockedNames /\ Home(i) = <<NULL, i[2]>>
           /\ \A b \in BlockedNames :
                 /\ Home(i) = <<NULL, b>> <=> i[2] = b
                 /\ i \in Lists => i[2] # b
  BY DEF Home, Homes, Lists, Lists3, CacheType, A, AAAA, CNAME, NULL

LEMMA OrderedSame ==
    ASSUME NEW h, NEW g, NEW own, NEW own2, NEW j, Ordered(h, own, j),
           Live(g, own2, j) = Live(h, own, j), g.list[j] = h.list[j],
           j \in g.misused => j \in h.misused,
           \A m \in Live(h, own, j) :
              g.node[m].next = h.node[m].next /\ g.node[m].prev = h.node[m].prev
    PROVE  Ordered(g, own2, j)
  BY DEF Ordered

LEMMA LiveFinite ==
    ASSUME NEW h, HeapTyped(h), NEW own, NEW i
    PROVE  /\ IsFiniteSet(Live(h, own, i)) /\ Cardinality(Live(h, own, i)) \in Nat
           /\ Live(h, own, i) \subseteq Nat /\ NULL \notin Live(h, own, i)
  <1>1. Len(h.node) \in Nat
    BY DEF HeapTyped
  <1>2. IsFiniteSet(1 .. Len(h.node))
    BY <1>1, FS_Interval
  <1>3. Live(h, own, i) \subseteq 1 .. Len(h.node)
    BY DEF Live
  <1>4. IsFiniteSet(Live(h, own, i))
    BY <1>2, <1>3, FS_Subset
  <1> QED
    BY <1>3, <1>4, FS_CardinalityType DEF NULL

Owning(own, n, home) == [m \in 1 .. n |-> IF m = n THEN home ELSE own[m]]

(* A new node at the end of the lists of "name" for the types T.           *)
Tails(h, name, T) == {h.list[<<t, name>>].tail : t \in T}

NewAt(h, g, name, T, e) ==
    LET n == Len(h.node) + 1
    IN  /\ HeapTyped(g) /\ Len(g.node) = n /\ g.freed = h.freed
        /\ \A m \in 1 .. Len(h.node) :
              /\ SameData(h, g, m) /\ g.node[m].prev = h.node[m].prev
              /\ g.node[m].next = IF m \in Tails(h, name, T) THEN n ELSE h.node[m].next
        /\ g.node[n].next = NULL /\ g.node[n].prev \in Tails(h, name, T)
        /\ g.node[n].section = e.section /\ g.node[n].ttl = e.ttl
        /\ g.node[n].record_time = e.record_time /\ g.node[n].zero = e.zero
        /\ \A j \in Lists3 :
              ~ (j[1] \in T /\ j[2] = name) =>
                 g.list[j] = h.list[j] /\ (j \in g.misused => j \in h.misused)
        /\ \A t \in T :
              LET i == <<t, name>>
              IN  /\ g.list[i].first = IF h.list[i].tail = NULL THEN n ELSE h.list[i].first
                  /\ g.list[i].tail = n

LEMMA NewAtOne ==
    ASSUME NEW h, NEW g, NEW i \in Lists3, NEW e, NewPushed(h, g, i, e)
    PROVE  NewAt(h, g, i[2], {i[1]}, e)
  <1>1. i = <<i[1], i[2]>> /\ Tails(h, i[2], {i[1]}) = {h.list[i].tail}
    BY DEF Lists3, Tails
  <1>2. \A j \in Lists3 : ~ (j[1] \in {i[1]} /\ j[2] = i[2]) => j # i
    OBVIOUS
  <1>3. \A j \in Lists3 \ {i} : g.list[j] = h.list[j] /\ (j \in g.misused => j \in h.misused)
    BY DEF NewPushed
  <1>4. \A m \in 1 .. Len(h.node) :
           /\ SameData(h, g, m) /\ g.node[m].prev = h.node[m].prev
           /\ g.node[m].next = IF m \in {h.list[i].tail} THEN Len(h.node) + 1
                               ELSE h.node[m].next
    BY DEF NewPushed
  <1>5. \A t \in {i[1]} : <<t, i[2]>> = i
    BY <1>1
  <1>6. \A t \in {i[1]} :
           /\ g.list[<<t, i[2]>>].first =
                 IF h.list[<<t, i[2]>>].tail = NULL THEN Len(h.node) + 1
                 ELSE h.list[<<t, i[2]>>].first
           /\ g.list[<<t, i[2]>>].tail = Len(h.node) + 1
    <2>1. /\ g.list[i].first = IF h.list[i].tail = NULL THEN Len(h.node) + 1
                               ELSE h.list[i].first
          /\ g.list[i].tail = Len(h.node) + 1
      BY DEF NewPushed
    <2> QED
      BY <1>5, <2>1
  <1>7. /\ HeapTyped(g) /\ Len(g.node) = Len(h.node) + 1 /\ g.freed = h.freed
        /\ g.node[Len(h.node) + 1].next = NULL
        /\ g.node[Len(h.node) + 1].prev \in {h.list[i].tail}
        /\ g.node[Len(h.node) + 1].section = e.section
        /\ g.node[Len(h.node) + 1].ttl = e.ttl
        /\ g.node[Len(h.node) + 1].record_time = e.record_time
        /\ g.node[Len(h.node) + 1].zero = e.zero
    BY DEF NewPushed
  <1> QED
    BY <1>1, <1>2, <1>3, <1>4, <1>6, <1>7 DEF NewAt

LEMMA LinkingNew ==
    ASSUME NEW h, NEW g, NEW own, NEW name \in Name, NEW T, T \subseteq CacheType,
           NEW home \in Homes, \A t \in T : Home(<<t, name>>) = home,
           NEW e, HeapTyped(h), Linking(h, own), NewAt(h, g, name, T, e)
    PROVE  Linking(g, Owning(own, Len(g.node), home))
  <1> DEFINE n == Len(h.node) + 1
             own2 == Owning(own, n, home)
             tails == Tails(h, name, T)
  <1>1. /\ Len(h.node) \in Nat /\ Len(g.node) = n /\ own2[n] = home
        /\ \A m \in 1 .. Len(h.node) : m # n /\ own2[m] = own[m]
    BY DEF HeapTyped, NewAt, Owning
  <1>2. ASSUME NEW x \in tails, x # NULL
        PROVE  x \in 1 .. Len(h.node) /\ own[x] = home
    <2>1. PICK t \in T : x = h.list[<<t, name>>].tail
      BY DEF Tails
    <2>2. <<t, name>> \in Lists3
      BY DEF Lists3
    <2> QED
      BY <1>2, <2>1, <2>2 DEF Linking
  <1>3. /\ \A m \in 1 .. Len(h.node) :
              /\ g.node[m].prev = h.node[m].prev
              /\ g.node[m].next = IF m \in tails THEN n ELSE h.node[m].next
        /\ g.node[n].next = NULL /\ g.node[n].prev \in tails
        /\ \A j \in Lists3 : ~ (j[1] \in T /\ j[2] = name) => g.list[j] = h.list[j]
        /\ \A t \in T :
              LET i == <<t, name>>
              IN  /\ g.list[i].first = IF h.list[i].tail = NULL THEN n ELSE h.list[i].first
                  /\ g.list[i].tail = n
    BY DEF NewAt
  <1> HIDE DEF own2, tails
  <1>4. ASSUME NEW m \in 1 .. Len(g.node)
        PROVE  /\ own2[m] \in Homes
               /\ g.node[m].next # NULL =>
                     /\ g.node[m].next \in m + 1 .. Len(g.node)
                     /\ own2[g.node[m].next] = own2[m]
               /\ g.node[m].prev # NULL =>
                     /\ g.node[m].prev \in 1 .. m - 1
                     /\ own2[g.node[m].prev] = own2[m]
    <2>1. CASE m = n
      <3> DEFINE x == g.node[n].prev
      <3>1. x # NULL => x \in 1 .. Len(h.node) /\ own[x] = home
        BY <1>2, <1>3
      <3> HIDE DEF x
      <3>2. x # NULL => x \in 1 .. n - 1 /\ own2[x] = home
        BY <1>1, <3>1
      <3> QED
        BY <1>1, <1>3, <2>1, <3>2 DEF x
    <2>2. CASE m # n
      <3>1. m \in 1 .. Len(h.node)
        BY <1>1, <2>2
      <3>2. /\ own[m] \in Homes
            /\ h.node[m].next # NULL =>
                  h.node[m].next \in m + 1 .. Len(h.node) /\ own[h.node[m].next] = own[m]
            /\ h.node[m].prev # NULL =>
                  h.node[m].prev \in 1 .. m - 1 /\ own[h.node[m].prev] = own[m]
        BY <3>1 DEF Linking
      <3>3. /\ g.node[m].prev = h.node[m].prev
            /\ g.node[m].next = IF m \in tails THEN n ELSE h.node[m].next
        BY <1>3, <3>1
      <3>4. /\ own2[m] = own[m] /\ m \in Nat /\ m < n
            /\ h.node[m].next # NULL => own2[h.node[m].next] = own[m]
            /\ h.node[m].prev # NULL => own2[h.node[m].prev] = own[m]
        <4>1. own2[m] = own[m] /\ m \in Nat /\ m < n
          BY <1>1, <3>1
        <4>2. h.node[m].next # NULL => h.node[m].next \in 1 .. Len(h.node)
          BY <1>1, <3>1, <3>2
        <4>3. h.node[m].prev # NULL => h.node[m].prev \in 1 .. Len(h.node)
          BY <1>1, <3>1, <3>2
        <4>4. \A x \in 1 .. Len(h.node) : own2[x] = own[x]
          BY <1>1
        <4>5. h.node[m].next # NULL => own2[h.node[m].next] = own[m]
          BY <3>2, <4>2, <4>4
        <4>6. h.node[m].prev # NULL => own2[h.node[m].prev] = own[m]
          BY <3>2, <4>3, <4>4
        <4> QED
          BY <4>1, <4>5, <4>6
      <3>5. CASE m \in tails
        <4>1. g.node[m].next = n /\ own2[n] = own2[m]
          BY <1>1, <1>2, <3>1, <3>3, <3>4, <3>5 DEF NULL
        <4>2. n \in m + 1 .. Len(g.node)
          BY <1>1, <3>1
        <4> HIDE DEF n
        <4> QED
          BY <3>2, <3>3, <3>4, <4>1, <4>2
      <3>6. CASE m \notin tails
        BY <1>1, <3>1, <3>2, <3>3, <3>4, <3>6
      <3> QED
        BY <3>5, <3>6
    <2> QED
      BY <2>1, <2>2
  <1>5. ASSUME NEW j \in Lists3
        PROVE  /\ g.list[j].first # NULL =>
                     g.list[j].first \in 1 .. n /\ own2[g.list[j].first] = Home(j)
               /\ g.list[j].tail # NULL =>
                     g.list[j].tail \in 1 .. n /\ own2[g.list[j].tail] = Home(j)
    <2>1. /\ h.list[j].first # NULL =>
                h.list[j].first \in 1 .. Len(h.node) /\ own[h.list[j].first] = Home(j)
          /\ h.list[j].tail # NULL =>
                h.list[j].tail \in 1 .. Len(h.node) /\ own[h.list[j].tail] = Home(j)
      BY DEF Linking
    <2>2. CASE j[1] \in T /\ j[2] = name
      <3>1. j = <<j[1], name>>
        BY <2>2 DEF Lists3
      <3>2. Home(j) = home
        BY <2>2, <3>1
      <3>3. /\ g.list[j].first = IF h.list[j].tail = NULL THEN n ELSE h.list[j].first
            /\ g.list[j].tail = n
        BY <1>3, <2>2, <3>1
      <3> QED
        BY <1>1, <2>1, <3>2, <3>3
    <2>3. CASE ~ (j[1] \in T /\ j[2] = name)
      <3>1. g.list[j] = h.list[j]
        BY <1>3, <2>3
      <3> QED
        BY <1>1, <2>1, <3>1
    <2> QED
      BY <2>2, <2>3
  <1> QED
    BY <1>1, <1>4, <1>5 DEF Linking, own2

(* A list without a tail is empty: its greatest node would have no next.   *)
LEMMA TailOrNone ==
    ASSUME NEW h, NEW own, NEW i, HeapTyped(h), Linking(h, own), Ordered(h, own, i),
           h.list[i].tail = NULL
    PROVE  Live(h, own, i) = {}
  <1> DEFINE M == Live(h, own, i)
             T == {Len(h.node) - x : x \in M}
  <1> SUFFICES ASSUME M # {}
               PROVE  FALSE
    OBVIOUS
  <1>1. Len(h.node) \in Nat /\ \A m \in M : m \in 1 .. Len(h.node)
    BY DEF HeapTyped, Live
  <1>2. PICK k \in T : \A l \in T : k <= l
    <2>1. T \subseteq Nat /\ T # {}
      BY <1>1
    <2> HIDE DEF T
    <2> QED
      BY <2>1, LeastNumber
  <1>3. PICK m \in M : k = Len(h.node) - m
    BY <1>2
  <1>4. h.node[m].next \in M /\ m \in 1 .. Len(h.node)
    BY <1>1, <1>3 DEF Ordered, NULL
  <1>5. h.node[m].next > m /\ h.node[m].next \in Nat
    BY <1>1, <1>4 DEF Linking, NULL
  <1>6. Len(h.node) - h.node[m].next \in T
    BY <1>4
  <1>7. k <= Len(h.node) - h.node[m].next
    BY <1>2, <1>6
  <1> QED
    BY <1>1, <1>3, <1>4, <1>5, <1>7

LEMMA OrderedPush ==
    ASSUME NEW h, NEW g, NEW own, NEW i \in Lists, NEW e, HeapTyped(h),
           Linking(h, own), Ordered(h, own, i), NewPushed(h, g, i, e)
    PROVE  Ordered(g, Owning(own, Len(g.node), Home(i)), i)
  <1> DEFINE n == Len(h.node) + 1
             own2 == Owning(own, n, Home(i))
             tail == h.list[i].tail
             M == Live(h, own, i)
             M2 == Live(g, own2, i)
  <1>1. /\ Len(h.node) \in Nat /\ Len(g.node) = n /\ own2[n] = i /\ i \in Lists3
        /\ \A m \in 1 .. Len(h.node) : m # n /\ own2[m] = own[m]
    BY HomeIs DEF HeapTyped, NewPushed, Owning, Lists, Lists3
  <1> HIDE DEF own2
  <1>2. M2 = M \union {n} /\ n \notin M /\ n # NULL
    <2>1. n \notin h.freed
      BY <1>1 DEF HeapTyped
    <2> QED
      BY <1>1, <2>1 DEF Live, NewPushed, NULL
  <1>3. M2 = M \union {n} => Cardinality(M2) = Cardinality(M) + 1
    <2>1. IsFiniteSet(M)
      BY LiveFinite
    <2> HIDE DEF M
    <2> QED
      BY <1>2, <2>1, FS_AddElement
  <1>4. NULL \notin M /\ tail \in M \union {NULL} /\ n # tail
    BY <1>2, LiveFinite DEF Ordered
  <1>5. \A m \in M : /\ m \in 1 .. Len(h.node) /\ m \notin h.freed
    BY DEF Live
  <1>6. /\ \A m \in M : /\ g.node[m].prev = h.node[m].prev
                        /\ g.node[m].next = IF m = tail THEN n ELSE h.node[m].next
        /\ g.node[n].next = NULL /\ g.node[n].prev = tail
        /\ g.list[i].first = IF tail = NULL THEN n ELSE h.list[i].first
        /\ g.list[i].tail = n /\ g.list[i].size = h.list[i].size + 1
        /\ g.misused = h.misused \union {j \in {i} : tail \in h.freed}
    BY <1>1, <1>5 DEF NewPushed
  <1>7. tail \notin h.freed
    BY <1>4, <1>5 DEF HeapTyped, NULL
  <1> HIDE DEF M, M2, n, tail
  <1>8. /\ i \notin h.misused /\ h.list[i].size = Cardinality(M)
        /\ h.list[i].first \in M \union {NULL} /\ h.list[i].tail \in M \union {NULL}
        /\ \A m \in M :
              /\ h.node[m].next = NULL <=> m = h.list[i].tail
              /\ h.node[m].next # NULL =>
                    h.node[m].next \in M /\ h.node[h.node[m].next].prev = m
              /\ h.node[m].prev = NULL <=> m = h.list[i].first
              /\ h.node[m].prev # NULL =>
                    h.node[m].prev \in M /\ h.node[h.node[m].prev].next = m
    BY DEF Ordered, M
  <1>9. i \notin g.misused /\ g.list[i].size = Cardinality(M2)
    BY <1>2, <1>3, <1>6, <1>7, <1>8
  <1>10. g.list[i].first \in M2 \union {NULL} /\ g.list[i].tail \in M2 \union {NULL}
    BY <1>2, <1>6, <1>8
  <1>11. tail = NULL => M = {}
    BY TailOrNone DEF tail, M
  <1>12. ASSUME NEW m \in M2
         PROVE  /\ g.node[m].next = NULL <=> m = g.list[i].tail
                /\ g.node[m].next # NULL =>
                      g.node[m].next \in M2 /\ g.node[g.node[m].next].prev = m
                /\ g.node[m].prev = NULL <=> m = g.list[i].first
                /\ g.node[m].prev # NULL =>
                      g.node[m].prev \in M2 /\ g.node[g.node[m].prev].next = m
    <2>1. CASE m = n
      BY <1>2, <1>4, <1>6, <1>8, <1>11, <2>1 DEF tail
    <2>2. CASE m \in M
      <3>1. /\ g.node[m].next = NULL <=> m = g.list[i].tail
            /\ g.node[m].next # NULL =>
                  g.node[m].next \in M2 /\ g.node[g.node[m].next].prev = m
        <4>1. CASE m = tail
          BY <1>2, <1>6, <2>2, <4>1
        <4>2. CASE m # tail
          BY <1>2, <1>6, <1>8, <2>2, <4>2 DEF tail
        <4> QED
          BY <4>1, <4>2
      <3>2. /\ g.node[m].prev = NULL <=> m = g.list[i].first
            /\ g.node[m].prev # NULL =>
                  g.node[m].prev \in M2 /\ g.node[g.node[m].prev].next = m
        <4>1. tail # NULL
          BY <1>11, <2>2
        <4>2. h.node[m].prev # NULL => h.node[m].prev # tail
          BY <1>2, <1>4, <1>8, <2>2 DEF tail
        <4> QED
          BY <1>2, <1>6, <1>8, <2>2, <4>1, <4>2
      <3> QED
        BY <3>1, <3>2
    <2> QED
      BY <1>2, <2>1, <2>2
  <1> QED
    BY <1>1, <1>9, <1>10, <1>12 DEF Ordered, M2, n, own2

-----------------------------------------------------------------------------
(* What the new node leaves alone, and what it becomes for a blocked name. *)

LEMMA OrderedElsewhere ==
    ASSUME NEW h, NEW g, NEW own, NEW name \in Name, NEW T, T \subseteq CacheType,
           NEW home \in Homes, \A t \in T : Home(<<t, name>>) = home,
           NEW e, HeapTyped(h), Linking(h, own), NewAt(h, g, name, T, e),
           NEW j \in Lists, j # home, Ordered(h, own, j)
    PROVE  Ordered(g, Owning(own, Len(g.node), home), j)
  <1> DEFINE n == Len(h.node) + 1
             own2 == Owning(own, n, home)
             tails == Tails(h, name, T)
  <1>1. /\ Len(h.node) \in Nat /\ Len(g.node) = n /\ own2[n] = home /\ j \in Lists3
        /\ \A m \in 1 .. Len(h.node) : m # n /\ own2[m] = own[m]
        /\ g.freed = h.freed
    BY DEF HeapTyped, NewAt, Owning, Lists, Lists3
  <1> HIDE DEF own2
  <1>2. Live(g, own2, j) = Live(h, own, j)
    BY <1>1 DEF Live
  <1>3. ~ (j[1] \in T /\ j[2] = name)
    <2>1. j = <<j[1], j[2]>>
      BY <1>1 DEF Lists3
    <2> QED
      BY <1>1, <2>1, HomeIs
  <1>4. g.list[j] = h.list[j] /\ (j \in g.misused => j \in h.misused)
    BY <1>1, <1>3 DEF NewAt
  <1>5. ASSUME NEW m \in Live(h, own, j)
        PROVE  g.node[m].next = h.node[m].next /\ g.node[m].prev = h.node[m].prev
    <2>1. m \in 1 .. Len(h.node) /\ own[m] = j /\ m # NULL
      BY <1>1 DEF Live, NULL
    <2>2. m \notin tails
      <3> SUFFICES ASSUME NEW t \in T, m = h.list[<<t, name>>].tail
                   PROVE  FALSE
        BY DEF Tails
      <3>1. <<t, name>> \in Lists3
        BY DEF Lists3
      <3> QED
        BY <2>1, <3>1 DEF Linking
    <2> QED
      BY <2>1, <2>2 DEF NewAt
  <1> QED
    BY <1>1, <1>2, <1>4, <1>5, OrderedSame DEF own2

LEMMA AnchorsStay ==
    ASSUME NEW h, NEW g, NEW own, NEW name \in Name, NEW T, T \subseteq CacheType,
           NEW home \in Homes, \A t \in T : Home(<<t, name>>) = home,
           NEW e, HeapTyped(h), Linking(h, own), NewAt(h, g, name, T, e),
           NEW b \in BlockedNames, b \in Name, NEW k \in 1 .. Len(h.node),
           Anchors(h, own, k, b)
    PROVE  Anchors(g, Owning(own, Len(g.node), home), k, b)
  <1> DEFINE n == Len(h.node) + 1
             own2 == Owning(own, n, home)
             tails == Tails(h, name, T)
  <1>1. /\ Len(h.node) \in Nat /\ Len(g.node) = n /\ own2[n] = home
        /\ \A m \in 1 .. Len(h.node) : m # n /\ own2[m] = own[m]
    BY DEF HeapTyped, NewAt, Owning
  <1> HIDE DEF own2
  <1>2. \A t \in CacheType :
           <<t, b>> \in Lists3 /\ h.list[<<t, b>>].first \in 1 .. k /\ h.list[<<t, b>>].tail >= k
    BY DEF Anchors, Lists3
  <1>3. \A t \in CacheType : h.list[<<t, b>>].tail \in Nat
    <2>1. \A t \in CacheType : h.list[<<t, b>>] \in List
      BY <1>2 DEF HeapTyped
    <2> QED
      BY <2>1 DEF List
  <1>4. ASSUME NEW t \in CacheType
        PROVE  g.list[<<t, b>>].first \in 1 .. k /\ g.list[<<t, b>>].tail >= k
    <2>1. CASE t \in T /\ b = name
      <3>1. /\ g.list[<<t, b>>].first = IF h.list[<<t, b>>].tail = NULL THEN n
                                        ELSE h.list[<<t, b>>].first
            /\ g.list[<<t, b>>].tail = n
        BY <2>1 DEF NewAt
      <3>2. h.list[<<t, b>>].tail # NULL
        BY <1>2 DEF NULL
      <3> QED
        BY <1>2, <3>1, <3>2
    <2>2. CASE ~ (t \in T /\ b = name)
      <3>1. g.list[<<t, b>>] = h.list[<<t, b>>]
        <4>1. \A j \in Lists3 : ~ (j[1] \in T /\ j[2] = name) => g.list[j] = h.list[j]
          BY DEF NewAt
        <4> QED
          BY <1>2, <2>2, <4>1
      <3> QED
        BY <1>2, <3>1
    <2> QED
      BY <2>1, <2>2
  <1>5. ASSUME NEW t \in T, home = <<NULL, b>>
        PROVE  name = b /\ h.list[<<t, name>>].tail >= k /\ h.list[<<t, name>>].tail \in Nat
    <2>1. <<t, name>> \in Lists3 /\ Home(<<t, name>>) = <<NULL, b>>
      BY <1>5 DEF Lists3
    <2>2. name = b
      BY <2>1, HomeIs
    <2> QED
      BY <1>2, <1>3, <2>2
  <1>6. ASSUME NEW m \in 1 .. Len(g.node), own2[m] = <<NULL, b>>
        PROVE  /\ m < k => g.node[m].next \in 1 .. k
               /\ m > k => g.node[m].prev >= k
    <2>1. CASE m = n
      <3>1. PICK t \in T : g.node[n].prev = h.list[<<t, name>>].tail
        BY DEF NewAt, Tails
      <3> QED
        BY <1>1, <1>5, <1>6, <2>1, <3>1
    <2>2. CASE m # n
      <3>1. m \in 1 .. Len(h.node) /\ own[m] = <<NULL, b>>
        BY <1>1, <1>6, <2>2
      <3>2. (m < k => h.node[m].next \in 1 .. k) /\ (m > k => h.node[m].prev >= k)
        BY <3>1 DEF Anchors
      <3>3. /\ g.node[m].prev = h.node[m].prev
            /\ g.node[m].next = IF m \in tails THEN n ELSE h.node[m].next
        BY <3>1 DEF NewAt
      <3>4. m < k => m \notin tails
        <4> SUFFICES ASSUME m < k, NEW t \in T, m = h.list[<<t, name>>].tail
                     PROVE  FALSE
          BY DEF Tails
        <4>1. <<t, name>> \in Lists3 /\ m # NULL
          BY DEF Lists3, NULL
        <4>2. home = <<NULL, b>>
          BY <3>1, <4>1 DEF Linking
        <4>3. m >= k
          BY <1>5, <4>2
        <4> QED
          BY <4>3, <3>1
      <3> QED
        BY <3>2, <3>3, <3>4
    <2> QED
      BY <2>1, <2>2
  <1> QED
    BY <1>1, <1>4, <1>6 DEF Anchors, own2

(* While the hosts file is read.                                           *)
LEMMA NextWhileLoading ==
    ASSUME NEW h, NEW g, NEW own, NEW name \in Name, NEW T, A \in T,
           NEW e, HeapTyped(h), Linking(h, own), NewAt(h, g, name, T, e),
           NEW b \in BlockedNames, Loading(h, own),
           NEW m \in 1 .. Len(h.node), own[m] = <<NULL, b>>,
           b = name \/ m # h.list[<<A, b>>].tail
    PROVE  g.node[m].next \in 1 .. Len(g.node)
  <1>1. /\ Len(h.node) \in Nat /\ Len(g.node) = Len(h.node) + 1
        /\ g.node[m].next = IF m \in Tails(h, name, T) THEN Len(h.node) + 1
                            ELSE h.node[m].next
    BY DEF HeapTyped, NewAt
  <1>2. CASE m \in Tails(h, name, T)
    BY <1>1, <1>2
  <1>3. CASE m \notin Tails(h, name, T)
    <2>1. h.list[<<A, name>>].tail \in Tails(h, name, T)
      BY DEF Tails
    <2>2. h.node[m].next # NULL
      BY <1>3, <2>1 DEF Loading
    <2>3. h.node[m].next \in m + 1 .. Len(h.node)
      BY <2>2 DEF Linking
    <2> QED
      BY <1>1, <1>3, <2>3
  <1> QED
    BY <1>2, <1>3

LEMMA LoadingNew ==
    ASSUME NEW h, NEW g, NEW own, NEW name \in Name, NEW T, T \subseteq CacheType, A \in T,
           NEW home \in Homes, \A t \in T : Home(<<t, name>>) = home,
           NEW e, HeapTyped(h), Linking(h, own), NewAt(h, g, name, T, e),
           BlockedNames \subseteq Name, Loading(h, own)
    PROVE  Loading(g, Owning(own, Len(g.node), home))
  <1> DEFINE n == Len(h.node) + 1
             own2 == Owning(own, n, home)
  <1>1. /\ Len(h.node) \in Nat /\ Len(g.node) = n /\ own2[n] = home
        /\ \A m \in 1 .. Len(h.node) : m # n /\ own2[m] = own[m]
    BY DEF HeapTyped, NewAt, Owning
  <1> HIDE DEF own2
  <1>2. ASSUME NEW b \in BlockedNames, NEW t \in CacheType
        PROVE  /\ <<t, b>> \in Lists3
               /\ ~ (t \in T /\ b = name) => g.list[<<t, b>>] = h.list[<<t, b>>]
               /\ t \in T /\ b = name =>
                     /\ g.list[<<t, b>>].first = IF h.list[<<t, b>>].tail = NULL THEN n
                                                 ELSE h.list[<<t, b>>].first
                     /\ g.list[<<t, b>>].tail = n
    <2>1. <<t, b>> \in Lists3
      BY DEF Lists3
    <2>2. \A j \in Lists3 : ~ (j[1] \in T /\ j[2] = name) => g.list[j] = h.list[j]
      BY DEF NewAt
    <2> QED
      BY <2>1, <2>2 DEF NewAt
  <1>3. ASSUME NEW b \in BlockedNames, NEW t \in CacheType, g.list[<<t, b>>].tail # NULL
        PROVE  g.list[<<t, b>>].first # NULL
    <2>1. h.list[<<t, b>>].tail # NULL => h.list[<<t, b>>].first # NULL
      BY DEF Loading
    <2> QED
      BY <1>1, <1>2, <1>3, <2>1 DEF NULL
  <1>4. ASSUME NEW b \in BlockedNames, NEW m \in 1 .. Len(g.node), own2[m] = <<NULL, b>>
        PROVE  /\ m <= g.list[<<A, b>>].tail
               /\ m # g.list[<<A, b>>].tail => g.node[m].next # NULL
    <2>1. A \in CacheType
      BY DEF CacheType
    <2>2. CASE m = n
      <3>1. <<A, name>> \in Lists3 /\ Home(<<A, name>>) = <<NULL, b>>
        BY <1>1, <1>4, <2>1, <2>2 DEF Lists3
      <3>2. name = b
        BY <3>1, HomeIs
      <3> QED
        BY <1>1, <1>2, <2>1, <2>2, <3>2
    <2>3. CASE m # n
      <3>1. m \in 1 .. Len(h.node) /\ own[m] = <<NULL, b>>
        BY <1>1, <1>4, <2>3
      <3>2. m <= h.list[<<A, b>>].tail
        BY <3>1 DEF Loading
      <3>3. CASE b = name
        <4>1. g.node[m].next \in 1 .. Len(g.node)
          BY <3>1, <3>3, NextWhileLoading
        <4> QED
          BY <1>1, <1>2, <2>1, <3>1, <3>3, <4>1 DEF NULL
      <3>4. CASE b # name
        <4>1. g.list[<<A, b>>] = h.list[<<A, b>>]
          BY <1>2, <2>1, <3>4
        <4>2. m # h.list[<<A, b>>].tail => g.node[m].next \in 1 .. Len(g.node)
          BY <3>1, NextWhileLoading
        <4> QED
          BY <3>2, <4>1, <4>2 DEF NULL
      <3> QED
        BY <3>3, <3>4
    <2> QED
      BY <2>2, <2>3
  <1> QED
    BY <1>1, <1>3, <1>4 DEF Loading, own2

LEMMA AnchorNew ==
    ASSUME NEW h, NEW g, NEW own, NEW name \in BlockedNames, name \in Name,
           NEW e, HeapTyped(h), Linking(h, own), NewAt(h, g, name, CacheType, e),
           Loading(h, own)
    PROVE  Anchors(g, Owning(own, Len(g.node), <<NULL, name>>), Len(g.node), name)
  <1> DEFINE n == Len(h.node) + 1
             own2 == Owning(own, n, <<NULL, name>>)
  <1>1. /\ Len(h.node) \in Nat /\ Len(g.node) = n
        /\ \A m \in 1 .. Len(h.node) : m # n /\ own2[m] = own[m]
    BY DEF HeapTyped, NewAt, Owning
  <1> HIDE DEF own2
  <1>2. ASSUME NEW t \in CacheType
        PROVE  g.list[<<t, name>>].first \in 1 .. n /\ g.list[<<t, name>>].tail >= n
    <2>1. /\ g.list[<<t, name>>].first = IF h.list[<<t, name>>].tail = NULL THEN n
                                         ELSE h.list[<<t, name>>].first
          /\ g.list[<<t, name>>].tail = n
      BY DEF NewAt
    <2>2. h.list[<<t, name>>].tail # NULL => h.list[<<t, name>>].first \in 1 .. Len(h.node)
      <3>1. <<t, name>> \in Lists3
        BY DEF Lists3
      <3> QED
        BY <3>1 DEF Loading, Linking
    <2> QED
      BY <1>1, <2>1, <2>2
  <1>3. ASSUME NEW m \in 1 .. Len(g.node), own2[m] = <<NULL, name>>, m < n
        PROVE  g.node[m].next \in 1 .. n
    <2>1. m \in 1 .. Len(h.node) /\ own[m] = <<NULL, name>>
      BY <1>1, <1>3
    <2>2. A \in CacheType
      BY DEF CacheType
    <2>3. g.node[m].next \in 1 .. Len(g.node)
      BY <2>1, <2>2, NextWhileLoading
    <2> QED
      BY <1>1, <2>3
  <1> QED
    BY <1>1, <1>2, <1>3 DEF Anchors, own2

LEMMA FromHostsStay ==
    ASSUME NEW h, NEW g, NEW own, NEW name \in Name, NEW T, NEW home \in Homes, NEW e,
           HeapTyped(h), NewAt(h, g, name, T, e), NEW L \in Nat, FromHosts(h, own, L)
    PROVE  FromHosts(g, Owning(own, Len(g.node), home), L)
  <1> DEFINE n == Len(h.node) + 1
             own2 == Owning(own, n, home)
  <1>1. /\ Len(h.node) \in Nat /\ Len(g.node) = n /\ L <= Len(h.node)
        /\ \A m \in 1 .. Len(h.node) :
              own2[m] = own[m] /\ g.node[m].ttl = h.node[m].ttl /\ g.node[m].zero = h.node[m].zero
        /\ g.freed = h.freed /\ h.freed \subseteq 1 .. Len(h.node)
    BY DEF HeapTyped, NewAt, SameData, Owning, FromHosts
  <1> HIDE DEF own2
  <1>2. \A n1 \in g.freed : g.node[n1].ttl # 0
    BY <1>1 DEF FromHosts
  <1>3. ASSUME NEW k \in 1 .. L
        PROVE  /\ own2[k] = Home(<<A, HostsLines[k].name>>)
               /\ g.node[k].ttl = 0 /\ g.node[k].zero = HostsLines[k].zero
    <2>1. k \in 1 .. Len(h.node)
      BY <1>1
    <2> QED
      BY <1>1, <2>1 DEF FromHosts
  <1> QED
    BY <1>1, <1>2, <1>3 DEF FromHosts, own2

LEMMA FromHostsNew ==
    ASSUME NEW h, NEW g, NEW own, NEW name \in Name, NEW T, NEW home \in Homes, NEW e,
           HeapTyped(h), NewAt(h, g, name, T, e), FromHosts(h, own, Len(h.node)),
           home = Home(<<A, HostsLines[Len(h.node) + 1].name>>),
           e.ttl = 0, e.zero = HostsLines[Len(h.node) + 1].zero
    PROVE  FromHosts(g, Owning(own, Len(g.node), home), Len(h.node) + 1)
  <1> DEFINE n == Len(h.node) + 1
             own2 == Owning(own, Len(g.node), home)
  <1>1. Len(h.node) \in Nat /\ Len(g.node) = n
    BY DEF HeapTyped, NewAt
  <1>2. FromHosts(g, own2, Len(h.node))
    <2> HIDE DEF own2
    <2> QED
      BY <1>1, FromHostsStay DEF own2
  <1>3. own2[n] = home /\ g.node[n].ttl = 0 /\ g.node[n].zero = HostsLines[n].zero
    BY <1>1 DEF NewAt, Owning
  <1> HIDE DEF own2
  <1>4. ASSUME NEW k \in 1 .. n
        PROVE  /\ own2[k] = Home(<<A, HostsLines[k].name>>)
               /\ g.node[k].ttl = 0 /\ g.node[k].zero = HostsLines[k].zero
    <2>1. CASE k = n
      BY <1>3, <2>1
    <2>2. CASE k # n
      <3>1. k \in 1 .. Len(h.node)
        BY <1>1, <2>2
      <3> QED
        BY <1>2, <3>1 DEF FromHosts
    <2> QED
      BY <2>1, <2>2
  <1>5. \A m \in g.freed : g.node[m].ttl # 0
    BY <1>2 DEF FromHosts
  <1>6. n <= Len(g.node)
    BY <1>1
  <1> HIDE DEF n
  <1>7. FromHosts(g, own2, n)
    BY <1>4, <1>5, <1>6 DEF FromHosts
  <1> QED
    BY <1>7 DEF own2, n

(* The node of a blocked name is linked into the lists of all three caches. *)
LEMMA NewAtAll ==
    ASSUME NEW h, HeapTyped(h), NEW b \in Name, NEW e \in ListNode, e.next = NULL,
           \A t \in CacheType : h.list[<<t, b>>].tail \in 0 .. Len(h.node)
    PROVE  LET n == Len(h.node) + 1
               inA == list_push_back(Allocated(h, e), <<A, b>>, n)
               inAAAA == list_push_back(inA, <<AAAA, b>>, n)
               inCNAME == list_push_back(inAAAA, <<CNAME, b>>, n)
           IN  NewAt(h, inCNAME, b, CacheType, e)
  <1> DEFINE n == Len(h.node) + 1
             iA == <<A, b>>
             iAAAA == <<AAAA, b>>
             iCNAME == <<CNAME, b>>
             g1 == list_push_back(Allocated(h, e), iA, n)
             g2 == list_push_back(g1, iAAAA, n)
             g3 == list_push_back(g2, iCNAME, n)
  <1>1. /\ Len(h.node) \in Nat
        /\ iA \in Lists3 /\ iAAAA \in Lists3 /\ iCNAME \in Lists3
        /\ iA # iAAAA /\ iA # iCNAME /\ iAAAA # iCNAME
        /\ h.list[iA].tail \in 0 .. Len(h.node) /\ h.list[iAAAA].tail \in 0 .. Len(h.node)
        /\ h.list[iCNAME].tail \in 0 .. Len(h.node)
    BY DEF HeapTyped, Lists3, CacheType, A, AAAA, CNAME
  <1>2. Tails(h, b, CacheType) =
           {h.list[iA].tail, h.list[iAAAA].tail, h.list[iCNAME].tail}
    BY DEF Tails, CacheType
  <1> HIDE DEF iA, iAAAA, iCNAME, g1, g2, g3
  <1>3. NewPushed(h, g1, iA, e)
    BY <1>1, PushNew DEF g1
  <1>4. HeapTyped(g1) /\ Len(g1.node) = n /\ g1.list[iAAAA] = h.list[iAAAA]
        /\ g1.list[iCNAME] = h.list[iCNAME]
    BY <1>1, <1>3 DEF NewPushed
  <1>5. Pushed(g1, g2, iAAAA, n)
    <2>1. n \in 1 .. Len(g1.node) /\ g1.list[iAAAA].tail \in 0 .. Len(g1.node)
      BY <1>1, <1>4
    <2> HIDE DEF n
    <2> QED
      BY <1>1, <1>4, <2>1, PushBack DEF g2
  <1>6. HeapTyped(g2) /\ Len(g2.node) = n /\ g2.list[iCNAME] = h.list[iCNAME]
    BY <1>1, <1>4, <1>5 DEF Pushed
  <1>7. Pushed(g2, g3, iCNAME, n)
    <2>1. n \in 1 .. Len(g2.node) /\ g2.list[iCNAME].tail \in 0 .. Len(g2.node)
      BY <1>1, <1>6
    <2> HIDE DEF n
    <2> QED
      BY <1>1, <1>6, <2>1, PushBack DEF g3
  <1>8. ASSUME NEW m \in 1 .. Len(h.node)
        PROVE  /\ SameData(h, g3, m) /\ g3.node[m].prev = h.node[m].prev
               /\ g3.node[m].next = IF m \in Tails(h, b, CacheType) THEN n ELSE h.node[m].next
    <2>1. m \in 1 .. Len(g1.node) /\ m \in 1 .. Len(g2.node) /\ m # n
      BY <1>1, <1>4, <1>6
    <2>2. /\ SameData(h, g1, m) /\ g1.node[m].prev = h.node[m].prev
          /\ g1.node[m].next = IF m = h.list[iA].tail THEN n ELSE h.node[m].next
      BY <1>3 DEF NewPushed
    <2>3. /\ SameData(g1, g2, m) /\ g2.node[m].prev = g1.node[m].prev
          /\ g2.node[m].next = IF m = h.list[iAAAA].tail THEN n ELSE g1.node[m].next
      BY <1>4, <1>5, <2>1 DEF Pushed
    <2>4. /\ SameData(g2, g3, m) /\ g3.node[m].prev = g2.node[m].prev
          /\ g3.node[m].next = IF m = h.list[iCNAME].tail THEN n ELSE g2.node[m].next
      BY <1>6, <1>7, <2>1 DEF Pushed
    <2> QED
      BY <1>2, <2>2, <2>3, <2>4 DEF SameData
  <1>9. /\ g3.node[n].next = NULL /\ g3.node[n].prev \in Tails(h, b, CacheType)
        /\ g3.node[n].section = e.section /\ g3.node[n].ttl = e.ttl
        /\ g3.node[n].record_time = e.record_time /\ g3.node[n].zero = e.zero
    <2>1. /\ n \in 1 .. Len(g1.node) /\ n \in 1 .. Len(g2.node)
          /\ n # h.list[iAAAA].tail /\ n # h.list[iCNAME].tail
      BY <1>1, <1>4, <1>6
    <2>2. /\ g1.node[n].next = NULL
          /\ g1.node[n].section = e.section /\ g1.node[n].ttl = e.ttl
          /\ g1.node[n].record_time = e.record_time /\ g1.node[n].zero = e.zero
      BY <1>3 DEF NewPushed
    <2>3. SameData(g1, g2, n) /\ g2.node[n].next = g1.node[n].next
      BY <1>4, <1>5, <2>1 DEF Pushed
    <2>4. /\ SameData(g2, g3, n) /\ g3.node[n].next = g2.node[n].next
          /\ g3.node[n].prev = h.list[iCNAME].tail
      BY <1>6, <1>7, <2>1 DEF Pushed
    <2> QED
      BY <1>2, <2>2, <2>3, <2>4 DEF SameData
  <1>10. /\ g1.freed = h.freed /\ g2.freed = h.freed /\ g3.freed = h.freed
         /\ HeapTyped(g3) /\ Len(g3.node) = n
    BY <1>3, <1>4, <1>5, <1>6, <1>7 DEF NewPushed, Pushed
  <1>11. ASSUME NEW j \in Lists3, ~ (j[1] \in CacheType /\ j[2] = b)
         PROVE  g3.list[j] = h.list[j] /\ (j \in g3.misused => j \in h.misused)
    <2>1. j # iA /\ j # iAAAA /\ j # iCNAME
      BY <1>11 DEF iA, iAAAA, iCNAME, CacheType, Lists3
    <2>2. g1.list[j] = h.list[j] /\ (j \in g1.misused => j \in h.misused)
      BY <1>3, <2>1 DEF NewPushed
    <2>3. g2.list[j] = g1.list[j] /\ (j \in g2.misused => j \in g1.misused)
      BY <1>5, <2>1 DEF Pushed
    <2>4. g3.list[j] = g2.list[j] /\ (j \in g3.misused => j \in g2.misused)
      BY <1>7, <2>1 DEF Pushed
    <2> QED
      BY <2>2, <2>3, <2>4
  <1>12. ASSUME NEW t \in CacheType
         PROVE  /\ g3.list[<<t, b>>].first = IF h.list[<<t, b>>].tail = NULL THEN n
                                             ELSE h.list[<<t, b>>].first
                /\ g3.list[<<t, b>>].tail = n
    <2>1. CASE <<t, b>> = iA
      <3>1. /\ g1.list[iA].first = IF h.list[iA].tail = NULL THEN n ELSE h.list[iA].first
            /\ g1.list[iA].tail = n
        BY <1>3 DEF NewPushed
      <3>2. g2.list[iA] = g1.list[iA] /\ g3.list[iA] = g2.list[iA]
        BY <1>1, <1>5, <1>7 DEF Pushed
      <3> QED
        BY <2>1, <3>1, <3>2
    <2>2. CASE <<t, b>> = iAAAA
      <3>1. /\ g2.list[iAAAA].first = IF h.list[iAAAA].tail = NULL THEN n
                                      ELSE h.list[iAAAA].first
            /\ g2.list[iAAAA].tail = n
        BY <1>4, <1>5 DEF Pushed
      <3>2. g3.list[iAAAA] = g2.list[iAAAA]
        BY <1>1, <1>7 DEF Pushed
      <3> QED
        BY <2>2, <3>1, <3>2
    <2>3. CASE <<t, b>> = iCNAME
      <3>1. /\ g3.list[iCNAME].first = IF g2.list[iCNAME].tail = NULL THEN n
                                       ELSE g2.list[iCNAME].first
            /\ g3.list[iCNAME].tail = n
        BY <1>7 DEF Pushed
      <3> QED
        BY <1>6, <2>3, <3>1
    <2>4. <<t, b>> \in {iA, iAAAA, iCNAME}
      BY DEF iA, iAAAA, iCNAME, CacheType
    <2> QED
      BY <2>1, <2>2, <2>3, <2>4
  <1> QED
    BY <1>8, <1>9, <1>10, <1>11, <1>12 DEF NewAt, g1, g2, g3, iA, iAAAA, iCNAME

-----------------------------------------------------------------------------
(* A node is erased from a list of its family.                             *)

LEMMA LinkingErase ==
    ASSUME NEW h, NEW g, NEW own, NEW i \in Lists3, NEW n \in 1 .. Len(h.node),
           HeapTyped(h), Linking(h, own), Erased(h, g, i, n), own[n] = Home(i)
    PROVE  Linking(g, own)
  <1> DEFINE prev == h.node[n].prev
             next == h.node[n].next
  <1>1. /\ Len(h.node) \in Nat /\ Len(g.node) = Len(h.node)
        /\ \A m \in 1 .. Len(h.node) :
              /\ g.node[m].next = IF m = prev THEN next ELSE h.node[m].next
              /\ g.node[m].prev = IF m = next THEN prev ELSE h.node[m].prev
        /\ \A j \in Lists3 \ {i} : g.list[j] = h.list[j]
        /\ g.list[i].first = IF prev = NULL THEN next ELSE h.list[i].first
        /\ g.list[i].tail = IF n = h.list[i].tail THEN prev ELSE h.list[i].tail
    BY DEF HeapTyped, Erased
  <1>2. /\ next # NULL => next \in n + 1 .. Len(h.node) /\ own[next] = Home(i)
        /\ prev # NULL => prev \in 1 .. n - 1 /\ own[prev] = Home(i)
    BY DEF Linking
  <1> HIDE DEF prev, next
  <1>3. ASSUME NEW m \in 1 .. Len(g.node)
        PROVE  /\ own[m] \in Homes
               /\ g.node[m].next # NULL =>
                     g.node[m].next \in m + 1 .. Len(g.node) /\ own[g.node[m].next] = own[m]
               /\ g.node[m].prev # NULL =>
                     g.node[m].prev \in 1 .. m - 1 /\ own[g.node[m].prev] = own[m]
    <2>1. /\ own[m] \in Homes /\ m # NULL
          /\ h.node[m].next # NULL =>
                h.node[m].next \in m + 1 .. Len(h.node) /\ own[h.node[m].next] = own[m]
          /\ h.node[m].prev # NULL =>
                h.node[m].prev \in 1 .. m - 1 /\ own[h.node[m].prev] = own[m]
      BY <1>1 DEF Linking, NULL
    <2>2. g.node[m].next # NULL =>
             g.node[m].next \in m + 1 .. Len(g.node) /\ own[g.node[m].next] = own[m]
      <3>1. CASE m = prev
        BY <1>1, <1>2, <2>1, <3>1
      <3>2. CASE m # prev
        BY <1>1, <2>1, <3>2
      <3> QED
        BY <3>1, <3>2
    <2>3. g.node[m].prev # NULL =>
             g.node[m].prev \in 1 .. m - 1 /\ own[g.node[m].prev] = own[m]
      <3>1. CASE m = next
        BY <1>1, <1>2, <2>1, <3>1
      <3>2. CASE m # next
        BY <1>1, <2>1, <3>2
      <3> QED
        BY <3>1, <3>2
    <2> QED
      BY <2>1, <2>2, <2>3
  <1>4. ASSUME NEW j \in Lists3
        PROVE  /\ g.list[j].first # NULL =>
                     g.list[j].first \in 1 .. Len(g.node) /\ own[g.list[j].first] = Home(j)
               /\ g.list[j].tail # NULL =>
                     g.list[j].tail \in 1 .. Len(g.node) /\ own[g.list[j].tail] = Home(j)
    <2>1. /\ h.list[j].first # NULL =>
                h.list[j].first \in 1 .. Len(h.node) /\ own[h.list[j].first] = Home(j)
          /\ h.list[j].tail # NULL =>
                h.list[j].tail \in 1 .. Len(h.node) /\ own[h.list[j].tail] = Home(j)
      BY DEF Linking
    <2>2. CASE j = i
      BY <1>1, <1>2, <2>1, <2>2
    <2>3. CASE j # i
      <3>1. g.list[j] = h.list[j]
        BY <1>1, <2>3
      <3> QED
        BY <1>1, <2>1, <3>1
    <2> QED
      BY <2>2, <2>3
  <1> QED
    BY <1>3, <1>4 DEF Linking

LEMMA OrderedErase ==
    ASSUME NEW h, NEW g, NEW own, NEW i \in Lists, NEW n \in Live(h, own, i),
           HeapTyped(h), Linking(h, own), Ordered(h, own, i), Erased(h, g, i, n)
    PROVE  Ordered(g, own, i)
  <1> DEFINE prev == h.node[n].prev
             next == h.node[n].next
             tail == h.list[i].tail
             first == h.list[i].first
             M == Live(h, own, i)
             M2 == Live(g, own, i)
  <1>1. /\ Len(h.node) \in Nat /\ Len(g.node) = Len(h.node)
        /\ g.freed = h.freed \union {n} /\ i \in Lists3
        /\ g.list[i].first = IF prev = NULL THEN next ELSE first
        /\ g.list[i].tail = IF n = tail THEN prev ELSE tail
        /\ g.list[i].size = h.list[i].size - 1
        /\ g.misused = h.misused \union
                          {j \in {i} : {prev, next, tail} \intersect h.freed # {}}
    BY DEF HeapTyped, Erased, Lists, Lists3
  <1>2. M2 = M \ {n} /\ n \in M
    BY <1>1 DEF Live
  <1>3. M2 = M \ {n} => Cardinality(M2) = Cardinality(M) - 1
    <2>1. IsFiniteSet(M) /\ Cardinality(M) \in Nat
      BY LiveFinite
    <2> HIDE DEF M
    <2> QED
      BY <1>2, <2>1, FS_RemoveElement
  <1>4. NULL \notin M /\ NULL \notin h.freed /\ \A m \in M : m \notin h.freed
    BY LiveFinite DEF HeapTyped, Live, NULL
  <1>5. \A m \in M :
           /\ m \in 1 .. Len(h.node)
           /\ g.node[m].next = IF m = prev THEN next ELSE h.node[m].next
           /\ g.node[m].prev = IF m = next THEN prev ELSE h.node[m].prev
    BY DEF Erased, Live
  <1>6. next # n /\ prev # n
    <2>1. n \in 1 .. Len(h.node) /\ n # NULL
      BY <1>2, <1>4, <1>5
    <2> QED
      BY <1>1, <2>1 DEF Linking
  <1>7. /\ i \notin h.misused /\ h.list[i].size = Cardinality(M)
        /\ first \in M \union {NULL} /\ tail \in M \union {NULL}
        /\ \A m \in M :
              /\ h.node[m].next = NULL <=> m = tail
              /\ h.node[m].next # NULL =>
                    h.node[m].next \in M /\ h.node[h.node[m].next].prev = m
              /\ h.node[m].prev = NULL <=> m = first
              /\ h.node[m].prev # NULL =>
                    h.node[m].prev \in M /\ h.node[h.node[m].prev].next = m
    BY DEF Ordered
  <1>8. /\ next = NULL <=> n = tail
        /\ next # NULL => next \in M /\ h.node[next].prev = n
        /\ prev = NULL <=> n = first
        /\ prev # NULL => prev \in M /\ h.node[prev].next = n
    BY <1>2, <1>7
  <1> HIDE DEF M, M2, prev, next, tail, first
  <1>9. i \notin g.misused /\ g.list[i].size = Cardinality(M2)
    BY <1>1, <1>2, <1>3, <1>4, <1>7, <1>8
  <1>10. g.list[i].first \in M2 \union {NULL} /\ g.list[i].tail \in M2 \union {NULL}
    BY <1>1, <1>2, <1>6, <1>7, <1>8
  <1>11. ASSUME NEW m \in M2
         PROVE  /\ g.node[m].next = NULL <=> m = g.list[i].tail
                /\ g.node[m].next # NULL =>
                      g.node[m].next \in M2 /\ g.node[g.node[m].next].prev = m
    <2>1. m \in M /\ m # n /\ m # NULL
      BY <1>2, <1>4
    <2>2. CASE m = prev
      <3>1. g.node[m].next = next /\ m # tail
        BY <1>4, <1>5, <1>2, <1>7, <1>8, <2>1, <2>2
      <3>2. next = NULL <=> m = g.list[i].tail
        BY <1>1, <1>8, <2>2, <3>1
      <3>3. next # NULL => next \in M2 /\ g.node[next].prev = m
        BY <1>2, <1>5, <1>6, <1>8, <2>2
      <3> QED
        BY <3>1, <3>2, <3>3
    <2>3. CASE m # prev
      <3>1. g.node[m].next = h.node[m].next
        BY <1>5, <2>1, <2>3
      <3>2. h.node[m].next = NULL <=> m = g.list[i].tail
        BY <1>1, <1>7, <2>1, <2>3
      <3>3. ASSUME h.node[m].next # NULL
            PROVE  h.node[m].next \in M2 /\ g.node[h.node[m].next].prev = m
        <4>1. h.node[m].next \in M /\ h.node[h.node[m].next].prev = m
          BY <1>7, <2>1, <3>3
        <4>2. h.node[m].next # n
          BY <2>3, <4>1 DEF prev
        <4>3. h.node[m].next # next
          BY <1>8, <2>1, <3>3, <4>1
        <4> QED
          BY <1>2, <1>5, <4>1, <4>2, <4>3
      <3> QED
        BY <3>1, <3>2, <3>3
    <2> QED
      BY <2>2, <2>3
  <1>12. ASSUME NEW m \in M2
         PROVE  /\ g.node[m].prev = NULL <=> m = g.list[i].first
                /\ g.node[m].prev # NULL =>
                      g.node[m].prev \in M2 /\ g.node[g.node[m].prev].next = m
    <2>1. m \in M /\ m # n /\ m # NULL
      BY <1>2, <1>4
    <2>2. CASE m = next
      <3>1. g.node[m].prev = prev /\ m # first
        BY <1>4, <1>5, <1>2, <1>7, <1>8, <2>1, <2>2
      <3>2. prev = NULL <=> m = g.list[i].first
        BY <1>1, <1>8, <2>2, <3>1
      <3>3. prev # NULL => prev \in M2 /\ g.node[prev].next = m
        BY <1>2, <1>5, <1>6, <1>8, <2>2
      <3> QED
        BY <3>1, <3>2, <3>3
    <2>3. CASE m # next
      <3>1. g.node[m].prev = h.node[m].prev
        BY <1>5, <2>1, <2>3
      <3>2. h.node[m].prev = NULL <=> m = g.list[i].first
        BY <1>1, <1>7, <1>8, <2>1, <2>3
      <3>3. ASSUME h.node[m].prev # NULL
            PROVE  h.node[m].prev \in M2 /\ g.node[h.node[m].prev].next = m
        <4>1. h.node[m].prev \in M /\ h.node[h.node[m].prev].next = m
          BY <1>7, <2>1, <3>3
        <4>2. h.node[m].prev # n
          BY <2>3, <4>1 DEF next
        <4>3. h.node[m].prev # prev
          BY <1>8, <2>1, <3>3, <4>1
        <4> QED
          BY <1>2, <1>5, <4>1, <4>2, <4>3
      <3> QED
        BY <3>1, <3>2, <3>3
    <2> QED
      BY <2>2, <2>3
  <1> QED
    BY <1>9, <1>10, <1>11, <1>12 DEF Ordered, M2

LEMMA GoodErase ==
    ASSUME NEW h, NEW own, NEW i \in Lists3, NEW n \in 1 .. Len(h.node), Good(h, own),
           own[n] = Home(i), i \in Lists => n \notin h.freed
    PROVE  Good(list_erase(h, i, n), own)
  <1> DEFINE g == list_erase(h, i, n)
  <1>1. HeapTyped(h) /\ Linking(h, own) /\ \A j \in Lists : Ordered(h, own, j)
    BY DEF Good
  <1>2. Erased(h, g, i, n)
    BY <1>1, EraseNode
  <1> HIDE DEF g
  <1>3. HeapTyped(g) /\ Linking(g, own)
    BY <1>1, <1>2, LinkingErase DEF Erased
  <1>4. ASSUME NEW j \in Lists
        PROVE  Ordered(g, own, j)
    <2>1. CASE j = Home(i)
      <3>1. i = j /\ n \in Live(h, own, i)
        BY <2>1, HomeIs DEF Live
      <3> QED
        BY <1>1, <1>2, <3>1, OrderedErase
    <2>2. CASE j # Home(i)
      <3>1. j # i /\ j \in Lists3
        BY <2>2, HomeIs DEF Lists, Lists3
      <3>2. Live(g, own, j) = Live(h, own, j)
        BY <1>2, <2>2 DEF Erased, Live
      <3>3. g.list[j] = h.list[j] /\ (j \in g.misused => j \in h.misused)
        BY <1>2, <3>1 DEF Erased
      <3>4. ASSUME NEW m \in Live(h, own, j)
            PROVE  g.node[m].next = h.node[m].next /\ g.node[m].prev = h.node[m].prev
        <4>1. m \in 1 .. Len(h.node) /\ own[m] = j /\ m # NULL
          BY <1>1, LiveFinite DEF Live
        <4>2. m # h.node[n].prev /\ m # h.node[n].next
          BY <1>1, <2>2, <4>1 DEF Linking
        <4> QED
          BY <1>2, <4>1, <4>2 DEF Erased
      <3> QED
        BY <1>1, <3>2, <3>3, <3>4, OrderedSame
    <2> QED
      BY <2>1, <2>2
  <1> QED
    BY <1>3, <1>4 DEF Good, g

(* The entries of a blocked name keep their place: what is erased lies     *)
(* behind them.                                                            *)
LEMMA AnchorsErase ==
    ASSUME NEW h, NEW g, NEW own, NEW i \in Lists3, NEW n \in 1 .. Len(h.node),
           HeapTyped(h), Linking(h, own), Erased(h, g, i, n), own[n] = Home(i),
           NEW b \in BlockedNames, b \in Name, NEW k \in 1 .. n - 1, Anchors(h, own, k, b)
    PROVE  Anchors(g, own, k, b)
  <1> DEFINE prev == h.node[n].prev
             next == h.node[n].next
  <1>1. /\ Len(g.node) = Len(h.node)
        /\ \A m \in 1 .. Len(h.node) :
              /\ g.node[m].next = IF m = prev THEN next ELSE h.node[m].next
              /\ g.node[m].prev = IF m = next THEN prev ELSE h.node[m].prev
        /\ \A j \in Lists3 \ {i} : g.list[j] = h.list[j]
        /\ g.list[i].first = IF prev = NULL THEN next ELSE h.list[i].first
        /\ g.list[i].tail = IF n = h.list[i].tail THEN prev ELSE h.list[i].tail
    BY DEF Erased
  <1>2. /\ next # NULL => own[next] = Home(i)
        /\ prev # NULL => own[prev] = Home(i)
        /\ Home(i) = <<NULL, b>> => prev >= k
    BY DEF Linking, Anchors
  <1> HIDE DEF prev, next
  <1>3. ASSUME NEW t \in CacheType
        PROVE  g.list[<<t, b>>].first \in 1 .. k /\ g.list[<<t, b>>].tail >= k
    <2> DEFINE j == <<t, b>>
    <2>1. j \in Lists3 /\ h.list[j].first \in 1 .. k /\ h.list[j].tail >= k
      BY DEF Lists3, Anchors
    <2>2. CASE j = i
      <3>1. Home(i) = <<NULL, b>>
        BY <2>2, HomeIs
      <3> QED
        BY <1>1, <1>2, <2>1, <2>2, <3>1 DEF NULL
    <2>3. CASE j # i
      BY <1>1, <2>1, <2>3
    <2> QED
      BY <2>2, <2>3
  <1>4. ASSUME NEW m \in 1 .. Len(g.node), own[m] = <<NULL, b>>
        PROVE  /\ m < k => g.node[m].next \in 1 .. k
               /\ m > k => g.node[m].prev >= k
    <2>1. (m < k => h.node[m].next \in 1 .. k) /\ (m > k => h.node[m].prev >= k) /\ m # NULL
      BY <1>1, <1>4 DEF Anchors, NULL
    <2>2. m < k => m # prev
      <3>1. m = prev => prev >= k
        BY <1>2, <1>4, <2>1
      <3>2. m \in Int /\ k \in Int
        OBVIOUS
      <3> QED
        BY <3>1, <3>2
    <2> QED
      BY <1>1, <1>2, <1>4, <2>1, <2>2
  <1> QED
    BY <1>3, <1>4 DEF Anchors

LEMMA FromHostsErase ==
    ASSUME NEW h, NEW g, NEW own, NEW i \in Lists3, NEW n \in 1 .. Len(h.node),
           HeapTyped(h), Erased(h, g, i, n), h.node[n].ttl # 0,
           NEW L \in Nat, FromHosts(h, own, L)
    PROVE  FromHosts(g, own, L)
  <1>1. /\ Len(g.node) = Len(h.node) /\ g.freed = h.freed \union {n}
        /\ \A m \in 1 .. Len(h.node) :
              g.node[m].ttl = h.node[m].ttl /\ g.node[m].zero = h.node[m].zero
        /\ h.freed \subseteq 1 .. Len(h.node)
    BY DEF HeapTyped, Erased, SameData
  <1>2. \A m \in g.freed : g.node[m].ttl # 0
    BY <1>1 DEF FromHosts
  <1>3. L <= Len(h.node) /\ \A k \in 1 .. L : k \in 1 .. Len(h.node)
    BY DEF HeapTyped, FromHosts
  <1> QED
    BY <1>1, <1>2, <1>3 DEF FromHosts

-----------------------------------------------------------------------------
(* The walk along a list.                                                  *)

WayFrom(h) ==
    CHOOSE from : from = [n \in 0 .. Len(h.node) |->
                             IF n = NULL THEN <<>> ELSE <<n>> \o from[h.node[n].next]]

LEMMA WalkUnfolds ==
    ASSUME NEW h, NEW i
    PROVE  Walk(h, i) = WayFrom(h)[h.list[i].first]
  BY Zenon DEF Walk, WayFrom

LEMMA WayUnfolds ==
    ASSUME NEW h, NEW f,
           f = [n \in 0 .. Len(h.node) |->
                   IF n = NULL THEN <<>> ELSE <<n>> \o f[h.node[n].next]]
    PROVE  WayFrom(h) = [n \in 0 .. Len(h.node) |->
                   IF n = NULL THEN <<>> ELSE <<n>> \o WayFrom(h)[h.node[n].next]]
  BY Zenon DEF WayFrom

(* Every way ends, since it leads to later nodes only.                     *)
LEMMA WayDefined ==
    ASSUME NEW h, NEW own, HeapTyped(h), Linking(h, own)
    PROVE  /\ WayFrom(h)[NULL] = <<>>
           /\ \A n \in 1 .. Len(h.node) :
                 WayFrom(h)[n] = <<n>> \o WayFrom(h)[h.node[n].next]
  <1> DEFINE N == Len(h.node)
             Defines(f, d) ==
                 /\ f = [k \in 0 .. N |-> f[k]]
                 /\ f[0] = <<>>
                 /\ \A n \in N + 1 - d .. N : f[n] = <<n>> \o f[h.node[n].next]
             Done == {d \in 0 .. N : \E f : Defines(f, d)}
  <1>1. N \in Nat
    BY DEF HeapTyped
  <1>2. \A n \in 1 .. N : h.node[n].next = 0 \/ h.node[n].next \in n + 1 .. N
    BY DEF Linking, NULL
  <1> HIDE DEF N
  <1>3. 0 \in Done
    <2> DEFINE f == [k \in 0 .. N |-> <<>>]
    <2>1. f[0] = <<>> /\ f = [k \in 0 .. N |-> f[k]]
      BY <1>1
    <2> HIDE DEF f
    <2>2. Defines(f, 0)
      BY <1>1, <2>1
    <2> HIDE DEF Defines
    <2>3. \E g : Defines(g, 0)
      BY <2>2
    <2> QED
      BY <1>1, <2>3
  <1>4. ASSUME NEW d \in 1 .. N, d - 1 \in Done
        PROVE  d \in Done
    <2> DEFINE m == N + 1 - d
    <2>1. PICK f : Defines(f, d - 1)
      BY <1>4
    <2> DEFINE g == [k \in 0 .. N |-> IF k = m THEN <<m>> \o f[h.node[m].next] ELSE f[k]]
    <2>2. m \in 1 .. N /\ m # 0
      BY <1>1
    <2>3. \A k \in 0 .. N : k # m => g[k] = f[k]
      OBVIOUS
    <2>4. g[m] = <<m>> \o f[h.node[m].next] /\ g = [k \in 0 .. N |-> g[k]]
      <3>1. m \in 0 .. N
        BY <1>1, <2>2
      <3> HIDE DEF m
      <3> QED
        BY <3>1
    <2> HIDE DEF g
    <2>5. g[0] = <<>>
      BY <1>1, <2>1, <2>2, <2>3
    <2>6. ASSUME NEW n \in N + 1 - d .. N
          PROVE  g[n] = <<n>> \o g[h.node[n].next]
      <3> DEFINE x == h.node[n].next
      <3>1. n \in 1 .. N /\ n >= m
        BY <1>1
      <3>2. x = 0 \/ x \in n + 1 .. N
        BY <1>2, <3>1
      <3> HIDE DEF x
      <3>3. x \in 0 .. N /\ x # m
        BY <1>1, <2>2, <3>1, <3>2
      <3>4. g[x] = f[x]
        BY <2>3, <3>3
      <3>5. CASE n = m
        BY <2>4, <3>4, <3>5 DEF x
      <3>6. CASE n # m
        <4>1. n \in 0 .. N /\ n \in N + 1 - (d - 1) .. N
          BY <1>1, <3>1, <3>6
        <4>2. g[n] = f[n]
          BY <2>3, <3>6, <4>1
        <4>3. f[n] = <<n>> \o f[x]
          BY <2>1, <4>1 DEF x
        <4> QED
          BY <3>4, <4>2, <4>3 DEF x
      <3> QED
        BY <3>5, <3>6
    <2>7. Defines(g, d)
      BY <2>4, <2>5, <2>6
    <2> HIDE DEF Defines
    <2>8. \E k : Defines(k, d)
      BY <2>7
    <2> QED
      BY <1>1, <2>8
  <1>5. \E f : Defines(f, N)
    <2> HIDE DEF Defines
    <2>1. Done = {d \in 0 .. N : \E f : Defines(f, d)}
      OBVIOUS
    <2> HIDE DEF Done
    <2>2. N \in Done
      BY <1>1, <1>3, <1>4, HoldsUpTo
    <2> QED
      BY <2>1, <2>2
  <1>6. PICK f : Defines(f, N)
    BY <1>5
  <1>7. f = [n \in 0 .. N |-> IF n = NULL THEN <<>> ELSE <<n>> \o f[h.node[n].next]]
    <2>1. ASSUME NEW n \in 0 .. N
          PROVE  f[n] = IF n = NULL THEN <<>> ELSE <<n>> \o f[h.node[n].next]
      <3>1. n # 0 => n \in N + 1 - N .. N
        BY <1>1
      <3> QED
        BY <1>6, <3>1 DEF NULL
    <2>2. f = [n \in 0 .. N |-> f[n]]
      BY <1>6
    <2> HIDE DEF Defines
    <2> QED
      BY <2>1, <2>2
  <1> HIDE DEF Defines, Done
  <1>8. WayFrom(h) = [n \in 0 .. N |->
                         IF n = NULL THEN <<>> ELSE <<n>> \o WayFrom(h)[h.node[n].next]]
    BY <1>7, WayUnfolds DEF N
  <1> DEFINE way == WayFrom(h)
  <1> HIDE DEF way
  <1>9. way = [n \in 0 .. N |-> IF n = NULL THEN <<>> ELSE <<n>> \o way[h.node[n].next]]
    BY <1>8 DEF way
  <1>10. way[NULL] = <<>>
    BY <1>1, <1>9 DEF NULL
  <1>11. \A n \in 1 .. N : way[n] = <<n>> \o way[h.node[n].next]
    <2> SUFFICES ASSUME NEW n \in 1 .. N
                 PROVE  way[n] = <<n>> \o way[h.node[n].next]
      OBVIOUS
    <2>1. n \in 0 .. N /\ n # NULL
      BY <1>1 DEF NULL
    <2>2. way[n] = [k \in 0 .. N |->
                       IF k = NULL THEN <<>> ELSE <<k>> \o way[h.node[k].next]][n]
      BY <1>9
    <2> QED
      BY <2>1, <2>2
  <1> QED
    BY <1>10, <1>11 DEF way, N

(* The nodes from n on, each followed by its next.                         *)
IsWay(h, w, n) ==
    /\ w \in Seq(1 .. Len(h.node))
    /\ n = NULL => w = <<>>
    /\ n # NULL => Len(w) > 0 /\ w[1] = n
    /\ \A k \in 1 .. Len(w) :
          /\ k < Len(w) => w[k + 1] = h.node[w[k]].next
          /\ k = Len(w) => h.node[w[k]].next = NULL

LEMMA WayGrows ==
    ASSUME NEW h, NEW n \in 1 .. Len(h.node), NEW w, IsWay(h, w, h.node[n].next)
    PROVE  IsWay(h, <<n>> \o w, n)
  <1> DEFINE next == h.node[n].next
             S == 1 .. Len(h.node)
             v == <<n>> \o w
  <1>1. w \in Seq(S) /\ n \in S /\ n # NULL
    BY DEF IsWay, NULL
  <1>2. /\ next = NULL => Len(w) = 0
        /\ next # NULL => Len(w) > 0 /\ w[1] = next
        /\ \A k \in 1 .. Len(w) :
              /\ k < Len(w) => w[k + 1] = h.node[w[k]].next
              /\ k = Len(w) => h.node[w[k]].next = NULL
    BY DEF IsWay
  <1> HIDE DEF S
  <1>3. /\ v \in Seq(S) /\ Len(w) \in Nat /\ Len(v) = Len(w) + 1 /\ v[1] = n
        /\ \A k \in 1 .. Len(w) : v[k + 1] = w[k]
    BY <1>1
  <1> HIDE DEF v
  <1>4. v # <<>>
    BY <1>3
  <1> HIDE DEF next
  <1>5. ASSUME NEW k \in 1 .. Len(v)
        PROVE  /\ k < Len(v) => v[k + 1] = h.node[v[k]].next
               /\ k = Len(v) => h.node[v[k]].next = NULL
    <2>1. CASE k = 1
      <3>1. k < Len(v) => v[k + 1] = w[1]
        BY <1>3, <2>1
      <3>2. h.node[v[k]].next = next
        BY <1>3, <2>1 DEF next
      <3> QED
        BY <1>2, <1>3, <2>1, <3>1, <3>2
    <2>2. CASE k # 1
      <3> DEFINE j == k - 1
      <3>1. /\ j \in 1 .. Len(w) /\ k = j + 1
            /\ k < Len(v) => j < Len(w) /\ j + 1 \in 1 .. Len(w)
            /\ k = Len(v) => j = Len(w)
        BY <1>3, <2>2
      <3> HIDE DEF j
      <3>2. v[k] = w[j]
        BY <1>3, <3>1
      <3>3. k < Len(v) => v[k + 1] = w[j + 1]
        BY <1>3, <3>1
      <3> QED
        BY <1>2, <3>1, <3>2, <3>3
    <2> QED
      BY <2>1, <2>2
  <1>6. IsWay(h, v, n)
    BY <1>1, <1>3, <1>4, <1>5 DEF IsWay, S
  <1> QED
    BY <1>6 DEF v

LEMMA WalkIsWay ==
    ASSUME NEW h, NEW own, HeapTyped(h), Linking(h, own), NEW i \in Lists3
    PROVE  IsWay(h, Walk(h, i), h.list[i].first)
  <1> DEFINE N == Len(h.node)
             way == WayFrom(h)
             Ways == {d \in 0 .. N :
                        \A n \in N + 1 - d .. N : IsWay(h, way[n], n)}
  <1>1. N \in Nat
    BY DEF HeapTyped
  <1>2. \A n \in 1 .. N : h.node[n].next = NULL \/ h.node[n].next \in n + 1 .. N
    BY DEF Linking
  <1>3. way[NULL] = <<>> /\ \A n \in 1 .. N : way[n] = <<n>> \o way[h.node[n].next]
    BY WayDefined
  <1>4. IsWay(h, way[NULL], NULL)
    <2>1. IsWay(h, <<>>, NULL)
      BY DEF IsWay
    <2> QED
      BY <1>3, <2>1
  <1> HIDE DEF N, way
  <1>5. 0 \in Ways
    BY <1>1
  <1>6. ASSUME NEW d \in 1 .. N, d - 1 \in Ways
        PROVE  d \in Ways
    <2> SUFFICES ASSUME NEW n \in N + 1 - d .. N
                 PROVE  IsWay(h, way[n], n)
      BY <1>1
    <2>1. n \in 1 .. N
      BY <1>1
    <2>2. CASE n = N + 1 - d
      <3> DEFINE next == h.node[n].next
      <3>1. next = NULL \/ next \in N + 1 - (d - 1) .. N
        BY <1>1, <1>2, <2>1, <2>2
      <3>2. IsWay(h, way[next], next)
        BY <1>4, <1>6, <3>1
      <3>3. IsWay(h, <<n>> \o way[next], n)
        <4> HIDE DEF next
        <4>1. n \in 1 .. Len(h.node)
          BY <2>1 DEF N
        <4> QED
          BY <3>2, <4>1, WayGrows DEF next
      <3> QED
        BY <1>3, <2>1, <3>3
    <2>3. CASE n # N + 1 - d
      <3>1. n \in N + 1 - (d - 1) .. N
        BY <1>1, <2>3
      <3> QED
        BY <1>6, <3>1
    <2> QED
      BY <2>2, <2>3
  <1>7. N \in Ways
    <2> HIDE DEF Ways
    <2> QED
      BY <1>1, <1>5, <1>6, HoldsUpTo
  <1>8. \A n \in 1 .. N : IsWay(h, way[n], n)
    <2>1. N + 1 - N = 1
      BY <1>1
    <2> QED
      BY <1>7, <2>1
  <1>9. h.list[i].first = NULL \/ h.list[i].first \in 1 .. N
    BY DEF Linking, N
  <1>10. Walk(h, i) = way[h.list[i].first]
    BY WalkUnfolds DEF way
  <1> QED
    BY <1>4, <1>8, <1>9, <1>10

(* A way does not leave a set that no next pointer leads out of.           *)
LEMMA WayInside ==
    ASSUME NEW h, NEW w, NEW n, IsWay(h, w, n), NEW S, n # NULL => n \in S,
           \A m \in 1 .. Len(h.node) :
              m \in S /\ h.node[m].next # NULL => h.node[m].next \in S
    PROVE  \A k \in 1 .. Len(w) : w[k] \in S
  <1> DEFINE L == Len(w)
             In == {d \in 0 .. L - 1 : w[d + 1] \in S}
  <1>1. /\ L \in Nat /\ \A k \in 1 .. L : w[k] \in 1 .. Len(h.node)
        /\ n = NULL => L = 0
    BY DEF IsWay
  <1> SUFFICES ASSUME NEW k \in 1 .. L
               PROVE  w[k] \in S
    OBVIOUS
  <1>2. ASSUME NEW j \in 1 .. L - 1
        PROVE  w[j + 1] = h.node[w[j]].next /\ w[j + 1] # NULL
    <2>1. j \in 1 .. L /\ j + 1 \in 1 .. L /\ j < L
      BY <1>1
    <2>2. w[j + 1] \in 1 .. Len(h.node)
      BY <1>1, <2>1
    <2> QED
      BY <2>1, <2>2 DEF IsWay, NULL
  <1>3. w[1] \in S
    BY <1>1 DEF IsWay
  <1> HIDE DEF L
  <1>4. 0 \in In
    BY <1>1, <1>3
  <1>5. ASSUME NEW d \in 1 .. L - 1, d - 1 \in In
        PROVE  d \in In
    <2>1. d - 1 + 1 = d /\ d \in 1 .. L
      BY <1>1
    <2>2. w[d] \in S
      BY <1>5, <2>1
    <2>3. w[d + 1] \in S
      BY <1>1, <1>2, <2>1, <2>2
    <2> QED
      BY <1>1, <2>3
  <1>6. L - 1 \in Nat
    BY <1>1
  <1>7. \A d \in 0 .. L - 1 : d \in In
    <2> HIDE DEF In
    <2> QED
      BY <1>4, <1>5, <1>6, HoldsUpTo
  <1>8. k - 1 \in 0 .. L - 1 /\ k - 1 + 1 = k
    BY <1>1
  <1> QED
    BY <1>7, <1>8

LEMMA WayAscends ==
    ASSUME NEW h, NEW own, HeapTyped(h), Linking(h, own), NEW w, NEW n, IsWay(h, w, n),
           NEW j \in 1 .. Len(w), NEW k \in 1 .. Len(w), j < k
    PROVE  w[j] < w[k]
  <1> DEFINE L == Len(w)
             Up == {d \in 0 .. L - j : d = 0 \/ w[j] < w[j + d]}
  <1>1. L \in Nat /\ \A l \in 1 .. L : w[l] \in 1 .. Len(h.node)
    <2> DEFINE S == 1 .. Len(h.node)
    <2>1. w \in Seq(S)
      BY DEF IsWay
    <2> HIDE DEF S
    <2>2. L \in Nat /\ \A l \in 1 .. L : w[l] \in S
      BY <2>1
    <2> QED
      BY <2>2 DEF S
  <1>2. ASSUME NEW l \in 1 .. L - 1
        PROVE  w[l] < w[l + 1]
    <2>1. /\ l \in 1 .. L /\ l + 1 \in 1 .. L /\ l < L
      BY <1>1
    <2>2. w[l + 1] = h.node[w[l]].next /\ w[l + 1] # NULL
      BY <1>1, <2>1 DEF IsWay, NULL
    <2>3. w[l + 1] \in w[l] + 1 .. Len(h.node)
      BY <1>1, <2>1, <2>2 DEF Linking
    <2> QED
      BY <1>1, <2>1, <2>3
  <1> HIDE DEF L
  <1>3. 0 \in Up
    BY <1>1 DEF L
  <1>4. ASSUME NEW d \in 1 .. L - j, d - 1 \in Up
        PROVE  d \in Up
    <2> DEFINE l == j + (d - 1)
    <2>1. l \in 1 .. L - 1 /\ l + 1 = j + d /\ l \in 1 .. L /\ l + 1 \in 1 .. L /\ j \in 1 .. L
      BY <1>1 DEF L
    <2>2. w[j] <= w[l]
      <3>1. w[l] \in Int /\ w[j] \in Int
        BY <1>1, <2>1
      <3>2. d - 1 = 0 => l = j
        BY <1>1
      <3> QED
        BY <1>4, <3>1, <3>2
    <2> HIDE DEF l
    <2>3. w[j] < w[l + 1]
      <3>1. w[l] < w[l + 1]
        BY <1>2, <2>1
      <3>2. w[j] \in Int /\ w[l] \in Int /\ w[l + 1] \in Int
        BY <1>1, <2>1
      <3> QED
        BY <2>2, <3>1, <3>2
    <2> QED
      BY <2>1, <2>3
  <1>5. L - j \in Nat
    BY <1>1 DEF L
  <1>6. \A d \in 0 .. L - j : d \in Up
    <2> HIDE DEF Up
    <2> QED
      BY <1>3, <1>4, <1>5, HoldsUpTo
  <1>7. k - j \in 0 .. L - j /\ j + (k - j) = k /\ k - j # 0
    BY <1>1 DEF L
  <1> QED
    BY <1>6, <1>7

(* A walk stays in the family of its list.                                 *)
LEMMA WalkAtHome ==
    ASSUME NEW h, NEW own, HeapTyped(h), Linking(h, own), NEW i \in Lists3,
           NEW k \in 1 .. Len(Walk(h, i))
    PROVE  Walk(h, i)[k] \in 1 .. Len(h.node) /\ own[Walk(h, i)[k]] = Home(i)
  <1> DEFINE w == Walk(h, i)
             S == {n \in 1 .. Len(h.node) : own[n] = Home(i)}
  <1>1. IsWay(h, w, h.list[i].first)
    BY WalkIsWay
  <1>2. h.list[i].first # NULL => h.list[i].first \in S
    BY DEF Linking
  <1>3. \A m \in 1 .. Len(h.node) :
           m \in S /\ h.node[m].next # NULL => h.node[m].next \in S
    <2> SUFFICES ASSUME NEW m \in 1 .. Len(h.node), m \in S, h.node[m].next # NULL
                 PROVE  h.node[m].next \in S
      OBVIOUS
    <2>1. h.node[m].next \in m + 1 .. Len(h.node) /\ own[h.node[m].next] = own[m]
      BY DEF Linking
    <2>2. h.node[m].next \in 1 .. Len(h.node)
      BY <2>1
    <2> QED
      BY <2>1, <2>2
  <1>4. w[k] \in S
    <2> HIDE DEF S, w
    <2> QED
      BY <1>1, <1>2, <1>3, WayInside DEF w
  <1> QED
    BY <1>4

(* The walk along a list of a blocked name meets its entries.              *)
LEMMA WalkMeets ==
    ASSUME NEW h, NEW own, HeapTyped(h), Linking(h, own), NEW t \in CacheType,
           NEW b \in BlockedNames, b \in Name, NEW k \in 1 .. Len(h.node),
           Anchors(h, own, k, b)
    PROVE  \E j \in 1 .. Len(Walk(h, <<t, b>>)) : Walk(h, <<t, b>>)[j] = k
  <1> DEFINE i == <<t, b>>
             w == Walk(h, i)
             L == Len(w)
  <1>1. i \in Lists3 /\ h.list[i].first \in 1 .. k /\ k \in Nat
    BY DEF Anchors, Lists3
  <1>2. IsWay(h, w, h.list[i].first)
    BY <1>1, WalkIsWay
  <1>3. Home(i) = <<NULL, b>>
    BY <1>1, HomeIs
  <1>4. L \in Nat /\ L > 0 /\ w[1] = h.list[i].first
    BY <1>1, <1>2 DEF IsWay, NULL
  <1> SUFFICES ASSUME \A j \in 1 .. L : w[j] # k
               PROVE  FALSE
    OBVIOUS
  <1>5. \A j \in 1 .. L : w[j] \in 1 .. Len(h.node) /\ own[w[j]] = <<NULL, b>>
    BY <1>1, <1>3, WalkAtHome
  <1> DEFINE Before == {d \in 0 .. L - 1 : w[d + 1] < k}
  <1> HIDE DEF w, L
  <1>6. 0 \in Before
    <2>1. 1 \in 1 .. L
      BY <1>4
    <2>2. w[1] # k
      BY <2>1
    <2> QED
      BY <1>1, <1>4, <2>2
  <1>7. ASSUME NEW d \in 1 .. L - 1, d - 1 \in Before
        PROVE  d \in Before
    <2>1. d \in 1 .. L /\ d + 1 \in 1 .. L /\ d < L /\ d - 1 + 1 = d
      BY <1>4
    <2>2. w[d] < k /\ w[d + 1] = h.node[w[d]].next
      <3>1. w[d] < k
        BY <1>7, <2>1
      <3> QED
        BY <1>2, <2>1, <3>1 DEF IsWay, L
    <2>3. w[d + 1] \in 1 .. k
      BY <1>5, <2>1, <2>2 DEF Anchors
    <2>4. w[d + 1] < k
      BY <2>1, <2>3
    <2> QED
      BY <1>4, <2>4
  <1>8. L - 1 \in Before
    <2>1. L - 1 \in Nat /\ L - 1 \in 0 .. L - 1
      BY <1>4
    <2> HIDE DEF Before
    <2> QED
      BY <1>6, <1>7, <2>1, HoldsUpTo
  <1>9. L - 1 + 1 = L /\ L \in 1 .. L
    BY <1>4
  <1>10. w[L] < k
    BY <1>8, <1>9
  <1>11. h.node[w[L]].next = NULL
    BY <1>2, <1>9 DEF IsWay, L
  <1>12. h.node[w[L]].next \in 1 .. k
    BY <1>5, <1>9, <1>10 DEF Anchors
  <1> QED
    BY <1>11, <1>12 DEF NULL

(* The walk along a list of a name that is not blocked is the list.        *)
LEMMA WalkIsList ==
    ASSUME NEW h, NEW own, Good(h, own), NEW i \in Lists
    PROVE  LET w == Walk(h, i)
           IN  /\ w \in Seq(Live(h, own, i)) /\ Len(w) = h.list[i].size
               /\ \A m \in Live(h, own, i) : \E k \in 1 .. Len(w) : w[k] = m
               /\ h.list[i].tail = Last0(w)
               /\ \A k \in 1 .. Len(w) :
                     h.node[w[k]].prev = IF k = 1 THEN NULL ELSE w[k - 1]
  <1> DEFINE w == Walk(h, i)
             L == Len(w)
             M == Live(h, own, i)
             first == h.list[i].first
  <1>1. HeapTyped(h) /\ Linking(h, own) /\ Ordered(h, own, i) /\ i \in Lists3 /\ Home(i) = i
    BY HomeIs DEF Good, Lists, Lists3
  <1>2. IsWay(h, w, first)
    BY <1>1, WalkIsWay
  <1>3. /\ L \in Nat /\ NULL \notin M
        /\ first = NULL => w = <<>>
        /\ first # NULL => L > 0 /\ w[1] = first
        /\ \A k \in 1 .. L :
              /\ k < L => w[k + 1] = h.node[w[k]].next
              /\ k = L => h.node[w[k]].next = NULL
    BY <1>1, <1>2, LiveFinite DEF IsWay
  <1>4. /\ first \in M \union {NULL} /\ h.list[i].tail \in M \union {NULL}
        /\ h.list[i].size = Cardinality(M)
        /\ \A n \in M :
              /\ h.node[n].next = NULL <=> n = h.list[i].tail
              /\ h.node[n].next # NULL => h.node[n].next \in M /\ h.node[h.node[n].next].prev = n
              /\ h.node[n].prev = NULL <=> n = first
              /\ h.node[n].prev # NULL => h.node[n].prev \in M /\ h.node[h.node[n].prev].next = n
    BY <1>1 DEF Ordered
  <1>5. \A k \in 1 .. L : w[k] \in M
    <2> HIDE DEF M, w, first
    <2> QED
      BY <1>2, <1>4, WayInside
  <1>6. w \in Seq(M)
    <2>1. w \in Seq(1 .. Len(h.node))
      BY <1>2 DEF IsWay
    <2> HIDE DEF M, w
    <2>2. w = [k \in 1 .. L |-> w[k]]
      BY <2>1
    <2> HIDE DEF L
    <2> QED
      BY <1>3, <1>5, <2>2
  <1>7. \A m \in M : m \in 1 .. Len(h.node)
    BY DEF Live
  <1>8. ASSUME NEW n \in M, h.node[n].prev # NULL
        PROVE  h.node[n].prev < n
    BY <1>1, <1>7, <1>8 DEF Linking
  <1> HIDE DEF M, w, first, L
  <1>9. ASSUME NEW m \in M
        PROVE  \E k \in 1 .. L : w[k] = m
    <2> DEFINE T == {n \in M : \A k \in 1 .. L : w[k] # n}
    <2> SUFFICES ASSUME m \in T
                 PROVE  FALSE
      OBVIOUS
    <2>1. T \subseteq Nat
      BY <1>7
    <2>2. PICK n \in T : \A l \in T : n <= l
      <3> HIDE DEF T
      <3> QED
        BY <2>1, LeastNumber
    <2>3. n \in M /\ \A k \in 1 .. L : w[k] # n
      OBVIOUS
    <2>4. n # first
      <3>1. first # NULL => 1 \in 1 .. L
        BY <1>3
      <3> QED
        BY <1>3, <2>3, <3>1
    <2> DEFINE p == h.node[n].prev
    <2>5. p \in M /\ h.node[p].next = n /\ p < n
      BY <1>4, <1>8, <2>3, <2>4
    <2> HIDE DEF p
    <2>6. p \notin T
      <3>1. p \in Int /\ n \in Int
        BY <1>7, <2>3, <2>5
      <3> HIDE DEF T
      <3> QED
        BY <2>2, <2>5, <3>1
    <2>7. PICK k \in 1 .. L : w[k] = p
      BY <2>5, <2>6
    <2>8. k # L
      BY <1>3, <2>3, <2>5, <2>7
    <2>9. k < L /\ k + 1 \in 1 .. L
      BY <1>3, <2>8
    <2>10. w[k + 1] = n
      BY <1>3, <2>5, <2>7, <2>9
    <2> QED
      BY <2>3, <2>9, <2>10
  <1>10. L = Cardinality(M)
    <2>1. \A j, k \in 1 .. L : j < k => w[j] < w[k]
      BY <1>1, <1>2, WayAscends DEF L
    <2>2. \A j, k \in 1 .. L : w[j] = w[k] => j = k
      <3> SUFFICES ASSUME NEW j \in 1 .. L, NEW k \in 1 .. L, w[j] = w[k], j # k
                   PROVE  FALSE
        OBVIOUS
      <3>1. j < k \/ k < j
        BY <1>3, <1>5, <1>7
      <3>2. w[j] \in Int /\ w[k] \in Int
        BY <1>5, <1>7
      <3> QED
        BY <2>1, <3>1, <3>2
    <2>3. w \in [1 .. L -> M] /\ DOMAIN w = 1 .. L
      BY <1>6 DEF L
    <2>4. w \in Injection(1 .. L, M) /\ w \in Surjection(1 .. L, M)
      BY <1>9, <2>2, <2>3 DEF Injection, Surjection, IsInjective
    <2>5. ExistsBijection(1 .. L, M)
      BY <2>4 DEF ExistsBijection, Bijection
    <2>6. IsFiniteSet(1 .. L) /\ Cardinality(1 .. L) = L
      BY <1>3, FS_Interval
    <2> QED
      BY <2>5, <2>6, FS_Bijection
  <1>11. h.list[i].tail = Last0(w)
    <2>1. CASE w = <<>>
      <3>1. L = 0
        BY <2>1 DEF L
      <3>2. M = {}
        BY <1>9, <3>1
      <3> QED
        BY <1>4, <2>1, <3>2 DEF Last0
    <2>2. CASE w # <<>>
      <3>1. L \in 1 .. L
        BY <1>3, <1>6, <2>2 DEF L
      <3>2. w[L] \in M /\ h.node[w[L]].next = NULL
        BY <1>3, <1>5, <3>1
      <3> QED
        BY <1>4, <2>2, <3>2 DEF Last0, L
    <2> QED
      BY <2>1, <2>2
  <1>12. ASSUME NEW k \in 1 .. L
         PROVE  h.node[w[k]].prev = IF k = 1 THEN NULL ELSE w[k - 1]
    <2>1. CASE k = 1
      <3>1. first # NULL
        BY <1>3, <2>1 DEF L
      <3> QED
        BY <1>3, <1>4, <1>5, <2>1, <3>1
    <2>2. CASE k # 1
      <3> DEFINE j == k - 1
      <3>1. j \in 1 .. L /\ j + 1 = k /\ j < L
        BY <1>3, <2>2
      <3> HIDE DEF j
      <3>2. w[k] = h.node[w[j]].next
        BY <1>3, <3>1
      <3>3. w[j] \in M /\ w[k] # NULL
        BY <1>3, <1>5, <3>1
      <3>4. h.node[w[k]].prev = w[j]
        BY <1>4, <3>2, <3>3
      <3> QED
        BY <2>2, <3>4 DEF j
    <2> QED
      BY <2>1, <2>2
  <1> QED
    BY <1>4, <1>6, <1>9, <1>10, <1>11, <1>12 DEF w, L, M

-----------------------------------------------------------------------------
(* The loop of list_update: what it has made of the lists after k nodes.   *)
Passed(h, i) ==
    CHOOSE passed :
        passed = [k \in 0 .. Len(Walk(h, i)) |->
                     IF k = 0 THEN h ELSE Refresh(passed[k - 1], i, Walk(h, i)[k])]

LEMMA PassedUnfolds ==
    ASSUME NEW h, NEW i
    PROVE  list_update(h, i) = Passed(h, i)[Len(Walk(h, i))]
  BY Zenon DEF list_update, Passed

LEMMA PassedExists ==
    ASSUME NEW h, NEW i, NEW f,
           f = [k \in 0 .. Len(Walk(h, i)) |->
                   IF k = 0 THEN h ELSE Refresh(f[k - 1], i, Walk(h, i)[k])]
    PROVE  Passed(h, i) = [k \in 0 .. Len(Walk(h, i)) |->
                   IF k = 0 THEN h ELSE Refresh(Passed(h, i)[k - 1], i, Walk(h, i)[k])]
  BY Zenon DEF Passed

LEMMA PassedDefined ==
    ASSUME NEW h, NEW i, Len(Walk(h, i)) \in Nat
    PROVE  /\ Passed(h, i)[0] = h
           /\ \A k \in 1 .. Len(Walk(h, i)) :
                 Passed(h, i)[k] = Refresh(Passed(h, i)[k - 1], i, Walk(h, i)[k])
  <1> DEFINE N == Len(Walk(h, i))
             Defines(f, n) ==
                 /\ f = [k \in 0 .. n |-> f[k]]
                 /\ f[0] = h
                 /\ \A k \in 1 .. n : f[k] = Refresh(f[k - 1], i, Walk(h, i)[k])
             Done == {n \in 0 .. N : \E f : Defines(f, n)}
  <1>1. N \in Nat
    OBVIOUS
  <1> HIDE DEF N
  <1>2. 0 \in Done
    <2> DEFINE f == [k \in 0 .. 0 |-> h]
    <2>1. Defines(f, 0)
      OBVIOUS
    <2> HIDE DEF f, Defines
    <2>2. \E g : Defines(g, 0)
      BY <2>1
    <2> QED
      BY <1>1, <2>2
  <1>3. ASSUME NEW n \in 1 .. N, n - 1 \in Done
        PROVE  n \in Done
    <2>1. PICK f : Defines(f, n - 1)
      BY <1>3
    <2> DEFINE g == [k \in 0 .. n |-> IF k = n THEN Refresh(f[n - 1], i, Walk(h, i)[n]) ELSE f[k]]
    <2>2. g[0] = h /\ g = [k \in 0 .. n |-> g[k]]
      <3>1. 0 \in 0 .. n /\ 0 # n
        BY <1>1
      <3>2. f[0] = h
        BY <2>1
      <3> QED
        BY <3>1, <3>2
    <2>3. ASSUME NEW k \in 1 .. n
          PROVE  g[k] = Refresh(g[k - 1], i, Walk(h, i)[k])
      <3>1. k - 1 \in 0 .. n /\ k \in 0 .. n /\ k - 1 # n /\ g[k - 1] = f[k - 1]
        BY <1>1
      <3>2. CASE k = n
        BY <3>1, <3>2
      <3>3. CASE k # n
        <4>1. k \in 1 .. (n - 1) /\ g[k] = f[k]
          BY <1>1, <3>1, <3>3
        <4> QED
          BY <2>1, <3>1, <4>1
      <3> QED
        BY <3>2, <3>3
    <2> HIDE DEF g
    <2>4. Defines(g, n)
      BY <2>2, <2>3
    <2> HIDE DEF Defines
    <2>5. \E k : Defines(k, n)
      BY <2>4
    <2> QED
      BY <1>1, <2>5
  <1>4. \E f : Defines(f, N)
    <2> HIDE DEF Defines
    <2>1. Done = {n \in 0 .. N : \E f : Defines(f, n)}
      OBVIOUS
    <2> HIDE DEF Done
    <2>2. N \in Done
      BY <1>1, <1>2, <1>3, HoldsUpTo
    <2> QED
      BY <2>1, <2>2
  <1>5. PICK f : Defines(f, N)
    BY <1>4
  <1>6. f = [k \in 0 .. N |-> IF k = 0 THEN h ELSE Refresh(f[k - 1], i, Walk(h, i)[k])]
    <2>1. ASSUME NEW k \in 0 .. N
          PROVE  f[k] = IF k = 0 THEN h ELSE Refresh(f[k - 1], i, Walk(h, i)[k])
      <3>1. k # 0 => k \in 1 .. N
        BY <1>1
      <3> QED
        BY <1>5, <3>1
    <2>2. f = [k \in 0 .. N |-> f[k]]
      BY <1>5
    <2> HIDE DEF Defines
    <2> QED
      BY <2>1, <2>2
  <1> HIDE DEF Defines, Done
  <1> DEFINE p == Passed(h, i)
  <1>7. p = [k \in 0 .. N |-> IF k = 0 THEN h ELSE Refresh(p[k - 1], i, Walk(h, i)[k])]
    BY <1>6, PassedExists DEF N
  <1> HIDE DEF p
  <1>8. p[0] = h
    BY <1>1, <1>7
  <1>9. ASSUME NEW k \in 1 .. N
        PROVE  p[k] = Refresh(p[k - 1], i, Walk(h, i)[k])
    <2>1. k \in 0 .. N /\ k # 0
      BY <1>1
    <2>2. p[k] = [l \in 0 .. N |-> IF l = 0 THEN h ELSE Refresh(p[l - 1], i, Walk(h, i)[l])][k]
      BY <1>7
    <2> QED
      BY <2>1, <2>2
  <1> QED
    BY <1>8, <1>9 DEF p, N

(* The loop over the records of a response.                                *)
Cached(h, name, answer) ==
    CHOOSE cached :
        cached = [k \in 0 .. Len(answer) |->
                     IF k = 0 THEN h ELSE CacheRecord(cached[k - 1], name, answer[k])]

LEMMA CachedUnfolds ==
    ASSUME NEW h, NEW name, NEW answer
    PROVE  CacheAnswer(h, name, answer) = Cached(h, name, answer)[Len(answer)]
  BY Zenon DEF CacheAnswer, Cached

LEMMA CachedExists ==
    ASSUME NEW h, NEW name, NEW answer, NEW f,
           f = [k \in 0 .. Len(answer) |->
                   IF k = 0 THEN h ELSE CacheRecord(f[k - 1], name, answer[k])]
    PROVE  Cached(h, name, answer) = [k \in 0 .. Len(answer) |->
                   IF k = 0 THEN h ELSE CacheRecord(Cached(h, name, answer)[k - 1], name, answer[k])]
  BY Zenon DEF Cached

LEMMA CachedDefined ==
    ASSUME NEW h, NEW name, NEW answer, Len(answer) \in Nat
    PROVE  /\ Cached(h, name, answer)[0] = h
           /\ \A k \in 1 .. Len(answer) :
                 Cached(h, name, answer)[k] = CacheRecord(Cached(h, name, answer)[k - 1], name, answer[k])
  <1> DEFINE N == Len(answer)
             Defines(f, n) ==
                 /\ f = [k \in 0 .. n |-> f[k]]
                 /\ f[0] = h
                 /\ \A k \in 1 .. n : f[k] = CacheRecord(f[k - 1], name, answer[k])
             Done == {n \in 0 .. N : \E f : Defines(f, n)}
  <1>1. N \in Nat
    OBVIOUS
  <1> HIDE DEF N
  <1>2. 0 \in Done
    <2> DEFINE f == [k \in 0 .. 0 |-> h]
    <2>1. Defines(f, 0)
      OBVIOUS
    <2> HIDE DEF f, Defines
    <2>2. \E g : Defines(g, 0)
      BY <2>1
    <2> QED
      BY <1>1, <2>2
  <1>3. ASSUME NEW n \in 1 .. N, n - 1 \in Done
        PROVE  n \in Done
    <2>1. PICK f : Defines(f, n - 1)
      BY <1>3
    <2> DEFINE g == [k \in 0 .. n |-> IF k = n THEN CacheRecord(f[n - 1], name, answer[n]) ELSE f[k]]
    <2>2. g[0] = h /\ g = [k \in 0 .. n |-> g[k]]
      <3>1. 0 \in 0 .. n /\ 0 # n
        BY <1>1
      <3>2. f[0] = h
        BY <2>1
      <3> QED
        BY <3>1, <3>2
    <2>3. ASSUME NEW k \in 1 .. n
          PROVE  g[k] = CacheRecord(g[k - 1], name, answer[k])
      <3>1. k - 1 \in 0 .. n /\ k \in 0 .. n /\ k - 1 # n /\ g[k - 1] = f[k - 1]
        BY <1>1
      <3>2. CASE k = n
        BY <3>1, <3>2
      <3>3. CASE k # n
        <4>1. k \in 1 .. (n - 1) /\ g[k] = f[k]
          BY <1>1, <3>1, <3>3
        <4> QED
          BY <2>1, <3>1, <4>1
      <3> QED
        BY <3>2, <3>3
    <2> HIDE DEF g
    <2>4. Defines(g, n)
      BY <2>2, <2>3
    <2> HIDE DEF Defines
    <2>5. \E k : Defines(k, n)
      BY <2>4
    <2> QED
      BY <1>1, <2>5
  <1>4. \E f : Defines(f, N)
    <2> HIDE DEF Defines
    <2>1. Done = {n \in 0 .. N : \E f : Defines(f, n)}
      OBVIOUS
    <2> HIDE DEF Done
    <2>2. N \in Done
      BY <1>1, <1>2, <1>3, HoldsUpTo
    <2> QED
      BY <2>1, <2>2
  <1>5. PICK f : Defines(f, N)
    BY <1>4
  <1>6. f = [k \in 0 .. N |-> IF k = 0 THEN h ELSE CacheRecord(f[k - 1], name, answer[k])]
    <2>1. ASSUME NEW k \in 0 .. N
          PROVE  f[k] = IF k = 0 THEN h ELSE CacheRecord(f[k - 1], name, answer[k])
      <3>1. k # 0 => k \in 1 .. N
        BY <1>1
      <3> QED
        BY <1>5, <3>1
    <2>2. f = [k \in 0 .. N |-> f[k]]
      BY <1>5
    <2> HIDE DEF Defines
    <2> QED
      BY <2>1, <2>2
  <1> HIDE DEF Defines, Done
  <1> DEFINE p == Cached(h, name, answer)
  <1>7. p = [k \in 0 .. N |-> IF k = 0 THEN h ELSE CacheRecord(p[k - 1], name, answer[k])]
    BY <1>6, CachedExists DEF N
  <1> HIDE DEF p
  <1>8. p[0] = h
    BY <1>1, <1>7
  <1>9. ASSUME NEW k \in 1 .. N
        PROVE  p[k] = CacheRecord(p[k - 1], name, answer[k])
    <2>1. k \in 0 .. N /\ k # 0
      BY <1>1
    <2>2. p[k] = [l \in 0 .. N |-> IF l = 0 THEN h ELSE CacheRecord(p[l - 1], name, answer[l])][k]
      BY <1>7
    <2> QED
      BY <2>1, <2>2
  <1> QED
    BY <1>8, <1>9 DEF p, N

-----------------------------------------------------------------------------
(* What the operations on a heap preserve.                                 *)

LEMMA HostsTyped ==
    /\ BlockedNames \subseteq Name /\ Len(HostsLines) \in Nat
    /\ DOMAIN HostsLines = 1 .. Len(HostsLines)
    /\ \A k \in 1 .. Len(HostsLines) :
          /\ HostsLines[k].name \in Name /\ HostsLines[k].zero \in BOOLEAN
          /\ HostsLines[k].zero => HostsLines[k].name \in BlockedNames
  <1> DEFINE Lines == [name: Name, zero: BOOLEAN]
  <1>1. HostsLines \in Seq(Lines)
    BY RecordCacheAssumption
  <1> HIDE DEF Lines
  <1>2. /\ Len(HostsLines) \in Nat /\ DOMAIN HostsLines = 1 .. Len(HostsLines)
        /\ \A k \in 1 .. Len(HostsLines) : HostsLines[k] \in Lines
    BY <1>1
  <1>3. \A k \in 1 .. Len(HostsLines) :
           HostsLines[k].name \in Name /\ HostsLines[k].zero \in BOOLEAN
    BY <1>2 DEF Lines
  <1> QED
    BY <1>2, <1>3 DEF BlockedNames

(* No list of the family of n but i begins with n, when n may be erased.   *)
LEMMA FirstStays ==
    ASSUME NEW h, NEW own, Whole(h, own, Len(HostsLines)), NEW i \in Lists3,
           NEW n \in 1 .. Len(h.node), own[n] = Home(i), n \notin h.freed,
           h.node[n].ttl # 0, NEW j \in Lists3, h.list[j].first = n
    PROVE  j = i /\ h.node[n].prev = NULL
  <1>1. /\ HeapTyped(h) /\ Linking(h, own) /\ FromHosts(h, own, Len(HostsLines))
        /\ Anchored(h, own, Len(HostsLines)) /\ \A l \in Lists : Ordered(h, own, l)
    BY DEF Whole, Good
  <1>2. n # NULL /\ Home(j) = Home(i)
    BY <1>1 DEF Linking, NULL
  <1>3. CASE i[2] \in BlockedNames
    <2>1. PICK k \in 1 .. Len(HostsLines) : HostsLines[k].zero /\ HostsLines[k].name = i[2]
      <3>1. \E k \in DOMAIN HostsLines : HostsLines[k].zero /\ HostsLines[k].name = i[2]
        BY <1>3 DEF BlockedNames
      <3> QED
        BY <3>1, HostsTyped
    <2>3. n \notin 1 .. Len(HostsLines)
      BY <1>1 DEF FromHosts
    <2>4. j[2] = i[2] /\ j[1] \in CacheType /\ j = <<j[1], j[2]>>
      BY <1>2, <1>3 DEF Home, Lists3
    <2>5. h.list[j].first \in 1 .. k
      BY <1>1, <2>1, <2>4 DEF Anchored, Anchors
    <2> QED
      BY <2>1, <2>3, <2>5, HostsTyped
  <1>4. CASE i[2] \notin BlockedNames
    <2>1. i \in Lists /\ Home(i) = i
      BY <1>4 DEF Lists, Lists3, Home
    <2>2. j = i
      BY <1>2, <2>1, HomeIs
    <2>3. n \in Live(h, own, i)
      BY <2>1 DEF Live
    <2> QED
      BY <1>1, <1>2, <2>1, <2>2, <2>3 DEF Ordered
  <1> QED
    BY <1>3, <1>4

LEMMA SolidErase ==
    ASSUME NEW h, NEW own, Whole(h, own, Len(HostsLines)), NEW main, Solid(h, main),
           NEW i \in Lists3, NEW n \in main, own[n] = Home(i), h.node[n].ttl # 0,
           NEW g, Erased(h, g, i, n)
    PROVE  Solid(g, main \ {n})
  <1> DEFINE prev == h.node[n].prev
             next == h.node[n].next
             main2 == main \ {n}
  <1>1. HeapTyped(h) /\ Linking(h, own) /\ n \in 1 .. Len(h.node) /\ n \notin h.freed
    BY DEF Whole, Good, Solid
  <1>2. \A m \in main : m \in 1 .. Len(h.node) /\ m # NULL
    BY DEF Solid, NULL
  <1>3. /\ Len(g.node) = Len(h.node) /\ g.freed = h.freed \union {n}
        /\ \A m \in main :
              /\ g.node[m].ttl = h.node[m].ttl
              /\ g.node[m].next = IF m = prev THEN next ELSE h.node[m].next
              /\ g.node[m].prev = IF m = next THEN prev ELSE h.node[m].prev
        /\ \A j \in Lists3 \ {i} : g.list[j] = h.list[j]
        /\ g.list[i].first = IF prev = NULL THEN next ELSE h.list[i].first
    BY <1>2 DEF Erased, SameData
  <1>4. next \in main2 \union {NULL} /\ prev # n /\ next # n
    <2>1. next # n /\ prev # n
      BY <1>1 DEF Linking, HeapTyped, NULL
    <2> QED
      BY <2>1 DEF Solid
  <1>5. \A m \in main : h.node[m].next = n => prev = m
    BY <1>1, <1>2 DEF Solid
  <1>6. ASSUME NEW m \in main2, g.node[m].next # NULL
        PROVE  /\ g.node[m].next \in main2
               /\ g.node[g.node[m].next].ttl # 0 => g.node[g.node[m].next].prev = m
    <2>1. CASE m = prev
      <3>1. g.node[m].next = next /\ next \in main2
        BY <1>3, <1>4, <1>6, <2>1
      <3>2. g.node[next].prev = m
        BY <1>3, <2>1, <3>1
      <3> QED
        BY <3>1, <3>2
    <2>2. CASE m # prev
      <3> DEFINE x == h.node[m].next
      <3>1. g.node[m].next = x /\ x # NULL
        BY <1>3, <1>6, <2>2
      <3>2. x \in main /\ (h.node[x].ttl # 0 => h.node[x].prev = m)
        BY <3>1 DEF Solid
      <3>3. x # n
        BY <1>5, <2>2
      <3>4. x = next /\ h.node[x].ttl # 0 => h.node[x].prev = n
        BY <3>1 DEF Solid
      <3> HIDE DEF x
      <3>5. h.node[x].ttl # 0 => g.node[x].prev = m
        BY <1>3, <3>2, <3>4
      <3>6. g.node[x].ttl = h.node[x].ttl
        BY <1>3, <3>2
      <3> QED
        BY <3>1, <3>2, <3>3, <3>5, <3>6
    <2> QED
      BY <2>1, <2>2
  <1>7. ASSUME NEW j \in Lists3
        PROVE  g.list[j].first \in main2 \union {NULL}
    <2>1. h.list[j].first \in main \union {NULL}
      BY DEF Solid
    <2>2. h.list[j].first = n => j = i /\ prev = NULL
      BY <1>1, FirstStays
    <2> QED
      BY <1>3, <1>4, <2>1, <2>2
  <1>8. main2 \subseteq 1 .. Len(g.node) /\ main2 \intersect g.freed = {}
    BY <1>3 DEF Solid
  <1> QED
    BY <1>6, <1>7, <1>8 DEF Solid

LEMMA SolidNew ==
    ASSUME NEW h, NEW own, HeapTyped(h), Linking(h, own), NEW main, Solid(h, main),
           NEW i \in Lists3, NEW g, NEW e, NewPushed(h, g, i, e)
    PROVE  \E main2 : Solid(g, main2)
  <1> DEFINE n == Len(h.node) + 1
             tail == h.list[i].tail
             main2 == IF tail \in main \union {NULL} THEN main \union {n} ELSE main
  <1>1. Len(h.node) \in Nat /\ h.freed \subseteq 1 .. Len(h.node)
    BY DEF HeapTyped
  <1>2. \A m \in main : m \in 1 .. Len(h.node) /\ m # NULL /\ m # n
    BY <1>1 DEF Solid, NULL
  <1>3. /\ Len(g.node) = n /\ g.freed = h.freed
        /\ \A m \in main :
              /\ g.node[m].ttl = h.node[m].ttl /\ g.node[m].prev = h.node[m].prev
              /\ g.node[m].next = IF m = tail THEN n ELSE h.node[m].next
        /\ g.node[n].next = NULL /\ g.node[n].prev = tail
        /\ \A j \in Lists3 \ {i} : g.list[j] = h.list[j]
        /\ g.list[i].first = IF tail = NULL THEN n ELSE h.list[i].first
    BY <1>2 DEF NewPushed, SameData
  <1> HIDE DEF n, tail
  <1>4. ASSUME NEW m \in main2, g.node[m].next # NULL
        PROVE  /\ g.node[m].next \in main2
               /\ g.node[g.node[m].next].ttl # 0 => g.node[g.node[m].next].prev = m
    <2>1. m \in main
      BY <1>3, <1>4
    <2>2. CASE m = tail
      BY <1>3, <2>1, <2>2
    <2>3. CASE m # tail
      <3>1. g.node[m].next = h.node[m].next
        BY <1>3, <2>1, <2>3
      <3>2. /\ h.node[m].next \in main
            /\ h.node[h.node[m].next].ttl # 0 => h.node[h.node[m].next].prev = m
        BY <1>4, <2>1, <3>1 DEF Solid
      <3> QED
        BY <1>3, <3>1, <3>2
    <2> QED
      BY <2>2, <2>3
  <1>5. ASSUME NEW j \in Lists3
        PROVE  g.list[j].first \in main2 \union {NULL}
    <2>1. h.list[j].first \in main \union {NULL}
      BY DEF Solid
    <2> QED
      BY <1>3, <2>1
  <1>6. main2 \subseteq 1 .. Len(g.node) /\ main2 \intersect g.freed = {}
    <2>1. n \in 1 .. n /\ n \notin h.freed /\ \A m \in 1 .. Len(h.node) : m \in 1 .. n
      BY <1>1 DEF n
    <2>2. main \subseteq 1 .. Len(h.node) /\ main \intersect h.freed = {}
      BY DEF Solid
    <2> QED
      BY <1>3, <2>1, <2>2
  <1>7. Solid(g, main2)
    <2> HIDE DEF main2
    <2> QED
      BY <1>4, <1>5, <1>6 DEF Solid
  <1> QED
    BY <1>7

(* While the hosts file is read, nothing is freed.                         *)
LEMMA NoneFreed ==
    ASSUME NEW h, NEW own, HeapTyped(h), FromHosts(h, own, Len(h.node))
    PROVE  h.freed = {}
  BY DEF HeapTyped, FromHosts

LEMMA SolidLoading ==
    ASSUME NEW h, NEW own, HeapTyped(h), Linking(h, own), FromHosts(h, own, Len(h.node))
    PROVE  \E main : Solid(h, main)
  <1> DEFINE main == 1 .. Len(h.node)
  <1>1. Len(h.node) \in Nat /\ h.freed = {}
    BY NoneFreed DEF HeapTyped
  <1>2. \A n \in main : h.node[n].next # NULL => h.node[n].next \in main
    BY <1>1 DEF Linking
  <1>3. \A n \in main : h.node[n].ttl = 0
    BY DEF FromHosts
  <1>4. \A i \in Lists3 : h.list[i].first \in main \union {NULL}
    BY DEF Linking
  <1>5. Solid(h, main)
    <2> HIDE DEF main
    <2>1. main \subseteq 1 .. Len(h.node)
      BY DEF main
    <2> QED
      BY <1>1, <1>2, <1>3, <1>4, <2>1 DEF Solid
  <1> QED
    BY <1>5

(* A list leads to none but the nodes of main.                             *)
LEMMA WalkSolid ==
    ASSUME NEW h, NEW own, HeapTyped(h), Linking(h, own), NEW main, Solid(h, main),
           NEW i \in Lists3
    PROVE  \A k \in 1 .. Len(Walk(h, i)) : Walk(h, i)[k] \in main
  <1> DEFINE w == Walk(h, i)
  <1>1. IsWay(h, w, h.list[i].first)
    BY WalkIsWay
  <1>2. h.list[i].first # NULL => h.list[i].first \in main
    BY DEF Solid
  <1>3. \A m \in 1 .. Len(h.node) :
           m \in main /\ h.node[m].next # NULL => h.node[m].next \in main
    BY DEF Solid
  <1> HIDE DEF w
  <1>4. \A k \in 1 .. Len(w) : w[k] \in main
    BY <1>1, <1>2, <1>3, WayInside
  <1> QED
    BY <1>4 DEF w

LEMMA WholeErase ==
    ASSUME NEW h, NEW own, NEW L \in 0 .. Len(HostsLines), Whole(h, own, L),
           L = Len(HostsLines), NEW main, Solid(h, main),
           NEW i \in Lists3, NEW n \in main, own[n] = Home(i), h.node[n].ttl # 0
    PROVE  Whole(list_erase(h, i, n), own, L)
  <1> DEFINE g == list_erase(h, i, n)
  <1>1. /\ Good(h, own) /\ FromHosts(h, own, L) /\ Anchored(h, own, L)
        /\ HeapTyped(h) /\ Linking(h, own) /\ n \in 1 .. Len(h.node) /\ n \notin h.freed
    BY DEF Whole, Good, Solid
  <1>2. Erased(h, g, i, n)
    BY <1>1, EraseNode
  <1>3. Good(g, own)
    BY <1>1, GoodErase
  <1> HIDE DEF g
  <1>4. FromHosts(g, own, L)
    BY <1>1, <1>2, FromHostsErase, HostsTyped
  <1>5. n > L
    <2>1. n \notin 1 .. L
      BY <1>1 DEF FromHosts
    <2>2. n \in Int /\ n >= 1 /\ L \in Int
      BY <1>1, HostsTyped
    <2> QED
      BY <2>1, <2>2
  <1>6. ASSUME NEW k \in 1 .. L, HostsLines[k].zero
        PROVE  Anchors(g, own, k, HostsLines[k].name)
    <2>1. /\ HostsLines[k].name \in BlockedNames /\ HostsLines[k].name \in Name
          /\ k \in 1 .. n - 1 /\ Anchors(h, own, k, HostsLines[k].name)
      BY <1>1, <1>5, <1>6, HostsTyped DEF Anchored
    <2> QED
      BY <1>1, <1>2, <2>1, AnchorsErase
  <1>7. Solid(g, main \ {n})
    BY <1>2, SolidErase
  <1> QED
    BY <1>3, <1>4, <1>6, <1>7 DEF Whole, Anchored, g

LEMMA GoodNew ==
    ASSUME NEW h, NEW g, NEW own, NEW i \in Lists3, NEW e, Good(h, own),
           NewPushed(h, g, i, e)
    PROVE  Good(g, Owning(own, Len(g.node), Home(i)))
  <1> DEFINE own2 == Owning(own, Len(g.node), Home(i))
             name == i[2]
             T == {i[1]}
  <1>1. HeapTyped(h) /\ Linking(h, own) /\ \A j \in Lists : Ordered(h, own, j)
    BY DEF Good
  <1>2. /\ name \in Name /\ T \subseteq CacheType /\ Home(i) \in Homes
        /\ \A t \in T : Home(<<t, name>>) = Home(i)
    BY HomeIs DEF Lists3
  <1>3. NewAt(h, g, name, T, e)
    BY NewAtOne
  <1> HIDE DEF own2, name, T
  <1>4. Linking(g, own2)
    BY <1>1, <1>2, <1>3, LinkingNew DEF own2
  <1>5. ASSUME NEW j \in Lists
        PROVE  Ordered(g, own2, j)
    <2>1. CASE j = Home(i)
      <3>1. i = j
        BY <2>1, HomeIs
      <3> QED
        BY <1>1, <3>1, OrderedPush DEF own2
    <2>2. CASE j # Home(i)
      BY <1>1, <1>2, <1>3, <2>2, OrderedElsewhere DEF own2
    <2> QED
      BY <2>1, <2>2
  <1>6. HeapTyped(g)
    BY DEF NewPushed
  <1> QED
    BY <1>4, <1>5, <1>6 DEF Good, own2

LEMMA WholeNew ==
    ASSUME NEW h, NEW g, NEW own, NEW L \in 0 .. Len(HostsLines), Whole(h, own, L),
           NEW i \in Lists3, NEW e, NewPushed(h, g, i, e)
    PROVE  Whole(g, Owning(own, Len(g.node), Home(i)), L)
  <1> DEFINE own2 == Owning(own, Len(g.node), Home(i))
             name == i[2]
             T == {i[1]}
  <1>1. /\ Good(h, own) /\ FromHosts(h, own, L) /\ Anchored(h, own, L)
        /\ HeapTyped(h) /\ Linking(h, own)
    BY DEF Whole, Good
  <1>2. /\ name \in Name /\ T \subseteq CacheType /\ Home(i) \in Homes
        /\ \A t \in T : Home(<<t, name>>) = Home(i)
    BY HomeIs DEF Lists3
  <1>3. NewAt(h, g, name, T, e)
    BY NewAtOne
  <1>4. Good(g, own2)
    BY <1>1, GoodNew
  <1> HIDE DEF own2, name, T
  <1>5. FromHosts(g, own2, L)
    BY <1>1, <1>2, <1>3, FromHostsStay, HostsTyped DEF own2
  <1>6. ASSUME NEW k \in 1 .. L, HostsLines[k].zero
        PROVE  Anchors(g, own2, k, HostsLines[k].name)
    <2> DEFINE b == HostsLines[k].name
    <2>1. b \in BlockedNames /\ b \in Name /\ Anchors(h, own, k, b)
      BY <1>1, <1>6, HostsTyped DEF Anchored
    <2>2. k \in 1 .. Len(h.node)
      BY <1>1, HostsTyped DEF FromHosts, HeapTyped
    <2> HIDE DEF b
    <2>3. Anchors(g, own2, k, b)
      BY <1>1, <1>2, <1>3, <2>1, <2>2, AnchorsStay DEF own2
    <2> QED
      BY <2>3 DEF b
  <1>7. \E main : Solid(g, main)
    <2>1. PICK main : Solid(h, main)
      BY DEF Whole
    <2> QED
      BY <1>1, <2>1, SolidNew
  <1> QED
    BY <1>4, <1>5, <1>6, <1>7 DEF Whole, Anchored, own2

SameLinks(h, g, own, j) ==
    /\ g.list[j] = h.list[j]
    /\ \A m \in 1 .. Len(h.node) : own[m] = j => g.node[m].next = h.node[m].next

LEMMA LinksErase ==
    ASSUME NEW h, NEW g, NEW own, NEW i \in Lists3, NEW n \in 1 .. Len(h.node),
           HeapTyped(h), Linking(h, own), own[n] = Home(i), Erased(h, g, i, n),
           NEW j \in Lists \ {i}
    PROVE  SameLinks(h, g, own, j)
  <1>1. j \in Lists3 \ {i} /\ j # Home(i)
    BY HomeIs DEF Lists, Lists3
  <1>2. ASSUME NEW m \in 1 .. Len(h.node), own[m] = j
        PROVE  m # h.node[n].prev
    <2>1. CASE h.node[n].prev = NULL
      BY <2>1 DEF NULL
    <2>2. CASE h.node[n].prev # NULL
      BY <1>1, <1>2, <2>2 DEF Linking
    <2> QED
      BY <2>1, <2>2
  <1> QED
    BY <1>1, <1>2 DEF Erased, SameLinks

(* list_update leaves no expired record in a list whose name is not        *)
(* blocked, erases nothing else and leaves the other lists alone.          *)
LEMMA UpdateKeeps ==
    ASSUME NEW h, NEW own, NEW L \in 0 .. Len(HostsLines), Whole(h, own, L),
           L = Len(HostsLines), NEW i \in Lists3
    PROVE  LET g == list_update(h, i)
           IN  /\ Whole(g, own, L) /\ Len(g.node) = Len(h.node)
               /\ \A m \in 1 .. Len(h.node) : SameData(h, g, m)
               /\ i \in Lists => \A m \in Live(g, own, i) : ~ Expired(g.node[m])
               /\ h.freed \subseteq g.freed
               /\ \A m \in g.freed : m \in h.freed \/ Expired(h.node[m])
               /\ \A j \in Lists \ {i} : SameLinks(h, g, own, j)
  <1> DEFINE w == Walk(h, i)
             N == Len(w)
             p == Passed(h, i)
             Kept(g, k) ==
                 /\ Whole(g, own, L) /\ Len(g.node) = Len(h.node)
                 /\ \A m \in 1 .. Len(h.node) : SameData(h, g, m)
                 /\ h.freed \subseteq g.freed
                 /\ \A m \in g.freed : m \in h.freed \/ \E j \in 1 .. k : m = w[j] /\ Expired(h.node[m])
                 /\ \A j \in 1 .. k : Expired(h.node[w[j]]) => w[j] \in g.freed
                 /\ \A j \in Lists \ {i} : SameLinks(h, g, own, j)
                 /\ \E main : /\ Solid(g, main)
                             /\ \A j \in 1 .. N : k < j => w[j] \in main
             K == {k \in 0 .. N : Kept(p[k], k)}
  <1>1. Good(h, own) /\ HeapTyped(h) /\ Linking(h, own)
    BY DEF Whole, Good
  <1>2. IsWay(h, w, h.list[i].first)
    BY <1>1, WalkIsWay
  <1>3. N \in Nat /\ \A k \in 1 .. N : w[k] \in 1 .. Len(h.node) /\ own[w[k]] = Home(i)
    BY <1>1, <1>2, WalkAtHome DEF IsWay
  <1>4. p[0] = h /\ \A k \in 1 .. N : p[k] = Refresh(p[k - 1], i, w[k])
    BY <1>3, PassedDefined
  <1>5. list_update(h, i) = p[N]
    BY PassedUnfolds
  <1>6. \A j, k \in 1 .. N : j < k => w[j] < w[k]
    BY <1>1, <1>2, WayAscends
  <1>7. \E main : Solid(h, main) /\ \A j \in 1 .. N : 0 < j => w[j] \in main
    BY <1>1, WalkSolid DEF Whole
  <1> HIDE DEF w, N, p
  <1>8. 0 \in K
    BY <1>3, <1>4, <1>7 DEF SameData, SameLinks
  <1>9. ASSUME NEW k \in 1 .. N, k - 1 \in K
        PROVE  k \in K
    <2> DEFINE g == p[k - 1]
               n == w[k]
    <2>1. Kept(g, k - 1) /\ p[k] = Refresh(g, i, n)
      BY <1>4, <1>9
    <2>2. HeapTyped(g) /\ n \in 1 .. Len(g.node) /\ own[n] = Home(i)
      BY <1>3, <2>1 DEF Whole, Good
    <2>3. SameData(h, g, n) /\ (Expired(g.node[n]) <=> Expired(h.node[n]))
      BY <1>3, <2>1 DEF SameData, Expired
    <2>4. \A j \in 1 .. k - 1 : j \in 1 .. N /\ j < k /\ w[j] \in Int
      BY <1>3
    <2>5. \A j \in 1 .. k : j = k \/ j \in 1 .. k - 1
      OBVIOUS
    <2>6. CASE ~ Expired(g.node[n])
      <3>1. p[k] = g
        BY <2>1, <2>6 DEF Refresh
      <3>2. \A j \in 1 .. k : Expired(h.node[w[j]]) => w[j] \in g.freed
        BY <2>1, <2>3, <2>5, <2>6
      <3>3. \A m \in g.freed : m \in h.freed \/ \E j \in 1 .. k : m = w[j] /\ Expired(h.node[m])
        <4>1. \A j \in 1 .. k - 1 : j \in 1 .. k
          OBVIOUS
        <4> QED
          BY <2>1, <4>1
      <3>4. \E main : Solid(g, main) /\ \A j \in 1 .. N : k < j => w[j] \in main
        <4>1. \A j \in 1 .. N : k < j => k - 1 < j
          BY <1>3
        <4> QED
          BY <2>1, <4>1
      <3> HIDE DEF g
      <3>5. Kept(g, k)
        BY <2>1, <3>2, <3>3, <3>4
      <3> QED
        BY <1>3, <3>1, <3>5
    <2>7. CASE Expired(g.node[n])
      <3> DEFINE u == list_erase(g, i, n)
      <3>1. p[k] = u
        BY <2>1, <2>7 DEF Refresh
      <3>2. g.node[n].ttl # 0
        BY <2>7 DEF Expired
      <3>3. PICK main : Solid(g, main) /\ \A j \in 1 .. N : k - 1 < j => w[j] \in main
        BY <2>1
      <3>4. Erased(g, u, i, n)
        BY <2>2, EraseNode
      <3>5. Whole(u, own, L)
        <4>1. Whole(g, own, L) /\ n \in main
          BY <1>3, <2>1, <3>3
        <4> HIDE DEF g, n
        <4> QED
          BY <2>2, <3>2, <3>3, <4>1, WholeErase DEF u
      <3> HIDE DEF u
      <3>6. Len(u.node) = Len(h.node) /\ u.freed = g.freed \union {n}
        BY <2>1, <3>4 DEF Erased
      <3>7. \A m \in 1 .. Len(h.node) : SameData(h, u, m)
        <4>1. \A m \in 1 .. Len(h.node) : SameData(h, g, m) /\ SameData(g, u, m)
          BY <2>1, <3>4 DEF Erased
        <4> QED
          BY <4>1 DEF SameData
      <3>8. \A j \in 1 .. k : Expired(h.node[w[j]]) => w[j] \in u.freed
        BY <2>1, <2>5, <3>6
      <3>9. \A m \in u.freed : m \in h.freed \/ \E j \in 1 .. k : m = w[j] /\ Expired(h.node[m])
        <4>1. \A j \in 1 .. k - 1 : j \in 1 .. k
          OBVIOUS
        <4>2. k \in 1 .. k /\ Expired(h.node[n])
          BY <2>3, <2>7
        <4> QED
          BY <2>1, <3>6, <4>1, <4>2
      <3>10. h.freed \subseteq u.freed
        BY <2>1, <3>6
      <3>11. \A j \in Lists \ {i} : SameLinks(h, u, own, j)
        <4>1. Linking(g, own)
          BY <2>1 DEF Whole, Good
        <4>2. \A j \in Lists \ {i} : SameLinks(h, g, own, j) /\ SameLinks(g, u, own, j)
          BY <2>1, <2>2, <3>4, <4>1, LinksErase
        <4> QED
          BY <2>1, <4>2 DEF SameLinks
      <3>12. \E m : Solid(u, m) /\ \A j \in 1 .. N : k < j => w[j] \in m
        <4>1. Whole(g, own, Len(HostsLines)) /\ n \in main
          BY <1>3, <2>1, <3>3
        <4>2. Solid(u, main \ {n})
          <5> HIDE DEF g, n
          <5> QED
            BY <2>2, <3>2, <3>3, <3>4, <4>1, SolidErase
        <4>3. \A j \in 1 .. N : k < j => k - 1 < j /\ w[j] # n
          BY <1>3, <1>6
        <4> QED
          BY <3>3, <4>2, <4>3
      <3> HIDE DEF g, n
      <3>13. Kept(u, k)
        BY <3>5, <3>6, <3>7, <3>8, <3>9, <3>10, <3>11, <3>12
      <3> QED
        BY <1>3, <3>1, <3>13
    <2> QED
      BY <2>6, <2>7
  <1>10. N \in K
    <2> HIDE DEF K, Kept
    <2>1. \A k \in 0 .. N : k \in K
      BY <1>3, <1>8, <1>9, HoldsUpTo
    <2> QED
      BY <1>3, <2>1
  <1> DEFINE g == p[N]
  <1>11. Kept(g, N)
    BY <1>10
  <1>12. ASSUME i \in Lists, NEW m \in Live(g, own, i)
         PROVE  ~ Expired(g.node[m])
    <2>1. m \in 1 .. Len(h.node) /\ m \notin g.freed /\ own[m] = i
      BY <1>11 DEF Live
    <2>2. m \in Live(h, own, i)
      BY <1>11, <2>1 DEF Live
    <2> HIDE DEF g, Kept, K
    <2>3. PICK k \in 1 .. N : w[k] = m
      <3>1. \A l \in Live(h, own, i) :
               \E k \in 1 .. Len(Walk(h, i)) : Walk(h, i)[k] = l
        BY <1>1, <1>12, WalkIsList
      <3> QED
        BY <2>2, <3>1 DEF w, N
    <2>4. ~ Expired(h.node[m])
      BY <1>11, <2>1, <2>3 DEF Kept
    <2>5. SameData(h, g, m)
      BY <1>11, <2>1 DEF Kept
    <2> QED
      BY <2>4, <2>5 DEF SameData, Expired
  <1> QED
    BY <1>5, <1>11, <1>12

-----------------------------------------------------------------------------
(* What a list is as a sequence of entries.                                *)

Prefix(s, t) == Len(s) <= Len(t) /\ \A k \in 1 .. Len(s) : t[k] = s[k]
Gains(h, g) == \A i \in Lists : Prefix(Entries(h, i), Entries(g, i))

LEMMA EntriesAre ==
    ASSUME NEW h, NEW i, NEW S, Walk(h, i) \in Seq(S)
    PROVE  /\ Len(Entries(h, i)) = Len(Walk(h, i))
           /\ \A k \in 1 .. Len(Walk(h, i)) :
                 Entries(h, i)[k] = Entry(h.node[Walk(h, i)[k]])
           /\ Entries(h, i) = [k \in 1 .. Len(Walk(h, i)) |-> Entry(h.node[Walk(h, i)[k]])]
  <1> DEFINE L == Len(Walk(h, i))
             e(k) == Entry(h.node[Walk(h, i)[k]])
             s == [k \in 1 .. L |-> e(k)]
  <1>1. L \in Nat
    OBVIOUS
  <1>2. Entries(h, i) = s
    BY DEF Entries
  <1> HIDE DEF L, e
  <1>3. Len(s) = L /\ \A k \in 1 .. L : s[k] = e(k)
    BY <1>1
  <1> QED
    BY <1>2, <1>3 DEF L, e

LEMMA WalkStays ==
    ASSUME NEW h, NEW own, Good(h, own), NEW g, NEW own2, Good(g, own2), NEW i \in Lists,
           h.list[i].first # NULL => g.list[i].first = h.list[i].first,
           h.list[i].size <= g.list[i].size,
           \A m \in 1 .. Len(h.node) :
              own[m] = i /\ h.node[m].next # NULL => g.node[m].next = h.node[m].next
    PROVE  /\ Len(Walk(h, i)) <= Len(Walk(g, i))
           /\ \A k \in 1 .. Len(Walk(h, i)) : Walk(g, i)[k] = Walk(h, i)[k]
  <1> DEFINE w == Walk(h, i)
             v == Walk(g, i)
             L == Len(w)
             Same == {d \in 0 .. L - 1 : v[d + 1] = w[d + 1]}
  <1>1. /\ HeapTyped(h) /\ Linking(h, own) /\ HeapTyped(g) /\ Linking(g, own2)
        /\ i \in Lists3 /\ Home(i) = i
    BY HomeIs DEF Good, Lists, Lists3
  <1>2. IsWay(h, w, h.list[i].first) /\ IsWay(g, v, g.list[i].first)
    BY <1>1, WalkIsWay
  <1>3. L = h.list[i].size /\ Len(v) = g.list[i].size /\ Len(v) \in Nat /\ L \in Nat
    <2>1. L = h.list[i].size /\ Len(v) = g.list[i].size
      BY WalkIsList
    <2>2. w \in Seq(1 .. Len(h.node)) /\ v \in Seq(1 .. Len(g.node))
      BY <1>2 DEF IsWay
    <2> HIDE DEF w, v
    <2> QED
      BY <2>1, <2>2
  <1>4. L <= Len(v)
    BY <1>3
  <1>5. \A k \in 1 .. L : w[k] \in 1 .. Len(h.node) /\ own[w[k]] = i
    BY <1>1, WalkAtHome
  <1>6. /\ h.list[i].first = NULL => L = 0
        /\ h.list[i].first # NULL => w[1] = h.list[i].first
        /\ g.list[i].first # NULL => v[1] = g.list[i].first
        /\ \A k \in 1 .. L : k < L => w[k + 1] = h.node[w[k]].next
        /\ \A k \in 1 .. Len(v) : k < Len(v) => v[k + 1] = g.node[v[k]].next
    BY <1>2 DEF IsWay
  <1>7. \A k \in 1 .. L : w[k] # NULL
    BY <1>5 DEF NULL
  <1> HIDE DEF w, v, L
  <1>8. CASE L = 0
    BY <1>4, <1>8 DEF w, v, L
  <1>9. CASE L # 0
    <2>1. L - 1 \in Nat
      BY <1>3, <1>9
    <2>2. 0 \in Same
      <3>1. v[1] = w[1]
        BY <1>6, <1>9
      <3> QED
        BY <2>1, <3>1
    <2>3. ASSUME NEW d \in 1 .. L - 1, d - 1 \in Same
          PROVE  d \in Same
      <3>1. /\ d \in 1 .. L /\ d < L /\ d \in 1 .. Len(v) /\ d < Len(v)
            /\ d + 1 \in 1 .. L /\ d - 1 + 1 = d
        BY <1>3, <1>4
      <3>2. v[d] = w[d]
        BY <2>3, <3>1
      <3>3. w[d + 1] = h.node[w[d]].next /\ v[d + 1] = g.node[w[d]].next
        BY <1>6, <3>1, <3>2
      <3>4. h.node[w[d]].next # NULL
        BY <1>7, <3>1, <3>3
      <3>5. g.node[w[d]].next = h.node[w[d]].next
        BY <1>5, <3>1, <3>4
      <3>6. d \in 0 .. L - 1
        OBVIOUS
      <3> QED
        BY <3>3, <3>5, <3>6
    <2>4. \A d \in 0 .. L - 1 : d \in Same
      <3> HIDE DEF Same
      <3> QED
        BY <2>1, <2>2, <2>3, HoldsUpTo
    <2>5. \A k \in 1 .. L : v[k] = w[k]
      <3> SUFFICES ASSUME NEW k \in 1 .. L
                   PROVE  v[k] = w[k]
        OBVIOUS
      <3>1. k - 1 \in 0 .. L - 1 /\ k - 1 + 1 = k
        BY <1>3
      <3> QED
        BY <2>4, <3>1
    <2> QED
      BY <1>4, <2>5 DEF w, v, L
  <1> QED
    BY <1>8, <1>9

(* The entries of a list whose nodes stay and whose links stay do.         *)
LEMMA EntriesStay ==
    ASSUME NEW h, NEW own, Good(h, own), NEW g, NEW own2, Good(g, own2), NEW i \in Lists,
           h.list[i].first # NULL => g.list[i].first = h.list[i].first,
           h.list[i].size <= g.list[i].size,
           \A m \in 1 .. Len(h.node) :
              /\ own[m] = i /\ h.node[m].next # NULL => g.node[m].next = h.node[m].next
              /\ SameData(h, g, m)
    PROVE  /\ Prefix(Entries(h, i), Entries(g, i))
           /\ h.list[i].size = g.list[i].size => Entries(g, i) = Entries(h, i)
  <1> DEFINE w == Walk(h, i)
             v == Walk(g, i)
  <1>1. /\ HeapTyped(h) /\ Linking(h, own) /\ HeapTyped(g) /\ Linking(g, own2) /\ i \in Lists3
    BY DEF Good, Lists, Lists3
  <1>2. w \in Seq(1 .. Len(h.node)) /\ v \in Seq(1 .. Len(g.node))
    BY <1>1, WalkIsWay DEF IsWay
  <1>3. Len(w) <= Len(v) /\ \A k \in 1 .. Len(w) : v[k] = w[k]
    BY WalkStays
  <1>4. Len(w) = h.list[i].size /\ Len(v) = g.list[i].size
    BY WalkIsList
  <1>5. /\ Len(Entries(h, i)) = Len(w) /\ Len(Entries(g, i)) = Len(v)
        /\ \A k \in 1 .. Len(w) : Entries(h, i)[k] = Entry(h.node[w[k]])
        /\ \A k \in 1 .. Len(v) : Entries(g, i)[k] = Entry(g.node[v[k]])
        /\ Entries(h, i) = [k \in 1 .. Len(w) |-> Entry(h.node[w[k]])]
        /\ Entries(g, i) = [k \in 1 .. Len(v) |-> Entry(g.node[v[k]])]
    BY <1>2, EntriesAre
  <1>6. Len(w) \in Nat /\ Len(v) \in Nat /\ \A k \in 1 .. Len(w) : w[k] \in 1 .. Len(h.node)
    <2> HIDE DEF w, v
    <2> QED
      BY <1>2
  <1> HIDE DEF w, v
  <1>7. \A k \in 1 .. Len(w) : Entry(g.node[v[k]]) = Entry(h.node[w[k]])
    <2> SUFFICES ASSUME NEW k \in 1 .. Len(w)
                 PROVE  Entry(g.node[v[k]]) = Entry(h.node[w[k]])
      OBVIOUS
    <2>1. v[k] = w[k] /\ SameData(h, g, w[k])
      BY <1>3, <1>6
    <2> QED
      BY <2>1 DEF SameData, Entry
  <1>8. \A k \in 1 .. Len(w) : k \in 1 .. Len(v)
    BY <1>3, <1>6
  <1>9. Prefix(Entries(h, i), Entries(g, i))
    BY <1>3, <1>5, <1>7, <1>8 DEF Prefix
  <1>10. h.list[i].size = g.list[i].size => Entries(g, i) = Entries(h, i)
    BY <1>4, <1>5, <1>7
  <1> QED
    BY <1>9, <1>10

(* A new node adds to the list it is linked into.                          *)
LEMMA GainsNew ==
    ASSUME NEW h, NEW g, NEW own, NEW own2, NEW name \in Name, NEW T, T \subseteq CacheType,
           Good(h, own), Good(g, own2), NEW e, NewAt(h, g, name, T, e),
           name \in BlockedNames \/ \A t \in T :
              g.list[<<t, name>>].size = h.list[<<t, name>>].size + 1
    PROVE  Gains(h, g)
  <1> SUFFICES ASSUME NEW i \in Lists
               PROVE  Prefix(Entries(h, i), Entries(g, i))
    BY DEF Gains
  <1>1. /\ HeapTyped(h) /\ Linking(h, own) /\ Ordered(h, own, i)
        /\ i \in Lists3 /\ Home(i) = i /\ i = <<i[1], i[2]>> /\ i[2] \notin BlockedNames
    BY HomeIs DEF Good, Lists, Lists3
  <1>2. ASSUME NEW t \in T, Home(<<t, name>>) = i
        PROVE  t = i[1] /\ name = i[2] /\ i = <<t, name>>
    <2>1. <<t, name>> \in Lists3
      BY DEF Lists3
    <2>2. <<t, name>> = i
      BY <1>2, <2>1, HomeIs
    <2> QED
      BY <2>2
  <1>3. ASSUME NEW m \in 1 .. Len(h.node), own[m] = i, h.node[m].next # NULL
        PROVE  g.node[m].next = h.node[m].next
    <2>1. m # NULL
      BY DEF NULL
    <2>2. ASSUME NEW t \in T, m = h.list[<<t, name>>].tail
          PROVE  FALSE
      <3>1. <<t, name>> \in Lists3
        BY DEF Lists3
      <3>2. Home(<<t, name>>) = i
        BY <1>1, <1>3, <2>1, <2>2, <3>1 DEF Linking
      <3>3. m = h.list[i].tail
        BY <1>2, <2>2, <3>2
      <3>4. m \in Live(h, own, i)
        BY <1>1, <2>1, <3>3 DEF Ordered
      <3> QED
        BY <1>1, <1>3, <3>3, <3>4 DEF Ordered
    <2>3. m \notin Tails(h, name, T)
      BY <2>2 DEF Tails
    <2> QED
      BY <2>3 DEF NewAt
  <1>4. /\ h.list[i].first # NULL => g.list[i].first = h.list[i].first
        /\ h.list[i].size <= g.list[i].size
    <2>1. h.list[i].size \in Int
      BY <1>1 DEF HeapTyped, List
    <2>2. CASE ~ (i[1] \in T /\ i[2] = name)
      <3>1. g.list[i] = h.list[i]
        BY <1>1, <2>2 DEF NewAt
      <3> QED
        BY <2>1, <3>1
    <2>3. CASE i[1] \in T /\ i[2] = name
      <3>1. /\ g.list[i].size = h.list[i].size + 1
            /\ g.list[i].first = IF h.list[i].tail = NULL THEN Len(h.node) + 1
                                 ELSE h.list[i].first
        BY <1>1, <2>3 DEF NewAt
      <3>2. h.list[i].tail = NULL => h.list[i].first = NULL
        <4>1. h.list[i].tail = NULL => Live(h, own, i) = {}
          BY <1>1, TailOrNone
        <4> QED
          BY <1>1, <4>1 DEF Ordered
      <3> QED
        BY <2>1, <3>1, <3>2
    <2> QED
      BY <2>2, <2>3
  <1>5. \A m \in 1 .. Len(h.node) : SameData(h, g, m)
    BY DEF NewAt
  <1> QED
    BY <1>3, <1>4, <1>5, EntriesStay

LEMMA GainsAgain ==
    ASSUME NEW h, NEW g, NEW u, Gains(h, g), Gains(g, u),
           \A i \in Lists : /\ Len(Entries(h, i)) \in Nat /\ Len(Entries(g, i)) \in Nat
                            /\ Len(Entries(u, i)) \in Nat
    PROVE  Gains(h, u)
  <1> SUFFICES ASSUME NEW i \in Lists
               PROVE  Prefix(Entries(h, i), Entries(u, i))
    BY DEF Gains
  <1> DEFINE r == Entries(h, i)
             s == Entries(g, i)
             t == Entries(u, i)
  <1>1. /\ Len(r) \in Nat /\ Len(s) \in Nat /\ Len(t) \in Nat
        /\ Len(r) <= Len(s) /\ Len(s) <= Len(t)
        /\ \A k \in 1 .. Len(r) : s[k] = r[k]
        /\ \A k \in 1 .. Len(s) : t[k] = s[k]
    BY DEF Gains, Prefix
  <1> HIDE DEF r, s, t
  <1>2. Len(r) <= Len(t) /\ \A k \in 1 .. Len(r) : k \in 1 .. Len(s)
    BY <1>1
  <1>3. Prefix(r, t)
    BY <1>1, <1>2 DEF Prefix
  <1> QED
    BY <1>3 DEF r, s, t

LEMMA EntriesCounted ==
    ASSUME NEW h, NEW own, Good(h, own), NEW i \in Lists
    PROVE  Len(Entries(h, i)) \in Nat /\ Prefix(Entries(h, i), Entries(h, i))
  <1>1. HeapTyped(h) /\ Linking(h, own) /\ i \in Lists3
    BY DEF Good, Lists, Lists3
  <1>2. Walk(h, i) \in Seq(1 .. Len(h.node))
    BY <1>1, WalkIsWay DEF IsWay
  <1>3. Len(Walk(h, i)) \in Nat
    BY <1>2
  <1>4. Len(Entries(h, i)) = Len(Walk(h, i))
    BY <1>2, EntriesAre
  <1> QED
    BY <1>3, <1>4 DEF Prefix

-----------------------------------------------------------------------------
LEMMA OwningTyped ==
    ASSUME NEW own, NEW n \in Nat, NEW home \in Homes, \A m \in 1 .. n - 1 : own[m] \in Homes
    PROVE  Owning(own, n, home) \in [1 .. n -> Homes]
  <1>1. ASSUME NEW m \in 1 .. n
        PROVE  (IF m = n THEN home ELSE own[m]) \in Homes
    <2>1. m # n => m \in 1 .. n - 1
      OBVIOUS
    <2> QED
      BY <2>1
  <1> QED
    BY <1>1 DEF Owning

LEMMA TailTyped ==
    ASSUME NEW h, NEW own, HeapTyped(h), Linking(h, own), NEW i \in Lists3
    PROVE  h.list[i].tail \in 0 .. Len(h.node)
  <1>1. h.list[i].tail = NULL \/ h.list[i].tail \in 1 .. Len(h.node)
    BY DEF Linking
  <1> QED
    BY <1>1 DEF HeapTyped, NULL

(* One line of the hosts file.                                             *)
LEMMA LoadKeeps ==
    ASSUME NEW h, NEW own, NEW L \in 0 .. Len(HostsLines), L < Len(HostsLines),
           Whole(h, own, L), Loading(h, own), Len(h.node) = L, now \in Nat, Dated(h)
    PROVE  LET entry == HostsLines[L + 1]
               n == Len(h.node) + 1
               new == Allocated(h, NewNode("ANSWER", 0, 0, entry.zero))
               inA == list_push_back(new, <<A, entry.name>>, n)
               inAAAA == list_push_back(inA, <<AAAA, entry.name>>, n)
               inCNAME == list_push_back(inAAAA, <<CNAME, entry.name>>, n)
               g == IF entry.zero THEN inCNAME ELSE inA
           IN  /\ Len(g.node) = L + 1 /\ Dated(g) /\ Gains(h, g)
               /\ \E own2 \in [1 .. Len(g.node) -> Homes] :
                     Whole(g, own2, L + 1) /\ Loading(g, own2)
  <1> DEFINE n == Len(h.node) + 1
             name == HostsLines[L + 1].name
             zero == HostsLines[L + 1].zero
             e == NewNode("ANSWER", 0, 0, zero)
             inA == list_push_back(Allocated(h, e), <<A, name>>, n)
             inAAAA == list_push_back(inA, <<AAAA, name>>, n)
             inCNAME == list_push_back(inAAAA, <<CNAME, name>>, n)
             g == IF zero THEN inCNAME ELSE inA
             home == Home(<<A, name>>)
             own2 == Owning(own, Len(g.node), home)
             T == IF zero THEN CacheType ELSE {A}
  <1>1. /\ Good(h, own) /\ FromHosts(h, own, L) /\ Anchored(h, own, L)
        /\ HeapTyped(h) /\ Linking(h, own) /\ \A j \in Lists : Ordered(h, own, j)
    BY DEF Whole, Good
  <1>2. /\ L \in Nat /\ L + 1 \in 1 .. Len(HostsLines) /\ name \in Name /\ zero \in BOOLEAN
        /\ zero => name \in BlockedNames
    BY HostsTyped
  <1>3. /\ e \in ListNode /\ e.next = NULL /\ e.ttl = 0 /\ e.zero = zero
        /\ e.record_time = 0
    BY <1>2, RecordCacheAssumption DEF NewNode, ListNode, NULL, RrType
  <1> HIDE DEF name, zero, e
  <1>4. /\ A \in CacheType /\ <<A, name>> \in Lists3 /\ home \in Homes
        /\ \A t \in CacheType : <<t, name>> \in Lists3
        /\ zero => home = <<NULL, name>> /\ \A t \in CacheType : Home(<<t, name>>) = home
    <2>1. A \in CacheType /\ \A t \in CacheType : <<t, name>> \in Lists3
      BY <1>2 DEF CacheType, Lists3
    <2>2. home \in Homes
      BY <2>1, HomeIs
    <2>3. zero => home = <<NULL, name>> /\ \A t \in CacheType : Home(<<t, name>>) = home
      BY <1>2, <2>1, HomeIs
    <2> QED
      BY <2>1, <2>2, <2>3
  <1>5. \A t \in CacheType : h.list[<<t, name>>].tail \in 0 .. Len(h.node)
    BY <1>1, <1>4, TailTyped
  <1>6. NewAt(h, g, name, T, e)
    <2>1. CASE zero
      <3>1. NewAt(h, inCNAME, name, CacheType, e)
        BY <1>1, <1>2, <1>3, <1>5, NewAtAll
      <3> QED
        BY <2>1, <3>1
    <2>2. CASE ~ zero
      <3>1. NewPushed(h, inA, <<A, name>>, e)
        BY <1>1, <1>3, <1>4, <1>5, PushNew
      <3>2. NewAt(h, inA, name, {A}, e)
        <4> HIDE DEF inA
        <4>1. NewAt(h, inA, <<A, name>>[2], {<<A, name>>[1]}, e)
          BY <1>4, <3>1, NewAtOne
        <4> QED
          BY <4>1
      <3> QED
        BY <2>2, <3>2
    <2> QED
      BY <2>1, <2>2
  <1>7. ~ zero => NewPushed(h, g, <<A, name>>, e)
    <2>1. NewPushed(h, inA, <<A, name>>, e)
      BY <1>1, <1>3, <1>4, <1>5, PushNew
    <2> QED
      BY <2>1
  <1>8. T \subseteq CacheType /\ A \in T /\ \A t \in T : Home(<<t, name>>) = home
    BY <1>4
  <1> HIDE DEF g, T, home, own2
  <1>9. Len(g.node) = L + 1 /\ HeapTyped(g)
    BY <1>6 DEF NewAt
  <1>10. Linking(g, own2)
    BY <1>1, <1>2, <1>4, <1>6, <1>8, LinkingNew DEF own2
  <1>11. Good(g, own2)
    <2>1. CASE ~ zero
      BY <1>1, <1>4, <1>7, <2>1, GoodNew DEF own2, home
    <2>2. CASE zero
      <3> SUFFICES ASSUME NEW j \in Lists
                   PROVE  Ordered(g, own2, j)
        BY <1>9, <1>10 DEF Good
      <3>1. j # home
        BY <1>4, <2>2 DEF Lists, CacheType, A, AAAA, CNAME, NULL
      <3> QED
        BY <1>1, <1>2, <1>4, <1>6, <1>8, <3>1, OrderedElsewhere DEF own2
    <2> QED
      BY <2>1, <2>2
  <1>12. FromHosts(g, own2, L + 1)
    BY <1>1, <1>2, <1>3, <1>4, <1>6, FromHostsNew DEF own2, home, name, zero
  <1>13. Loading(g, own2)
    BY <1>1, <1>2, <1>4, <1>6, <1>8, LoadingNew, HostsTyped DEF own2
  <1>14. ASSUME NEW k \in 1 .. L + 1, HostsLines[k].zero
         PROVE  Anchors(g, own2, k, HostsLines[k].name)
    <2>1. CASE k = L + 1
      <3>1. zero /\ HostsLines[k].name = name
        BY <1>14, <2>1 DEF zero, name
      <3>2. NewAt(h, g, name, CacheType, e) /\ home = <<NULL, name>> /\ name \in BlockedNames
        BY <1>2, <1>4, <1>6, <3>1 DEF T
      <3>3. Anchors(g, own2, L + 1, name)
        BY <1>1, <1>2, <1>9, <3>2, AnchorNew DEF own2
      <3> QED
        BY <2>1, <3>1, <3>3
    <2>2. CASE k # L + 1
      <3> DEFINE b == HostsLines[k].name
      <3>1. k \in 1 .. L /\ k \in 1 .. Len(HostsLines) /\ k \in 1 .. Len(h.node)
        BY <1>2, <2>2
      <3>2. b \in BlockedNames /\ b \in Name /\ Anchors(h, own, k, b)
        BY <1>1, <1>14, <3>1, HostsTyped DEF Anchored
      <3> HIDE DEF b
      <3>3. Anchors(g, own2, k, b)
        BY <1>1, <1>2, <1>4, <1>6, <1>8, <3>1, <3>2, AnchorsStay DEF own2
      <3> QED
        BY <3>3 DEF b
    <2> QED
      BY <2>1, <2>2
  <1>15. Dated(g)
    <2> SUFFICES ASSUME NEW m \in 1 .. L + 1
                 PROVE  g.node[m].record_time <= now
      BY <1>9 DEF Dated
    <2>1. CASE m = L + 1
      BY <1>2, <1>3, <1>6, <2>1 DEF NewAt
    <2>2. CASE m # L + 1
      <3>1. m \in 1 .. Len(h.node)
        BY <1>2, <2>2
      <3> QED
        BY <1>6, <3>1 DEF NewAt, SameData, Dated
    <2> QED
      BY <2>1, <2>2
  <1>16. own2 \in [1 .. Len(g.node) -> Homes]
    <2>1. Len(g.node) \in Nat /\ \A m \in 1 .. Len(g.node) - 1 : m \in 1 .. Len(h.node)
      BY <1>2, <1>9
    <2>2. \A m \in 1 .. Len(g.node) - 1 : own[m] \in Homes
      BY <1>1, <2>1 DEF Linking
    <2> QED
      BY <1>4, <2>1, <2>2, OwningTyped DEF own2
  <1> HIDE DEF own2
  <1>17. \E o \in [1 .. Len(g.node) -> Homes] : Whole(g, o, L + 1) /\ Loading(g, o)
    <2>1. \E main : Solid(g, main)
      BY <1>9, <1>10, <1>12, SolidLoading
    <2> QED
      BY <1>11, <1>12, <1>13, <1>14, <1>16, <2>1 DEF Whole, Anchored
  <1>18. Gains(h, g)
    <2>1. name \in BlockedNames \/ \A t \in T :
             g.list[<<t, name>>].size = h.list[<<t, name>>].size + 1
      BY <1>2, <1>7 DEF T, NewPushed
    <2> QED
      BY <1>1, <1>2, <1>6, <1>8, <1>11, <2>1, GainsNew
  <1>19. Len(g.node) = L + 1 /\ Dated(g) /\ Gains(h, g)
         /\ \E o \in [1 .. Len(g.node) -> Homes] : Whole(g, o, L + 1) /\ Loading(g, o)
    BY <1>9, <1>15, <1>17, <1>18
  <1> QED
    BY <1>19 DEF g, e, zero, name

(* One response of the upstream server.                                    *)
LEMMA CacheKeeps ==
    ASSUME NEW h, NEW own \in [1 .. Len(h.node) -> Homes], NEW L \in 0 .. Len(HostsLines),
           Whole(h, own, L), now \in Nat, Dated(h), NEW name \in Name, NEW answer \in Seq(Record)
    PROVE  LET g == CacheAnswer(h, name, answer)
           IN  /\ HeapTyped(g) /\ Dated(g) /\ Gains(h, g)
               /\ \E own2 \in [1 .. Len(g.node) -> Homes] : Whole(g, own2, L)
  <1> DEFINE N == Len(answer)
             p == Cached(h, name, answer)
             Fine(g) == /\ Dated(g) /\ Gains(h, g)
                        /\ \E own2 \in [1 .. Len(g.node) -> Homes] : Whole(g, own2, L)
             K == {k \in 0 .. N : Fine(p[k])}
  <1>1. N \in Nat /\ \A k \in 1 .. N : answer[k] \in Record
    OBVIOUS
  <1>2. p[0] = h /\ \A k \in 1 .. N : p[k] = CacheRecord(p[k - 1], name, answer[k])
    BY <1>1, CachedDefined
  <1>3. CacheAnswer(h, name, answer) = p[N]
    BY CachedUnfolds
  <1> HIDE DEF N, p
  <1>4. Fine(h)
    <2>1. Gains(h, h)
      BY EntriesCounted DEF Gains, Whole
    <2> QED
      BY <2>1
  <1>5. ASSUME NEW g, Fine(g), NEW rr \in Record
        PROVE  Fine(CacheRecord(g, name, rr))
    <2> DEFINE n == Len(g.node) + 1
               e == NewNode(rr.section, Least(MaxTtl, rr.ttl), now, rr.zero)
               i == <<rr.type, name>>
               u == list_push_back(Allocated(g, e), i, n)
    <2>1. PICK own1 \in [1 .. Len(g.node) -> Homes] : Whole(g, own1, L)
      BY <1>5
    <2>2. HeapTyped(g) /\ Linking(g, own1)
      BY <2>1 DEF Whole, Good
    <2>3. CASE rr.type \notin CacheType
      <3>1. CacheRecord(g, name, rr) = g
        BY <2>3 DEF CacheRecord
      <3> HIDE DEF Fine
      <3> QED
        BY <1>5, <3>1
    <2>4. CASE rr.type \in CacheType
      <3>1. e \in ListNode /\ e.next = NULL /\ e.record_time = now
        <4>1. /\ rr.section \in RrType /\ rr.ttl \in Nat /\ rr.zero \in BOOLEAN
              /\ MaxTtl \in Nat
          BY RecordCacheAssumption DEF Record
        <4>2. Least(MaxTtl, rr.ttl) \in 0 .. MaxTtl
          BY <4>1 DEF Least
        <4> QED
          BY <4>1, <4>2 DEF NewNode, ListNode, NULL
      <3>2. i \in Lists3 /\ g.list[i].tail \in 0 .. Len(g.node)
        <4>1. i \in Lists3
          BY <2>4 DEF Lists3
        <4> HIDE DEF i
        <4> QED
          BY <2>2, <4>1, TailTyped
      <3>3. CacheRecord(g, name, rr) = u
        BY <2>4 DEF CacheRecord
      <3> HIDE DEF e, i
      <3>4. NewPushed(g, u, i, e)
        BY <2>2, <3>1, <3>2, PushNew
      <3> DEFINE own2 == Owning(own1, Len(u.node), Home(i))
      <3> HIDE DEF u
      <3>5. Whole(u, own2, L)
        BY <2>1, <3>2, <3>4, WholeNew
      <3>6. own2 \in [1 .. Len(u.node) -> Homes]
        <4>1. Len(u.node) \in Nat /\ Len(u.node) - 1 = Len(g.node) /\ Home(i) \in Homes
          BY <2>2, <3>2, <3>4, HomeIs DEF NewPushed, HeapTyped
        <4>2. \A m \in 1 .. Len(u.node) - 1 : own1[m] \in Homes
          BY <2>1, <4>1
        <4> QED
          BY <4>1, <4>2, OwningTyped
      <3>7. Dated(u)
        <4> SUFFICES ASSUME NEW m \in 1 .. Len(u.node)
                     PROVE  u.node[m].record_time <= now
          BY DEF Dated
        <4>1. Len(u.node) = n /\ Len(g.node) \in Nat
          BY <2>2, <3>4 DEF NewPushed, HeapTyped
        <4>2. CASE m = n
          BY <3>1, <3>4, <4>2 DEF NewPushed
        <4>3. CASE m # n
          <5>1. m \in 1 .. Len(g.node)
            BY <4>1, <4>3
          <5>2. g.node[m].record_time <= now
            BY <1>5, <5>1 DEF Dated
          <5> QED
            BY <3>4, <5>1, <5>2 DEF NewPushed, SameData
        <4> QED
          BY <4>2, <4>3
      <3>8. Gains(h, u)
        <4>1. Good(h, own) /\ Good(g, own1) /\ Good(u, own2)
          BY <2>1, <3>5 DEF Whole
        <4>2. NewAt(g, u, i[2], {i[1]}, e)
          BY <3>2, <3>4, NewAtOne
        <4>3. i[2] \in Name /\ {i[1]} \subseteq CacheType /\ i = <<i[1], i[2]>>
          BY <3>2 DEF Lists3
        <4>4. \A t \in {i[1]} : u.list[<<t, i[2]>>].size = g.list[<<t, i[2]>>].size + 1
          BY <3>4, <4>3 DEF NewPushed
        <4> HIDE DEF own2
        <4>5. Gains(g, u)
          BY <4>1, <4>2, <4>3, <4>4, GainsNew
        <4>6. \A j \in Lists : /\ Len(Entries(h, j)) \in Nat /\ Len(Entries(g, j)) \in Nat
                               /\ Len(Entries(u, j)) \in Nat
          BY <4>1, EntriesCounted
        <4> QED
          BY <1>5, <4>5, <4>6, GainsAgain
      <3> HIDE DEF own2
      <3>9. Fine(u)
        BY <3>5, <3>6, <3>7, <3>8
      <3> HIDE DEF Fine
      <3> QED
        BY <3>3, <3>9
    <2> QED
      BY <2>3, <2>4
  <1> HIDE DEF Fine
  <1>6. 0 \in K
    BY <1>1, <1>2, <1>4
  <1>7. ASSUME NEW k \in 1 .. N, k - 1 \in K
        PROVE  k \in K
    BY <1>1, <1>2, <1>5, <1>7
  <1>8. Fine(p[N])
    <2>1. N \in 0 .. N
      BY <1>1
    <2> HIDE DEF K
    <2>2. N \in K
      BY <1>1, <1>6, <1>7, <2>1, HoldsUpTo
    <2> QED
      BY <2>2 DEF K
  <1> QED
    BY <1>3, <1>8 DEF Fine, Whole, Good

-----------------------------------------------------------------------------
(* What is answered from a list.                                           *)

(* Each record found is in one of the three sections.                      *)
LEMMA CountAll ==
    ASSUME NEW h, HeapTyped(h), NEW found \in Seq(1 .. Len(h.node))
    PROVE  /\ \A s \in RrType : Count(h, found, s) \in Nat
           /\ Count(h, found, "ANSWER") + Count(h, found, "AUTHORITY")
                 + Count(h, found, "ADDITIONAL") = Len(found)
  <1> DEFINE S(s) == {k \in DOMAIN found : h.node[found[k]].section = s}
             an == S("ANSWER")
             ns == S("AUTHORITY")
             ar == S("ADDITIONAL")
             all == DOMAIN found
  <1>1. DOMAIN found = 1 .. Len(found) /\ Len(found) \in Nat
    OBVIOUS
  <1>2. IsFiniteSet(all) /\ Cardinality(all) = Len(found)
    <2> DEFINE L == Len(found)
    <2>1. all = 1 .. L /\ L \in Nat
      BY <1>1
    <2> HIDE DEF L
    <2>2. IsFiniteSet(1 .. L) /\ Cardinality(1 .. L) = L
      BY <2>1, FS_Interval
    <2> QED
      BY <2>1, <2>2 DEF L
  <1>3. \A s : S(s) \subseteq all
    OBVIOUS
  <1>4. all = (an \union ns) \union ar
    <2> SUFFICES ASSUME NEW k \in all
                 PROVE  h.node[found[k]].section \in {"ANSWER", "AUTHORITY", "ADDITIONAL"}
      OBVIOUS
    <2>1. found[k] \in 1 .. Len(h.node)
      BY <1>1
    <2>2. h.node[found[k]] \in ListNode
      BY <2>1 DEF HeapTyped
    <2> QED
      BY <2>2 DEF ListNode, RrType
  <1>5. an \intersect ns = {} /\ (an \union ns) \intersect ar = {}
    OBVIOUS
  <1>6. \A s \in RrType : IsFiniteSet(S(s)) /\ Cardinality(S(s)) \in Nat
    <2> HIDE DEF S, all
    <2> QED
      BY <1>2, <1>3, FS_Subset, FS_CardinalityType
  <1>7. /\ IsFiniteSet(an) /\ IsFiniteSet(ns) /\ IsFiniteSet(ar)
        /\ Cardinality(an) \in Nat /\ Cardinality(ns) \in Nat /\ Cardinality(ar) \in Nat
    BY <1>6 DEF RrType
  <1>8. \A s : Count(h, found, s) = Cardinality(S(s))
    BY DEF Count
  <1> HIDE DEF S, an, ns, ar, all
  <1>9. IsFiniteSet(an \union ns) /\ Cardinality(an \union ns) = Cardinality(an) + Cardinality(ns)
    <2>1. Cardinality(an \intersect ns) = 0
      BY <1>5, FS_EmptySet
    <2>2. /\ IsFiniteSet(an \union ns)
          /\ Cardinality(an \union ns)
                = Cardinality(an) + Cardinality(ns) - Cardinality(an \intersect ns)
      BY <1>7, FS_Union
    <2> QED
      BY <1>7, <2>1, <2>2
  <1>10. Cardinality(all) = Cardinality(an) + Cardinality(ns) + Cardinality(ar)
    <2> DEFINE both == an \union ns
    <2>1. Cardinality(both \intersect ar) = 0
      BY <1>5, FS_EmptySet
    <2>2. /\ IsFiniteSet(both) /\ Cardinality(both) = Cardinality(an) + Cardinality(ns)
          /\ all = both \union ar
      BY <1>4, <1>9
    <2> HIDE DEF both
    <2>3. Cardinality(both \union ar)
             = Cardinality(both) + Cardinality(ar) - Cardinality(both \intersect ar)
      BY <1>7, <2>2, FS_Union
    <2> QED
      BY <1>7, <2>1, <2>2, <2>3
  <1> QED
    BY <1>2, <1>6, <1>8, <1>10 DEF an, ns, ar

(* The records of an answer: the aliases and behind them what was found.   *)
LEMMA FoundTyped ==
    ASSUME NEW h, NEW own, HeapTyped(h), Linking(h, own), Dated(h), now \in Nat,
           NEW name \in Name, NEW qtype \in QType, NEW found \in Seq(1 .. Len(h.node))
    PROVE  LET a == FoundAnswer(h, name, qtype, found)
           IN  /\ a \in Answer /\ a.kind = "NO_ERROR" /\ a.name = name
               /\ a.ancount + a.nscount + a.arcount = Len(found)
               /\ Len(a.body) >= Len(found)
               /\ \A k \in 1 .. Len(found) :
                     a.body[Len(a.body) - Len(found) + k] = Sent(h.node[found[k]])
  <1> DEFINE S == 1 .. Len(h.node)
             cnames == IF qtype = A THEN Walk(h, <<CNAME, name>>) ELSE <<>>
             both == cnames \o found
             body == [k \in DOMAIN both |-> Sent(h.node[both[k]])]
             an == Count(h, found, "ANSWER")
             ns == Count(h, found, "AUTHORITY")
             ar == Count(h, found, "ADDITIONAL")
             a == FoundAnswer(h, name, qtype, found)
  <1>1. a = [kind |-> "NO_ERROR", name |-> name, qtype |-> qtype,
             ancount |-> an, nscount |-> ns, arcount |-> ar, body |-> body]
    BY DEF FoundAnswer
  <1>2. an \in Nat /\ ns \in Nat /\ ar \in Nat /\ an + ns + ar = Len(found)
    BY CountAll DEF RrType
  <1>3. cnames \in Seq(S)
    <2>1. <<CNAME, name>> \in Lists3
      BY DEF Lists3, CacheType
    <2>2. Walk(h, <<CNAME, name>>) \in Seq(S)
      BY <2>1, WalkIsWay DEF IsWay
    <2> HIDE DEF S
    <2>3. <<>> \in Seq(S)
      OBVIOUS
    <2> QED
      BY <2>2, <2>3
  <1>4. \A n \in S : Sent(h.node[n]) \in SentRecord
    <2> SUFFICES ASSUME NEW n \in S
                 PROVE  Sent(h.node[n]) \in SentRecord
      OBVIOUS
    <2>1. /\ h.node[n].section \in RrType /\ h.node[n].ttl \in 0 .. MaxTtl
          /\ h.node[n].record_time \in Nat /\ h.node[n].record_time <= now
      <3>1. h.node[n] \in ListNode
        BY DEF HeapTyped
      <3> QED
        BY <3>1 DEF ListNode, Dated
    <2>2. now - h.node[n].record_time \in Nat
      BY <2>1
    <2>3. (h.node[n].ttl - (now - h.node[n].record_time)) % WordSize \in Nat
      <3> DEFINE x == h.node[n].ttl - (now - h.node[n].record_time)
      <3>1. x \in Int
        BY <2>1, <2>2, RecordCacheAssumption
      <3> HIDE DEF x
      <3>2. x % WordSize \in Nat
        BY <3>1, RecordCacheAssumption
      <3> QED
        BY <3>2 DEF x
    <2>4. h.node[n].ttl \in Nat
      BY <2>1, RecordCacheAssumption
    <2> QED
      BY <2>1, <2>2, <2>3, <2>4 DEF Sent, SentRecord
  <1> HIDE DEF S, cnames
  <1>5. /\ both \in Seq(S) /\ Len(both) = Len(cnames) + Len(found)
        /\ Len(cnames) \in Nat /\ Len(found) \in Nat
        /\ \A k \in 1 .. Len(found) : both[Len(cnames) + k] = found[k]
    <2>1. found \in Seq(S)
      BY DEF S
    <2> QED
      BY <1>3, <2>1
  <1> HIDE DEF both
  <1>6. /\ body \in Seq(SentRecord) /\ Len(body) = Len(both)
        /\ \A k \in 1 .. Len(both) : body[k] = Sent(h.node[both[k]])
    <2>1. DOMAIN both = 1 .. Len(both) /\ Len(both) \in Nat /\ \A k \in 1 .. Len(both) : both[k] \in S
      BY <1>5
    <2>2. \A k \in 1 .. Len(both) : Sent(h.node[both[k]]) \in SentRecord
      BY <1>4, <2>1
    <2> HIDE DEF SentRecord
    <2> QED
      BY <2>1, <2>2
  <1> HIDE DEF body, an, ns, ar, a
  <1>7. /\ a.kind = "NO_ERROR" /\ a.name = name /\ a.qtype = qtype /\ a.body = body
        /\ a.ancount = an /\ a.nscount = ns /\ a.arcount = ar
    BY <1>1
  <1>8. a \in Answer
    BY <1>1, <1>2, <1>6 DEF Answer
  <1>9. \A k \in 1 .. Len(found) :
           /\ Len(body) - Len(found) + k = Len(cnames) + k
           /\ Len(cnames) + k \in 1 .. Len(both)
    BY <1>5, <1>6
  <1>10. \A k \in 1 .. Len(found) : body[Len(body) - Len(found) + k] = Sent(h.node[found[k]])
    BY <1>5, <1>6, <1>9
  <1>11. Len(body) >= Len(found)
    BY <1>5, <1>6
  <1> QED
    BY <1>2, <1>7, <1>8, <1>10, <1>11 DEF a

-----------------------------------------------------------------------------
(* The invariant.                                                          *)

LEMMA HeapIsTyped ==
    ASSUME TypeOK
    PROVE  /\ HeapTyped(Heap) /\ Heap.node = node /\ Node = 1 .. Len(Heap.node)
           /\ now \in Nat /\ line \in 0 .. Len(HostsLines)
  BY RecordCacheAssumption DEF TypeOK, HeapTyped, Heap, Lists3, Node

LEMMA HeapSet ==
    ASSUME NEW g, HeapTyped(Outcome(g)), SetHeap(g)
    PROVE  LET o == Outcome(g)
           IN  /\ Heap' = o /\ node' = o.node /\ Node' = 1 .. Len(o.node)
               /\ node' \in Seq(ListNode) /\ freed' \subseteq Node'
               /\ list' \in [CacheType \X Name -> List]
               /\ misused' = o.misused /\ misused' \subseteq CacheType \X Name
  <1> DEFINE o == Outcome(g)
  <1>1. node' = o.node /\ freed' = o.freed /\ list' = o.list /\ misused' = o.misused
    BY DEF SetHeap
  <1> HIDE DEF o
  <1>2. Heap' = o
    BY <1>1 DEF HeapTyped, Heap, o
  <1>3. HeapTyped(o)
    BY DEF o
  <1> QED
    BY <1>1, <1>2, <1>3 DEF HeapTyped, Lists3, Node, o

(* What an operation leaves: its lists, or, if it has used a freed node,   *)
(* those there were.                                                       *)
LEMMA OutcomeIs ==
    ASSUME NEW g, HeapTyped(Heap), HeapTyped(g)
    PROVE  LET o == Outcome(g)
           IN  /\ HeapTyped(o) /\ o.misused = g.misused
               /\ g.misused = {} => o = g
               /\ g.misused # {} =>
                     o.node = Heap.node /\ o.freed = Heap.freed /\ o.list = Heap.list
  <1>1. CASE g.misused = {}
    BY <1>1 DEF Outcome
  <1>2. CASE g.misused # {}
    <2> DEFINE o == [Heap EXCEPT !.misused = g.misused]
    <2>1. Heap = [node |-> Heap.node, freed |-> Heap.freed, list |-> Heap.list,
                  misused |-> Heap.misused]
      BY DEF Heap
    <2>2. o = [node |-> Heap.node, freed |-> Heap.freed, list |-> Heap.list,
               misused |-> g.misused]
      BY <2>1
    <2> HIDE DEF o
    <2>3. /\ o.node = Heap.node /\ o.freed = Heap.freed /\ o.list = Heap.list
          /\ o.misused = g.misused
      BY <2>2
    <2>4. HeapTyped(o)
      BY <2>2, <2>3 DEF HeapTyped
    <2> QED
      BY <1>2, <2>3, <2>4 DEF Outcome, o
  <1> QED
    BY <1>1, <1>2

LEMMA OutcomeWhole ==
    ASSUME NEW g, NEW own, NEW own2, NEW L, Whole(Heap, own, L), Dated(Heap),
           Whole(g, own2, L), Dated(g)
    PROVE  LET o == Outcome(g)
           IN  Dated(o) /\ Whole(o, IF g.misused = {} THEN own2 ELSE own, L)
  <1> DEFINE o == Outcome(g)
  <1>1. HeapTyped(Heap) /\ HeapTyped(g) /\ Good(Heap, own) /\ Good(g, own2)
    BY DEF Whole, Good
  <1>2. /\ HeapTyped(o) /\ o.misused = g.misused
        /\ g.misused = {} => o = g
        /\ g.misused # {} =>
              o.node = Heap.node /\ o.freed = Heap.freed /\ o.list = Heap.list
    BY <1>1, OutcomeIs
  <1> HIDE DEF o
  <1>3. CASE g.misused = {}
    BY <1>2, <1>3 DEF o
  <1>4. CASE g.misused # {}
    <2> DEFINE h == Heap
    <2>0. Good(h, own) /\ FromHosts(h, own, L) /\ Anchored(h, own, L) /\ Dated(h)
      BY DEF Whole
    <2>1. PICK main : Solid(h, main)
      BY DEF Whole
    <2>2. o.node = h.node /\ o.freed = h.freed /\ o.list = h.list
      BY <1>2, <1>4
    <2> HIDE DEF h
    <2>3. Solid(o, main)
      BY <2>1, <2>2 DEF Solid
    <2>4. \A i \in Lists : i \notin o.misused
      BY <1>1, <1>2 DEF Good, Ordered
    <2>5. ASSUME NEW i \in Lists
          PROVE  Ordered(o, own, i)
      <3>1. Ordered(h, own, i) /\ Live(o, own, i) = Live(h, own, i)
        BY <2>0, <2>2 DEF Good, Live
      <3> QED
        BY <2>2, <2>4, <3>1 DEF Ordered
    <2>6. Linking(o, own) /\ FromHosts(o, own, L) /\ Anchored(o, own, L) /\ Dated(o)
      BY <2>0, <2>2 DEF Good, Linking, FromHosts, Anchored, Anchors, Dated
    <2> QED
      BY <1>2, <1>4, <2>3, <2>5, <2>6 DEF Whole, Good, o
  <1> QED
    BY <1>3, <1>4

LEMMA CacheInit == Init => CacheInv
  <1> SUFFICES ASSUME Init
               PROVE  CacheInv
    OBVIOUS
  <1> DEFINE empty == [first |-> NULL, tail |-> NULL, size |-> 0]
             own == [n \in 1 .. 0 |-> <<NULL, NULL>>]
  <1>1. /\ node = <<>> /\ freed = {} /\ misused = {} /\ line = 0 /\ forwarded = {}
        /\ last = NoAnswer /\ list = [i \in Lists3 |-> empty]
        /\ Len(node) = 0 /\ Node = {} /\ 1 .. 0 = {}
    BY DEF Init, Lists3, Node
  <1>2. TypeOK
    <2>1. now \in 1 .. MaxNow
      BY RecordCacheAssumption DEF Init
    <2>2. line \in 0 .. Len(HostsLines)
      BY <1>1, HostsTyped
    <2>3. node \in Seq(ListNode) /\ empty \in List
      BY <1>1 DEF List, NULL
    <2>4. list \in [CacheType \X Name -> List]
      <3> HIDE DEF empty
      <3> QED
        BY <1>1, <2>3 DEF Lists3
    <2> QED
      BY <1>1, <2>1, <2>2, <2>3, <2>4 DEF TypeOK
  <1> HIDE DEF own
  <1> DEFINE h == Heap
  <1>3. /\ HeapTyped(h) /\ Len(h.node) = 0 /\ h.freed = {} /\ h.misused = {}
        /\ \A i \in Lists3 : /\ h.list[i].first = NULL /\ h.list[i].tail = NULL
                             /\ h.list[i].size = 0
    BY <1>1, <1>2, HeapIsTyped DEF Heap
  <1> HIDE DEF h
  <1>4. \A i : Live(h, own, i) = {}
    BY <1>3 DEF Live
  <1>5. \A i \in Lists : Ordered(h, own, i)
    BY <1>3, <1>4, FS_EmptySet DEF Ordered, Lists, Lists3
  <1>6. Linking(h, own)
    BY <1>1, <1>3 DEF Linking
  <1>7. FromHosts(h, own, 0) /\ Anchored(h, own, 0)
    BY <1>1, <1>3 DEF FromHosts, Anchored
  <1>8. Loading(h, own)
    <2>1. \A b \in BlockedNames, t \in CacheType : <<t, b>> \in Lists3
      BY HostsTyped DEF Lists3
    <2> QED
      BY <1>1, <1>3, <2>1 DEF Loading
  <1>9. own \in [Node -> Homes] /\ Solid(h, {})
    BY <1>1, <1>3 DEF own, Solid
  <1>10. Dated(Heap) /\ BlockedRefused
    BY <1>1, <1>3 DEF h, Dated, BlockedRefused
  <1> QED
    BY <1>1, <1>2, <1>3, <1>5, <1>6, <1>7, <1>8, <1>9, <1>10 DEF CacheInv, Whole, Good, h

LEMMA LoadStep == CacheInv /\ LoadHostsLine => CacheInv'
  <1> SUFFICES ASSUME CacheInv, LoadHostsLine
               PROVE  CacheInv'
    OBVIOUS
  <1> DEFINE entry == HostsLines[line + 1]
             n == Len(Heap.node) + 1
             new == Allocated(Heap, NewNode("ANSWER", 0, 0, entry.zero))
             inA == list_push_back(new, <<A, entry.name>>, n)
             inAAAA == list_push_back(inA, <<AAAA, entry.name>>, n)
             inCNAME == list_push_back(inAAAA, <<CNAME, entry.name>>, n)
             g == IF entry.zero THEN inCNAME ELSE inA
  <1>1. TypeOK /\ Dated(Heap) /\ BlockedRefused
    BY DEF CacheInv
  <1>2. /\ Heap.node = node /\ now \in Nat /\ line \in 0 .. Len(HostsLines)
        /\ Len(HostsLines) \in Nat
    BY <1>1, HeapIsTyped, HostsTyped
  <1>3. /\ line < Len(HostsLines) /\ SetHeap(g) /\ line' = line + 1
        /\ now' = now /\ forwarded' = forwarded /\ last' = last
    BY <1>2 DEF LoadHostsLine
  <1>4. PICK own \in [Node -> Homes] :
           Whole(Heap, own, line) /\ Len(node) = line /\ Loading(Heap, own)
    BY <1>2, <1>3 DEF CacheInv, Serving
  <1>5. /\ Len(g.node) = line + 1 /\ Dated(g)
        /\ \E own2 \in [1 .. Len(g.node) -> Homes] :
              Whole(g, own2, line + 1) /\ Loading(g, own2)
    <2>1. Len(Heap.node) = line /\ line \in 0 .. Len(HostsLines) /\ line < Len(HostsLines)
      BY <1>2, <1>3, <1>4
    <2> HIDE DEF Heap
    <2> QED
      BY <1>1, <1>2, <1>4, <2>1, LoadKeeps
  <1>6. PICK own2 \in [1 .. Len(g.node) -> Homes] : Whole(g, own2, line + 1) /\ Loading(g, own2)
    <2> HIDE DEF g
    <2> QED
      BY <1>5
  <1>7. HeapTyped(g) /\ Outcome(g) = g
    <2>1. HeapTyped(g)
      <3> HIDE DEF g
      <3> QED
        BY <1>6 DEF Whole, Good
    <2>2. HeapTyped(Heap) /\ Heap.freed = {}
      BY <1>2, <1>4, NoneFreed DEF Whole, Good
    <2>3. Heap.misused = {}
      BY DEF Heap, LoadHostsLine
    <2>4. new.freed = {} /\ new.misused = {}
      BY <2>2, <2>3 DEF Allocated
    <2>5. inA.freed = {} /\ inA.misused = {}
      BY <2>4 DEF list_push_back
    <2>6. inAAAA.freed = {} /\ inAAAA.misused = {}
      <3> HIDE DEF inA
      <3> QED
        BY <2>5 DEF list_push_back
    <2>7. inCNAME.misused = {}
      <3> HIDE DEF inAAAA
      <3> QED
        BY <2>6 DEF list_push_back
    <2>8. g.misused = {}
      BY <2>5, <2>7
    <2> QED
      BY <2>1, <2>8 DEF Outcome
  <1> HIDE DEF g
  <1>8. /\ Heap' = g /\ node' = g.node /\ Node' = 1 .. Len(g.node)
        /\ node' \in Seq(ListNode) /\ freed' \subseteq Node'
        /\ list' \in [CacheType \X Name -> List] /\ misused' \subseteq CacheType \X Name
    BY <1>3, <1>7, HeapSet
  <1>9. TypeOK'
    <2>1. line' \in 0 .. Len(HostsLines)
      BY <1>2, <1>3
    <2> QED
      BY <1>1, <1>3, <1>8, <2>1 DEF TypeOK
  <1>10. Dated(Heap)'
    BY <1>3, <1>5, <1>8 DEF Dated
  <1>11. BlockedRefused'
    BY <1>1, <1>3 DEF BlockedRefused
  <1> QED
    BY <1>3, <1>5, <1>6, <1>8, <1>9, <1>10, <1>11 DEF CacheInv

LEMMA ReceiveStep == CacheInv /\ ReceiveResponse => CacheInv'
  <1> SUFFICES ASSUME CacheInv, ReceiveResponse
               PROVE  CacheInv'
    OBVIOUS
  <1>1. TypeOK /\ Dated(Heap) /\ BlockedRefused
    BY DEF CacheInv
  <1>2. /\ Heap.node = node /\ now \in Nat /\ line \in 0 .. Len(HostsLines)
        /\ Node = 1 .. Len(Heap.node)
    BY <1>1, HeapIsTyped
  <1>3. PICK own \in [Node -> Homes] : Whole(Heap, own, line)
    BY DEF CacheInv
  <1>4. PICK q \in forwarded, answer \in UpstreamAnswers : SetHeap(CacheAnswer(Heap, q[1], answer))
    BY DEF ReceiveResponse
  <1>5. q[1] \in Name /\ answer \in Seq(Record)
    BY <1>1, RecordCacheAssumption DEF TypeOK
  <1> DEFINE g == CacheAnswer(Heap, q[1], answer)
  <1>6. /\ HeapTyped(g) /\ Dated(g)
        /\ \E own2 \in [1 .. Len(g.node) -> Homes] : Whole(g, own2, line)
    BY <1>1, <1>2, <1>3, <1>5, CacheKeeps
  <1>7. Serving /\ now' = now /\ line' = line /\ forwarded' = forwarded /\ last' = last
    BY DEF ReceiveResponse
  <1>8. SetHeap(g)
    BY <1>4
  <1> DEFINE o == Outcome(g)
  <1> HIDE DEF g
  <1>13. /\ HeapTyped(o) /\ Dated(o)
         /\ \E own3 \in [1 .. Len(o.node) -> Homes] : Whole(o, own3, line)
    <2>1. PICK own2 \in [1 .. Len(g.node) -> Homes] : Whole(g, own2, line)
      BY <1>6
    <2> DEFINE own3 == IF g.misused = {} THEN own2 ELSE own
    <2>2. Dated(o) /\ Whole(o, own3, line)
      BY <1>1, <1>3, <1>6, <2>1, OutcomeWhole
    <2>3. HeapTyped(o)
      BY <1>1, <1>6, HeapIsTyped, OutcomeIs
    <2>4. own3 \in [1 .. Len(o.node) -> Homes]
      <3>1. CASE g.misused = {}
        BY <2>1, <3>1 DEF Outcome
      <3>2. CASE g.misused # {}
        <4>1. Len(o.node) = Len(Heap.node)
          BY <1>1, <1>6, <3>2, HeapIsTyped, OutcomeIs
        <4> HIDE DEF o
        <4> QED
          BY <1>2, <1>3, <3>2, <4>1
      <3> QED
        BY <3>1, <3>2
    <2> HIDE DEF own3, o
    <2> QED
      BY <2>2, <2>3, <2>4
  <1>9. /\ Heap' = o /\ node' = o.node /\ Node' = 1 .. Len(o.node)
        /\ node' \in Seq(ListNode) /\ freed' \subseteq Node'
        /\ list' \in [CacheType \X Name -> List] /\ misused' \subseteq CacheType \X Name
    BY <1>8, <1>13, HeapSet
  <1> HIDE DEF o
  <1>10. TypeOK'
    BY <1>1, <1>7, <1>9 DEF TypeOK
  <1>11. Dated(Heap)'
    BY <1>7, <1>9, <1>13 DEF Dated
  <1>12. BlockedRefused' /\ Serving'
    BY <1>1, <1>7 DEF BlockedRefused, Serving
  <1> QED
    BY <1>7, <1>9, <1>10, <1>11, <1>12, <1>13 DEF CacheInv

LEMMA TickStep == CacheInv /\ Tick => CacheInv'
  <1> SUFFICES ASSUME CacheInv, Tick
               PROVE  CacheInv'
    OBVIOUS
  <1>1. /\ now < MaxNow /\ now' = now + 1 /\ line' = line /\ node' = node /\ freed' = freed
        /\ list' = list /\ misused' = misused /\ forwarded' = forwarded /\ last' = last
    BY DEF Tick, store
  <1>2. Heap' = Heap /\ Node' = Node /\ Serving' = Serving
    BY <1>1 DEF Heap, Node, Serving
  <1>3. TypeOK /\ Dated(Heap) /\ BlockedRefused
    BY DEF CacheInv
  <1>4. TypeOK'
    <2>1. now' \in 1 .. MaxNow
      BY <1>1, <1>3, RecordCacheAssumption DEF TypeOK
    <2> QED
      BY <1>1, <1>2, <1>3, <2>1 DEF TypeOK
  <1>5. Dated(Heap)'
    <2>1. HeapTyped(Heap) /\ now \in Nat
      BY <1>3, HeapIsTyped
    <2>2. ASSUME NEW n \in 1 .. Len(Heap.node)
          PROVE  Heap.node[n].record_time <= now'
      <3>1. Heap.node[n] \in ListNode
        BY <2>1 DEF HeapTyped
      <3>2. Heap.node[n].record_time \in Nat /\ Heap.node[n].record_time <= now
        BY <1>3, <3>1 DEF ListNode, Dated
      <3> QED
        BY <1>1, <2>1, <3>2
    <2> QED
      BY <1>2, <2>2 DEF Dated
  <1>6. BlockedRefused'
    BY <1>1, <1>3 DEF BlockedRefused
  <1> QED
    BY <1>1, <1>2, <1>4, <1>5, <1>6 DEF CacheInv

LEMMA CacheStutter == CacheInv /\ UNCHANGED vars => CacheInv'
  <1> SUFFICES ASSUME CacheInv, UNCHANGED vars
               PROVE  CacheInv'
    OBVIOUS
  <1>1. /\ now' = now /\ line' = line /\ node' = node /\ freed' = freed
        /\ list' = list /\ misused' = misused /\ forwarded' = forwarded /\ last' = last
    BY DEF vars, store
  <1>2. Heap' = Heap /\ Node' = Node /\ Serving' = Serving
    BY <1>1 DEF Heap, Node, Serving
  <1>3. TypeOK' /\ Dated(Heap)' /\ BlockedRefused'
    BY <1>1, <1>2 DEF CacheInv, TypeOK, Dated, BlockedRefused
  <1> QED
    BY <1>1, <1>2, <1>3 DEF CacheInv

(* A query is answered from a list.                                        *)
LEMMA ReadAnswers ==
    ASSUME CacheInv, Serving, NEW name \in Name, NEW qtype \in QType, qtype \in CacheType,
           NEW own, Whole(Heap, own, line)
    PROVE  LET h == list_update(Heap, <<qtype, name>>)
               found == Walk(h, <<qtype, name>>)
               a == FoundAnswer(h, name, qtype, found)
           IN  /\ Whole(h, own, line) /\ Len(h.node) = Len(node) /\ Dated(h)
               /\ a \in Answer /\ a.kind = "NO_ERROR" /\ a.name = name
               /\ name \in BlockedNames => Blocking(h, found) /\ found # <<>>
  <1> DEFINE i == <<qtype, name>>
             h == list_update(Heap, i)
             found == Walk(h, i)
             a == FoundAnswer(h, name, qtype, found)
  <1>1. /\ TypeOK /\ Dated(Heap) /\ Heap.node = node /\ now \in Nat
        /\ line = Len(HostsLines) /\ line \in 0 .. Len(HostsLines)
    BY HeapIsTyped DEF CacheInv, Serving
  <1>2. i \in Lists3
    BY DEF Lists3
  <1>3. /\ Whole(h, own, line) /\ Len(h.node) = Len(Heap.node)
        /\ \A m \in 1 .. Len(Heap.node) : SameData(Heap, h, m)
    BY <1>1, <1>2, UpdateKeeps
  <1> HIDE DEF i, h
  <1>4. /\ Good(h, own) /\ HeapTyped(h) /\ Linking(h, own) /\ FromHosts(h, own, line)
        /\ Anchored(h, own, line)
    BY <1>3 DEF Whole, Good
  <1>5. Dated(h)
    BY <1>1, <1>3 DEF Dated, SameData
  <1>6. found \in Seq(1 .. Len(h.node))
    BY <1>2, <1>4, WalkIsWay DEF IsWay
  <1> HIDE DEF found
  <1>7. a \in Answer /\ a.kind = "NO_ERROR" /\ a.name = name
    BY <1>1, <1>4, <1>5, <1>6, FoundTyped
  <1>8. ASSUME name \in BlockedNames
        PROVE  Blocking(h, found) /\ found # <<>>
    <2>1. PICK k \in 1 .. line : HostsLines[k].zero /\ HostsLines[k].name = name
      <3>1. \E k \in DOMAIN HostsLines : HostsLines[k].zero /\ HostsLines[k].name = name
        BY <1>8 DEF BlockedNames
      <3>2. DOMAIN HostsLines = 1 .. line
        BY <1>1, HostsTyped
      <3> QED
        BY <3>1, <3>2
    <2>2. k \in 1 .. Len(h.node) /\ h.node[k].zero
      <3>1. line <= Len(h.node) /\ h.node[k].zero = HostsLines[k].zero
        BY <1>4 DEF FromHosts
      <3>2. Len(h.node) \in Nat /\ line \in Nat
        BY <1>1, <1>4, HostsTyped DEF HeapTyped
      <3> QED
        BY <2>1, <3>1, <3>2
    <2>3. Anchors(h, own, k, name)
      BY <1>4, <2>1 DEF Anchored
    <2>4. PICK j \in 1 .. Len(found) : found[j] = k
      BY <1>4, <1>8, <2>2, <2>3, WalkMeets DEF found, i
    <2>5. DOMAIN found = 1 .. Len(found)
      BY <1>6
    <2> QED
      BY <2>2, <2>4, <2>5 DEF Blocking
  <1> QED
    BY <1>1, <1>3, <1>5, <1>7, <1>8 DEF found, h, i

LEMMA ReadStep ==
    ASSUME CacheInv, NEW name \in Name, NEW qtype \in QType, ReadCache(name, qtype)
    PROVE  CacheInv'
  <1> DEFINE i == <<qtype, name>>
             h == IF qtype \in CacheType THEN list_update(Heap, i) ELSE Heap
             found == IF qtype \in CacheType THEN Walk(h, i) ELSE <<>>
  <1>1. TypeOK /\ Dated(Heap) /\ BlockedRefused
    BY DEF CacheInv
  <1>2. /\ Heap.node = node /\ now \in Nat /\ line \in 0 .. Len(HostsLines)
        /\ Node = 1 .. Len(Heap.node)
    BY <1>1, HeapIsTyped
  <1>3. PICK own \in [Node -> Homes] : Whole(Heap, own, line)
    BY DEF CacheInv
  <1>4. /\ Serving /\ SetHeap(h) /\ now' = now /\ line' = line
        /\ \/ last' = last /\ forwarded' = forwarded
           \/ /\ found = <<>>
              /\ forwarded' = forwarded \union {<<name, qtype>>} /\ last' = NoAnswer
           \/ /\ Blocking(h, found)
              /\ last' = NameError(name, qtype) /\ forwarded' = forwarded
           \/ /\ found # <<>> /\ ~ Blocking(h, found)
              /\ last' = FoundAnswer(h, name, qtype, found) /\ forwarded' = forwarded
    BY DEF ReadCache
  <1>5. qtype \in CacheType =>
           LET a == FoundAnswer(h, name, qtype, found)
           IN  /\ Whole(h, own, line) /\ Len(h.node) = Len(node) /\ Dated(h)
               /\ a \in Answer /\ a.kind = "NO_ERROR" /\ a.name = name
               /\ name \in BlockedNames => Blocking(h, found) /\ found # <<>>
    BY <1>3, <1>4, ReadAnswers
  <1>6. qtype \notin CacheType => h = Heap /\ found = <<>> /\ ~ Blocking(h, found)
    BY DEF Blocking
  <1> HIDE DEF h, found
  <1>7. Whole(h, own, line) /\ Len(h.node) = Len(node) /\ Dated(h)
    BY <1>1, <1>2, <1>3, <1>5, <1>6
  <1> DEFINE o == Outcome(h)
  <1>8. /\ HeapTyped(o) /\ Dated(o) /\ Whole(o, own, line) /\ Len(o.node) = Len(node)
    <2>1. HeapTyped(Heap) /\ HeapTyped(h)
      BY <1>3, <1>7 DEF Whole, Good
    <2>2. Dated(o) /\ Whole(o, IF h.misused = {} THEN own ELSE own, line)
      BY <1>1, <1>3, <1>7, OutcomeWhole
    <2>3. /\ HeapTyped(o)
          /\ h.misused = {} => o = h
          /\ h.misused # {} => o.node = Heap.node
      BY <2>1, OutcomeIs
    <2> HIDE DEF o
    <2> QED
      BY <1>2, <1>7, <2>2, <2>3
  <1>9. /\ Heap' = o /\ node' = o.node /\ Node' = 1 .. Len(o.node)
        /\ node' \in Seq(ListNode) /\ freed' \subseteq Node'
        /\ list' \in [CacheType \X Name -> List] /\ misused' \subseteq CacheType \X Name
    BY <1>4, <1>8, HeapSet
  <1> HIDE DEF o
  <1>10. NameError(name, qtype) \in Answer
    <2>1. SOA \in SentRecord
      BY DEF SOA, SentRecord, RrType
    <2>2. <<SOA>> \in Seq(SentRecord)
      <3> HIDE DEF SentRecord
      <3> QED
        BY <2>1
    <2> QED
      BY <2>2 DEF NameError, Answer
  <1>11. /\ last' \in {NoAnswer} \union Answer
         /\ forwarded' \subseteq Name \X QType
    <2>1. forwarded \subseteq Name \X QType
      BY <1>1 DEF TypeOK
    <2>2. last' \in {NoAnswer} \union Answer
      <3>1. last \in {NoAnswer} \union Answer
        BY <1>1 DEF TypeOK
      <3> QED
        BY <1>4, <1>5, <1>6, <1>10, <3>1
    <2>3. forwarded' \subseteq forwarded \union {<<name, qtype>>}
      BY <1>4
    <2> QED
      BY <2>1, <2>2, <2>3
  <1>12. TypeOK'
    BY <1>1, <1>4, <1>9, <1>11 DEF TypeOK
  <1>13. Dated(Heap)'
    BY <1>4, <1>8, <1>9 DEF Dated
  <1>14. BlockedRefused'
    <2> SUFFICES ASSUME NEW b \in BlockedNames
                 PROVE  /\ \A t \in CacheType : <<b, t>> \notin forwarded'
                        /\ last' # NoAnswer /\ last'.name = b => last'.kind = "NAME_ERROR"
      BY DEF BlockedRefused
    <2>1. /\ \A t \in CacheType : <<b, t>> \notin forwarded
          /\ last # NoAnswer /\ last.name = b => last.kind = "NAME_ERROR"
      BY <1>1 DEF BlockedRefused
    <2>5. CASE last' = last /\ forwarded' = forwarded
      BY <2>1, <2>5
    <2> SUFFICES ASSUME ~ (last' = last /\ forwarded' = forwarded)
                 PROVE  /\ \A t \in CacheType : <<b, t>> \notin forwarded'
                        /\ last' # NoAnswer /\ last'.name = b => last'.kind = "NAME_ERROR"
      BY <2>5
    <2>2. CASE qtype \notin CacheType
      BY <1>4, <1>6, <2>1, <2>2
    <2>3. CASE qtype \in CacheType /\ name = b
      <3>1. last' = NameError(name, qtype) /\ forwarded' = forwarded
        BY <1>4, <1>5, <2>3
      <3>2. NameError(name, qtype).kind = "NAME_ERROR"
        BY DEF NameError
      <3> QED
        BY <2>1, <3>1, <3>2
    <2>4. CASE qtype \in CacheType /\ name # b
      <3>1. \A t \in CacheType : <<b, t>> \notin forwarded'
        BY <1>4, <2>1, <2>4
      <3>2. NameError(name, qtype).name = name
        BY DEF NameError
      <3>3. last' = NoAnswer \/ last'.name = name
        BY <1>4, <1>5, <2>4, <3>2
      <3> QED
        BY <2>4, <3>1, <3>3
    <2> QED
      BY <2>2, <2>3, <2>4
  <1>16. Serving' /\ Node' = Node
    BY <1>2, <1>4, <1>8, <1>9 DEF Serving
  <1> QED
    BY <1>3, <1>4, <1>8, <1>9, <1>12, <1>13, <1>14, <1>16 DEF CacheInv

LEMMA CacheStep == CacheInv /\ [Next]_vars => CacheInv'
  <1> SUFFICES ASSUME CacheInv, [Next]_vars
               PROVE  CacheInv'
    OBVIOUS
  <1>1. CASE LoadHostsLine
    BY <1>1, LoadStep
  <1>2. CASE ReceiveResponse
    BY <1>2, ReceiveStep
  <1>3. CASE \E name \in Name, qtype \in QType : ReadCache(name, qtype)
    BY <1>3, ReadStep
  <1>4. CASE Tick
    BY <1>4, TickStep
  <1>5. CASE UNCHANGED vars
    BY <1>5, CacheStutter
  <1> QED
    BY <1>1, <1>2, <1>3, <1>4, <1>5 DEF Next

LEMMA CacheInvariance == Spec => []CacheInv
  <1> QED
    BY CacheInit, CacheStep, PTL DEF Spec

-----------------------------------------------------------------------------

(* The records, the lists and the answers stay what their types in list.h  *)
(* and handle.c promise: no pointer to a node that was never allocated,    *)
(* no ttl above the limit of handle_receive_response, and what is sent is  *)
(* what the three counts of the header announce.                           *)
THEOREM RecordCacheTyped == Spec => []TypeOK
  <1>1. CacheInv => TypeOK
    BY DEF CacheInv
  <1> QED
    BY <1>1, CacheInvariance, PTL

(* No list ever leads to a freed node, and those of a name that is not     *)
(* blocked stay what list_push_back and list_erase take them for           *)
(* (list.h:94-138), whatever the lists of the blocked names, which share   *)
(* nodes, go through, until a freed node is used for one of these.         *)
THEOREM ListsStayIntact == Spec => []ListsIntact
  <1>1. CacheInv => \A i \in CacheType \X Name : Range(Walk(Heap, i)) \intersect freed = {}
    <2> SUFFICES ASSUME CacheInv, NEW i \in Lists3
                 PROVE  Range(Walk(Heap, i)) \intersect freed = {}
      BY DEF Lists3
    <2> DEFINE w == Walk(Heap, i)
    <2>1. PICK own \in [Node -> Homes] : Whole(Heap, own, line)
      BY DEF CacheInv
    <2>2. HeapTyped(Heap) /\ Linking(Heap, own) /\ Heap.freed = freed
      BY <2>1 DEF Whole, Good, Heap
    <2>3. PICK main : Solid(Heap, main)
      BY <2>1 DEF Whole
    <2>4. \A k \in 1 .. Len(w) : w[k] \in main
      BY <2>2, <2>3, WalkSolid
    <2>5. w \in Seq(1 .. Len(Heap.node))
      BY <2>2, WalkIsWay DEF IsWay
    <2>6. main \intersect freed = {}
      BY <2>2, <2>3 DEF Solid
    <2> HIDE DEF w
    <2>7. Range(w) \intersect freed = {}
      BY <2>4, <2>5, <2>6 DEF Range
    <2> QED
      BY <2>7 DEF w
  <1>2. CacheInv =>
          \A i \in Lists :
              LET w == Walk(Heap, i)
              IN  /\ i \notin misused
                  /\ list[i].tail = Last0(w)
                  /\ list[i].size = Len(w)
                  /\ \A k \in DOMAIN w :
                        node[w[k]].ttl # 0 =>
                            node[w[k]].prev = Last0(SubSeq(w, 1, k - 1))
    <2> SUFFICES ASSUME CacheInv, NEW i \in Lists
                 PROVE  LET w == Walk(Heap, i)
                        IN  /\ i \notin misused
                            /\ list[i].tail = Last0(w)
                            /\ list[i].size = Len(w)
                            /\ \A k \in DOMAIN w :
                                  node[w[k]].ttl # 0 =>
                                      node[w[k]].prev = Last0(SubSeq(w, 1, k - 1))
      OBVIOUS
    <2> DEFINE w == Walk(Heap, i)
    <2>1. PICK own \in [Node -> Homes] : Whole(Heap, own, line)
      BY DEF CacheInv
    <2>2. Good(Heap, own) /\ HeapTyped(Heap) /\ Ordered(Heap, own, i)
      BY <2>1 DEF Whole, Good
    <2>3. Heap.node = node /\ Heap.freed = freed /\ Heap.list = list /\ Heap.misused = misused
      BY DEF Heap
    <2>4. /\ w \in Seq(Live(Heap, own, i)) /\ Len(w) = list[i].size
          /\ list[i].tail = Last0(w)
          /\ \A k \in 1 .. Len(w) : node[w[k]].prev = IF k = 1 THEN NULL ELSE w[k - 1]
      BY <2>2, <2>3, WalkIsList
    <2>5. i \notin misused
      BY <2>2, <2>3 DEF Ordered
    <2> HIDE DEF w
    <2>6. /\ DOMAIN w = 1 .. Len(w) /\ Len(w) \in Nat
          /\ \A k \in 1 .. Len(w) : w[k] \in Live(Heap, own, i)
      BY <2>4
    <2>8. ASSUME NEW k \in 1 .. Len(w)
          PROVE  Last0(SubSeq(w, 1, k - 1)) = IF k = 1 THEN NULL ELSE w[k - 1]
      <3> DEFINE S == Live(Heap, own, i)
                 j == k - 1
                 s == SubSeq(w, 1, j)
      <3>1. j \in Int /\ 1 \in Int /\ \A l \in 1 .. j : w[l] \in S
        BY <2>6
      <3> HIDE DEF S, j
      <3>2. /\ s \in Seq(S) /\ Len(s) = IF 1 <= j THEN j - 1 + 1 ELSE 0
            /\ \A l \in 1 .. j - 1 + 1 : s[l] = w[1 + l - 1]
        BY <3>1, SubSeqProperties
      <3> HIDE DEF s
      <3>3. CASE k = 1
        <4>1. Len(s) = 0
          BY <3>2, <3>3 DEF j
        <4>2. s = <<>>
          BY <3>2, <4>1
        <4> QED
          BY <3>3, <4>2 DEF Last0, s, j
      <3>4. CASE k # 1
        <4>1. j \in 1 .. j - 1 + 1 /\ Len(s) = j /\ 1 + j - 1 = j
          BY <2>6, <3>1, <3>2, <3>4 DEF j
        <4>2. s[j] = w[j] /\ s # <<>>
          <5>1. s # <<>>
            BY <3>1, <4>1
          <5>2. s[j] = w[1 + j - 1]
            BY <3>2, <4>1
          <5> QED
            BY <4>1, <5>1, <5>2
        <4> QED
          BY <3>4, <4>1, <4>2 DEF Last0, s, j
      <3> QED
        BY <3>3, <3>4
    <2> QED
      BY <2>4, <2>5, <2>6, <2>8 DEF w
  <1>3. CacheInv => ListsIntact
    BY <1>1, <1>2 DEF ListsIntact
  <1> QED
    BY <1>3, CacheInvariance, PTL

(* With no name blocked by the hosts file no two lists share a node, and   *)
(* no freed node is ever used (list.h:91-138).                             *)
THEOREM FreedStayUnused ==
    ASSUME BlockedNames = {}
    PROVE  Spec => []FreedUnused
  <1>1. CacheInv => FreedUnused
    <2> SUFFICES ASSUME CacheInv
                 PROVE  misused = {}
      BY DEF FreedUnused
    <2>1. PICK own \in [Node -> Homes] : Whole(Heap, own, line)
      BY DEF CacheInv
    <2>2. misused \subseteq Lists3 /\ \A i \in Lists : i \notin misused
      BY <2>1 DEF Whole, Good, HeapTyped, Ordered, Heap
    <2>3. Lists = Lists3
      BY DEF Lists, Lists3
    <2> QED
      BY <2>2, <2>3
  <1> QED
    BY <1>1, CacheInvariance, PTL

(* A name blocked by the hosts file is never forwarded and never answered  *)
(* but with the name error (handle.c:76-113, main.c:95-101).               *)
THEOREM BlockedStayRefused == Spec => []BlockedRefused
  <1>1. CacheInv => BlockedRefused
    BY DEF CacheInv
  <1> QED
    BY <1>1, CacheInvariance, PTL

(* The entries of the hosts file are found where read_hosts_file has put   *)
(* them, though those of a blocked name are one node in three lists        *)
(* (main.c:95-101).                                                        *)
THEOREM HostsStayKept == Spec => []HostsKept
  <1>1. CacheInv => HostsKept
    <2> SUFFICES ASSUME CacheInv, NEW k \in 1 .. line
                 PROVE  LET held(t) == k \in Range(Walk(Heap, <<t, HostsLines[k].name>>))
                        IN  /\ HostsLines[k].zero => \A t \in CacheType : held(t)
                            /\ HostsLines[k].name \notin BlockedNames => held(A)
      BY DEF HostsKept
    <2> DEFINE b == HostsLines[k].name
               h == Heap
    <2>1. TypeOK /\ line \in 0 .. Len(HostsLines) /\ HeapTyped(h)
      BY HeapIsTyped DEF CacheInv
    <2>2. PICK own \in [Node -> Homes] : Whole(h, own, line)
      BY DEF CacheInv
    <2> HIDE DEF h
    <2>3. /\ Good(h, own) /\ Linking(h, own) /\ FromHosts(h, own, line)
          /\ Anchored(h, own, line)
      BY <2>2 DEF Whole, Good
    <2>4. k \in 1 .. Len(HostsLines) /\ b \in Name /\ HostsLines[k].zero \in BOOLEAN
      BY <2>1, HostsTyped
    <2>5. k \in 1 .. Len(h.node)
      BY <2>1, <2>3, HostsTyped DEF FromHosts, HeapTyped
    <2>6. ASSUME NEW i \in Lists3, NEW j \in 1 .. Len(Walk(h, i)), Walk(h, i)[j] = k
          PROVE  k \in Range(Walk(h, i))
      <3> DEFINE w == Walk(h, i)
      <3>1. w \in Seq(1 .. Len(h.node))
        BY <2>1, <2>3, WalkIsWay DEF IsWay
      <3> HIDE DEF w
      <3>2. j \in DOMAIN w /\ w[j] = k
        BY <2>6, <3>1 DEF w
      <3>3. k \in Range(w)
        BY <3>2 DEF Range
      <3> QED
        BY <3>3 DEF w
    <2>7. ASSUME HostsLines[k].zero, NEW t \in CacheType
          PROVE  k \in Range(Walk(h, <<t, b>>))
      <3>1. b \in BlockedNames /\ <<t, b>> \in Lists3 /\ Anchors(h, own, k, b)
        BY <2>3, <2>4, <2>7, HostsTyped DEF Anchored, Lists3
      <3> HIDE DEF b
      <3>2. \E j \in 1 .. Len(Walk(h, <<t, b>>)) : Walk(h, <<t, b>>)[j] = k
        BY <2>1, <2>3, <2>4, <2>5, <3>1, WalkMeets
      <3> QED
        BY <2>6, <3>1, <3>2
    <2>8. ASSUME b \notin BlockedNames
          PROVE  k \in Range(Walk(h, <<A, b>>))
      <3> DEFINE i == <<A, b>>
      <3>1. i \in Lists /\ i \in Lists3 /\ Home(i) = i
        <4>1. i \in Lists /\ i \in Lists3
          BY <2>4, <2>8 DEF Lists, Lists3, CacheType
        <4> QED
          BY <4>1, HomeIs
      <3>2. own[k] = Home(i) /\ k \notin h.freed
        BY <2>3 DEF FromHosts
      <3> HIDE DEF i
      <3>3. k \in Live(h, own, i)
        BY <2>5, <3>1, <3>2 DEF Live
      <3>4. \E j \in 1 .. Len(Walk(h, i)) : Walk(h, i)[j] = k
        BY <2>3, <3>1, <3>3, WalkIsList
      <3> QED
        BY <2>6, <3>1, <3>4 DEF i
    <2> QED
      BY <2>7, <2>8 DEF h
  <1> QED
    BY <1>1, CacheInvariance, PTL

-----------------------------------------------------------------------------
(* The lists implement TtlCache.                                           *)

Stored == [i \in Lists |-> Entries(Heap, i)]

LEMMA StoredNext ==
    ASSUME NEW g, Heap' = g
    PROVE  Stored' = [i \in Lists |-> Entries(g, i)]
  <1>1. ASSUME NEW i \in Lists
        PROVE  Entries(Heap, i)' = Entries(g, i)
    BY DEF Entries, Walk
  <1> QED
    BY <1>1 DEF Stored

(* When a freed node is used, the lists are left as they were.             *)
LEMMA StoredStays ==
    ASSUME NEW g, HeapTyped(Heap), HeapTyped(g), g.misused # {}, SetHeap(g)
    PROVE  Stored' = Stored
  <1> DEFINE o == Outcome(g)
  <1>1. HeapTyped(o) /\ o.node = Heap.node /\ o.list = Heap.list
    BY OutcomeIs
  <1> HIDE DEF o
  <1>2. Heap' = o
    BY <1>1, HeapSet DEF o
  <1>3. ASSUME NEW i \in Lists
        PROVE  Entries(o, i) = Entries(Heap, i)
    <2> HIDE DEF Heap
    <2> QED
      BY <1>1 DEF Entries, Walk
  <1> QED
    BY <1>2, <1>3, StoredNext DEF Stored

LEMMA PromiseInsert ==
    ASSUME NEW g, Heap' = g, Gains(Heap, g), now' = now
    PROVE  Promise!Insert
  <1>1. Stored' = [i \in Lists |-> Entries(g, i)]
    BY StoredNext
  <1>2. \A i \in Lists : Promise!Extends(Stored[i], Stored'[i])
    BY <1>1 DEF Stored, Gains, Prefix, Promise!Extends
  <1> QED
    BY <1>1, <1>2 DEF Stored, Promise!Insert

LEMMA PromiseInit == Init => Promise!Init
  <1> SUFFICES ASSUME Init
               PROVE  Promise!Init
    OBVIOUS
  <1>1. ASSUME NEW i \in Lists
        PROVE  Entries(Heap, i) = <<>>
    <2>1. CacheInv
      BY CacheInit
    <2>2. PICK own : Good(Heap, own)
      BY <2>1 DEF CacheInv, Whole
    <2>3. HeapTyped(Heap) /\ Linking(Heap, own) /\ i \in Lists3
      BY <2>2 DEF Good, Lists, Lists3
    <2>4. Heap.list[i].first = NULL
      BY <2>3 DEF Init, Heap, Lists3
    <2>5. Walk(Heap, i) = <<>>
      BY <2>3, <2>4, WalkIsWay DEF IsWay
    <2>6. Entries(Heap, i) = [k \in 1 .. 0 |-> Entry(Heap.node[<<>>[k]])]
      BY <2>5 DEF Entries
    <2> QED
      BY <2>6
  <1> QED
    BY <1>1 DEF Init, Promise!Init

(* Of s, t has the entries that have not expired, in their order.          *)
Drops(s, t) ==
    LET U == {k \in 1 .. Len(s) : ~ Expired(s[k])}
    IN  \E place \in [1 .. Len(t) -> U] :
           /\ \A j, k \in 1 .. Len(t) : j < k => place[j] < place[k]
           /\ \A p \in U : \E k \in 1 .. Len(t) : place[k] = p
           /\ t = [k \in 1 .. Len(t) |-> s[place[k]]]

LEMMA UpdateDrops ==
    ASSUME NEW h, NEW own, NEW L \in 0 .. Len(HostsLines), Whole(h, own, L),
           L = Len(HostsLines), NEW i \in Lists
    PROVE  Drops(Entries(h, i), Entries(list_update(h, i), i))
  <1> DEFINE g == list_update(h, i)
             w == Walk(h, i)
             v == Walk(g, i)
             s == Entries(h, i)
             t == Entries(g, i)
             U == {k \in 1 .. Len(s) : ~ Expired(s[k])}
             M == 1 .. Len(h.node)
  <1>1. i \in Lists3
    BY DEF Lists, Lists3
  <1>2. /\ Whole(g, own, L) /\ Len(g.node) = Len(h.node)
        /\ \A m \in M : SameData(h, g, m)
        /\ \A m \in Live(g, own, i) : ~ Expired(g.node[m])
        /\ h.freed \subseteq g.freed
        /\ \A m \in g.freed : m \in h.freed \/ Expired(h.node[m])
    BY <1>1, UpdateKeeps
  <1> HIDE DEF g
  <1>3. /\ Good(h, own) /\ Good(g, own) /\ HeapTyped(h) /\ Linking(h, own)
        /\ HeapTyped(g) /\ Linking(g, own)
    BY <1>2 DEF Whole, Good
  <1>4. IsWay(h, w, h.list[i].first) /\ IsWay(g, v, g.list[i].first)
    BY <1>1, <1>3, WalkIsWay
  <1>5. w \in Seq(M) /\ v \in Seq(M)
    BY <1>2, <1>4 DEF IsWay
  <1>6. /\ Len(s) = Len(w) /\ Len(t) = Len(v)
        /\ \A k \in 1 .. Len(w) : s[k] = Entry(h.node[w[k]])
        /\ t = [k \in 1 .. Len(v) |-> Entry(g.node[v[k]])]
    BY <1>5, EntriesAre
  <1>7. /\ \A k \in 1 .. Len(w) : w[k] \in Live(h, own, i)
        /\ \A k \in 1 .. Len(v) : v[k] \in Live(g, own, i)
        /\ \A m \in Live(h, own, i) : \E k \in 1 .. Len(w) : w[k] = m
        /\ \A m \in Live(g, own, i) : \E k \in 1 .. Len(v) : v[k] = m
    <2>1. w \in Seq(Live(h, own, i)) /\ v \in Seq(Live(g, own, i))
      BY <1>3, WalkIsList
    <2>2. /\ \A m \in Live(h, own, i) : \E k \in 1 .. Len(w) : w[k] = m
          /\ \A m \in Live(g, own, i) : \E k \in 1 .. Len(v) : v[k] = m
      BY <1>3, WalkIsList
    <2> HIDE DEF w, v
    <2> QED
      BY <2>1, <2>2
  <1>8. /\ \A j, k \in 1 .. Len(w) : j < k => w[j] < w[k]
        /\ \A j, k \in 1 .. Len(v) : j < k => v[j] < v[k]
    BY <1>3, <1>4, WayAscends
  <1>9. Len(w) \in Nat /\ Len(v) \in Nat
    BY <1>5
  <1>10. \A m \in Live(h, own, i) : m \in Nat /\ m \in M
    BY DEF Live
  <1> HIDE DEF w, v, s, t
  <1>11. ASSUME NEW m \in M
         PROVE  /\ m \in Live(g, own, i) <=> m \in Live(h, own, i) /\ ~ Expired(h.node[m])
                /\ Entry(g.node[m]) = Entry(h.node[m])
                /\ Expired(Entry(h.node[m])) <=> Expired(h.node[m])
    <2>1. SameData(h, g, m)
      BY <1>2
    <2>2. Expired(g.node[m]) <=> Expired(h.node[m])
      BY <2>1 DEF SameData, Expired
    <2>3. m \in Live(g, own, i) <=> m \in Live(h, own, i) /\ ~ Expired(h.node[m])
      BY <1>2, <2>2 DEF Live
    <2> QED
      BY <2>1, <2>3 DEF SameData, Entry, Expired
  <1>12. U = {k \in 1 .. Len(w) : w[k] \in Live(g, own, i)}
    <2>1. ASSUME NEW k \in 1 .. Len(w)
          PROVE  ~ Expired(s[k]) <=> w[k] \in Live(g, own, i)
      BY <1>6, <1>7, <1>10, <1>11
    <2> QED
      BY <1>6, <2>1
  <1> HIDE DEF U
  <1> DEFINE place == [k \in 1 .. Len(v) |-> CHOOSE j \in 1 .. Len(w) : w[j] = v[k]]
  <1>13. ASSUME NEW k \in 1 .. Len(v)
         PROVE  place[k] \in 1 .. Len(w) /\ w[place[k]] = v[k]
    <2>1. v[k] \in Live(g, own, i) /\ v[k] \in M
      BY <1>2, <1>7 DEF Live
    <2>2. v[k] \in Live(h, own, i)
      BY <1>2, <2>1 DEF Live
    <2>3. \E j \in 1 .. Len(w) : w[j] = v[k]
      BY <1>7, <2>2
    <2>4. place[k] = CHOOSE j \in 1 .. Len(w) : w[j] = v[k]
      OBVIOUS
    <2> HIDE DEF place
    <2> QED
      BY <2>3, <2>4
  <1>14. DOMAIN place = 1 .. Len(v) /\ place = [k \in 1 .. Len(v) |-> place[k]]
    OBVIOUS
  <1> HIDE DEF place
  <1>15. place \in [1 .. Len(v) -> U]
    <2>1. \A k \in 1 .. Len(v) : place[k] \in U
      BY <1>7, <1>12, <1>13
    <2> QED
      BY <1>14, <2>1
  <1>16. ASSUME NEW j \in 1 .. Len(v), NEW k \in 1 .. Len(v), j < k
         PROVE  place[j] < place[k]
    <2>1. /\ place[j] \in 1 .. Len(w) /\ w[place[j]] = v[j]
          /\ place[k] \in 1 .. Len(w) /\ w[place[k]] = v[k]
      BY <1>13
    <2>2. v[j] < v[k] /\ v[j] \in Int /\ v[k] \in Int
      BY <1>7, <1>8, <1>10, <1>16, <2>1
    <2> DEFINE a == place[j]
               b == place[k]
    <2> HIDE DEF a, b
    <2>3. a \in 1 .. Len(w) /\ b \in 1 .. Len(w) /\ w[a] < w[b] /\ w[a] \in Int /\ w[b] \in Int
      BY <2>1, <2>2 DEF a, b
    <2>4. a # b
      BY <2>3
    <2>5. ~ (b < a)
      BY <1>8, <2>3
    <2>6. a < b
      BY <1>9, <2>3, <2>4, <2>5
    <2> QED
      BY <2>6 DEF a, b
  <1>17. ASSUME NEW p \in U
         PROVE  \E k \in 1 .. Len(v) : place[k] = p
    <2>1. p \in 1 .. Len(w) /\ w[p] \in Live(g, own, i)
      BY <1>12
    <2>2. PICK k \in 1 .. Len(v) : v[k] = w[p]
      BY <1>7, <2>1
    <2>3. place[k] \in 1 .. Len(w) /\ w[place[k]] = w[p]
      BY <1>13, <2>2
    <2>4. w[p] \in Int
      BY <1>7, <1>10, <2>1
    <2>5. ~ (place[k] < p) /\ ~ (p < place[k])
      BY <1>8, <2>1, <2>3, <2>4
    <2>6. place[k] = p
      BY <1>9, <2>1, <2>3, <2>5
    <2> QED
      BY <2>6
  <1>18. t = [k \in 1 .. Len(v) |-> s[place[k]]]
    <2>1. ASSUME NEW k \in 1 .. Len(v)
          PROVE  Entry(g.node[v[k]]) = s[place[k]]
      <3>1. v[k] \in M
        BY <1>7, <1>2 DEF Live
      <3> QED
        BY <1>6, <1>11, <1>13, <3>1
    <2> QED
      BY <1>6, <2>1
  <1>19. \E f \in [1 .. Len(t) -> U] :
            /\ \A j, k \in 1 .. Len(t) : j < k => f[j] < f[k]
            /\ \A p \in U : \E k \in 1 .. Len(t) : f[k] = p
            /\ t = [k \in 1 .. Len(t) |-> s[f[k]]]
    <2>1. /\ place \in [1 .. Len(t) -> U]
          /\ \A j, k \in 1 .. Len(t) : j < k => place[j] < place[k]
          /\ \A p \in U : \E k \in 1 .. Len(t) : place[k] = p
          /\ t = [k \in 1 .. Len(t) |-> s[place[k]]]
      BY <1>6, <1>15, <1>16, <1>17, <1>18
    <2> QED
      BY <2>1
  <1>20. Drops(s, t)
    BY <1>19 DEF Drops, U
  <1> QED
    BY <1>20 DEF g, s, t

LEMMA EntryTimes ==
    ASSUME NEW h, NEW own, Good(h, own), NEW i \in Lists,
           NEW p \in 1 .. Len(Entries(h, i))
    PROVE  Entries(h, i)[p].ttl \in 0 .. MaxTtl /\ Entries(h, i)[p].record_time \in Nat
  <1> DEFINE w == Walk(h, i)
             M == 1 .. Len(h.node)
  <1>1. HeapTyped(h) /\ Linking(h, own) /\ i \in Lists3
    BY DEF Good, Lists, Lists3
  <1>2. w \in Seq(M)
    BY <1>1, WalkIsWay DEF IsWay
  <1>3. Len(Entries(h, i)) = Len(w) /\ Entries(h, i)[p] = Entry(h.node[w[p]])
    BY <1>2, EntriesAre
  <1> HIDE DEF w
  <1>4. w[p] \in M
    BY <1>2, <1>3
  <1>5. h.node[w[p]] \in ListNode
    BY <1>1, <1>4 DEF HeapTyped
  <1> QED
    BY <1>3, <1>5 DEF Entry, ListNode

LEMMA PromiseRead ==
    ASSUME CacheInv, NEW name \in Name, NEW qtype \in QType, ReadCache(name, qtype)
    PROVE  Promise!Next \/ (Stored' = Stored /\ now' = now)
  <1> DEFINE i == <<qtype, name>>
             g == list_update(Heap, i)
  <1>1. now' = now
    BY DEF ReadCache
  <1>2. TypeOK /\ line \in 0 .. Len(HostsLines) /\ line = Len(HostsLines) /\ HeapTyped(Heap)
        /\ Heap.misused = {}
    BY HeapIsTyped DEF CacheInv, ReadCache, Serving, Heap
  <1>3. PICK own \in [Node -> Homes] : Whole(Heap, own, line)
    BY DEF CacheInv
  <1>4. CASE qtype \notin CacheType
    <2>1. SetHeap(Heap)
      BY <1>4 DEF ReadCache
    <2>2. Outcome(Heap) = Heap
      BY <1>2 DEF Outcome
    <2>4. Heap' = Heap
      BY <1>2, <2>1, <2>2, HeapSet
    <2>3. Stored' = Stored
      BY <2>4, StoredNext DEF Stored
    <2> QED
      BY <1>1, <2>3
  <1>5. CASE qtype \in CacheType
    <2>1. i \in Lists3 /\ SetHeap(g)
      BY <1>5 DEF ReadCache, Lists3
    <2>2. /\ Whole(g, own, line) /\ \A m \in 1 .. Len(Heap.node) : SameData(Heap, g, m)
          /\ \A j \in Lists \ {i} : SameLinks(Heap, g, own, j)
      BY <1>2, <1>3, <2>1, UpdateKeeps
    <2>3. Good(Heap, own) /\ Good(g, own) /\ HeapTyped(Heap) /\ HeapTyped(g)
      BY <1>3, <2>2 DEF Whole, Good
    <2>9. CASE g.misused # {}
      <3>1. Stored' = Stored
        <4> HIDE DEF g
        <4> QED
          BY <2>1, <2>3, <2>9, StoredStays
      <3> QED
        BY <1>1, <3>1
    <2> SUFFICES ASSUME g.misused = {}
                 PROVE  Promise!Next \/ (Stored' = Stored /\ now' = now)
      BY <2>9
    <2>4. Heap' = g
      <3> HIDE DEF g
      <3>1. Outcome(g) = g
        BY DEF Outcome
      <3> QED
        BY <2>1, <2>3, <3>1, HeapSet
    <2>5. ASSUME NEW j \in Lists \ {i}
          PROVE  Entries(g, j) = Entries(Heap, j)
      <3>1. SameLinks(Heap, g, own, j)
        BY <2>2
      <3>2. j \in Lists3
        BY DEF Lists, Lists3
      <3> HIDE DEF g, i
      <3>3. /\ g.list[j] = Heap.list[j] /\ Heap.list[j].size \in Int
            /\ \A m \in 1 .. Len(Heap.node) :
                  own[m] = j => g.node[m].next = Heap.node[m].next
        BY <2>3, <3>1, <3>2 DEF SameLinks, HeapTyped, List
      <3> HIDE DEF Heap
      <3> QED
        BY <2>2, <2>3, <3>3, EntriesStay
    <2>6. Stored' = [j \in Lists |-> Entries(g, j)]
      BY <2>4, StoredNext
    <2>7. CASE i \notin Lists
      <3>1. \A j \in Lists : Entries(g, j) = Entries(Heap, j)
        BY <2>5, <2>7
      <3> QED
        BY <1>1, <2>6, <3>1 DEF Stored
    <2>8. CASE i \in Lists
      <3> DEFINE s == Entries(Heap, i)
                 t == Entries(g, i)
                 U == {k \in 1 .. Len(s) : ~ Expired(s[k])}
      <3>1. PICK place \in [1 .. Len(t) -> U] :
               /\ \A j, k \in 1 .. Len(t) : j < k => place[j] < place[k]
               /\ \A p \in U : \E k \in 1 .. Len(t) : place[k] = p
               /\ t = [k \in 1 .. Len(t) |-> s[place[k]]]
        <4>1. Drops(s, t)
          BY <1>2, <1>3, <2>8, UpdateDrops
        <4> HIDE DEF s, t
        <4> QED
          BY <4>1, Zenon DEF Drops
      <3>2. Stored[i] = s /\ Stored'[i] = t
        BY <2>6, <2>8 DEF Stored
      <3>3. \A p \in 1 .. Len(s) : Promise!Due(s[p]) \/ p \in U
        <4>1. \A p \in 1 .. Len(s) : s[p].ttl \in 0 .. MaxTtl /\ s[p].record_time \in Nat
          BY <2>3, <2>8, EntryTimes
        <4>2. now \in Nat /\ Grace \in Nat /\ MaxTtl \in Nat
          BY <1>2, HeapIsTyped, RecordCacheAssumption
        <4> HIDE DEF s
        <4> SUFFICES ASSUME NEW p \in 1 .. Len(s)
                     PROVE  Expired(s[p]) => Promise!Due(s[p])
          OBVIOUS
        <4>3. s[p].ttl \in 0 .. MaxTtl /\ s[p].record_time \in Nat
          BY <4>1
        <4> QED
          BY <4>2, <4>3 DEF Promise!Due, Expired
      <3>7. U \subseteq 1 .. Len(s)
        OBVIOUS
      <3> HIDE DEF s, t, U, g
      <3>4. /\ place \in [1 .. Len(t) -> 1 .. Len(s)] /\ DOMAIN place = 1 .. Len(t)
            /\ Promise!Keeps(place, s)
        BY <3>1, <3>3, <3>7 DEF Promise!Keeps
      <3>5. Stored' = [Stored EXCEPT ![i] = t]
        <4>1. Stored = [j \in Lists |-> Stored[j]] /\ Stored' = [j \in Lists |-> Stored'[j]]
          BY <2>6 DEF Stored
        <4>2. \A j \in Lists : j # i => Stored'[j] = Stored[j]
          BY <2>5, <2>6 DEF Stored
        <4> QED
          BY <2>8, <3>2, <4>1, <4>2
      <3>6. Promise!Read(i)
        <4>1. /\ place \in [1 .. Len(Stored'[i]) -> 1 .. Len(Stored[i])]
              /\ Promise!Keeps(place, Stored[i])
              /\ Stored' = [Stored EXCEPT ![i] = [k \in DOMAIN place |-> Stored[i][place[k]]]]
          BY <3>1, <3>2, <3>4, <3>5
        <4> HIDE DEF i
        <4>2. \E f \in [1 .. Len(Stored'[i]) -> 1 .. Len(Stored[i])] :
                 /\ Promise!Keeps(f, Stored[i])
                 /\ Stored' = [Stored EXCEPT ![i] = [k \in DOMAIN f |-> Stored[i][f[k]]]]
          BY <4>1, Zenon
        <4> QED
          BY <1>1, <4>2, Zenon DEF Promise!Read, Stored
      <3> QED
        BY <2>8, <3>6 DEF Promise!Next
    <2> QED
      BY <2>7, <2>8
  <1> QED
    BY <1>4, <1>5

LEMMA PromiseStep == CacheInv /\ [Next]_vars => [Promise!Next]_(Promise!vars)
  <1> SUFFICES ASSUME CacheInv, [Next]_vars
               PROVE  Promise!Next \/ (Stored' = Stored /\ now' = now)
    BY DEF Promise!vars, Stored
  <1>1. TypeOK /\ Heap.node = node /\ now \in Nat /\ line \in 0 .. Len(HostsLines)
        /\ Node = 1 .. Len(Heap.node) /\ Dated(Heap)
    BY HeapIsTyped DEF CacheInv
  <1>2. PICK own \in [Node -> Homes] : Whole(Heap, own, line)
                                      /\ (~ Serving => Len(node) = line /\ Loading(Heap, own))
    BY DEF CacheInv
  <1>3. CASE LoadHostsLine
    <2> DEFINE entry == HostsLines[line + 1]
               n == Len(Heap.node) + 1
               new == Allocated(Heap, NewNode("ANSWER", 0, 0, entry.zero))
               inA == list_push_back(new, <<A, entry.name>>, n)
               inAAAA == list_push_back(inA, <<AAAA, entry.name>>, n)
               inCNAME == list_push_back(inAAAA, <<CNAME, entry.name>>, n)
               g == IF entry.zero THEN inCNAME ELSE inA
    <2>1. line < Len(HostsLines) /\ SetHeap(g) /\ now' = now
      BY <1>1, <1>3 DEF LoadHostsLine
    <2>2. /\ Gains(Heap, g)
          /\ \E own2 \in [1 .. Len(g.node) -> Homes] :
                Whole(g, own2, line + 1) /\ Loading(g, own2)
      <3>1. /\ Whole(Heap, own, line) /\ Loading(Heap, own) /\ Len(Heap.node) = line
            /\ line \in 0 .. Len(HostsLines) /\ line < Len(HostsLines)
        BY <1>1, <1>2, <2>1 DEF Serving
      <3> HIDE DEF Heap
      <3> QED
        BY <1>1, <3>1, LoadKeeps
    <2> HIDE DEF g
    <2>3. HeapTyped(g)
      BY <2>2 DEF Whole, Good
    <2>4. HeapTyped(Heap)
      BY <1>1, HeapIsTyped
    <2>5. CASE g.misused # {}
      BY <2>1, <2>3, <2>4, <2>5, StoredStays
    <2>6. CASE g.misused = {}
      <3>1. Outcome(g) = g
        BY <2>6 DEF Outcome
      <3>2. Heap' = g
        BY <2>1, <2>3, <3>1, HeapSet
      <3> QED
        BY <2>1, <2>2, <3>2, PromiseInsert DEF Promise!Next
    <2> QED
      BY <2>5, <2>6
  <1>4. CASE ReceiveResponse
    <2>1. PICK q \in forwarded, answer \in UpstreamAnswers :
             SetHeap(CacheAnswer(Heap, q[1], answer))
      BY <1>4 DEF ReceiveResponse
    <2>2. q[1] \in Name /\ answer \in Seq(Record)
      BY <1>1, RecordCacheAssumption DEF TypeOK
    <2> DEFINE g == CacheAnswer(Heap, q[1], answer)
    <2>3. HeapTyped(g) /\ Gains(Heap, g)
      BY <1>1, <1>2, <2>2, CacheKeeps
    <2>4. now' = now
      BY <1>4 DEF ReceiveResponse
    <2>5. SetHeap(g)
      BY <2>1
    <2> HIDE DEF g
    <2>6. HeapTyped(Heap)
      BY <1>1, HeapIsTyped
    <2>7. CASE g.misused # {}
      BY <2>3, <2>4, <2>5, <2>6, <2>7, StoredStays
    <2>8. CASE g.misused = {}
      <3>1. Outcome(g) = g
        BY <2>8 DEF Outcome
      <3>2. Heap' = g
        BY <2>3, <2>5, <3>1, HeapSet
      <3> QED
        BY <2>3, <2>4, <3>2, PromiseInsert DEF Promise!Next
    <2> QED
      BY <2>7, <2>8
  <1>5. CASE \E name \in Name, qtype \in QType : ReadCache(name, qtype)
    BY <1>5, PromiseRead
  <1>6. CASE Tick \/ UNCHANGED vars
    <2>1. Heap' = Heap /\ now' \in {now, now + 1}
      BY <1>6 DEF Tick, vars, store, Heap
    <2>2. Stored' = Stored
      BY <2>1, StoredNext DEF Stored
    <2> QED
      BY <2>1, <2>2 DEF Stored, Promise!Next, Promise!Tick
  <1> QED
    BY <1>3, <1>4, <1>5, <1>6 DEF Next

(* The linked lists of names that are not blocked implement sequences of   *)
(* entries with an expiry time: what the hosts file and the responses add  *)
(* comes behind what is there, and reading drops entries only when less    *)
(* than the grace is left of their ttl (list.h:91-138).                    *)
THEOREM RecordsKeepPromise == Spec => KeepsPromise
  <1> QED
    BY PromiseInit, PromiseStep, CacheInvariance, PTL DEF Spec, KeepsPromise, Promise!Spec
=============================================================================

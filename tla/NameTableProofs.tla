-------------------------- MODULE NameTableProofs --------------------------
(***************************************************************************)
(* Proofs about NameTable: what cache_find returns after a cache_insert,   *)
(* and what the trie and the hash map keep, for any names, any entries and *)
(* any hash.                                                               *)
(***************************************************************************)
EXTENDS NameTable, NumberFacts, FunctionTheorems, FiniteSetTheorems, SequenceTheorems

-----------------------------------------------------------------------------
(* The trie: the node of a name is below those of the ends of the name.    *)

TrieOK(K, E, trie) ==
    /\ <<>> \in DOMAIN trie
    /\ \A key \in K : key \in DOMAIN trie =>
          Suffixes(key) \subseteq DOMAIN trie /\ trie[key] \in Seq(E)

LEMMA SuffixOfSuffix ==
    ASSUME NEW T, NEW s \in Seq(T), NEW t \in Suffixes(s)
    PROVE  t \in Seq(T) /\ s \in Suffixes(s) /\ Suffixes(t) \subseteq Suffixes(s)
  <1>1. s \in Suffixes(s)
    <2>1. CASE s = <<>>
      BY <2>1 DEF Suffixes
    <2>2. CASE s # <<>>
      <3>1. 1 \in 1 .. Len(s) /\ SubSeq(s, 1, Len(s)) = s
        BY <2>2
      <3> QED
        BY <3>1 DEF Suffixes
    <2> QED
      BY <2>1, <2>2
  <1>2. CASE t = <<>>
    BY <1>1, <1>2 DEF Suffixes
  <1>3. CASE t # <<>>
    <2>1. PICK l \in 1 .. Len(s) : t = SubSeq(s, l, Len(s))
      BY <1>3 DEF Suffixes
    <2>2. t \in Seq(T) /\ Len(t) = Len(s) - l + 1
      BY <2>1
    <2>3. ASSUME NEW m \in 1 .. Len(t)
          PROVE  SubSeq(t, m, Len(t)) \in Suffixes(s)
      <3>1. l + m - 1 \in 1 .. Len(s)
        BY <2>2
      <3>2. SubSeq(t, m, Len(t)) = SubSeq(s, l + m - 1, Len(s))
        BY <2>1, <2>2, <3>1
      <3> QED
        BY <3>1, <3>2 DEF Suffixes
    <2>4. \A u \in Suffixes(t) : u = <<>> \/ \E m \in 1 .. Len(t) : u = SubSeq(t, m, Len(t))
      BY DEF Suffixes
    <2>5. <<>> \in Suffixes(s)
      BY DEF Suffixes
    <2> QED
      BY <1>1, <2>2, <2>3, <2>4, <2>5
  <1> QED
    BY <1>2, <1>3

(* The list of one key has one more entry, at its end.                     *)
TrieAppended(K, before, after, key, e) ==
    /\ trie_find(after, key) = Append(trie_find(before, key), e)
    /\ \A name \in K : name # key => trie_find(after, name) = trie_find(before, name)

LEMMA TrieInsert ==
    ASSUME NEW T, NEW E, NEW key \in Seq(T), NEW trie, TrieOK(Seq(T), E, trie), NEW e \in E,
           NEW after, after = trie_insert(trie, key, e)
    PROVE  TrieOK(Seq(T), E, after) /\ TrieAppended(Seq(T), trie, after, key, e)
  <1> DEFINE data(path) == IF path \in DOMAIN trie THEN trie[path] ELSE NoList
  <1>1. DOMAIN after = DOMAIN trie \union Suffixes(key)
    BY DEF trie_insert
  <1>2. \A path \in DOMAIN after :
            after[path] = IF path = key THEN Append(data(path), e) ELSE data(path)
    BY DEF trie_insert
  <1>3. \A name \in Seq(T) : name \in Suffixes(name)
    <2> SUFFICES ASSUME NEW name \in Seq(T)
                 PROVE  name \in Suffixes(name)
      OBVIOUS
    <2>1. <<>> \in Suffixes(name)
      BY DEF Suffixes
    <2> QED
      BY <2>1, SuffixOfSuffix
  <1>4. \A name \in Seq(T) : Suffixes(name) \subseteq DOMAIN trie <=> name \in DOMAIN trie
    BY <1>3 DEF TrieOK
  <1>5. \A name \in Seq(T) : trie_find(trie, name) = data(name)
    BY <1>4 DEF trie_find
  <1>6. TrieOK(Seq(T), E, after)
    <2>1. ASSUME NEW name \in Seq(T), name \in DOMAIN after
          PROVE  Suffixes(name) \subseteq DOMAIN after
      <3>1. CASE name \in DOMAIN trie
        BY <1>1, <1>4, <3>1
      <3>2. CASE name \in Suffixes(key)
        BY <1>1, <3>2, SuffixOfSuffix
      <3> QED
        BY <1>1, <2>1, <3>1, <3>2
    <2>2. ASSUME NEW name \in Seq(T), name \in DOMAIN after
          PROVE  after[name] \in Seq(E)
      <3>1. data(name) \in Seq(E)
        BY DEF TrieOK, NoList
      <3> HIDE DEF data
      <3>2. Append(data(name), e) \in Seq(E)
        BY <3>1
      <3> QED
        BY <1>2, <2>2, <3>1, <3>2
    <2> QED
      BY <1>1, <2>1, <2>2 DEF TrieOK
  <1>7. \A name \in Seq(T) : Suffixes(name) \subseteq DOMAIN after <=> name \in DOMAIN after
    BY <1>3, <1>6 DEF TrieOK
  <1>8. \A name \in Seq(T) :
            trie_find(after, name) = IF name \in DOMAIN after THEN after[name] ELSE NoList
    BY <1>7 DEF trie_find
  <1>9. trie_find(after, key) = Append(trie_find(trie, key), e)
    BY <1>1, <1>2, <1>3, <1>5, <1>8
  <1>10. \A name \in Seq(T) :
             name # key => trie_find(after, name) = trie_find(trie, name)
    BY <1>1, <1>2, <1>5, <1>8
  <1> QED
    BY <1>6, <1>9, <1>10 DEF TrieAppended

-----------------------------------------------------------------------------
(* The hash map: an entry is at a place, and a rehash moves every entry to *)
(* a place of its own in the chain of its hash.                            *)

EntryAt(chains, p) == chains[p[1]][p[2]]

HashEntry(K, E) == [hash: Nat, key: K, value: Seq(E)]

ChainsTyped(K, E, chains) == chains \in Seq(Seq(HashEntry(K, E))) /\ Len(chains) > 0

InChainOfHash(chains) ==
    \A p \in Places(chains) : Index(EntryAt(chains, p).hash, Len(chains)) = p[1]

(* The chains hold what the function src has for the places P, each once.  *)
Holds(chains, P, src) ==
    \E g \in Bijection(P, Places(chains)) : \A p \in P : EntryAt(chains, g[p]) = src[p]

LEMMA PlacesAre ==
    ASSUME NEW T, NEW chains \in Seq(Seq(T))
    PROVE  /\ \A a, b : <<a, b>> \in Places(chains)
                            <=> a \in 1 .. Len(chains) /\ b \in 1 .. Len(chains[a])
           /\ \A p \in Places(chains) :
                 /\ p = <<p[1], p[2]>>
                 /\ p[1] \in 1 .. Len(chains) /\ p[2] \in 1 .. Len(chains[p[1]])
                 /\ EntryAt(chains, p) \in T
  <1>1. \A a \in 1 .. Len(chains) : chains[a] \in Seq(T)
    OBVIOUS
  <1>2. \A p : p \in Places(chains) <=> \E a \in 1 .. Len(chains) : p \in {a} \X DOMAIN chains[a]
    BY DEF Places
  <1>3. \A a \in 1 .. Len(chains) : DOMAIN chains[a] = 1 .. Len(chains[a])
    BY <1>1
  <1>4. ASSUME NEW p \in Places(chains)
        PROVE  /\ p = <<p[1], p[2]>>
               /\ p[1] \in 1 .. Len(chains) /\ p[2] \in 1 .. Len(chains[p[1]])
               /\ EntryAt(chains, p) \in T
    <2>1. PICK a \in 1 .. Len(chains) : p \in {a} \X DOMAIN chains[a]
      BY <1>2
    <2>2. PICK b \in 1 .. Len(chains[a]) : p = <<a, b>>
      BY <1>3, <2>1
    <2>3. chains[a][b] \in T
      BY <1>1, <2>2, ElementOfSeq
    <2> QED
      BY <2>2, <2>3 DEF EntryAt
  <1>5. ASSUME NEW a, NEW b, a \in 1 .. Len(chains), b \in 1 .. Len(chains[a])
        PROVE  <<a, b>> \in Places(chains)
    BY <1>2, <1>3, <1>5
  <1>6. ASSUME NEW a, NEW b, <<a, b>> \in Places(chains)
        PROVE  a \in 1 .. Len(chains) /\ b \in 1 .. Len(chains[a])
    BY <1>2, <1>3, <1>6
  <1> QED
    BY <1>4, <1>5, <1>6

LEMMA IndexIs ==
    ASSUME NEW h \in Nat, NEW n \in Nat, n > 0
    PROVE  Index(h, n) \in 1 .. n
  <1>1. h % n \in 0 .. n - 1
    OBVIOUS
  <1> QED
    BY <1>1 DEF Index

(* An entry moves into a chain in front of the others.                     *)
LEMMA MovedIs ==
    ASSUME NEW K, NEW E, NEW chains, ChainsTyped(K, E, chains),
           NEW entry \in HashEntry(K, E)
    PROVE  /\ ChainsTyped(K, E, Moved(chains, entry))
           /\ Len(Moved(chains, entry)) = Len(chains)
           /\ LET i == Index(entry.hash, Len(chains))
                  after == Moved(chains, entry)
              IN  /\ i \in 1 .. Len(chains)
                  /\ Len(after[i]) = Len(chains[i]) + 1 /\ after[i][1] = entry
                  /\ \A b \in 1 .. Len(chains[i]) : after[i][b + 1] = chains[i][b]
                  /\ \A a \in 1 .. Len(chains) : a # i => after[a] = chains[a]
  <1> DEFINE H == HashEntry(K, E)
             i == Index(entry.hash, Len(chains))
             after == Moved(chains, entry)
             new == <<entry>> \o chains[i]
  <1>1. chains \in Seq(Seq(H)) /\ Len(chains) > 0 /\ entry \in H
    BY DEF ChainsTyped
  <1>2. i \in 1 .. Len(chains)
    <2>1. entry.hash \in Nat /\ Len(chains) \in Nat
      BY <1>1 DEF HashEntry
    <2> QED
      BY <1>1, <2>1, IndexIs
  <1>3. after = [chains EXCEPT ![i] = new]
    BY DEF Moved
  <1> HIDE DEF H, i, after
  <1>4. chains[i] \in Seq(H) /\ <<entry>> \in Seq(H) /\ Len(<<entry>>) = 1
    BY <1>1, <1>2
  <1>5. /\ new \in Seq(H) /\ Len(new) = Len(chains[i]) + 1 /\ new[1] = entry
        /\ \A b \in 1 .. Len(chains[i]) : new[b + 1] = chains[i][b]
    BY <1>4, ConcatProperties
  <1> HIDE DEF new
  <1>6. after \in Seq(Seq(H)) /\ Len(after) = Len(chains)
    BY <1>1, <1>2, <1>3, <1>5
  <1>7. after[i] = new /\ \A a \in 1 .. Len(chains) : a # i => after[a] = chains[a]
    BY <1>1, <1>2, <1>3
  <1> QED
    BY <1>1, <1>2, <1>5, <1>6, <1>7 DEF ChainsTyped, H, i, after

LEMMA MovedHolds ==
    ASSUME NEW K, NEW E, NEW chains, ChainsTyped(K, E, chains), InChainOfHash(chains),
           NEW entry \in HashEntry(K, E),
           NEW P, NEW src, Holds(chains, P, src), NEW x, x \notin P, src[x] = entry
    PROVE  /\ InChainOfHash(Moved(chains, entry))
           /\ Holds(Moved(chains, entry), P \union {x}, src)
  <1> DEFINE i == Index(entry.hash, Len(chains))
             after == Moved(chains, entry)
             H == HashEntry(K, E)
             Later(p) == IF p[1] = i THEN <<i, p[2] + 1>> ELSE p
  <1>1. /\ chains \in Seq(Seq(H)) /\ after \in Seq(Seq(H))
        /\ Len(after) = Len(chains)
        /\ i \in 1 .. Len(chains)
        /\ Len(after[i]) = Len(chains[i]) + 1 /\ after[i][1] = entry
        /\ \A b \in 1 .. Len(chains[i]) : after[i][b + 1] = chains[i][b]
        /\ \A a \in 1 .. Len(chains) : a # i => after[a] = chains[a]
    BY MovedIs, SMTT(30) DEF ChainsTyped
  <1>2. Len(chains[i]) \in Nat /\ Index(entry.hash, Len(after)) = i
    BY <1>1
  <1> HIDE DEF i, after, H
  <1>3. ASSUME NEW p \in Places(chains)
        PROVE  /\ Later(p) \in Places(after) /\ Later(p) # <<i, 1>>
               /\ EntryAt(after, Later(p)) = EntryAt(chains, p)
    <2>1. p = <<p[1], p[2]>> /\ p[1] \in 1 .. Len(chains) /\ p[2] \in 1 .. Len(chains[p[1]])
      BY <1>1, PlacesAre
    <2>2. CASE p[1] = i
      <3>1. p[2] + 1 \in 1 .. Len(after[i]) /\ p[2] + 1 # 1
        BY <1>1, <1>2, <2>1, <2>2, SMTT(30)
      <3>2. <<i, p[2] + 1>> \in Places(after)
        BY <1>1, <3>1, PlacesAre
      <3> QED
        BY <1>1, <2>1, <2>2, <3>1, <3>2 DEF EntryAt
    <2>3. CASE p[1] # i
      <3>1. <<p[1], p[2]>> \in Places(after)
        BY <1>1, <2>1, <2>3, PlacesAre
      <3>2. Later(p) = p /\ after[p[1]] = chains[p[1]]
        BY <1>1, <2>1, <2>3
      <3>3. p # <<i, 1>>
        BY <2>3
      <3> HIDE DEF Later
      <3> QED
        BY <2>1, <3>1, <3>2, <3>3 DEF EntryAt
    <2> QED
      BY <2>2, <2>3
  <1>4. ASSUME NEW p \in Places(chains), NEW q \in Places(chains), Later(p) = Later(q)
        PROVE  p = q
    <2>1. /\ p = <<p[1], p[2]>> /\ p[2] \in Int
          /\ q = <<q[1], q[2]>> /\ q[2] \in Int
      BY <1>1, PlacesAre
    <2>2. Later(p)[1] = p[1] /\ Later(q)[1] = q[1]
      OBVIOUS
    <2>3. p[1] = q[1]
      BY <1>4, <2>2
    <2>4. CASE p[1] = i
      <3>1. p[2] + 1 = q[2] + 1
        BY <1>4, <2>3, <2>4
      <3> QED
        BY <2>1, <2>3, <3>1
    <2>5. CASE p[1] # i
      <3>1. Later(p) = p /\ Later(q) = q
        BY <2>3, <2>5
      <3> QED
        BY <1>4, <3>1
    <2> QED
      BY <2>4, <2>5
  <1>5. <<i, 1>> \in Places(after) /\ EntryAt(after, <<i, 1>>) = entry
    <2>1. i \in 1 .. Len(after) /\ 1 \in 1 .. Len(after[i])
      BY <1>1, <1>2
    <2>2. <<i, 1>> \in Places(after)
      BY <1>1, <2>1, PlacesAre
    <2> QED
      BY <1>1, <2>2 DEF EntryAt
  <1>6. ASSUME NEW q \in Places(after), q # <<i, 1>>
        PROVE  \E p \in Places(chains) : Later(p) = q
    <2>1. q = <<q[1], q[2]>> /\ q[1] \in 1 .. Len(after) /\ q[2] \in 1 .. Len(after[q[1]])
      BY <1>1, PlacesAre
    <2>2. CASE q[1] = i
      <3>1. q[2] - 1 \in 1 .. Len(chains[i]) /\ (q[2] - 1) + 1 = q[2]
        BY <1>1, <1>2, <1>6, <2>1, <2>2, SMTT(30)
      <3>2. <<i, q[2] - 1>> \in Places(chains)
        BY <1>1, <3>1, PlacesAre
      <3>3. Later(<<i, q[2] - 1>>) = q
        BY <2>1, <2>2, <3>1
      <3> QED
        BY <3>2, <3>3
    <2>3. CASE q[1] # i
      <3>1. <<q[1], q[2]>> \in Places(chains)
        BY <1>1, <2>1, <2>3, PlacesAre
      <3>2. Later(q) = q
        BY <2>3
      <3> QED
        BY <2>1, <3>1, <3>2
    <2> QED
      BY <2>2, <2>3
  <1>7. \A p \in Places(chains) : Later(p)[1] = p[1]
    OBVIOUS
  <1>8. InChainOfHash(after)
    <2> SUFFICES ASSUME NEW q \in Places(after)
                 PROVE  Index(EntryAt(after, q).hash, Len(after)) = q[1]
      BY DEF InChainOfHash
    <2>1. CASE q = <<i, 1>>
      BY <1>2, <1>5, <2>1
    <2>2. CASE q # <<i, 1>>
      <3> HIDE DEF Later
      <3>1. PICK p \in Places(chains) : Later(p) = q
        BY <1>6, <2>2
      <3>2. EntryAt(after, q) = EntryAt(chains, p) /\ q[1] = p[1]
        BY <1>3, <1>7, <3>1
      <3> QED
        BY <1>1, <3>2 DEF InChainOfHash
    <2> QED
      BY <2>1, <2>2
  <1> HIDE DEF Later
  <1>9. PICK g \in Bijection(P, Places(chains)) :
            \A p \in P : EntryAt(chains, g[p]) = src[p]
    BY DEF Holds
  <1>10. /\ \A p \in P : g[p] \in Places(chains)
         /\ \A p, q \in P : g[p] = g[q] => p = q
         /\ \A q \in Places(chains) : \E p \in P : g[p] = q
    BY <1>9, Fun_BijectionProperties
  <1> DEFINE f == [p \in P \union {x} |-> IF p = x THEN <<i, 1>> ELSE Later(g[p])]
  <1>11. f[x] = <<i, 1>> /\ \A p \in P : f[p] = Later(g[p])
    OBVIOUS
  <1>12. f \in [P \union {x} -> Places(after)]
    BY <1>3, <1>5, <1>10
  <1> HIDE DEF f
  <1>13. \A p, q \in P \union {x} : f[p] = f[q] => p = q
    <2>1. \A p \in P : f[p] # f[x]
      BY <1>3, <1>10, <1>11
    <2>2. \A p, q \in P : f[p] = f[q] => p = q
      BY <1>4, <1>10, <1>11
    <2> QED
      BY <2>1, <2>2
  <1>14. \A q \in Places(after) : \E p \in P \union {x} : f[p] = q
    BY <1>6, <1>10, <1>11
  <1>15. f \in Bijection(P \union {x}, Places(after))
    BY <1>12, <1>13, <1>14, Fun_IsBij
  <1>16. \A p \in P \union {x} : EntryAt(after, f[p]) = src[p]
    BY <1>3, <1>5, <1>9, <1>10, <1>11
  <1>17. Holds(after, P \union {x}, src)
    BY <1>15, <1>16 DEF Holds
  <1> QED
    BY <1>8, <1>17 DEF after

Tables(K, E, n) == {chains \in Seq(Seq(HashEntry(K, E))) : Len(chains) = n}

LEMMA MovedTable ==
    ASSUME NEW K, NEW E, NEW n \in Nat, n > 0, NEW chains \in Tables(K, E, n),
           NEW entry \in HashEntry(K, E)
    PROVE  Moved(chains, entry) \in Tables(K, E, n)
  <1>1. ChainsTyped(K, E, chains)
    BY DEF ChainsTyped, Tables
  <1> QED
    BY <1>1, MovedIs DEF ChainsTyped, Tables

(* The entries of a chain move one after the other.                        *)
ChainUpTo(table, chain) ==
    CHOOSE upTo :
        upTo = [k \in 0 .. Len(chain) |->
                   IF k = 0 THEN table ELSE Moved(upTo[k - 1], chain[k])]

LEMMA ChainMovedIs ==
    ASSUME NEW K, NEW E, NEW n \in Nat, n > 0, NEW table \in Tables(K, E, n),
           NEW chain \in Seq(HashEntry(K, E))
    PROVE  /\ ChainUpTo(table, chain)[0] = table
           /\ \A k \in 1 .. Len(chain) :
                 ChainUpTo(table, chain)[k] = Moved(ChainUpTo(table, chain)[k - 1], chain[k])
           /\ \A k \in 0 .. Len(chain) : ChainUpTo(table, chain)[k] \in Tables(K, E, n)
           /\ ChainMoved(table, chain) = ChainUpTo(table, chain)[Len(chain)]
  <1> DEFINE N == Len(chain)
             S == Tables(K, E, n)
             H == HashEntry(K, E)
             step == [k \in 1 .. N |-> [s \in S |-> Moved(s, chain[k])]]
             Code(f) == [k \in 0 .. N |-> IF k = 0 THEN table ELSE Moved(f[k - 1], chain[k])]
  <1>1. N \in Nat /\ \A k \in 1 .. N : chain[k] \in H
    OBVIOUS
  <1>2. \A k \in 1 .. N : \A s \in S :
            step[k][s] = Moved(s, chain[k]) /\ Moved(s, chain[k]) \in S
    BY <1>1, MovedTable
  <1>3. ChainUpTo(table, chain) = CHOOSE f : f = Code(f)
    BY Zenon DEF ChainUpTo
  <1>4. ChainMoved(table, chain) = ChainUpTo(table, chain)[N]
    BY Zenon DEF ChainMoved, ChainUpTo
  <1>5. table \in S
    OBVIOUS
  <1> HIDE DEF N, S, H, step
  <1>6. Rounds(N, S, table, step)
    BY <1>1, <1>2, <1>5 DEF Rounds
  <1>7. PICK f \in [0 .. N -> S] :
            f = [k \in 0 .. N |-> IF k = 0 THEN table ELSE step[k][f[k - 1]]]
    BY <1>6, RoundsExist
  <1>8. ASSUME NEW k \in 0 .. N
        PROVE  f[k] = Code(f)[k]
    <2>1. k # 0 => k \in 1 .. N /\ f[k - 1] \in S
      BY <1>1
    <2> QED
      BY <1>2, <1>7, <2>1
  <1>9. f = Code(f)
    <2>1. f = [k \in 0 .. N |-> f[k]]
      OBVIOUS
    <2> QED
      BY <1>8, <2>1
  <1> DEFINE g == ChainUpTo(table, chain)
  <1>10. g = Code(g)
    <2>1. \E h : h = Code(h)
      BY <1>9
    <2> QED
      BY <1>3, <2>1, Zenon
  <1> HIDE DEF g
  <1>11. g[0] = table
    BY <1>1, <1>10
  <1>12. \A k \in 1 .. N : g[k] = Moved(g[k - 1], chain[k])
    BY <1>1, <1>10
  <1>13. \A k \in 0 .. N : g[k] \in S
    <2> DEFINE T == {k \in 0 .. N : g[k] \in S}
    <2>1. 0 \in T
      BY <1>1, <1>5, <1>11
    <2>2. ASSUME NEW k \in 1 .. N, k - 1 \in T
          PROVE  k \in T
      <3>1. g[k - 1] \in S /\ k \in 0 .. N
        BY <1>1, <2>2
      <3>2. Moved(g[k - 1], chain[k]) \in S
        BY <1>2, <3>1
      <3> QED
        BY <1>12, <3>1, <3>2
    <2>3. \A k \in T : g[k] \in S
      OBVIOUS
    <2> HIDE DEF T
    <2> QED
      BY <1>1, <2>1, <2>2, <2>3, HoldsUpTo
  <1> QED
    BY <1>4, <1>11, <1>12, <1>13 DEF N, S, g

Row(a, n) == {<<a, b>> : b \in 1 .. n}

LEMMA ChainMovedHolds ==
    ASSUME NEW K, NEW E, NEW n \in Nat, n > 0, NEW table \in Tables(K, E, n),
           InChainOfHash(table), NEW chain \in Seq(HashEntry(K, E)),
           NEW P, NEW src, Holds(table, P, src),
           NEW a, \A b : <<a, b>> \notin P,
           \A b \in 1 .. Len(chain) : src[<<a, b>>] = chain[b]
    PROVE  /\ ChainMoved(table, chain) \in Tables(K, E, n)
           /\ InChainOfHash(ChainMoved(table, chain))
           /\ Holds(ChainMoved(table, chain), P \union Row(a, Len(chain)), src)
  <1> DEFINE N == Len(chain)
             f == ChainUpTo(table, chain)
             Q(k) == P \union Row(a, k)
             Good == {k \in 0 .. N : InChainOfHash(f[k]) /\ Holds(f[k], Q(k), src)}
  <1>1. /\ N \in Nat /\ f[0] = table
        /\ \A k \in 1 .. N : f[k] = Moved(f[k - 1], chain[k])
        /\ \A k \in 0 .. N : f[k] \in Tables(K, E, n)
        /\ ChainMoved(table, chain) = f[N]
    <2>1. N \in Nat
      OBVIOUS
    <2> QED
      BY <2>1, ChainMovedIs
  <1> HIDE DEF f
  <1>2. 0 \in Good
    <2>1. Row(a, 0) = {}
      BY DEF Row
    <2>2. Q(0) = P
      BY <2>1
    <2> HIDE DEF Q
    <2> QED
      BY <1>1, <2>2
  <1>3. ASSUME NEW k \in 1 .. N, k - 1 \in Good
        PROVE  k \in Good
    <2>1. k - 1 \in 0 .. N /\ k \in 0 .. N /\ InChainOfHash(f[k - 1]) /\ Holds(f[k - 1], Q(k - 1), src)
      BY <1>3
    <2>2. ChainsTyped(K, E, f[k - 1])
      BY <1>1, <2>1 DEF ChainsTyped, Tables
    <2>3. chain[k] \in HashEntry(K, E)
      OBVIOUS
    <2>4. <<a, k>> \notin Q(k - 1)
      BY DEF Row
    <2>5. Q(k) = Q(k - 1) \union {<<a, k>>}
      <3>1. 1 .. k = (1 .. k - 1) \union {k}
        OBVIOUS
      <3>2. Row(a, k) = Row(a, k - 1) \union {<<a, k>>}
        BY <3>1, Zenon DEF Row
      <3> QED
        BY <3>2, Zenon
    <2> HIDE DEF Q
    <2>6. /\ InChainOfHash(Moved(f[k - 1], chain[k]))
          /\ Holds(Moved(f[k - 1], chain[k]), Q(k - 1) \union {<<a, k>>}, src)
      BY <2>1, <2>2, <2>3, <2>4, MovedHolds
    <2> QED
      BY <1>1, <2>1, <2>5, <2>6
  <1>4. \A k \in Good : InChainOfHash(f[k]) /\ Holds(f[k], Q(k), src)
    OBVIOUS
  <1> HIDE DEF Good, Q
  <1>5. N \in 0 .. N
    BY <1>1
  <1>6. N \in Good
    BY <1>1, <1>2, <1>3, <1>5, HoldsUpTo
  <1> QED
    BY <1>1, <1>4, <1>5, <1>6 DEF Q

(* The chains of the old table move one after the other into an empty one. *)
RehashUpTo(table, capacity) ==
    CHOOSE upTo :
        upTo = [k \in 0 .. Len(table) |->
                   IF k = 0 THEN [c \in 1 .. capacity |-> <<>>]
                            ELSE ChainMoved(upTo[k - 1], table[k])]

LEMMA RehashIs ==
    ASSUME NEW K, NEW E, NEW table \in Seq(Seq(HashEntry(K, E))),
           NEW n \in Nat, n > 0
    PROVE  /\ RehashUpTo(table, n)[0] = [c \in 1 .. n |-> <<>>]
           /\ \A k \in 1 .. Len(table) :
                 RehashUpTo(table, n)[k] = ChainMoved(RehashUpTo(table, n)[k - 1], table[k])
           /\ \A k \in 0 .. Len(table) : RehashUpTo(table, n)[k] \in Tables(K, E, n)
           /\ hash_map_rehash(table, n) = RehashUpTo(table, n)[Len(table)]
  <1> DEFINE N == Len(table)
             S == Tables(K, E, n)
             H == HashEntry(K, E)
             init == [c \in 1 .. n |-> <<>>]
             step == [k \in 1 .. N |-> [s \in S |-> ChainMoved(s, table[k])]]
             Code(f) == [k \in 0 .. N |-> IF k = 0 THEN [c \in 1 .. n |-> <<>>]
                                                   ELSE ChainMoved(f[k - 1], table[k])]
  <1>1. N \in Nat /\ \A k \in 1 .. N : table[k] \in Seq(H)
    OBVIOUS
  <1>2. \A k \in 1 .. N : \A s \in S :
            step[k][s] = ChainMoved(s, table[k]) /\ ChainMoved(s, table[k]) \in S
    <2> SUFFICES ASSUME NEW k \in 1 .. N, NEW s \in S
                 PROVE  step[k][s] = ChainMoved(s, table[k]) /\ ChainMoved(s, table[k]) \in S
      OBVIOUS
    <2>1. table[k] \in Seq(H)
      BY <1>1
    <2>2. Len(table[k]) \in 0 .. Len(table[k])
      BY <2>1
    <2>3. ChainMoved(s, table[k]) \in S
      BY <2>1, <2>2, ChainMovedIs
    <2> QED
      BY <2>3
  <1>3. RehashUpTo(table, n) = CHOOSE f : f = Code(f)
    BY Zenon DEF RehashUpTo
  <1>4. hash_map_rehash(table, n) = RehashUpTo(table, n)[N]
    BY Zenon DEF hash_map_rehash, RehashUpTo
  <1>5. init \in S
    <2>1. init \in Seq(Seq(H)) /\ Len(init) = n
      OBVIOUS
    <2> QED
      BY <2>1 DEF Tables
  <1>6. init = [c \in 1 .. n |-> <<>>]
    OBVIOUS
  <1> HIDE DEF N, S, H, step, init
  <1>7. Rounds(N, S, init, step)
    BY <1>1, <1>2, <1>5 DEF Rounds
  <1>8. PICK f \in [0 .. N -> S] :
            f = [k \in 0 .. N |-> IF k = 0 THEN init ELSE step[k][f[k - 1]]]
    BY <1>7, RoundsExist
  <1>9. ASSUME NEW k \in 0 .. N
        PROVE  f[k] = Code(f)[k]
    <2>1. k # 0 => k \in 1 .. N /\ f[k - 1] \in S
      BY <1>1
    <2>2. CASE k = 0
      BY <1>6, <1>8, <2>2
    <2>3. CASE k # 0
      BY <1>2, <1>8, <2>1, <2>3
    <2> QED
      BY <2>2, <2>3
  <1>10. f = Code(f)
    <2>1. f = [k \in 0 .. N |-> f[k]]
      OBVIOUS
    <2> QED
      BY <1>9, <2>1
  <1> DEFINE g == RehashUpTo(table, n)
  <1>11. g = Code(g)
    <2>1. \E h : h = Code(h)
      BY <1>10
    <2> QED
      BY <1>3, <2>1, Zenon
  <1> HIDE DEF g
  <1>12. g[0] = init
    <2>1. 0 \in 0 .. N
      BY <1>1
    <2>2. Code(g)[0] = [c \in 1 .. n |-> <<>>]
      BY <2>1
    <2> HIDE DEF Code
    <2> QED
      BY <1>6, <1>11, <2>2
  <1>13. ASSUME NEW k \in 1 .. N
         PROVE  g[k] = ChainMoved(g[k - 1], table[k])
    <2>1. k \in 0 .. N /\ k # 0
      BY <1>1
    <2>2. Code(g)[k] = ChainMoved(g[k - 1], table[k])
      BY <2>1
    <2> HIDE DEF Code
    <2> QED
      BY <1>11, <2>2
  <1>14. \A k \in 0 .. N : g[k] \in S
    <2> DEFINE T == {k \in 0 .. N : g[k] \in S}
    <2>1. 0 \in T
      BY <1>1, <1>5, <1>12
    <2>2. \A k \in 1 .. N : k - 1 \in T => k \in T
      BY <1>1, <1>2, <1>13
    <2>3. \A k \in T : g[k] \in S
      OBVIOUS
    <2> HIDE DEF T
    <2> QED
      BY <1>1, <2>1, <2>2, <2>3, HoldsUpTo
  <1> QED
    BY <1>4, <1>6, <1>12, <1>13, <1>14 DEF N, S, g

Source(chains) == [p \in Places(chains) |-> EntryAt(chains, p)]

LEMMA RehashHolds ==
    ASSUME NEW K, NEW E, NEW chains \in Seq(Seq(HashEntry(K, E))),
           NEW n \in Nat, n > 0
    PROVE  /\ ChainsTyped(K, E, hash_map_rehash(chains, n))
           /\ Len(hash_map_rehash(chains, n)) = n
           /\ InChainOfHash(hash_map_rehash(chains, n))
           /\ Holds(hash_map_rehash(chains, n), Places(chains), Source(chains))
  <1> DEFINE N == Len(chains)
             f == RehashUpTo(chains, n)
             src == Source(chains)
             Q(k) == {p \in Places(chains) : p[1] \in 1 .. k}
             Good == {k \in 0 .. N : InChainOfHash(f[k]) /\ Holds(f[k], Q(k), src)}
  <1>1. /\ N \in Nat /\ f[0] = [c \in 1 .. n |-> <<>>]
        /\ \A k \in 1 .. N : f[k] = ChainMoved(f[k - 1], chains[k])
        /\ \A k \in 0 .. N : f[k] \in Tables(K, E, n)
        /\ hash_map_rehash(chains, n) = f[N]
    BY RehashIs
  <1> HIDE DEF f
  <1>2. 0 \in Good
    <2>1. Q(0) = {}
      OBVIOUS
    <2>2. Places(f[0]) = {}
      <3>1. \A p \in Places(f[0]) : p[1] \in 1 .. Len(f[0]) /\ p[2] \in 1 .. Len(f[0][p[1]])
        <4>1. f[0] \in Tables(K, E, n)
          <5>1. 0 \in 0 .. N
            BY <1>1
          <5> QED
            BY <1>1, <5>1
        <4>2. f[0] \in Seq(Seq(HashEntry(K, E)))
          BY <4>1 DEF Tables
        <4> QED
          BY <4>2, PlacesAre
      <3>2. Len(f[0]) = n /\ \A c \in 1 .. n : Len(f[0][c]) = 0
        BY <1>1 DEF Tables
      <3> QED
        BY <3>1, <3>2
    <2>3. InChainOfHash(f[0])
      BY <2>2 DEF InChainOfHash
    <2>4. [p \in {} |-> 0] \in Bijection({}, {})
      BY Fun_IsBij
    <2>5. Holds(f[0], {}, src)
      BY <2>2, <2>4 DEF Holds
    <2>6. 0 \in 0 .. N
      BY <1>1
    <2> HIDE DEF Q
    <2> QED
      BY <2>1, <2>3, <2>5, <2>6
  <1>3. ASSUME NEW k \in 1 .. N, k - 1 \in Good
        PROVE  k \in Good
    <2>1. /\ k - 1 \in 0 .. N /\ k \in 0 .. N /\ InChainOfHash(f[k - 1])
          /\ Holds(f[k - 1], Q(k - 1), src)
      <3> HIDE DEF Q, src
      <3> QED
        BY <1>1, <1>3
    <2>2. chains[k] \in Seq(HashEntry(K, E)) /\ f[k - 1] \in Tables(K, E, n)
      BY <1>1, <2>1
    <2>3. \A b : <<k, b>> \notin Q(k - 1)
      OBVIOUS
    <2>4. \A b : <<k, b>> \in Places(chains) <=> b \in 1 .. Len(chains[k])
      BY PlacesAre
    <2>5. \A b \in 1 .. Len(chains[k]) : src[<<k, b>>] = chains[k][b]
      BY <2>4 DEF Source, EntryAt
    <2>6. Q(k) = Q(k - 1) \union Row(k, Len(chains[k]))
      <3>1. \A p \in Places(chains) :
                p = <<p[1], p[2]>> /\ p[1] \in 1 .. N /\ p[2] \in 1 .. Len(chains[p[1]])
        BY PlacesAre
      <3>2. ASSUME NEW p \in Q(k)
            PROVE  p \in Q(k - 1) \union Row(k, Len(chains[k]))
        <4>1. CASE p[1] = k
          <5>1. p = <<k, p[2]>> /\ p[2] \in 1 .. Len(chains[k])
            BY <3>1, <4>1
          <5>2. p \in Row(k, Len(chains[k]))
            BY <5>1, Zenon DEF Row
          <5> QED
            BY <5>2
        <4>2. CASE p[1] # k
          <5>1. p[1] \in 1 .. k /\ p \in Places(chains)
            OBVIOUS
          <5>2. p[1] \in 1 .. k - 1
            BY <4>2, <5>1
          <5> QED
            BY <5>1, <5>2
        <4> QED
          BY <4>1, <4>2
      <3>3. ASSUME NEW p \in Row(k, Len(chains[k]))
            PROVE  p \in Q(k)
        <4>1. PICK b \in 1 .. Len(chains[k]) : p = <<k, b>>
          BY DEF Row
        <4>2. p \in Places(chains) /\ p[1] = k
          BY <2>4, <4>1
        <4> QED
          BY <4>2
      <3>4. ASSUME NEW p \in Q(k - 1)
            PROVE  p \in Q(k)
        OBVIOUS
      <3> HIDE DEF Q
      <3> QED
        BY <3>2, <3>3, <3>4
    <2> HIDE DEF Q, src
    <2>7. /\ InChainOfHash(ChainMoved(f[k - 1], chains[k]))
          /\ Holds(ChainMoved(f[k - 1], chains[k]),
                   Q(k - 1) \union Row(k, Len(chains[k])), src)
      BY <2>1, <2>2, <2>3, <2>5, ChainMovedHolds, ZenonT(60)
    <2> QED
      BY <1>1, <2>1, <2>6, <2>7
  <1>4. \A k \in Good : InChainOfHash(f[k]) /\ Holds(f[k], Q(k), src)
    OBVIOUS
  <1>5. N \in 0 .. N
    BY <1>1
  <1>6. Q(N) = Places(chains)
    BY PlacesAre
  <1> HIDE DEF Good, Q
  <1>7. N \in Good
    BY <1>1, <1>2, <1>3, <1>5, HoldsUpTo
  <1> QED
    BY <1>1, <1>4, <1>5, <1>6, <1>7 DEF ChainsTyped, Tables

-----------------------------------------------------------------------------
(* What is found for a key, whatever the place of its entry.               *)

(* A key that is whole is the key of one entry, with its hash, and fits.   *)
Sound(P, src) ==
    /\ \A p \in P : src[p].key # Garbled => src[p].hash = Hash(src[p].key)
    /\ \A p \in P : src[p].key # Garbled => Len(src[p].key) < KeyRoom
    /\ \A p, q \in P : src[p].key = src[q].key /\ src[p].key # Garbled => p = q

ValueIn(P, src, key) ==
    IF \E p \in P : src[p].key = key
      THEN src[CHOOSE p \in P : src[p].key = key].value ELSE NoList

LEMMA ValueIs ==
    ASSUME NEW P, NEW src, Sound(P, src), NEW key, key # Garbled,
           NEW p \in P, src[p].key = key
    PROVE  ValueIn(P, src, key) = src[p].value
  <1> DEFINE q == CHOOSE r \in P : src[r].key = key
  <1>1. q \in P /\ src[q].key = key
    OBVIOUS
  <1>2. ValueIn(P, src, key) = src[q].value
    BY DEF ValueIn
  <1> HIDE DEF q
  <1>3. q = p
    BY <1>1 DEF Sound
  <1> QED
    BY <1>2, <1>3

LEMMA HoldsSame ==
    ASSUME NEW chains, NEW P, NEW src, Holds(chains, P, src), Sound(P, src)
    PROVE  /\ Sound(Places(chains), Source(chains))
           /\ \A key : key # Garbled =>
                 ValueIn(Places(chains), Source(chains), key) = ValueIn(P, src, key)
           /\ IsFiniteSet(P) => /\ IsFiniteSet(Places(chains))
                                /\ Cardinality(Places(chains)) = Cardinality(P)
  <1> DEFINE Q == Places(chains)
             out == Source(chains)
  <1>1. PICK g \in Bijection(P, Q) : \A p \in P : EntryAt(chains, g[p]) = src[p]
    BY DEF Holds
  <1>2. \A q \in Q : out[q] = EntryAt(chains, q)
    BY DEF Source
  <1> HIDE DEF Q, out
  <1>3. /\ \A p \in P : g[p] \in Q /\ out[g[p]] = src[p]
        /\ \A p, q \in P : g[p] = g[q] => p = q
        /\ \A q \in Q : \E p \in P : g[p] = q
    BY <1>1, <1>2, Fun_BijectionProperties
  <1>4. Sound(Q, out)
    <2>1. ASSUME NEW q \in Q, out[q].key # Garbled
          PROVE  out[q].hash = Hash(out[q].key)
      <3>1. PICK p \in P : g[p] = q
        BY <1>3
      <3> QED
        BY <1>3, <2>1, <3>1 DEF Sound
    <2>2. ASSUME NEW q \in Q, NEW r \in Q, out[q].key = out[r].key, out[q].key # Garbled
          PROVE  q = r
      <3>1. PICK p \in P : g[p] = q
        BY <1>3
      <3>2. PICK s \in P : g[s] = r
        BY <1>3
      <3>3. src[p].key = src[s].key /\ src[p].key # Garbled
        BY <1>3, <2>2, <3>1, <3>2
      <3>4. p = s
        BY <3>3 DEF Sound
      <3> QED
        BY <3>1, <3>2, <3>4
    <2>3. ASSUME NEW q \in Q, out[q].key # Garbled
          PROVE  Len(out[q].key) < KeyRoom
      <3>1. PICK p \in P : g[p] = q
        BY <1>3
      <3> QED
        BY <1>3, <2>3, <3>1 DEF Sound
    <2> QED
      BY <2>1, <2>2, <2>3 DEF Sound
  <1>5. ASSUME NEW key, key # Garbled
        PROVE  ValueIn(Q, out, key) = ValueIn(P, src, key)
    <2>1. CASE \E p \in P : src[p].key = key
      <3>1. PICK p \in P : src[p].key = key
        BY <2>1
      <3>2. ValueIn(P, src, key) = src[p].value
        BY <1>5, <3>1, ValueIs
      <3>3. g[p] \in Q /\ out[g[p]] = src[p]
        BY <1>3
      <3>4. ValueIn(Q, out, key) = out[g[p]].value
        BY <1>4, <1>5, <3>1, <3>3, ValueIs
      <3> QED
        BY <3>2, <3>3, <3>4
    <2>2. CASE ~ \E p \in P : src[p].key = key
      <3>1. ~ \E q \in Q : out[q].key = key
        BY <1>3, <2>2
      <3> QED
        BY <2>2, <3>1 DEF ValueIn
    <2> QED
      BY <2>1, <2>2
  <1>6. IsFiniteSet(P) => IsFiniteSet(Q) /\ Cardinality(Q) = Cardinality(P)
    <2>1. ExistsBijection(P, Q)
      BY <1>1, Zenon DEF ExistsBijection
    <2> QED
      BY <2>1, FS_Bijection
  <1> QED
    BY <1>4, <1>5, <1>6 DEF Q, out

LEMMA HoldsAgain ==
    ASSUME NEW first, NEW P, NEW src, Holds(first, P, src),
           NEW second, Holds(second, Places(first), Source(first))
    PROVE  Holds(second, P, src)
  <1>1. PICK f \in Bijection(P, Places(first)) : \A p \in P : EntryAt(first, f[p]) = src[p]
    BY DEF Holds
  <1>2. PICK g \in Bijection(Places(first), Places(second)) :
            \A q \in Places(first) : EntryAt(second, g[q]) = Source(first)[q]
    BY DEF Holds
  <1> DEFINE h == [p \in P |-> g[f[p]]]
  <1>3. h \in Bijection(P, Places(second))
    BY <1>1, <1>2, Fun_BijTransitive
  <1>4. ASSUME NEW p \in P
        PROVE  EntryAt(second, h[p]) = src[p]
    <2>1. f[p] \in Places(first)
      BY <1>1, Fun_BijectionProperties
    <2>2. Source(first)[f[p]] = EntryAt(first, f[p])
      BY <2>1 DEF Source
    <2> QED
      BY <1>1, <1>2, <2>1, <2>2
  <1> HIDE DEF h
  <1> QED
    BY <1>3, <1>4 DEF Holds

LEMMA HoldsItself ==
    ASSUME NEW chains, NEW src, \A p \in Places(chains) : EntryAt(chains, p) = src[p]
    PROVE  Holds(chains, Places(chains), src)
  <1> DEFINE P == Places(chains)
             h == [p \in P |-> p]
  <1>1. h \in [P -> P] /\ \A p \in P : h[p] = p
    OBVIOUS
  <1> HIDE DEF P, h
  <1>2. h \in Bijection(P, P)
    BY <1>1, Fun_IsBij
  <1> QED
    BY <1>1, <1>2 DEF Holds, P

(* The place of the first entry of a chain that matches a key.             *)
LEMMA MatchPlace ==
    ASSUME NEW T, NEW chain \in Seq(T), NEW key
    PROVE  \/ MatchIn(chain, key) = 0 /\ \A k \in 1 .. Len(chain) : ~ Matches(chain[k], key)
           \/ /\ MatchIn(chain, key) \in 1 .. Len(chain)
              /\ Matches(chain[MatchIn(chain, key)], key)
  <1> DEFINE I == {k \in 1 .. Len(chain) : Matches(chain[k], key)}
  <1>1. I \subseteq Nat /\ \A k : k \in I <=> k \in 1 .. Len(chain) /\ Matches(chain[k], key)
    OBVIOUS
  <1>2. MatchIn(chain, key) = IF I # {} THEN Min(I) ELSE 0
    BY DEF MatchIn, SelectInSeq
  <1> HIDE DEF I
  <1>3. CASE I = {}
    BY <1>1, <1>2, <1>3
  <1>4. CASE I # {}
    <2>1. \E k \in I : \A m \in I : k <= m
      BY <1>1, <1>4, LeastNumber
    <2>2. MatchIn(chain, key) \in I
      BY <1>2, <1>4, <2>1 DEF Min
    <2> QED
      BY <1>1, <2>2
  <1> QED
    BY <1>3, <1>4

MapOK(K, E, t) ==
    /\ ChainsTyped(K, E, t.hash_map)
    /\ InChainOfHash(t.hash_map)
    /\ Sound(Places(t.hash_map), Source(t.hash_map))
    /\ IsFiniteSet(Places(t.hash_map))
    /\ t.size = Cardinality(Places(t.hash_map))
    /\ 4 * t.size <= 3 * Len(t.hash_map)

(* hash_map_find looks into one chain only, which is the one of the key.   *)
LEMMA MatchIs ==
    ASSUME NEW K, NEW E, NEW chains, ChainsTyped(K, E, chains), InChainOfHash(chains),
           Sound(Places(chains), Source(chains)),
           NEW key, key # Garbled, Hash(key) \in Nat,
           NEW i, i = Index(Hash(key), Len(chains)),
           NEW at, at = MatchIn(chains[i], key)
    PROVE  /\ i \in 1 .. Len(chains)
           /\ at # 0 => /\ at \in 1 .. Len(chains[i])
                        /\ <<i, at>> \in Places(chains)
                        /\ chains[i][at].key = key
                        /\ chains[i][at].hash = Hash(key)
                        /\ Source(chains)[<<i, at>>] = chains[i][at]
  <1> DEFINE H == HashEntry(K, E)
  <1>1. chains \in Seq(Seq(H)) /\ Len(chains) > 0 /\ Len(chains) \in Nat
    BY DEF ChainsTyped
  <1>2. i \in 1 .. Len(chains)
    BY <1>1, IndexIs
  <1>4. chains[i] \in Seq(H)
    BY <1>1, <1>2
  <1>5. \/ at = 0 /\ \A k \in 1 .. Len(chains[i]) : ~ Matches(chains[i][k], key)
        \/ at \in 1 .. Len(chains[i]) /\ Matches(chains[i][at], key)
    BY <1>4, MatchPlace
  <1> HIDE DEF H
  <1>6. ASSUME at # 0
        PROVE  /\ at \in 1 .. Len(chains[i])
               /\ <<i, at>> \in Places(chains)
               /\ chains[i][at].key = key /\ chains[i][at].hash = Hash(key)
               /\ Source(chains)[<<i, at>>] = chains[i][at]
    <2>1. at \in 1 .. Len(chains[i]) /\ Matches(chains[i][at], key)
      BY <1>5, <1>6
    <2>2. <<i, at>> \in Places(chains)
      BY <1>1, <1>2, <2>1, PlacesAre
    <2> QED
      BY <2>1, <2>2 DEF Matches, Source, EntryAt
  <1> QED
    BY <1>2, <1>6

LEMMA NoMatch ==
    ASSUME NEW K, NEW E, NEW chains, ChainsTyped(K, E, chains), InChainOfHash(chains),
           Sound(Places(chains), Source(chains)),
           NEW key, key # Garbled, Hash(key) \in Nat,
           MatchIn(chains[Index(Hash(key), Len(chains))], key) = 0,
           NEW p \in Places(chains)
    PROVE  Source(chains)[p].key # key
  <1> DEFINE H == HashEntry(K, E)
             i == Index(Hash(key), Len(chains))
  <1>1. chains \in Seq(Seq(H)) /\ Len(chains) > 0 /\ Len(chains) \in Nat
    BY DEF ChainsTyped
  <1>2. i \in 1 .. Len(chains) /\ (Hash(key) % Len(chains)) + 1 = i
    BY <1>1, IndexIs DEF Index
  <1>3. MatchIn(chains[i], key) = 0
    OBVIOUS
  <1> HIDE DEF H, i
  <1>4. chains[i] \in Seq(H)
    BY <1>1, <1>2
  <1>5. \A k \in 1 .. Len(chains[i]) : ~ Matches(chains[i][k], key)
    BY <1>3, <1>4, MatchPlace
  <1> SUFFICES ASSUME Source(chains)[p].key = key
               PROVE  FALSE
    OBVIOUS
  <1>6. p = <<p[1], p[2]>> /\ p[1] \in 1 .. Len(chains) /\ p[2] \in 1 .. Len(chains[p[1]])
    BY <1>1, PlacesAre
  <1>7. Source(chains)[p] = EntryAt(chains, p) /\ EntryAt(chains, p) = chains[p[1]][p[2]]
    BY DEF Source, EntryAt
  <1>8. EntryAt(chains, p).key = key /\ EntryAt(chains, p).hash = Hash(key)
    BY <1>7 DEF Sound
  <1>9. p[1] = i
    BY <1>2, <1>8 DEF InChainOfHash, Index
  <1>10. Matches(chains[i][p[2]], key)
    BY <1>7, <1>8, <1>9 DEF Matches
  <1> QED
    BY <1>5, <1>6, <1>9, <1>10

LEMMA MapFind ==
    ASSUME NEW K, NEW E, NEW t, MapOK(K, E, t), NEW key, key # Garbled, Hash(key) \in Nat
    PROVE  hash_map_find(t, key) = ValueIn(Places(t.hash_map), Source(t.hash_map), key)
  <1> DEFINE chains == t.hash_map
             i == Index(Hash(key), Len(chains))
             at == MatchIn(chains[i], key)
  <1>1. /\ ChainsTyped(K, E, chains) /\ InChainOfHash(chains)
        /\ Sound(Places(chains), Source(chains))
    BY DEF MapOK
  <1>2. hash_map_find(t, key) = IF at = 0 THEN NoList ELSE chains[i][at].value
    BY DEF hash_map_find
  <1> HIDE DEF chains
  <1>3. /\ at = 0 => \A p \in Places(chains) : Source(chains)[p].key # key
        /\ at # 0 => /\ <<i, at>> \in Places(chains)
                     /\ chains[i][at].key = key
                     /\ Source(chains)[<<i, at>>] = chains[i][at]
    BY <1>1, MatchIs, NoMatch
  <1> HIDE DEF i, at
  <1>4. CASE at = 0
    BY <1>2, <1>3, <1>4 DEF ValueIn, chains
  <1>5. CASE at # 0
    <2>1. ValueIn(Places(chains), Source(chains), key) = Source(chains)[<<i, at>>].value
      BY <1>1, <1>3, <1>5, ValueIs
    <2> QED
      BY <1>2, <1>3, <1>5, <2>1 DEF chains
  <1> QED
    BY <1>4, <1>5

(* What an insertion leaves to be found.                                   *)
FoundAfter(before, after, key, e) ==
    \A name : /\ name # Garbled
              /\ Hash(name) \in Nat
              /\ name = key => Len(key) < KeyRoom
              => hash_map_find(after, name)
                     = IF name = key THEN Append(hash_map_find(before, name), e)
                                     ELSE hash_map_find(before, name)

(* The entry of the key gets one more value.                               *)
LEMMA InsertPresent ==
    ASSUME NEW K, NEW E, NEW t, MapOK(K, E, t), NEW key, key # Garbled, Hash(key) \in Nat,
           NEW e \in E, NEW after,
           LET i == Index(Hash(key), Len(t.hash_map))
               at == MatchIn(t.hash_map[i], key)
           IN  /\ at # 0
               /\ after.size = t.size
               /\ after.hash_map = [t.hash_map EXCEPT ![i][at].value = Append(@, e)]
    PROVE  MapOK(K, E, after) /\ FoundAfter(t, after, key, e)
  <1> DEFINE chains == t.hash_map
             i == Index(Hash(key), Len(chains))
             at == MatchIn(chains[i], key)
             H == HashEntry(K, E)
             old == chains[i][at]
             new == [old EXCEPT !.value = Append(@, e)]
             chain == [chains[i] EXCEPT ![at] = new]
             changed == after.hash_map
             x == <<i, at>>
             P == Places(chains)
             src == Source(chains)
             out == Source(changed)
  <1>1. /\ ChainsTyped(K, E, chains) /\ InChainOfHash(chains) /\ Sound(P, src)
        /\ IsFiniteSet(P) /\ t.size = Cardinality(P) /\ 4 * t.size <= 3 * Len(chains)
    BY DEF MapOK
  <1>2. changed = [chains EXCEPT ![i] = chain] /\ after.size = t.size /\ at # 0
    OBVIOUS
  <1> HIDE DEF chains, changed
  <1>3. /\ i \in 1 .. Len(chains) /\ at \in 1 .. Len(chains[i]) /\ x \in P
        /\ old.key = key /\ old.hash = Hash(key) /\ src[x] = old
    BY <1>1, <1>2, MatchIs
  <1>4. chains \in Seq(Seq(H)) /\ Len(chains) > 0
    BY <1>1 DEF ChainsTyped
  <1> HIDE DEF i, at
  <1>5. chains[i] \in Seq(H)
    BY <1>3, <1>4
  <1> HIDE DEF H
  <1>6. old \in H
    BY <1>3, <1>5, ElementOfSeq
  <1> HIDE DEF old
  <1>7. /\ new \in H /\ new.key = old.key /\ new.hash = old.hash
        /\ new.value = Append(old.value, e)
    <2>1. old \in [hash: Nat, key: K, value: Seq(E)]
      BY <1>6 DEF H, HashEntry
    <2>2. Append(old.value, e) \in Seq(E)
      <3>1. old.value \in Seq(E)
        BY <2>1
      <3> QED
        BY <3>1, AppendProperties
    <2> DEFINE list == Append(old.value, e)
    <2>3. new = [old EXCEPT !.value = list]
      OBVIOUS
    <2> HIDE DEF new, list
    <2>4. new = [hash |-> old.hash, key |-> old.key, value |-> list]
      BY <2>1, <2>3
    <2>5. new.hash = old.hash /\ new.key = old.key /\ new.value = Append(old.value, e)
      BY <2>4 DEF list
    <2>6. new \in [hash: Nat, key: K, value: Seq(E)]
      BY <2>1, <2>2, <2>4 DEF list
    <2> QED
      BY <2>5, <2>6 DEF H, HashEntry
  <1> HIDE DEF new
  <1>8. /\ chain \in Seq(H) /\ Len(chain) = Len(chains[i]) /\ chain[at] = new
        /\ \A b \in 1 .. Len(chains[i]) : b # at => chain[b] = chains[i][b]
    BY <1>3, <1>5, <1>7
  <1> HIDE DEF chain
  <1>9. /\ changed \in Seq(Seq(H)) /\ Len(changed) = Len(chains) /\ changed[i] = chain
        /\ \A a \in 1 .. Len(chains) : a # i => changed[a] = chains[a]
    BY <1>2, <1>3, <1>4, <1>8
  <1>10. ASSUME NEW p \in P, p # x
         PROVE  p \in Places(changed) /\ EntryAt(changed, p) = src[p]
    <2>1. p = <<p[1], p[2]>> /\ p[1] \in 1 .. Len(chains) /\ p[2] \in 1 .. Len(chains[p[1]])
      BY <1>4, PlacesAre
    <2>2. src[p] = chains[p[1]][p[2]]
      BY DEF Source, EntryAt
    <2>3. p[1] # i \/ p[2] # at
      BY <1>10, <2>1
    <2>4. Len(changed[p[1]]) = Len(chains[p[1]]) /\ changed[p[1]][p[2]] = chains[p[1]][p[2]]
      BY <1>8, <1>9, <2>1, <2>3
    <2>5. <<p[1], p[2]>> \in Places(changed)
      BY <1>9, <2>1, <2>4, PlacesAre
    <2> QED
      BY <2>1, <2>2, <2>4, <2>5 DEF EntryAt
  <1>11. x \in Places(changed) /\ EntryAt(changed, x) = new
    <2>1. i \in 1 .. Len(changed) /\ at \in 1 .. Len(changed[i])
      BY <1>3, <1>8, <1>9
    <2>2. x \in Places(changed)
      BY <1>9, <2>1, PlacesAre
    <2> QED
      BY <1>8, <1>9, <2>2 DEF EntryAt
  <1>12. Places(changed) = P
    <2>1. ASSUME NEW p \in Places(changed)
          PROVE  p \in P
      <3>1. p = <<p[1], p[2]>> /\ p[1] \in 1 .. Len(changed) /\ p[2] \in 1 .. Len(changed[p[1]])
        BY <1>9, PlacesAre
      <3>2. p[1] \in 1 .. Len(chains) /\ p[2] \in 1 .. Len(chains[p[1]])
        BY <1>8, <1>9, <3>1
      <3>3. <<p[1], p[2]>> \in P
        BY <1>4, <3>2, PlacesAre
      <3> QED
        BY <3>1, <3>3
    <2> QED
      BY <1>10, <1>11, <2>1
  <1>13. \A p \in P : out[p] = EntryAt(changed, p)
    BY <1>12 DEF Source
  <1>14. x[1] = i
    OBVIOUS
  <1> HIDE DEF P, src, out, x
  <1>15. out[x] = new /\ \A p \in P : p # x => out[p] = src[p]
    <2>1. x \in P /\ EntryAt(changed, x) = new
      BY <1>3, <1>11
    <2>2. out[x] = new
      BY <1>13, <2>1
    <2>3. \A p \in P : p # x => out[p] = src[p]
      BY <1>10, <1>13
    <2> QED
      BY <2>2, <2>3
  <1>16. Sound(P, out)
    <2>1. \A p \in P : out[p].key = src[p].key /\ out[p].hash = src[p].hash
      <3>1. src[x] = old /\ old.key = new.key /\ old.hash = new.hash
        BY <1>3, <1>7
      <3> QED
        BY <1>15, <3>1
    <2> QED
      BY <1>1, <2>1 DEF Sound
  <1>17. InChainOfHash(changed)
    <2> SUFFICES ASSUME NEW p \in P
                 PROVE  Index(EntryAt(changed, p).hash, Len(changed)) = p[1]
      BY <1>12 DEF InChainOfHash
    <2>1. src[p] = EntryAt(chains, p)
      BY DEF P, src, Source
    <2>2. Index(src[p].hash, Len(chains)) = p[1]
      BY <1>1, <2>1 DEF InChainOfHash, P
    <2>3. out[p].hash = src[p].hash
      BY <1>3, <1>7, <1>15
    <2> QED
      BY <1>9, <1>13, <2>2, <2>3
  <1>18. MapOK(K, E, after)
    BY <1>1, <1>2, <1>4, <1>9, <1>12, <1>16, <1>17
       DEF MapOK, ChainsTyped, H, out, changed
  <1>19. ASSUME NEW name, name # Garbled, Hash(name) \in Nat
         PROVE  hash_map_find(after, name)
                    = IF name = key THEN Append(hash_map_find(t, name), e)
                                    ELSE hash_map_find(t, name)
    <2>1. hash_map_find(t, name) = ValueIn(P, src, name)
      BY <1>19, MapFind DEF P, src, chains
    <2>2. hash_map_find(after, name) = ValueIn(P, out, name)
      BY <1>12, <1>18, <1>19, MapFind DEF out, changed
    <2>3. CASE name = key
      <3>1. ValueIn(P, src, name) = old.value
        BY <1>1, <1>3, <1>19, <2>3, ValueIs
      <3>2. ValueIn(P, out, name) = new.value
        BY <1>3, <1>7, <1>15, <1>16, <1>19, <2>3, ValueIs
      <3> QED
        BY <1>7, <2>1, <2>2, <2>3, <3>1, <3>2
    <2>4. CASE name # key
      <3>1. \A p \in P : out[p].key = src[p].key
        BY <1>3, <1>7, <1>15
      <3>2. CASE \E p \in P : src[p].key = name
        <4>1. PICK p \in P : src[p].key = name
          BY <3>2
        <4>2. p # x /\ out[p] = src[p]
          BY <1>3, <1>15, <2>4, <4>1
        <4>3. ValueIn(P, src, name) = src[p].value
          BY <1>1, <1>19, <4>1, ValueIs
        <4>4. ValueIn(P, out, name) = out[p].value
          BY <1>16, <1>19, <4>1, <4>2, ValueIs
        <4> QED
          BY <2>1, <2>2, <2>4, <4>2, <4>3, <4>4
      <3>3. CASE ~ \E p \in P : src[p].key = name
        BY <2>1, <2>2, <2>4, <3>1, <3>3 DEF ValueIn
      <3> QED
        BY <3>2, <3>3
    <2> QED
      BY <2>3, <2>4
  <1> QED
    BY <1>18, <1>19 DEF FoundAfter

(* A key that is not there gets an entry, and the table grows if it is     *)
(* full.                                                                   *)
LEMMA InsertAbsent ==
    ASSUME NEW K, NEW E, NEW t, MapOK(K, E, t), NEW key \in K, Garbled \in K,
           key # Garbled, Hash(key) \in Nat, NEW e \in E, NEW after,
           LET i == Index(Hash(key), Len(t.hash_map))
               grown == Moved(t.hash_map, hash_map_entry_ctor(key, e))
           IN  /\ MatchIn(t.hash_map[i], key) = 0
               /\ after.size = t.size + 1
               /\ after.hash_map = IF 4 * (t.size + 1) > 3 * Len(t.hash_map)
                                     THEN hash_map_rehash(grown, 2 * Len(t.hash_map))
                                     ELSE grown
    PROVE  MapOK(K, E, after) /\ FoundAfter(t, after, key, e)
  <1> DEFINE chains == t.hash_map
             H == HashEntry(K, E)
             new == hash_map_entry_ctor(key, e)
             grown == Moved(chains, new)
             changed == after.hash_map
             P == Places(chains)
             x == <<0, 0>>
             Q == P \union {x}
             src == Source(chains)
             all == [p \in Q |-> IF p = x THEN new ELSE src[p]]
  <1>1. /\ ChainsTyped(K, E, chains) /\ InChainOfHash(chains) /\ Sound(P, src)
        /\ IsFiniteSet(P) /\ t.size = Cardinality(P) /\ 4 * t.size <= 3 * Len(chains)
    BY DEF MapOK
  <1>2. /\ after.size = t.size + 1
        /\ changed = IF 4 * (t.size + 1) > 3 * Len(chains)
                       THEN hash_map_rehash(grown, 2 * Len(chains)) ELSE grown
    OBVIOUS
  <1>3. \A p \in P : src[p].key # key
    <2> DEFINE i == Index(Hash(key), Len(chains))
               at == MatchIn(chains[i], key)
    <2>1. at = 0
      OBVIOUS
    <2>2. ChainsTyped(K, E, chains) /\ InChainOfHash(chains) /\ Sound(P, src)
      BY <1>1
    <2>3. i = Index(Hash(key), Len(chains)) /\ at = MatchIn(chains[i], key)
      OBVIOUS
    <2> HIDE DEF chains, i, at
    <2> SUFFICES ASSUME NEW p \in P
                 PROVE  src[p].key # key
      BY Zenon
    <2> QED
      BY <2>1, <2>2, <2>3, NoMatch
  <1> HIDE DEF chains, changed
  <1>4. /\ new \in H /\ new.hash = Hash(key) /\ new.value = <<e>>
        /\ new.key = IF Len(key) < KeyRoom THEN key ELSE Garbled
    BY DEF hash_map_entry_ctor, HashEntry
  <1>5. chains \in Seq(Seq(H)) /\ Len(chains) > 0 /\ Len(chains) \in Nat
    BY <1>1 DEF ChainsTyped
  <1>6. x \notin P
    BY <1>5, PlacesAre
  <1> HIDE DEF new
  <1>7. all[x] = new /\ \A p \in P : all[p] = src[p]
    BY <1>6
  <1>8. Holds(chains, P, all)
    <2>1. \A p \in P : EntryAt(chains, p) = all[p]
      BY <1>7 DEF Source
    <2> HIDE DEF all
    <2> QED
      BY <2>1, HoldsItself
  <1> HIDE DEF all, src
  <1>9. /\ ChainsTyped(K, E, grown) /\ Len(grown) = Len(chains)
        /\ InChainOfHash(grown) /\ Holds(grown, Q, all)
    <2>1. ChainsTyped(K, E, grown) /\ Len(grown) = Len(chains)
      BY <1>1, <1>4, MovedIs
    <2>2. InChainOfHash(grown) /\ Holds(grown, Q, all)
      <3> HIDE DEF P, x
      <3> QED
        BY <1>1, <1>4, <1>6, <1>7, <1>8, MovedHolds
    <2> QED
      BY <2>1, <2>2
  <1> HIDE DEF grown, P, x
  <1>10. IsFiniteSet(Q) /\ Cardinality(Q) = t.size + 1 /\ t.size \in Nat
    <2>1. Cardinality(P) \in Nat
      BY <1>1, FS_CardinalityType
    <2> QED
      BY <1>1, <1>6, <2>1, FS_AddElement
  <1>11. Sound(Q, all)
    <2>1. ASSUME NEW p \in Q, all[p].key # Garbled
          PROVE  all[p].hash = Hash(all[p].key)
      BY <1>1, <1>4, <1>7, <2>1 DEF Sound
    <2>2. ASSUME NEW p \in Q, NEW q \in Q, all[p].key = all[q].key, all[p].key # Garbled
          PROVE  p = q
      BY <1>1, <1>3, <1>4, <1>7, <2>2 DEF Sound
    <2>3. ASSUME NEW p \in Q, all[p].key # Garbled
          PROVE  Len(all[p].key) < KeyRoom
      BY <1>1, <1>4, <1>7, <2>3 DEF Sound
    <2> QED
      BY <2>1, <2>2, <2>3 DEF Sound
  <1> HIDE DEF Q
  <1>12. /\ ChainsTyped(K, E, changed) /\ InChainOfHash(changed) /\ Holds(changed, Q, all)
         /\ 4 * (t.size + 1) <= 3 * Len(changed)
    <2>1. CASE 4 * (t.size + 1) > 3 * Len(chains)
      <3> DEFINE n == 2 * Len(chains)
      <3>1. n \in Nat /\ n > 0 /\ 4 * (t.size + 1) <= 3 * n
        BY <1>1, <1>5, <1>10
      <3>2. changed = hash_map_rehash(grown, n)
        BY <1>2, <2>1
      <3> HIDE DEF n
      <3>3. grown \in Seq(Seq(H))
        BY <1>9 DEF ChainsTyped
      <3>4. /\ ChainsTyped(K, E, changed) /\ Len(changed) = n /\ InChainOfHash(changed)
            /\ Holds(changed, Places(grown), Source(grown))
        BY <3>1, <3>2, <3>3, RehashHolds
      <3>5. Holds(changed, Q, all)
        BY <1>9, <3>4, HoldsAgain
      <3> QED
        BY <3>1, <3>4, <3>5
    <2>2. CASE ~ 4 * (t.size + 1) > 3 * Len(chains)
      <3>1. changed = grown
        BY <1>2, <2>2
      <3>2. 4 * (t.size + 1) <= 3 * Len(chains)
        BY <1>5, <1>10, <2>2
      <3> QED
        BY <1>9, <3>1, <3>2
    <2> QED
      BY <2>1, <2>2
  <1>13. /\ Sound(Places(changed), Source(changed)) /\ IsFiniteSet(Places(changed))
         /\ Cardinality(Places(changed)) = t.size + 1
         /\ \A name : name # Garbled =>
               ValueIn(Places(changed), Source(changed), name) = ValueIn(Q, all, name)
    BY <1>10, <1>11, <1>12, HoldsSame
  <1>14. MapOK(K, E, after)
    BY <1>2, <1>12, <1>13 DEF MapOK, changed
  <1>15. ASSUME NEW name, name # Garbled, Hash(name) \in Nat, name = key => Len(key) < KeyRoom
         PROVE  hash_map_find(after, name)
                    = IF name = key THEN Append(hash_map_find(t, name), e)
                                    ELSE hash_map_find(t, name)
    <2>1. hash_map_find(t, name) = ValueIn(P, src, name)
      BY <1>15, MapFind DEF P, src, chains
    <2>2. hash_map_find(after, name) = ValueIn(Q, all, name)
      BY <1>13, <1>14, <1>15, MapFind DEF changed
    <2>3. CASE name = key
      <3>1. ValueIn(P, src, name) = NoList
        BY <1>3, <2>3 DEF ValueIn
      <3>2. x \in Q /\ all[x].key = name
        BY <1>4, <1>7, <1>15, <2>3 DEF Q
      <3>3. ValueIn(Q, all, name) = <<e>>
        <4>1. ValueIn(Q, all, name) = all[x].value
          BY <1>11, <1>15, <3>2, ValueIs
        <4> QED
          BY <1>4, <1>7, <4>1
      <3>4. Append(NoList, e) = <<e>>
        BY DEF NoList
      <3> QED
        BY <2>1, <2>2, <2>3, <3>1, <3>3, <3>4
    <2>4. CASE name # key
      <3>1. all[x].key # name
        BY <1>4, <1>7, <1>15, <2>4
      <3>2. CASE \E p \in P : src[p].key = name
        <4>1. PICK p \in P : src[p].key = name
          BY <3>2
        <4>2. ValueIn(P, src, name) = src[p].value
          BY <1>1, <1>15, <4>1, ValueIs
        <4>3. p \in Q /\ all[p] = src[p]
          BY <1>7 DEF Q
        <4>4. ValueIn(Q, all, name) = all[p].value
          BY <1>11, <1>15, <4>1, <4>3, ValueIs
        <4> QED
          BY <2>1, <2>2, <2>4, <4>2, <4>3, <4>4
      <3>3. CASE ~ \E p \in P : src[p].key = name
        <4>1. ~ \E p \in Q : all[p].key = name
          BY <1>7, <3>1, <3>3 DEF Q
        <4> QED
          BY <2>1, <2>2, <2>4, <3>3, <4>1 DEF ValueIn
      <3> QED
        BY <3>2, <3>3
    <2> QED
      BY <2>3, <2>4
  <1> QED
    BY <1>14, <1>15 DEF FoundAfter

-----------------------------------------------------------------------------
(* The cache: names up to TrieLength are in the trie, the others in the    *)
(* hash map.                                                               *)

LEMMA AllowedWhole ==
    ASSUME NEW name, KeyAllowed(name)
    PROVE  name # Garbled
  <1> SUFFICES ASSUME KeyAllowed(Garbled)
               PROVE  FALSE
    OBVIOUS
  <1>1. Garbled = <<0>>
    BY DEF Garbled
  <1>2. Garbled # <<>> /\ Garbled[1] = 0
    BY <1>1
  <1> QED
    BY <1>2 DEF KeyAllowed

TableOK(T, E, t) ==
    /\ t = [trie |-> t.trie, hash_map |-> t.hash_map, size |-> t.size]
    /\ TrieOK(Seq(T), E, t.trie)
    /\ MapOK(Seq(T), E, t)

LEMMA MapInsert ==
    ASSUME NEW T, NEW E, NEW t, TableOK(T, E, t), NEW key \in Seq(T), 0 \in T,
           key # Garbled, Hash(key) \in Nat, NEW e \in E
    PROVE  /\ TableOK(T, E, hash_map_insert(t, key, e))
           /\ hash_map_insert(t, key, e).trie = t.trie
           /\ FoundAfter(t, hash_map_insert(t, key, e), key, e)
  <1> DEFINE i == Index(Hash(key), Len(t.hash_map))
             at == MatchIn(t.hash_map[i], key)
             grown == Moved(t.hash_map, hash_map_entry_ctor(key, e))
             after == hash_map_insert(t, key, e)
             added == [t.hash_map EXCEPT ![i][at].value = Append(@, e)]
             next == IF 4 * (t.size + 1) > 3 * Len(t.hash_map)
                       THEN hash_map_rehash(grown, 2 * Len(t.hash_map)) ELSE grown
  <1>1. /\ t = [trie |-> t.trie, hash_map |-> t.hash_map, size |-> t.size]
        /\ MapOK(Seq(T), E, t) /\ TrieOK(Seq(T), E, t.trie)
    BY DEF TableOK
  <1>2. Garbled \in Seq(T)
    BY DEF Garbled
  <1>3. CASE at # 0
    <2>1. after = [t EXCEPT !.hash_map[i][at].value = Append(@, e)]
      BY <1>3, Zenon DEF hash_map_insert
    <2> HIDE DEF i, at, after
    <2>2. after = [trie |-> t.trie, hash_map |-> added, size |-> t.size]
      BY <1>1, <2>1
    <2>3. /\ after.hash_map = added /\ after.size = t.size /\ after.trie = t.trie
          /\ after = [trie |-> after.trie, hash_map |-> after.hash_map, size |-> after.size]
      BY <2>2
    <2>4. MapOK(Seq(T), E, after) /\ FoundAfter(t, after, key, e)
      BY <1>1, <1>3, <2>3, InsertPresent DEF i, at
    <2> QED
      BY <1>1, <2>3, <2>4 DEF TableOK, after
  <1>4. CASE at = 0
    <2>1. after = [t EXCEPT !.size = t.size + 1, !.hash_map = next]
      BY <1>4, Zenon DEF hash_map_insert
    <2> HIDE DEF i, at, after, next
    <2>2. after = [trie |-> t.trie, hash_map |-> next, size |-> t.size + 1]
      BY <1>1, <2>1
    <2>3. /\ after.hash_map = next /\ after.size = t.size + 1 /\ after.trie = t.trie
          /\ after = [trie |-> after.trie, hash_map |-> after.hash_map, size |-> after.size]
      BY <2>2
    <2>4. MapOK(Seq(T), E, after) /\ FoundAfter(t, after, key, e)
      BY <1>1, <1>2, <1>4, <2>3, InsertAbsent DEF i, at, next
    <2> QED
      BY <1>1, <2>3, <2>4 DEF TableOK, after
  <1> QED
    BY <1>3, <1>4

(* After a put: one more entry for its name, no other list changed.        *)
Stores(K, before, after, key, e) ==
    \A name \in K :
        KeyAllowed(name) /\ Hash(name) \in Nat /\ Len(name) < KeyRoom =>
            cache_find(after, name) = IF name = key THEN Append(cache_find(before, name), e)
                                                    ELSE cache_find(before, name)

LEMMA CacheStores ==
    ASSUME NEW T, T \subseteq Nat, 0 \in T, NEW E, NEW t, TableOK(T, E, t), NEW key \in Seq(T),
           KeyAllowed(key), Hash(key) \in Nat, NEW e \in E,
           NEW after, after = cache_insert(t, key, e)
    PROVE  TableOK(T, E, after) /\ Stores(Seq(T), t, after, key, e)
  <1>1. \A name \in Seq(T) : KeyAllowed(name) => name # Garbled
    BY AllowedWhole
  <1>2. \A u : \A name : KeyAllowed(name) =>
            cache_find(u, name) = IF Len(name) <= TrieLength THEN trie_find(u.trie, name)
                                                             ELSE hash_map_find(u, name)
    BY DEF cache_find
  <1>3. TrieOK(Seq(T), E, t.trie)
    BY DEF TableOK
  <1>4. CASE Len(key) <= TrieLength
    <2>1. after = [t EXCEPT !.trie = trie_insert(@, key, e)]
      BY <1>4 DEF cache_insert
    <2>2. after = [trie |-> trie_insert(t.trie, key, e), hash_map |-> t.hash_map,
                   size |-> t.size]
      BY <2>1 DEF TableOK
    <2>3. /\ after.trie = trie_insert(t.trie, key, e)
          /\ after.hash_map = t.hash_map /\ after.size = t.size
          /\ after = [trie |-> after.trie, hash_map |-> after.hash_map, size |-> after.size]
      BY <2>2
    <2>4. /\ TrieOK(Seq(T), E, after.trie)
          /\ trie_find(after.trie, key) = Append(trie_find(t.trie, key), e)
          /\ \A name \in Seq(T) :
                name # key => trie_find(after.trie, name) = trie_find(t.trie, name)
      <3> DEFINE before == t.trie
                 later == after.trie
      <3>1. TrieOK(Seq(T), E, before) /\ later = trie_insert(before, key, e)
        BY <1>3, <2>3
      <3> HIDE DEF before, later
      <3>2. TrieOK(Seq(T), E, later) /\ TrieAppended(Seq(T), before, later, key, e)
        BY <3>1, TrieInsert
      <3> QED
        BY <3>2 DEF before, later, TrieAppended
    <2>5. TableOK(T, E, after)
      BY <2>3, <2>4 DEF TableOK, MapOK
    <2>6. \A name : hash_map_find(after, name) = hash_map_find(t, name)
      BY <2>3 DEF hash_map_find
    <2> QED
      BY <1>2, <1>4, <2>4, <2>5, <2>6 DEF Stores
  <1>5. CASE ~ Len(key) <= TrieLength
    <2>1. after = hash_map_insert(t, key, e)
      BY <1>5 DEF cache_insert
    <2>2. /\ TableOK(T, E, after) /\ after.trie = t.trie
          /\ FoundAfter(t, after, key, e)
      BY <1>1, <2>1, MapInsert
    <2>3. ASSUME NEW name \in Seq(T), KeyAllowed(name), Hash(name) \in Nat, Len(name) < KeyRoom
          PROVE  cache_find(after, name)
                     = IF name = key THEN Append(cache_find(t, name), e) ELSE cache_find(t, name)
      <3>1. CASE Len(name) <= TrieLength
        BY <1>2, <1>5, <2>2, <2>3, <3>1
      <3>2. CASE ~ Len(name) <= TrieLength
        <4>1. name # Garbled /\ (name = key => Len(key) < KeyRoom)
          BY <1>1, <2>3
        <4>2. hash_map_find(after, name)
                  = IF name = key THEN Append(hash_map_find(t, name), e)
                                  ELSE hash_map_find(t, name)
          BY <2>2, <2>3, <4>1 DEF FoundAfter
        <4> QED
          BY <1>2, <2>3, <3>2, <4>2
      <3> QED
        BY <3>1, <3>2
    <2> QED
      BY <2>2, <2>3 DEF Stores
  <1> QED
    BY <1>4, <1>5

(* After cache_insert the list of its name has one more entry, at its end, *)
(* and the lists of all other names are as they were.                      *)
THEOREM CacheInsert ==
    ASSUME NEW T, T \subseteq Nat, 0 \in T, NEW E, NEW t, TableOK(T, E, t), NEW key \in Seq(T),
           KeyAllowed(key), Hash(key) \in Nat, NEW e \in E
    PROVE  /\ TableOK(T, E, cache_insert(t, key, e))
           /\ \A name \in Seq(T) :
                 KeyAllowed(name) /\ Hash(name) \in Nat /\ Len(name) < KeyRoom =>
                     cache_find(cache_insert(t, key, e), name)
                         = IF name = key THEN Append(cache_find(t, name), e)
                                         ELSE cache_find(t, name)
  <1> DEFINE after == cache_insert(t, key, e)
  <1>1. after = cache_insert(t, key, e)
    OBVIOUS
  <1> HIDE DEF after
  <1>2. TableOK(T, E, after) /\ Stores(Seq(T), t, after, key, e)
    BY <1>1, CacheStores
  <1> QED
    BY <1>2 DEF Stores, after

(* Before anything is stored.                                              *)
LEMMA EmptyOK ==
    ASSUME NEW T, NEW E, InitCapacity \in Nat \ {0}
    PROVE  /\ TableOK(T, E, EmptyTable)
           /\ \A name \in Seq(T) :
                 KeyAllowed(name) /\ Hash(name) \in Nat =>
                     cache_find(EmptyTable, name) = NoList
  <1> DEFINE trie == [path \in {<<>>} |-> NoList]
             chains == [k \in 1 .. InitCapacity |-> <<>>]
             t == EmptyTable
             H == HashEntry(Seq(T), E)
  <1>1. t.trie = trie /\ t.hash_map = chains /\ t.size = 0
    BY DEF EmptyTable
  <1>2. t = [trie |-> t.trie, hash_map |-> t.hash_map, size |-> t.size]
    BY DEF EmptyTable
  <1>3. DOMAIN trie = {<<>>} /\ trie[<<>>] = NoList /\ NoList \in Seq(E)
    BY DEF NoList
  <1>4. /\ chains \in Seq(Seq(H)) /\ Len(chains) = InitCapacity
        /\ \A k \in 1 .. InitCapacity : chains[k] = <<>>
    OBVIOUS
  <1> HIDE DEF t, trie, chains, H
  <1>5. TrieOK(Seq(T), E, trie)
    <2>1. Suffixes(<<>>) = {<<>>}
      BY DEF Suffixes
    <2> QED
      BY <1>3, <2>1 DEF TrieOK
  <1>6. Places(chains) = {}
    <2>1. \A p \in Places(chains) : p[1] \in 1 .. Len(chains) /\ p[2] \in 1 .. Len(chains[p[1]])
      BY <1>4, PlacesAre
    <2>2. \A k \in 1 .. InitCapacity : Len(chains[k]) = 0
      BY <1>4
    <2> QED
      BY <1>4, <2>1, <2>2
  <1>7. MapOK(Seq(T), E, t)
    <2>1. ChainsTyped(Seq(T), E, chains)
      BY <1>4 DEF ChainsTyped, H
    <2>2. InChainOfHash(chains) /\ Sound(Places(chains), Source(chains))
      BY <1>6 DEF InChainOfHash, Sound
    <2>3. IsFiniteSet(Places(chains)) /\ Cardinality(Places(chains)) = 0
      BY <1>6, FS_EmptySet
    <2>4. 4 * 0 <= 3 * Len(chains)
      BY <1>4
    <2> QED
      BY <1>1, <2>1, <2>2, <2>3, <2>4 DEF MapOK
  <1>8. TableOK(T, E, t)
    BY <1>1, <1>2, <1>5, <1>7 DEF TableOK
  <1>9. ASSUME NEW name \in Seq(T), KeyAllowed(name), Hash(name) \in Nat
        PROVE  cache_find(t, name) = NoList
    <2>1. trie_find(trie, name) = NoList
      <3>1. CASE name = <<>>
        BY <1>3, <3>1 DEF trie_find
      <3>2. CASE name # <<>>
        <4>1. <<>> \in Suffixes(name)
          BY DEF Suffixes
        <4>2. name \in Suffixes(name)
          BY <4>1, SuffixOfSuffix
        <4> QED
          BY <1>3, <3>2, <4>2 DEF trie_find
      <3> QED
        BY <3>1, <3>2
    <2>2. hash_map_find(t, name) = NoList
      <3>1. name # Garbled
        BY <1>9, AllowedWhole
      <3>2. hash_map_find(t, name) = ValueIn(Places(chains), Source(chains), name)
        BY <1>1, <1>7, <1>9, <3>1, MapFind
      <3> QED
        BY <1>6, <3>2 DEF ValueIn
    <2> QED
      BY <1>1, <2>1, <2>2 DEF cache_find
  <1> QED
    BY <1>8, <1>9 DEF t

(* A name with no room for it behind the key is never found, however often *)
(* it is stored (hash_map.h:64-102).                                       *)
LEMMA TooLongNotFound ==
    ASSUME NEW T, NEW E, NEW t, TableOK(T, E, t), NEW name \in Seq(T), Hash(name) \in Nat,
           ~ Len(name) < KeyRoom, ~ Len(name) <= TrieLength
    PROVE  cache_find(t, name) = NoList
  <1>1. ASSUME KeyAllowed(name)
        PROVE  hash_map_find(t, name) = NoList
    <2> DEFINE P == Places(t.hash_map)
               src == Source(t.hash_map)
    <2>1. MapOK(Seq(T), E, t)
      BY DEF TableOK
    <2>2. name # Garbled
      BY <1>1, AllowedWhole
    <2>3. hash_map_find(t, name) = ValueIn(P, src, name)
      BY <2>1, <2>2, MapFind
    <2>4. Sound(P, src)
      BY <2>1 DEF MapOK
    <2> HIDE DEF P, src
    <2>5. ~ \E p \in P : src[p].key = name
      BY <2>2, <2>4 DEF Sound
    <2> QED
      BY <2>3, <2>5 DEF ValueIn
  <1> QED
    BY <1>1 DEF cache_find

(* A list found is a list of entries.                                      *)
LEMMA FindTyped ==
    ASSUME NEW T, NEW E, NEW t, TableOK(T, E, t), NEW name \in Seq(T), Hash(name) \in Nat
    PROVE  cache_find(t, name) \in Seq(E)
  <1>1. NoList \in Seq(E)
    BY DEF NoList
  <1>2. trie_find(t.trie, name) \in Seq(E)
    <2>1. TrieOK(Seq(T), E, t.trie)
      BY DEF TableOK
    <2>2. <<>> \in Suffixes(name)
      BY DEF Suffixes
    <2>3. name \in Suffixes(name)
      BY <2>2, SuffixOfSuffix
    <2> QED
      BY <1>1, <2>1, <2>3 DEF trie_find, TrieOK
  <1>3. ASSUME KeyAllowed(name)
        PROVE  hash_map_find(t, name) \in Seq(E)
    <2> DEFINE chains == t.hash_map
               P == Places(chains)
               src == Source(chains)
    <2>1. MapOK(Seq(T), E, t)
      BY DEF TableOK
    <2>2. name # Garbled
      BY <1>3, AllowedWhole
    <2>3. hash_map_find(t, name) = ValueIn(P, src, name)
      BY <2>1, <2>2, MapFind
    <2>4. chains \in Seq(Seq(HashEntry(Seq(T), E))) /\ Sound(P, src)
      BY <2>1 DEF MapOK, ChainsTyped
    <2>5. ASSUME NEW p \in P
          PROVE  src[p].value \in Seq(E)
      <3>1. src[p] = EntryAt(chains, p)
        BY DEF Source
      <3>2. EntryAt(chains, p) \in HashEntry(Seq(T), E)
        BY <2>4, PlacesAre
      <3> QED
        BY <3>1, <3>2 DEF HashEntry
    <2> HIDE DEF P, src
    <2>6. CASE \E p \in P : src[p].key = name
      <3>1. PICK p \in P : src[p].key = name
        BY <2>6
      <3>2. ValueIn(P, src, name) = src[p].value
        BY <2>2, <2>4, <3>1, ValueIs
      <3> QED
        BY <2>3, <2>5, <3>2
    <2>7. CASE ~ \E p \in P : src[p].key = name
      BY <1>1, <2>3, <2>7 DEF ValueIn
    <2> QED
      BY <2>6, <2>7
  <1> QED
    BY <1>1, <1>2, <1>3 DEF cache_find

(* The chains of a table as HashMapSound describes them.                   *)
LEMMA TableChains ==
    ASSUME NEW T, NEW E, NEW t, TableOK(T, E, t)
    PROVE  /\ \A k \in DOMAIN t.hash_map : \A e \in Range(t.hash_map[k]) :
                 Index(e.hash, Len(t.hash_map)) = k
           /\ t.size = Cardinality(Places(t.hash_map))
           /\ 4 * t.size <= 3 * Len(t.hash_map)
  <1> DEFINE chains == t.hash_map
             H == HashEntry(Seq(T), E)
  <1>1. MapOK(Seq(T), E, t)
    BY DEF TableOK
  <1>2. chains \in Seq(Seq(H)) /\ InChainOfHash(chains)
    BY <1>1 DEF MapOK, ChainsTyped
  <1>3. t.size = Cardinality(Places(chains)) /\ 4 * t.size <= 3 * Len(chains)
    BY <1>1 DEF MapOK
  <1> HIDE DEF chains, H
  <1>4. ASSUME NEW k \in DOMAIN chains, NEW e \in Range(chains[k])
        PROVE  Index(e.hash, Len(chains)) = k
    <2>1. k \in 1 .. Len(chains)
      BY <1>2
    <2>2. chains[k] \in Seq(H)
      BY <1>2, <2>1
    <2>3. PICK b \in DOMAIN chains[k] : e = chains[k][b]
      BY DEF Range
    <2>4. b \in 1 .. Len(chains[k])
      BY <2>2
    <2>5. <<k, b>> \in Places(chains)
      BY <1>2, <2>1, <2>4, PlacesAre
    <2>6. EntryAt(chains, <<k, b>>) = e /\ <<k, b>>[1] = k
      BY <2>3 DEF EntryAt
    <2> QED
      BY <1>2, <2>5, <2>6 DEF InChainOfHash
  <1> QED
    BY <1>3, <1>4 DEF chains
=============================================================================

------------------------------ MODULE NameTable ------------------------------
(***************************************************************************)
(* How the cache finds the list of a name: cache.c chooses by the length   *)
(* of the name between the trie of trie.h and the hash map of hash_map.h.  *)
(* A table is the pair of them; a list is the sequence of its entries, and *)
(* there is no list that has never had an entry.  Names are sequences of   *)
(* octets; the callers hold the lock.                                      *)
(*                                                                         *)
(* The octets of a name after the first are taken to be ones the trie has  *)
(* a child for, and the room behind an entry's key large enough for the    *)
(* name: the code checks neither, and who uses this module assumes both    *)
(* (NamesAssumption of Messages).                                          *)
(***************************************************************************)
EXTENDS Integers, Sequences, SequencesExt

CONSTANTS
    TrieLength,     \* 16: longer names are in the hash map
    KeyRoom,        \* 48: where the pointer to the list begins, from the key's start
    InitCapacity,   \* 16
    Hash(_)         \* the hash of a name

NoList == <<>>
Garbled == <<0>>    \* no name: a name holds no zero

(* The test of cache_insert and cache_find looks at the first octet only.  *)
KeyAllowed(key) == key = <<>> \/ key[1] \in 33 .. 127

EmptyTable ==
    [trie |-> [path \in {<<>>} |-> NoList],
     hash_map |-> [k \in 1 .. InitCapacity |-> <<>>],
     size |-> 0]

-----------------------------------------------------------------------------
(* trie.h.  A name is read from its end, so that a node is reached by the  *)
(* rest of the name behind it.                                             *)
trie_insert(trie, key, e) ==
    [path \in DOMAIN trie \union Suffixes(key) |->
        LET data == IF path \in DOMAIN trie THEN trie[path] ELSE NoList
        IN  IF path = key THEN Append(data, e) ELSE data]

trie_find(trie, key) ==
    IF Suffixes(key) \subseteq DOMAIN trie THEN trie[key] ELSE NoList

(* hash_map.h.  The table is a sequence of chains of entries.              *)
Index(key_hash, capacity) == (key_hash % capacity) + 1

Matches(entry, key) == entry.hash = Hash(key) /\ entry.key = key
MatchIn(chain, key) == SelectInSeq(chain, LAMBDA entry : Matches(entry, key))

(* hash_map_entry_ctor: the pointer to the list overwrites what the key    *)
(* has in its place, or the zero behind the key.                           *)
hash_map_entry_ctor(key, e) ==
    [hash |-> Hash(key),
     key |-> IF Len(key) < KeyRoom THEN key ELSE Garbled,
     value |-> <<e>>]

(* A fault: the chain is walked, but all entries stay in the old place.    *)
rehash_in_place(table, capacity) ==
    [k \in 1 .. capacity |-> IF k <= Len(table) THEN table[k] ELSE <<>>]

(* Where the entries of a table are: the chain and the place in it.        *)
Places(table) == UNION {{k} \X DOMAIN table[k] : k \in DOMAIN table}

(* An entry goes to the front of the chain of its hash.                    *)
Moved(table, entry) ==
    [table EXCEPT ![Index(entry.hash, Len(table))] = <<entry>> \o @]

(* hash_map_rehash: chain by chain, entry by entry.                        *)
ChainMoved(table, chain) ==
    LET upTo[k \in 0 .. Len(chain)] ==
            IF k = 0 THEN table ELSE Moved(upTo[k - 1], chain[k])
    IN  upTo[Len(chain)]

hash_map_rehash(table, capacity) ==
    LET upTo[k \in 0 .. Len(table)] ==
            IF k = 0 THEN [c \in 1 .. capacity |-> <<>>]
                     ELSE ChainMoved(upTo[k - 1], table[k])
    IN  upTo[Len(table)]

hash_map_insert(t, key, e) ==
    LET table == t.hash_map
        idx == Index(Hash(key), Len(table))
        at == MatchIn(table[idx], key)
        size == t.size + 1
        grown == Moved(table, hash_map_entry_ctor(key, e))
    IN  IF at # 0
          THEN [t EXCEPT !.hash_map[idx][at].value = Append(@, e)]
          ELSE [t EXCEPT !.size = size,
                         !.hash_map = IF 4 * size > 3 * Len(table)
                                        THEN hash_map_rehash(grown, 2 * Len(table))
                                        ELSE grown]

hash_map_find(t, key) ==
    LET chain == t.hash_map[Index(Hash(key), Len(t.hash_map))]
        at == MatchIn(chain, key)
    IN  IF at = 0 THEN NoList ELSE chain[at].value

-----------------------------------------------------------------------------
(* cache.c.                                                                *)
cache_insert(t, key, e) ==
    IF ~ KeyAllowed(key)
      THEN t
      ELSE IF Len(key) <= TrieLength
             THEN [t EXCEPT !.trie = trie_insert(@, key, e)]
             ELSE hash_map_insert(t, key, e)

(* A fault: the border between the two is one off.                         *)
cache_find_short(t, key) ==
    IF ~ KeyAllowed(key)
      THEN NoList
      ELSE IF Len(key) < TrieLength THEN trie_find(t.trie, key) ELSE hash_map_find(t, key)

cache_find(t, key) ==
    IF ~ KeyAllowed(key)
      THEN NoList
      ELSE IF Len(key) <= TrieLength THEN trie_find(t.trie, key) ELSE hash_map_find(t, key)
=============================================================================

----------------------------- MODULE CacheRace -----------------------------
(***************************************************************************)
(* Threads on one list of the cache.  cache_find releases the read lock    *)
(* before it returns the list, so that handle_read_cache refreshes and     *)
(* reads it without a lock, while cache_insert appends to it under the     *)
(* write lock.  Each access to a node's links, and each node freed, is a   *)
(* step.  The list has a head node without a record (list_ctor).           *)
(*                                                                         *)
(* What happens once a thread has used a node that is freed is undefined   *)
(* and not modelled further.  A freed node's memory is not used again; the *)
(* counting of size, which nothing reads, is part of the step next to it.  *)
(***************************************************************************)
EXTENDS Integers, FiniteSets

CONSTANTS
    Thread,
    Initial,        \* the records in the list at the start
    MaxNode,        \* bound: list nodes allocated
    NoThread

NULL == 0
Head == 1
Node == 1 .. MaxNode
Record == Node \ {Head}

ASSUME CacheRaceAssumption ==
    /\ Initial \in Nat /\ MaxNode \in Nat /\ Initial < MaxNode
    /\ NoThread \notin Thread

VARIABLES
    next, prev,     \* the links of the nodes
    tail, size,     \* the members of the list
    allocated,      \* nodes 1 .. allocated have been allocated
    freed,
    expired,        \* the records whose time has run out
    writer,         \* the thread that holds the write lock
    pc,
    cur,            \* the node a thread is at, or inserts
    after,          \* the local "next" of list_update
    due,            \* what is expired at the time list_update has read
    counted, sent,  \* the records a thread has counted and put into its answer
    owed,           \* history: the records to answer with when the list is found
    overlapped,     \* history: a thread was in list_erase beside another one
    misused         \* history: a freed node has been used

listVars == <<next, prev, tail, size, freed>>
localVars == <<cur, after, due, counted, sent, owed>>
vars == <<listVars, allocated, expired, writer, pc, localVars, overlapped, misused>>

Erasing == {"unlinkNext", "unlinkPrev", "unlinkTail", "free"}
Inserting == {"linkNext", "linkPrev", "setTail"}
Reading == {"visit", "count", "test", "dump", "send"}

TypeOK ==
    /\ next \in [Node -> Node \union {NULL}]
    /\ prev \in [Node -> Node \union {NULL}]
    /\ tail \in Node /\ size \in Int
    /\ allocated \in 1 .. MaxNode
    /\ freed \subseteq Record /\ expired \subseteq Record
    /\ writer \in Thread \union {NoThread}
    /\ pc \in [Thread -> {"idle"} \union Erasing \union Inserting \union Reading]
    /\ cur \in [Thread -> Node] /\ after \in [Thread -> Node \union {NULL}]
    /\ due \in [Thread -> SUBSET Record]
    /\ counted \in [Thread -> SUBSET Record] /\ sent \in [Thread -> SUBSET Record]
    /\ owed \in [Thread -> SUBSET Record]
    /\ overlapped \in BOOLEAN /\ misused \in BOOLEAN

Init ==
    /\ next = [n \in Node |-> IF n <= Initial THEN n + 1 ELSE NULL]
    /\ prev = [n \in Node |-> IF n <= Initial + 1 THEN n - 1 ELSE NULL]
    /\ tail = Initial + 1 /\ size = Initial
    /\ allocated = Initial + 1
    /\ freed = {} /\ expired = {}
    /\ writer = NoThread
    /\ pc = [t \in Thread |-> "idle"]
    /\ cur = [t \in Thread |-> Head] /\ after = [t \in Thread |-> NULL]
    /\ due = [t \in Thread |-> {}]
    /\ counted = [t \in Thread |-> {}] /\ sent = [t \in Thread |-> {}]
    /\ owed = [t \in Thread |-> {}]
    /\ overlapped = FALSE /\ misused = FALSE

-----------------------------------------------------------------------------
(* A step of thread t, which uses the nodes in "used".                     *)
Goes(t, from, to, used) ==
    /\ ~ misused
    /\ pc[t] = from
    /\ pc' = [pc EXCEPT ![t] = to]
    /\ misused' = (used \intersect freed # {})
    /\ overlapped' = (overlapped \/ \E e \in Thread : pc'[e] \in Erasing
                                        /\ \E o \in Thread \ {e} : pc'[o] # "idle")

(* A walk goes on at node n, or the next part begins at the head.          *)
Moves(t, n) == cur' = [cur EXCEPT ![t] = IF n = NULL THEN Head ELSE n]
Stage(n, stage, following) == IF n = NULL THEN following ELSE stage

(* cache_insert and list_push_back: under the write lock.                  *)
LockAndLink(t) ==
    /\ Goes(t, "idle", "linkNext", {})
    /\ writer = NoThread
    /\ allocated < MaxNode
    /\ writer' = t
    /\ allocated' = allocated + 1
    /\ cur' = [cur EXCEPT ![t] = allocated + 1]
    /\ UNCHANGED <<listVars, expired, after, due, counted, sent, owed>>

LinkNext(t) ==
    /\ Goes(t, "linkNext", "linkPrev", {tail})
    /\ next' = [next EXCEPT ![tail] = cur[t]]
    /\ UNCHANGED <<prev, tail, size, freed, allocated, expired, writer, localVars>>

LinkPrev(t) ==
    /\ Goes(t, "linkPrev", "setTail", {})
    /\ prev' = [prev EXCEPT ![cur[t]] = tail]
    /\ UNCHANGED <<next, tail, size, freed, allocated, expired, writer, localVars>>

SetTail(t) ==
    /\ Goes(t, "setTail", "idle", {})
    /\ tail' = cur[t]
    /\ size' = size + 1
    /\ writer' = NoThread
    /\ cur' = [cur EXCEPT ![t] = Head]
    /\ UNCHANGED <<next, prev, freed, allocated, expired, after, due, counted, sent, owed>>

-----------------------------------------------------------------------------
(* The nodes met from the head on, in k steps and in all.                  *)
Onward(nodes) == nodes \union ({next[n] : n \in nodes} \ {NULL})
Met[k \in 0 .. MaxNode] == IF k = 0 THEN {Head} ELSE Onward(Met[k - 1])
Linked == Met[MaxNode]

(* handle_read_cache: the list is found, and the time is read.             *)
Find(t) ==
    /\ Goes(t, "idle", "visit", {})
    /\ writer = NoThread
    /\ due' = [due EXCEPT ![t] = expired]
    /\ owed' = [owed EXCEPT ![t] = {n \in Record \ expired : n \in Linked}]
    /\ UNCHANGED <<listVars, allocated, expired, writer, cur, after, counted, sent>>

(* list_update: the next node is remembered, the one at hand kept or       *)
(* erased.                                                                 *)
Keep(t) ==
    /\ Goes(t, "visit", Stage(next[cur[t]], "visit", "count"), {cur[t]})
    /\ cur[t] \notin due[t]
    /\ Moves(t, next[cur[t]])
    /\ UNCHANGED <<listVars, allocated, expired, writer, after, due, counted, sent, owed>>

Erase(t) ==
    /\ Goes(t, "visit", "unlinkNext", {cur[t]})
    /\ cur[t] \in due[t]
    /\ after' = [after EXCEPT ![t] = next[cur[t]]]
    /\ UNCHANGED <<listVars, allocated, expired, writer, cur, due, counted, sent, owed>>

ErasingGoes(t, from, to, used) ==
    /\ Goes(t, from, to, {cur[t]} \union used)
    /\ UNCHANGED <<size, allocated, expired, writer, localVars>>

(* A fault: what comes behind the node is cut off.                         *)
CutOff(t) ==
    /\ ErasingGoes(t, "unlinkNext", "unlinkPrev", {prev[cur[t]]})
    /\ next' = [next EXCEPT ![prev[cur[t]]] = NULL]
    /\ UNCHANGED <<prev, tail, freed>>

UnlinkNext(t) ==
    /\ ErasingGoes(t, "unlinkNext", "unlinkPrev", {prev[cur[t]]})
    /\ next' = [next EXCEPT ![prev[cur[t]]] = next[cur[t]]]
    /\ UNCHANGED <<prev, tail, freed>>

UnlinkPrev(t) ==
    LET n == next[cur[t]]
    IN  /\ ErasingGoes(t, "unlinkPrev", "unlinkTail", {n} \ {NULL})
        /\ prev' = IF n = NULL THEN prev ELSE [prev EXCEPT ![n] = prev[cur[t]]]
        /\ UNCHANGED <<next, tail, freed>>

(* Two faults: the tail is left behind, and it is moved the wrong way.     *)
LeaveTail(t) ==
    /\ ErasingGoes(t, "unlinkTail", "free", {})
    /\ UNCHANGED <<next, prev, tail, freed>>

TailForward(t) ==
    /\ ErasingGoes(t, "unlinkTail", "free", {})
    /\ tail' = IF cur[t] = tail THEN next[cur[t]] ELSE tail
    /\ UNCHANGED <<next, prev, freed>>

UnlinkTail(t) ==
    /\ ErasingGoes(t, "unlinkTail", "free", {})
    /\ tail' = IF cur[t] = tail THEN prev[cur[t]] ELSE tail
    /\ UNCHANGED <<next, prev, freed>>

Free(t) ==
    /\ Goes(t, "free", Stage(after[t], "visit", "count"), {cur[t]})
    /\ freed' = freed \union {cur[t]}
    /\ size' = size - 1
    /\ Moves(t, after[t])
    /\ after' = [after EXCEPT ![t] = NULL]
    /\ UNCHANGED <<next, prev, tail, allocated, expired, writer, due, counted, sent, owed>>

-----------------------------------------------------------------------------
(* The three walks that count the records, look for a blocked name and     *)
(* write the answer.                                                       *)
Walks(t, stage, following) ==
    /\ Goes(t, stage, Stage(next[cur[t]], stage, following), {cur[t]})
    /\ Moves(t, next[cur[t]])
    /\ UNCHANGED <<listVars, allocated, expired, writer, after, due, owed>>

Count(t) ==
    LET all == counted[t] \union ({cur[t]} \ {Head})
    IN  /\ Walks(t, "count", IF all = {} THEN "idle" ELSE "test")
        /\ counted' = [counted EXCEPT ![t] = all]
        /\ UNCHANGED sent

Test(t) ==
    /\ Walks(t, "test", "dump")
    /\ UNCHANGED <<counted, sent>>

Dump(t) ==
    /\ Walks(t, "dump", "send")
    /\ sent' = [sent EXCEPT ![t] = @ \union ({cur[t]} \ {Head})]
    /\ UNCHANGED counted

Send(t) ==
    /\ Goes(t, "send", "idle", {})
    /\ counted' = [counted EXCEPT ![t] = {}]
    /\ sent' = [sent EXCEPT ![t] = {}]
    /\ due' = [due EXCEPT ![t] = {}]
    /\ owed' = [owed EXCEPT ![t] = {}]
    /\ UNCHANGED <<listVars, allocated, expired, writer, cur, after>>

(* Time passes.                                                            *)
Expire(n) ==
    /\ n \in Record \ expired /\ n <= allocated
    /\ expired' = expired \union {n}
    /\ UNCHANGED <<listVars, allocated, writer, pc, localVars, overlapped, misused>>

Insert(t) == LockAndLink(t) \/ LinkNext(t) \/ LinkPrev(t) \/ SetTail(t)

Update(t) ==
    Keep(t) \/ Erase(t) \/ UnlinkNext(t) \/ UnlinkPrev(t) \/ UnlinkTail(t) \/ Free(t)

Answer(t) == Find(t) \/ Count(t) \/ Test(t) \/ Dump(t) \/ Send(t)

Next ==
    \/ \E t \in Thread : Insert(t) \/ Update(t) \/ Answer(t)
    \/ \E n \in Record : Expire(n)

Spec == Init /\ [][Next]_vars

-----------------------------------------------------------------------------
(* Properties.                                                             *)

(* No thread uses a node that list_update has freed (cache.h:12).          *)
FreedUnused == ~ misused

(* Only erasing beside another thread does harm: a thread that is inside   *)
(* list_erase alone frees nothing that is used later, by itself, by a      *)
(* thread that appends afterwards or by one that finds the list afterwards *)
(* (list.h:101-138, handle.c:56).                                          *)
FreedUnusedApart == misused => overlapped

(* Between the calls the list is whole, however threads that append,       *)
(* threads that read and the erasing of a thread alone have been           *)
(* interleaved: its nodes are those appended and not freed, its tail, its  *)
(* size and the links back agree with them (list.h:91-117).                *)
ListWhole ==
    ~ overlapped /\ writer = NoThread /\ (\A t \in Thread : pc[t] \notin Erasing) =>
        /\ Linked = (1 .. allocated) \ freed
        /\ tail \in Linked /\ next[tail] = NULL
        /\ size + 1 = Cardinality(Linked)
        /\ \A n \in Linked : next[n] # NULL => prev[next[n]] = n

(* An answer is written from the list in three walks without a lock, while *)
(* others append: it holds every record that was there and not expired     *)
(* when the list was found, and at least the records the header counts     *)
(* (handle.c:62-74, 143-153).                                              *)
NothingMissed ==
    \A t \in Thread : ~ overlapped /\ pc[t] = "send" =>
        /\ owed[t] \subseteq sent[t]
        /\ counted[t] \subseteq sent[t]
        /\ sent[t] \intersect due[t] = {}
=============================================================================

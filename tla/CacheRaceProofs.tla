--------------------------- MODULE CacheRaceProofs ---------------------------
(***************************************************************************)
(* Proofs about CacheRace, for any number of threads and any length of the *)
(* list.  For the first part nothing follows the list from its head: that  *)
(* every link of a node in the list leads to a node in the list is enough. *)
(***************************************************************************)
EXTENDS CacheRace, NumberFacts, FiniteSetTheorems

(* The node that is allocated but not linked back, and the one that is     *)
(* unlinked but not freed.                                                 *)
HalfNew ==
    {n \in Node : \E t \in Thread : pc[t] \in {"linkNext", "linkPrev"} /\ cur[t] = n}
Removed ==
    {n \in Node : \E t \in Thread : pc[t] \in {"unlinkTail", "free"} /\ cur[t] = n}
Members == (1 .. allocated) \ (freed \union Removed \union HalfNew)

(* What holds however the threads overlap.                                 *)
WriterInserts == \A t \in Thread : pc[t] \in Inserting <=> writer = t

NewestInserted ==
    \A t \in Thread : pc[t] \in Inserting => cur[t] = allocated /\ cur[t] # Head

DueLinked ==
    /\ freed \subseteq 1 .. allocated /\ expired \subseteq 1 .. allocated
    /\ \A t \in Thread :
          /\ due[t] \subseteq (1 .. allocated) \ HalfNew
          /\ pc[t] \in Erasing => cur[t] \in due[t]

PrevLinked ==
    \A n \in Record : n <= allocated /\ n \notin HalfNew => prev[n] \in Node

BaseInv == TypeOK /\ WriterInserts /\ NewestInserted /\ DueLinked /\ PrevLinked

(* What holds until a thread is in list_erase beside another one.          *)
EraserAlone ==
    \A e, t \in Thread : pc[e] \in Erasing /\ t # e => pc[t] = "idle"

Unallocated == \A n \in Node : n > allocated => next[n] = NULL

Inserted ==
    \A t \in Thread : pc[t] \in Inserting =>
        /\ cur[t] \notin freed
        /\ next[cur[t]] = NULL
        /\ next[tail] = IF pc[t] = "linkNext" THEN NULL ELSE cur[t]
        /\ pc[t] = "setTail" => prev[cur[t]] = tail

Erased ==
    \A e \in Thread : pc[e] \in Erasing =>
        LET c == cur[e]
        IN  /\ c \notin freed
            /\ after[e] = next[c]
            /\ next[c] = NULL \/ next[c] \in Members \ {Head}
            /\ pc[e] \in {"unlinkNext", "unlinkPrev"} => c \in Members
            /\ pc[e] = "unlinkPrev" => next[prev[c]] = next[c]
            /\ pc[e] = "unlinkTail" =>
                  prev[c] \in Members /\ (next[c] = NULL => next[prev[c]] = NULL)
            /\ pc[e] = "free" => tail # c

TailLinked ==
    /\ tail \in Members \/ \E e \in Thread : pc[e] = "unlinkTail" /\ tail = cur[e]
    /\ writer = NoThread => next[tail] = NULL

Bypassed(n) == \E e \in Thread : pc[e] = "unlinkPrev" /\ n = cur[e]

Forward ==
    \A n \in Members :
        \/ next[n] = NULL \/ (next[n] \in HalfNew /\ n = tail)
        \/ next[n] \in Members \ {Head} /\ prev[next[n]] = n
        \/ \E e \in Thread : pc[e] = "unlinkPrev" /\ n = prev[cur[e]]

Backward ==
    \A n \in Members \ {Head} :
        /\ prev[n] \in Members /\ prev[n] < n
        /\ next[prev[n]] = n \/ Bypassed(n)

Walkers ==
    \A t \in Thread :
        /\ pc[t] \notin {"unlinkTail", "free"} => cur[t] \in Members \union HalfNew
        /\ pc[t] \in {"idle", "send"} => cur[t] = Head

ApartInv ==
    /\ ~ misused
    /\ EraserAlone
    /\ Unallocated
    /\ Inserted
    /\ Erased
    /\ TailLinked
    /\ Forward
    /\ Backward
    /\ Walkers

RaceInv == BaseInv /\ (~ overlapped => ApartInv)

-----------------------------------------------------------------------------
(* What a step of a thread leaves alone, and what it says of the overlap.  *)

LEMMA NodeNumbers ==
    /\ MaxNode \in Nat \ {0} /\ Head \in Node /\ Node \subseteq Nat
    /\ NULL \notin Node /\ Record \subseteq Node /\ Head \notin Record
  BY CacheRaceAssumption DEF Node, Head, NULL, Record

LEMMA ThreadFrame ==
    ASSUME TypeOK, NEW t \in Thread, Insert(t) \/ Update(t) \/ Answer(t)
    PROVE  /\ \A u \in Thread \ {t} :
                 /\ pc'[u] = pc[u] /\ cur'[u] = cur[u]
                 /\ after'[u] = after[u] /\ due'[u] = due[u]
           /\ expired' = expired
           /\ ~ misused
           /\ ~ overlapped' => ~ overlapped /\ EraserAlone'
  <1>1. PICK from, to, used : Goes(t, from, to, used)
    <2>1. CASE Insert(t)
      BY <2>1 DEF Insert, LockAndLink, LinkNext, LinkPrev, SetTail
    <2>2. CASE Update(t)
      BY <2>2 DEF Update, Keep, Erase, ErasingGoes, UnlinkNext, UnlinkPrev,
                  UnlinkTail, Free
    <2>3. CASE Answer(t)
      BY <2>3 DEF Answer, Find, Walks, Count, Test, Dump, Send
    <2> QED
      BY <2>1, <2>2, <2>3
  <1>2. /\ ~ misused
        /\ ~ overlapped' => ~ overlapped /\ EraserAlone'
        /\ \A u \in Thread \ {t} : pc'[u] = pc[u]
    BY <1>1 DEF Goes, EraserAlone, TypeOK
  <1>3. /\ expired' = expired
        /\ \A u \in Thread \ {t} :
              cur'[u] = cur[u] /\ after'[u] = after[u] /\ due'[u] = due[u]
    <2>1. CASE Insert(t)
      BY <2>1 DEF Insert, LockAndLink, LinkNext, LinkPrev, SetTail, localVars, TypeOK
    <2>2. CASE Update(t)
      BY <2>2 DEF Update, Keep, Erase, ErasingGoes, UnlinkNext, UnlinkPrev,
                  UnlinkTail, Free, Moves, localVars, TypeOK
    <2>3. CASE Answer(t)
      BY <2>3 DEF Answer, Find, Walks, Moves, Count, Test, Dump, Send, TypeOK
    <2> QED
      BY <2>1, <2>2, <2>3
  <1> QED
    BY <1>2, <1>3

(* The steps that only read the list.                                      *)
Looks(t) ==
    Find(t) \/ Keep(t) \/ Erase(t) \/ Count(t) \/ Test(t) \/ Dump(t) \/ Send(t)

Unlinks(t) == UnlinkNext(t) \/ UnlinkPrev(t) \/ UnlinkTail(t) \/ Free(t)

(* At most one node is half new, the newest one, and none is while nobody  *)
(* writes.                                                                 *)
LEMMA HalfNewNewest ==
    ASSUME BaseInv
    PROVE  /\ HalfNew \subseteq {allocated} \ {Head}
           /\ writer = NoThread => HalfNew = {}
  BY CacheRaceAssumption
     DEF BaseInv, WriterInserts, NewestInserted, HalfNew, Inserting, TypeOK

LEMMA LooksFrame ==
    ASSUME TypeOK, NEW t \in Thread, Looks(t)
    PROVE  /\ UNCHANGED <<listVars, allocated, expired, writer>>
           /\ pc[t] \in {"idle"} \union Reading
           /\ pc'[t] \in {"idle", "unlinkNext"} \union Reading
           /\ Insert(t) \/ Update(t) \/ Answer(t)
  <1>1. CASE Find(t) \/ Keep(t) \/ Erase(t) \/ Send(t)
    BY <1>1 DEF Find, Keep, Erase, Send, Goes, Stage, Reading, Update, Answer, TypeOK
  <1>2. CASE Count(t) \/ Test(t) \/ Dump(t)
    BY <1>2 DEF Count, Test, Dump, Walks, Goes, Stage, Reading, Answer, TypeOK
  <1> QED
    BY <1>1, <1>2 DEF Looks

LEMMA UnlinksFrame ==
    ASSUME TypeOK, NEW t \in Thread, Unlinks(t)
    PROVE  /\ UNCHANGED <<allocated, expired, writer, due>>
           /\ pc[t] \in Erasing
           /\ pc'[t] \in Erasing \union {"visit", "count"}
           /\ Insert(t) \/ Update(t) \/ Answer(t)
  <1>1. CASE Free(t)
    BY <1>1 DEF Free, Goes, Stage, Erasing, Update, TypeOK
  <1>2. CASE UnlinkNext(t) \/ UnlinkPrev(t) \/ UnlinkTail(t)
    BY <1>2 DEF UnlinkNext, UnlinkPrev, UnlinkTail, ErasingGoes, Goes, Erasing,
                localVars, Update, TypeOK
  <1> QED
    BY <1>1, <1>2 DEF Unlinks

LEMMA StepKinds ==
    ASSUME NEW t \in Thread, Insert(t) \/ Update(t) \/ Answer(t)
    PROVE  Insert(t) \/ Looks(t) \/ Unlinks(t)
  BY DEF Update, Answer, Looks, Unlinks

-----------------------------------------------------------------------------
(* However the threads overlap.                                            *)

LEMMA BaseInit == Init => BaseInv
  <1> SUFFICES ASSUME Init
               PROVE  BaseInv
    OBVIOUS
  <1> USE NodeNumbers, CacheRaceAssumption
  <1>1. TypeOK
    <2>1. next \in [Node -> Node \union {NULL}]
      BY DEF Init, Node, NULL
    <2>2. prev \in [Node -> Node \union {NULL}]
      BY DEF Init, Node, NULL
    <2>3. tail \in Node /\ size \in Int /\ allocated \in 1 .. MaxNode
      BY DEF Init, Node
    <2> QED
      BY <2>1, <2>2, <2>3 DEF Init, TypeOK
  <1>2. WriterInserts /\ NewestInserted /\ DueLinked
    BY DEF Init, WriterInserts, NewestInserted, DueLinked, Inserting, Erasing
  <1>3. PrevLinked
    BY DEF Init, PrevLinked, Node, Record, Head
  <1> QED
    BY <1>1, <1>2, <1>3 DEF BaseInv

LEMMA BaseInsert ==
    ASSUME BaseInv, NEW t \in Thread, Insert(t)
    PROVE  BaseInv'
  <1> USE NodeNumbers DEF BaseInv
  <1>1. CASE LockAndLink(t)
    <2>1. /\ allocated + 1 \in Record /\ allocated \in Nat
          /\ allocated' = allocated + 1 /\ cur'[t] = allocated + 1
          /\ HalfNew = {} /\ pc'[t] = "linkNext"
      BY <1>1, HalfNewNewest DEF LockAndLink, Goes, TypeOK, Node, Record, Head
    <2>2. TypeOK'
      BY <1>1, <2>1 DEF LockAndLink, Goes, TypeOK, listVars, Inserting, Node
    <2>3. WriterInserts' /\ NewestInserted'
      BY <1>1, <2>1, CacheRaceAssumption
         DEF LockAndLink, Goes, TypeOK, WriterInserts, NewestInserted, Inserting,
             Record
    <2>4. HalfNew' = {allocated + 1}
      BY <1>1, <2>1, <2>3 DEF LockAndLink, Goes, TypeOK, HalfNew, WriterInserts,
                              Inserting, NewestInserted
    <2>5. DueLinked' /\ PrevLinked'
      BY <1>1, <2>1, <2>4
         DEF LockAndLink, Goes, TypeOK, listVars, DueLinked, PrevLinked, Erasing,
             Record, Node
    <2> QED
      BY <2>2, <2>3, <2>5
  <1>2. CASE LinkNext(t)
    <2>1. TypeOK'
      BY <1>2 DEF LinkNext, Goes, TypeOK, localVars, Inserting
    <2>2. WriterInserts' /\ NewestInserted'
      BY <1>2 DEF LinkNext, Goes, TypeOK, localVars, Inserting, WriterInserts,
                  NewestInserted
    <2>3. HalfNew' = HalfNew
      BY <1>2 DEF LinkNext, Goes, TypeOK, localVars, HalfNew
    <2>4. DueLinked' /\ PrevLinked'
      BY <1>2, <2>3 DEF LinkNext, Goes, TypeOK, localVars, DueLinked, PrevLinked,
                        Erasing
    <2> QED
      BY <2>1, <2>2, <2>4
  <1>3. CASE LinkPrev(t)
    <2>1. TypeOK'
      BY <1>3 DEF LinkPrev, Goes, TypeOK, localVars, Inserting
    <2>2. WriterInserts' /\ NewestInserted'
      BY <1>3 DEF LinkPrev, Goes, TypeOK, localVars, Inserting, WriterInserts,
                  NewestInserted
    <2>3. HalfNew = {cur[t]} /\ HalfNew' = {}
      BY <1>3 DEF LinkPrev, Goes, TypeOK, localVars, HalfNew, WriterInserts,
                  Inserting
    <2>4. DueLinked' /\ PrevLinked'
      BY <1>3, <2>3 DEF LinkPrev, Goes, TypeOK, localVars, DueLinked, PrevLinked,
                        Erasing
    <2> QED
      BY <2>1, <2>2, <2>4
  <1>4. CASE SetTail(t)
    <2>1. TypeOK'
      BY <1>4 DEF SetTail, Goes, TypeOK, Inserting
    <2>2. WriterInserts' /\ NewestInserted'
      BY <1>4, CacheRaceAssumption
         DEF SetTail, Goes, TypeOK, Inserting, WriterInserts, NewestInserted
    <2>3. HalfNew' = HalfNew
      BY <1>4 DEF SetTail, Goes, TypeOK, HalfNew
    <2>4. DueLinked' /\ PrevLinked'
      BY <1>4, <2>3 DEF SetTail, Goes, TypeOK, DueLinked, PrevLinked, Erasing
    <2> QED
      BY <2>1, <2>2, <2>4
  <1> QED
    BY <1>1, <1>2, <1>3, <1>4 DEF Insert

LEMMA BaseLooks ==
    ASSUME BaseInv, NEW t \in Thread, Looks(t)
    PROVE  BaseInv'
  <1> USE NodeNumbers DEF BaseInv
  <1>1. /\ UNCHANGED <<listVars, allocated, expired, writer>>
        /\ pc[t] \in {"idle"} \union Reading
        /\ pc'[t] \in {"idle", "unlinkNext"} \union Reading
    BY LooksFrame
  <1>2. \A u \in Thread \ {t} :
            pc'[u] = pc[u] /\ cur'[u] = cur[u] /\ due'[u] = due[u]
    BY LooksFrame, ThreadFrame
  <1>3. TypeOK'
    <2>1. CASE Find(t)
      BY <2>1 DEF Find, Goes, TypeOK, listVars, Reading
    <2>2. CASE Erase(t)
      BY <2>2 DEF Erase, Goes, TypeOK, listVars, Erasing
    <2>7. CASE Send(t)
      BY <2>7 DEF Send, Goes, TypeOK, listVars
    <2>3. CASE Keep(t)
      BY <2>3 DEF Keep, Goes, Stage, Moves, TypeOK, listVars, Reading
    <2>4. CASE Count(t)
      <3>1. counted' \in [Thread -> SUBSET Record]
        BY <2>4 DEF Count, Walks, TypeOK, Record
      <3>2. pc' \in [Thread -> {"idle"} \union Erasing \union Inserting \union Reading]
        BY <2>4 DEF Count, Walks, Goes, Stage, TypeOK, Reading
      <3> QED
        BY <2>4, <3>1, <3>2 DEF Count, Walks, Goes, Moves, TypeOK, listVars
    <2>5. CASE Test(t)
      BY <2>5 DEF Test, Walks, Goes, Stage, Moves, TypeOK, listVars, Reading
    <2>6. CASE Dump(t)
      <3>1. sent' \in [Thread -> SUBSET Record]
        BY <2>6 DEF Dump, Walks, TypeOK, Record
      <3> QED
        BY <2>6, <3>1 DEF Dump, Walks, Goes, Stage, Moves, TypeOK, listVars, Reading
    <2> QED
      BY <2>1, <2>2, <2>3, <2>4, <2>5, <2>6, <2>7 DEF Looks
  <1>4. HalfNew' = HalfNew
    BY <1>1, <1>2 DEF HalfNew, Reading
  <1>5. WriterInserts' /\ NewestInserted'
    BY <1>1, <1>2 DEF WriterInserts, NewestInserted, Inserting, Reading
  <1>6. due'[t] = due[t] \/ due'[t] = {} \/ (due'[t] = expired /\ HalfNew = {})
    BY HalfNewNewest
       DEF Looks, Find, Keep, Erase, Count, Test, Dump, Walks, Send, TypeOK
  <1>7. pc'[t] \in Erasing => cur'[t] \in due'[t]
    BY <1>1 DEF Looks, Find, Keep, Erase, Count, Test, Dump, Walks, Send, Goes,
                Stage, Erasing, TypeOK
  <1>8. DueLinked'
    BY <1>1, <1>2, <1>4, <1>6, <1>7 DEF DueLinked, listVars
  <1>9. PrevLinked'
    BY <1>1, <1>4 DEF PrevLinked, listVars
  <1> QED
    BY <1>3, <1>5, <1>8, <1>9

LEMMA BaseUnlinks ==
    ASSUME BaseInv, NEW t \in Thread, Unlinks(t)
    PROVE  BaseInv'
  <1> USE NodeNumbers DEF BaseInv
  <1>1. /\ UNCHANGED <<allocated, expired, writer, due>>
        /\ pc[t] \in Erasing
        /\ pc'[t] \in Erasing \union {"visit", "count"}
    BY UnlinksFrame
  <1>2. \A u \in Thread \ {t} :
            pc'[u] = pc[u] /\ cur'[u] = cur[u] /\ due'[u] = due[u]
    BY UnlinksFrame, ThreadFrame
  <1>3. /\ cur[t] \in due[t] /\ cur[t] \in Record /\ cur[t] <= allocated
        /\ prev[cur[t]] \in Node
    BY <1>1 DEF DueLinked, PrevLinked, TypeOK
  <1>4. TypeOK'
    <2>1. CASE UnlinkNext(t)
      BY <1>3, <2>1 DEF UnlinkNext, ErasingGoes, Goes, TypeOK, localVars, Erasing
    <2>4. CASE UnlinkTail(t)
      BY <1>3, <2>4 DEF UnlinkTail, ErasingGoes, Goes, TypeOK, localVars, Erasing
    <2>2. CASE UnlinkPrev(t)
      BY <1>3, <2>2 DEF UnlinkPrev, ErasingGoes, Goes, TypeOK, localVars, Erasing
    <2>3. CASE Free(t)
      <3>1. pc' \in [Thread -> {"idle"} \union Erasing \union Inserting \union Reading]
        BY <2>3 DEF Free, Goes, Stage, TypeOK, Reading
      <3>2. cur' \in [Thread -> Node] /\ after' \in [Thread -> Node \union {NULL}]
        BY <2>3 DEF Free, Moves, TypeOK
      <3>3. size' \in Int
        BY <2>3 DEF Free, TypeOK
      <3>4. freed \union {cur[t]} \subseteq Record
        BY <1>3 DEF TypeOK
      <3> QED
        BY <1>1, <1>3, <2>3, <3>1, <3>2, <3>3, <3>4 DEF Free, Goes, TypeOK
    <2> QED
      BY <2>1, <2>2, <2>3, <2>4 DEF Unlinks
  <1>5. HalfNew' = HalfNew
    BY <1>1, <1>2 DEF HalfNew, Erasing
  <1>6. WriterInserts' /\ NewestInserted'
    BY <1>1, <1>2 DEF WriterInserts, NewestInserted, Inserting, Erasing
  <1>7. /\ pc'[t] \in Erasing => cur'[t] = cur[t]
        /\ freed' = freed \/ freed' = freed \union {cur[t]}
    BY DEF Unlinks, UnlinkNext, UnlinkPrev, UnlinkTail, ErasingGoes, Free, Goes,
           Stage, Erasing, localVars, TypeOK
  <1>8. DueLinked'
    BY <1>1, <1>2, <1>3, <1>5, <1>7 DEF DueLinked
  <1>9. \A n \in Record : prev[n] \in Node => prev'[n] \in Node
    BY <1>3 DEF Unlinks, UnlinkNext, UnlinkPrev, UnlinkTail, Free, TypeOK
  <1>10. PrevLinked'
    BY <1>1, <1>5, <1>9 DEF PrevLinked
  <1> QED
    BY <1>4, <1>6, <1>8, <1>10

LEMMA BaseStep == BaseInv /\ [Next]_vars => BaseInv'
  <1> SUFFICES ASSUME BaseInv, [Next]_vars
               PROVE  BaseInv'
    OBVIOUS
  <1>1. CASE UNCHANGED vars
    BY <1>1 DEF vars, listVars, localVars, BaseInv, TypeOK, WriterInserts,
                NewestInserted, DueLinked, PrevLinked, HalfNew
  <1>2. ASSUME NEW n \in Record, Expire(n)
        PROVE  BaseInv'
    <2> USE <1>2, NodeNumbers DEF Expire, BaseInv
    <2>1. TypeOK'
      BY DEF listVars, localVars, TypeOK
    <2>2. WriterInserts' /\ NewestInserted' /\ HalfNew' = HalfNew
      BY DEF listVars, localVars, WriterInserts, NewestInserted, HalfNew
    <2>3. DueLinked'
      BY <2>2 DEF listVars, localVars, DueLinked, TypeOK, Node, Record
    <2>4. PrevLinked'
      BY <2>2 DEF listVars, PrevLinked
    <2> QED
      BY <2>1, <2>2, <2>3, <2>4
  <1> QED
    BY <1>1, <1>2, BaseInsert, BaseLooks, BaseUnlinks, StepKinds DEF Next

-----------------------------------------------------------------------------
(* Until a thread is in list_erase beside another one.                     *)

LEMMA RaceInit == Init => RaceInv
  <1> SUFFICES ASSUME Init
               PROVE  RaceInv
    OBVIOUS
  <1> USE NodeNumbers, CacheRaceAssumption
  <1>1. HalfNew = {} /\ Removed = {} /\ freed = {}
    BY DEF Init, HalfNew, Removed
  <1>2. /\ Members = 1 .. Initial + 1
        /\ Head \in Members /\ tail \in Members
        /\ \A n \in Members : n \in Node /\ n \in Nat
    BY <1>1 DEF Init, Members, Head, Node
  <1>3. EraserAlone /\ Inserted /\ Erased /\ Walkers /\ ~ misused
    BY <1>2 DEF Init, EraserAlone, Inserted, Erased, Walkers, Inserting, Erasing
  <1>4. Unallocated /\ TailLinked
    BY <1>2 DEF Init, Unallocated, TailLinked, Node
  <1>5. Forward
    <2> SUFFICES ASSUME NEW n \in Members
                 PROVE  next[n] = NULL
                        \/ (next[n] \in Members \ {Head} /\ prev[next[n]] = n)
      BY DEF Forward
    <2>1. CASE n <= Initial
      <3>1. n \in Node /\ n + 1 \in Node /\ n + 1 \in Members \ {Head}
        BY <1>2, <2>1 DEF Node, Head
      <3>2. next[n] = n + 1 /\ prev[n + 1] = n
        BY <1>2, <2>1, <3>1 DEF Init
      <3> QED
        BY <3>1, <3>2
    <2>2. CASE ~ n <= Initial
      BY <1>2, <2>2 DEF Init
    <2> QED
      BY <2>1, <2>2
  <1>6. Backward
    BY <1>2 DEF Init, Backward, Node, Head
  <1> QED
    BY <1>3, <1>4, <1>5, <1>6, BaseInit DEF RaceInv, ApartInv

(* The nodes of the list are none of those that are freed or on their way. *)
LEMMA MembersAre ==
    ASSUME BaseInv
    PROVE  /\ Members \subseteq Node /\ Head \notin HalfNew
           /\ \A n \in Members :
                 n \in Nat /\ n <= allocated
                 /\ n \notin freed /\ n \notin HalfNew /\ n \notin Removed
  <1>1. Head \notin HalfNew
    BY HalfNewNewest
  <1> QED
    BY <1>1, NodeNumbers DEF BaseInv, TypeOK, Members, Node

(* A thread that erases alone leaves no node half new.                     *)
LEMMA ErasesAlone ==
    ASSUME BaseInv, EraserAlone, NEW e \in Thread, pc[e] \in Erasing
    PROVE  /\ \A u \in Thread \ {e} : pc[u] = "idle"
           /\ HalfNew = {} /\ writer = NoThread
           /\ Removed = IF pc[e] \in {"unlinkTail", "free"} THEN {cur[e]} ELSE {}
           /\ cur[e] \in Record /\ cur[e] \in 1 .. allocated /\ prev[cur[e]] \in Node
  <1>1. \A u \in Thread \ {e} : pc[u] = "idle"
    BY DEF EraserAlone
  <1>2. HalfNew = {} /\ writer = NoThread
    BY <1>1 DEF HalfNew, BaseInv, WriterInserts, Inserting, Erasing, TypeOK
  <1>3. Removed = IF pc[e] \in {"unlinkTail", "free"} THEN {cur[e]} ELSE {}
    BY <1>1 DEF Removed, BaseInv, TypeOK
  <1>4. cur[e] \in due[e]
    BY DEF BaseInv, DueLinked
  <1>5. cur[e] \in Record /\ cur[e] \in 1 .. allocated
    BY <1>4 DEF BaseInv, DueLinked, TypeOK
  <1> QED
    BY <1>1, <1>2, <1>3, <1>5 DEF BaseInv, PrevLinked

LEMMA ApartLooks ==
    ASSUME RaceInv, NEW t \in Thread, Looks(t), ~ overlapped'
    PROVE  ApartInv'
  <1> USE NodeNumbers
  <1>1. /\ BaseInv /\ ApartInv /\ EraserAlone' /\ TypeOK
        /\ UNCHANGED <<listVars, allocated, expired, writer>>
        /\ pc[t] \in {"idle"} \union Reading
        /\ pc'[t] \in {"idle", "unlinkNext"} \union Reading
        /\ \A u \in Thread \ {t} :
              pc'[u] = pc[u] /\ cur'[u] = cur[u] /\ after'[u] = after[u]
    BY LooksFrame, ThreadFrame DEF RaceInv, BaseInv
  <1>2. \A u \in Thread : pc[u] \notin Erasing
    <2>1. pc'[t] # "idle" \/ pc[t] # "idle"
      BY <1>1
         DEF Looks, Find, Keep, Erase, Count, Test, Dump, Walks, Send, Goes, TypeOK
    <2> QED
      BY <1>1, <2>1 DEF ApartInv, EraserAlone, Erasing, Reading
  <1>3. HalfNew' = HalfNew /\ Removed' = Removed /\ Members' = Members
    <2>1. HalfNew' = HalfNew /\ Removed' = Removed
      BY <1>1 DEF HalfNew, Removed, Reading
    <2> QED
      BY <1>1, <2>1 DEF Members, listVars
  <1>4. cur[t] \in Members \union HalfNew /\ cur[t] \notin freed
    <2>1. cur[t] \in Members \union HalfNew
      BY <1>1, <1>2 DEF ApartInv, Walkers, Erasing
    <2>2. \A n \in HalfNew : n \notin freed
      BY <1>1 DEF ApartInv, Inserted, HalfNew, Inserting
    <2> QED
      BY <1>1, <2>1, <2>2, MembersAre
  <1>5. ~ misused'
    BY <1>4 DEF Looks, Find, Keep, Erase, Count, Test, Dump, Walks, Send, Goes
  <1>6. /\ next[cur[t]] \in {NULL} \union (Members \ {Head}) \union HalfNew
        /\ Head \in Members
    <2>1. Head \in Members
      BY <1>1, <1>2, HalfNewNewest
         DEF Members, BaseInv, TypeOK, Removed, Erasing, Head, Record
    <2>2. CASE cur[t] \in Members
      BY <1>1, <1>2, <2>1, <2>2 DEF ApartInv, Forward, Erasing
    <2>3. CASE cur[t] \in HalfNew
      BY <1>1, <2>1, <2>3 DEF ApartInv, Inserted, HalfNew, Inserting
    <2> QED
      BY <1>4, <2>1, <2>2, <2>3
  <1>7. /\ cur'[t] \in Members \union HalfNew
        /\ pc'[t] \in {"idle", "send"} => cur'[t] = Head
    <2>1. CASE Find(t) \/ Erase(t) \/ Send(t)
      BY <1>1, <1>4, <2>1 DEF Find, Erase, Send, Goes, TypeOK, ApartInv, Walkers
    <2>2. CASE Keep(t) \/ Count(t) \/ Test(t) \/ Dump(t)
      BY <1>1, <1>6, <2>2
         DEF Keep, Count, Test, Dump, Walks, Goes, Stage, Moves, TypeOK
    <2> QED
      BY <2>1, <2>2 DEF Looks
  <1>8. Walkers'
    BY <1>1, <1>3, <1>7 DEF ApartInv, Walkers
  <1>9. Unallocated' /\ Inserted'
    <2>1. Unallocated'
      BY <1>1 DEF ApartInv, Unallocated, listVars
    <2>2. \A u \in Thread : pc'[u] \in Inserting =>
              pc'[u] = pc[u] /\ cur'[u] = cur[u]
      BY <1>1, <1>2 DEF Inserting, Reading
    <2>3. Inserted'
      BY <1>1, <2>2 DEF ApartInv, Inserted, listVars
    <2> QED
      BY <2>1, <2>3
  <1>10. Erased'
    <2> SUFFICES ASSUME pc'[t] = "unlinkNext"
                 PROVE  /\ cur'[t] \notin freed' /\ after'[t] = next'[cur'[t]]
                        /\ \/ next'[cur'[t]] = NULL
                           \/ next'[cur'[t]] \in Members' \ {Head}
                        /\ cur'[t] \in Members'
      BY <1>1, <1>2 DEF Erased, Erasing, Reading
    <2>1. /\ cur'[t] = cur[t] /\ after'[t] = next[cur[t]] /\ cur[t] \in due[t]
      BY <1>1 DEF Looks, Find, Keep, Erase, Count, Test, Dump, Walks, Send, Goes,
                  Stage, TypeOK
    <2>2. HalfNew = {}
      BY <1>1 DEF EraserAlone, HalfNew, Erasing, Reading
    <2> QED
      BY <1>1, <1>3, <1>4, <1>6, <2>1, <2>2 DEF listVars
  <1>11. TailLinked' /\ Forward' /\ Backward'
    BY <1>1, <1>2, <1>3
       DEF ApartInv, TailLinked, Forward, Backward, Bypassed, listVars, Erasing,
           Reading
  <1> QED
    BY <1>1, <1>5, <1>8, <1>9, <1>10, <1>11 DEF ApartInv

(* What is known of a thread that unlinks, before its step.                *)
LEMMA UnlinksAlone ==
    ASSUME RaceInv, NEW t \in Thread, Unlinks(t), ~ overlapped'
    PROVE  /\ BaseInv /\ ApartInv /\ EraserAlone' /\ TypeOK
           /\ UNCHANGED <<allocated, expired, writer, due>>
           /\ \A u \in Thread \ {t} :
                 /\ pc[u] = "idle" /\ pc'[u] = "idle"
                 /\ cur[u] = Head /\ cur'[u] = Head
           /\ HalfNew = {} /\ HalfNew' = {} /\ writer = NoThread
           /\ Removed = IF pc[t] \in {"unlinkTail", "free"} THEN {cur[t]} ELSE {}
           /\ cur[t] \in Record /\ cur[t] \in 1 .. allocated
           /\ prev[cur[t]] \in Node
           /\ Head \in Members
  <1>1. /\ BaseInv /\ ApartInv /\ EraserAlone' /\ TypeOK
        /\ UNCHANGED <<allocated, expired, writer, due>>
        /\ pc[t] \in Erasing /\ pc'[t] \in Erasing \union {"visit", "count"}
        /\ \A u \in Thread \ {t} : pc'[u] = pc[u] /\ cur'[u] = cur[u]
    BY UnlinksFrame, ThreadFrame DEF RaceInv, BaseInv
  <1>2. /\ \A u \in Thread \ {t} : pc[u] = "idle"
        /\ HalfNew = {} /\ writer = NoThread
        /\ Removed = IF pc[t] \in {"unlinkTail", "free"} THEN {cur[t]} ELSE {}
        /\ cur[t] \in Record /\ cur[t] \in 1 .. allocated
        /\ prev[cur[t]] \in Node
    BY <1>1, ErasesAlone DEF ApartInv
  <1>3. \A u \in Thread \ {t} : cur[u] = Head
    BY <1>1, <1>2 DEF ApartInv, Walkers
  <1>4. HalfNew' = {}
    BY <1>1, <1>2 DEF HalfNew, Erasing
  <1>5. Head \in Members
    BY <1>1, <1>2, NodeNumbers DEF Members, TypeOK, Head
  <1> QED
    BY <1>1, <1>2, <1>3, <1>4, <1>5

LEMMA ApartUnlinkNext ==
    ASSUME RaceInv, NEW t \in Thread, UnlinkNext(t), ~ overlapped'
    PROVE  ApartInv'
  <1> DEFINE c == cur[t]
             p == prev[c]
  <1> USE NodeNumbers
  <1>1. /\ BaseInv /\ ApartInv /\ EraserAlone' /\ TypeOK
        /\ allocated' = allocated /\ writer' = NoThread /\ writer = NoThread
        /\ \A u \in Thread \ {t} :
              /\ pc[u] = "idle" /\ pc'[u] = "idle"
              /\ cur[u] = Head /\ cur'[u] = Head
        /\ HalfNew = {} /\ HalfNew' = {} /\ Head \in Members
        /\ c \in Record /\ p \in Node
    BY UnlinksAlone DEF Unlinks
  <1>2. /\ pc[t] = "unlinkNext" /\ pc'[t] = "unlinkPrev"
        /\ next' = [next EXCEPT ![p] = next[c]]
        /\ UNCHANGED <<prev, tail, freed, cur, after>>
        /\ misused' = ({c, p} \intersect freed # {})
    BY <1>1 DEF UnlinkNext, ErasingGoes, Goes, localVars, TypeOK
  <1>3. /\ c \in Members /\ c \notin freed
        /\ p \in Members /\ p < c /\ next[p] = c
        /\ after[t] = next[c]
        /\ next[c] = NULL \/ next[c] \in Members \ {Head}
    <2>1. /\ c \in Members /\ c \notin freed
          /\ after[t] = next[c]
          /\ next[c] = NULL \/ next[c] \in Members \ {Head}
      BY <1>1, <1>2 DEF ApartInv, Erased, Erasing
    <2> QED
      BY <1>1, <1>2, <2>1 DEF ApartInv, Backward, Bypassed
  <1>4. Members' = Members
    <2>1. Removed = {} /\ Removed' = {}
      BY <1>1, <1>2 DEF Removed
    <2> QED
      BY <1>1, <1>2, <2>1 DEF Members
  <1>5. next'[c] = next[c] /\ p # c
    BY <1>1, <1>2, <1>3
  <1>6. ~ misused'
    BY <1>2, <1>3, MembersAre, <1>1
  <1>7. Unallocated'
    BY <1>1, <1>2, <1>3, MembersAre DEF ApartInv, Unallocated, TypeOK
  <1>8. Inserted' /\ Walkers'
    BY <1>1, <1>2, <1>3, <1>4 DEF Inserted, Walkers, Inserting
  <1>9. Erased'
    BY <1>1, <1>2, <1>3, <1>4, <1>5 DEF Erased, Erasing, TypeOK
  <1>10. TailLinked'
    <2>1. tail \in Members /\ next[tail] = NULL
      BY <1>1, <1>2 DEF ApartInv, TailLinked
    <2>2. tail # p
      BY <1>1, <1>3, <2>1
    <2> QED
      BY <1>1, <1>2, <1>4, <2>1, <2>2 DEF TailLinked, TypeOK
  <1>11. Forward'
    <2> SUFFICES ASSUME NEW n \in Members
                 PROVE  \/ next'[n] = NULL
                        \/ next'[n] \in Members \ {Head} /\ prev[next'[n]] = n
                        \/ n = p
      BY <1>1, <1>2, <1>4 DEF Forward
    <2>1. next[n] = NULL \/ (next[n] \in Members \ {Head} /\ prev[next[n]] = n)
      BY <1>1, <1>2 DEF ApartInv, Forward
    <2> QED
      BY <1>1, <1>2, <2>1 DEF TypeOK
  <1>12. Backward'
    <2> SUFFICES ASSUME NEW m \in Members \ {Head}
                 PROVE  /\ prev[m] \in Members /\ prev[m] < m
                        /\ next'[prev[m]] = m \/ m = c
      BY <1>1, <1>2, <1>4 DEF Backward, Bypassed
    <2>1. prev[m] \in Members /\ prev[m] < m /\ next[prev[m]] = m
      BY <1>1, <1>2 DEF ApartInv, Backward, Bypassed
    <2> QED
      BY <1>1, <1>2, <1>3, <2>1, MembersAre DEF TypeOK
  <1> QED
    BY <1>1, <1>6, <1>7, <1>8, <1>9, <1>10, <1>11, <1>12 DEF ApartInv

LEMMA ApartUnlinkPrev ==
    ASSUME RaceInv, NEW t \in Thread, UnlinkPrev(t), ~ overlapped'
    PROVE  ApartInv'
  <1> DEFINE c == cur[t]
             p == prev[c]
             m == next[c]
  <1> USE NodeNumbers
  <1>1. /\ BaseInv /\ ApartInv /\ EraserAlone' /\ TypeOK
        /\ allocated' = allocated /\ writer' = NoThread /\ writer = NoThread
        /\ \A u \in Thread \ {t} :
              /\ pc[u] = "idle" /\ pc'[u] = "idle"
              /\ cur[u] = Head /\ cur'[u] = Head
        /\ HalfNew = {} /\ HalfNew' = {} /\ Head \in Members
        /\ c \in Record /\ p \in Node
    BY UnlinksAlone DEF Unlinks
  <1>2. /\ pc[t] = "unlinkPrev" /\ pc'[t] = "unlinkTail"
        /\ prev' = IF m = NULL THEN prev ELSE [prev EXCEPT ![m] = p]
        /\ UNCHANGED <<next, tail, freed, cur, after>>
        /\ misused' = (({c} \union ({m} \ {NULL})) \intersect freed # {})
    BY <1>1 DEF UnlinkPrev, ErasingGoes, Goes, localVars, TypeOK
  <1>3. /\ c \in Members /\ c \notin freed
        /\ p \in Members /\ p < c /\ next[p] = m
        /\ after[t] = m
        /\ m = NULL \/ m \in Members \ {Head}
    <2>1. /\ c \in Members /\ c \notin freed /\ next[p] = m
          /\ after[t] = m
          /\ m = NULL \/ m \in Members \ {Head}
      BY <1>1, <1>2 DEF ApartInv, Erased, Erasing
    <2> QED
      BY <1>1, <2>1 DEF ApartInv, Backward
  <1>4. p # c /\ c # Head
    BY <1>1, <1>3, MembersAre
  <1>5. ASSUME m # NULL
        PROVE  m \in Members \ {Head} /\ prev[m] = c /\ c < m /\ m # p
    <2>1. m \in Members \ {Head} /\ prev[m] = c
      BY <1>1, <1>2, <1>3, <1>4, <1>5 DEF ApartInv, Forward
    <2>2. c < m
      BY <1>1, <2>1 DEF ApartInv, Backward
    <2>3. p \in Nat /\ c \in Nat /\ m \in Nat
      BY <1>1, <1>3, <2>1, MembersAre
    <2> QED
      BY <1>3, <2>1, <2>2, <2>3
  <1>6. Members' = Members \ {c}
    <2>1. Removed = {} /\ Removed' = {c}
      BY <1>1, <1>2 DEF Removed
    <2> QED
      BY <1>1, <1>2, <2>1 DEF Members
  <1>7. prev'[c] = p
    BY <1>1, <1>2, <1>3, <1>5, MembersAre DEF TypeOK
  <1>8. ~ misused'
    BY <1>1, <1>2, <1>3, MembersAre
  <1>9. Unallocated' /\ Inserted' /\ Walkers'
    BY <1>1, <1>2, <1>4, <1>6 DEF ApartInv, Unallocated, Inserted, Walkers, Inserting
  <1>10. Erased'
    BY <1>1, <1>2, <1>3, <1>4, <1>5, <1>6, <1>7, MembersAre DEF Erased, Erasing
  <1>11. TailLinked'
    BY <1>1, <1>2, <1>6 DEF ApartInv, TailLinked
  <1>12. Forward'
    <2> SUFFICES ASSUME NEW n \in Members \ {c}, next[n] # NULL
                 PROVE  next[n] \in Members \ {Head, c} /\ prev'[next[n]] = n
      BY <1>1, <1>2, <1>6 DEF Forward
    <2>1. CASE n = p
      BY <1>1, <1>2, <1>3, <1>5, <2>1, MembersAre DEF TypeOK
    <2>2. CASE n # p
      <3>1. next[n] \in Members \ {Head} /\ prev[next[n]] = n
        BY <1>1, <1>2, <2>2 DEF ApartInv, Forward
      <3>2. next[n] # c /\ next[n] # m
        BY <1>5, <2>2, <3>1
      <3> QED
        BY <1>1, <1>2, <3>1, <3>2, MembersAre DEF TypeOK
    <2> QED
      BY <2>1, <2>2
  <1>13. Backward'
    <2> SUFFICES ASSUME NEW n \in Members \ {Head, c}
                 PROVE  /\ prev'[n] \in Members \ {c} /\ prev'[n] < n
                        /\ next[prev'[n]] = n
      BY <1>1, <1>2, <1>6 DEF Backward
    <2>1. prev[n] \in Members /\ prev[n] < n /\ next[prev[n]] = n
      BY <1>1, <1>2 DEF ApartInv, Backward, Bypassed
    <2>2. CASE n = m
      <3>1. /\ m # NULL /\ m \in Node
            /\ p \in Nat /\ c \in Nat /\ m \in Nat /\ p < c /\ c < m
        BY <1>1, <1>3, <1>5, <2>2, MembersAre
      <3>2. prev'[n] = p
        BY <1>1, <1>2, <2>2, <3>1 DEF TypeOK
      <3> QED
        BY <1>3, <1>4, <2>2, <3>1, <3>2
    <2>3. CASE n # m
      <3>1. prev'[n] = prev[n]
        BY <1>1, <1>2, <2>3, MembersAre DEF TypeOK
      <3>2. prev[n] # c
        BY <2>1, <2>3
      <3> QED
        BY <2>1, <3>1, <3>2
    <2> QED
      BY <2>2, <2>3
  <1> QED
    BY <1>1, <1>8, <1>9, <1>10, <1>11, <1>12, <1>13 DEF ApartInv

LEMMA ApartUnlinkTail ==
    ASSUME RaceInv, NEW t \in Thread, UnlinkTail(t), ~ overlapped'
    PROVE  ApartInv'
  <1> DEFINE c == cur[t]
             p == prev[c]
  <1> USE NodeNumbers
  <1>1. /\ BaseInv /\ ApartInv /\ EraserAlone' /\ TypeOK
        /\ allocated' = allocated /\ writer' = NoThread /\ writer = NoThread
        /\ \A u \in Thread \ {t} :
              /\ pc[u] = "idle" /\ pc'[u] = "idle"
              /\ cur[u] = Head /\ cur'[u] = Head
        /\ HalfNew = {} /\ HalfNew' = {} /\ Head \in Members
        /\ c \in Record /\ p \in Node
    BY UnlinksAlone DEF Unlinks
  <1>2. /\ pc[t] = "unlinkTail" /\ pc'[t] = "free"
        /\ tail' = IF c = tail THEN p ELSE tail
        /\ UNCHANGED <<next, prev, freed, cur, after>>
        /\ misused' = ({c} \intersect freed # {})
    BY <1>1 DEF UnlinkTail, ErasingGoes, Goes, localVars, TypeOK
  <1>3. /\ c \notin freed /\ c \notin Members /\ after[t] = next[c]
        /\ next[c] = NULL \/ next[c] \in Members \ {Head}
        /\ p \in Members /\ (next[c] = NULL => next[p] = NULL)
    <2>1. c \in Removed
      BY <1>1, <1>2 DEF Removed
    <2> QED
      BY <1>1, <1>2, <2>1, MembersAre DEF ApartInv, Erased, Erasing
  <1>4. Members' = Members
    <2>1. Removed' = Removed
      BY <1>1, <1>2 DEF Removed
    <2> QED
      BY <1>1, <1>2, <2>1 DEF Members
  <1>5. /\ tail' \in Members /\ tail' # c /\ next[tail'] = NULL
    <2>1. next[tail] = NULL /\ (tail \in Members \/ tail = c)
      BY <1>1, <1>2 DEF ApartInv, TailLinked
    <2> QED
      BY <1>2, <1>3, <2>1
  <1>6. ~ misused'
    BY <1>2, <1>3
  <1>7. Unallocated' /\ Inserted' /\ Walkers'
    BY <1>1, <1>2, <1>4 DEF ApartInv, Unallocated, Inserted, Walkers, Inserting
  <1>8. Erased'
    BY <1>1, <1>2, <1>3, <1>4, <1>5 DEF Erased, Erasing
  <1>9. TailLinked'
    BY <1>1, <1>2, <1>4, <1>5 DEF TailLinked
  <1>10. Forward' /\ Backward'
    BY <1>1, <1>2, <1>4 DEF ApartInv, Forward, Backward, Bypassed
  <1> QED
    BY <1>1, <1>6, <1>7, <1>8, <1>9, <1>10 DEF ApartInv

LEMMA ApartFree ==
    ASSUME RaceInv, NEW t \in Thread, Free(t), ~ overlapped'
    PROVE  ApartInv'
  <1> DEFINE c == cur[t]
             a == after[t]
  <1> USE NodeNumbers
  <1>1. /\ BaseInv /\ ApartInv /\ EraserAlone' /\ TypeOK
        /\ allocated' = allocated /\ writer' = NoThread /\ writer = NoThread
        /\ \A u \in Thread \ {t} :
              /\ pc[u] = "idle" /\ pc'[u] = "idle"
              /\ cur[u] = Head /\ cur'[u] = Head
        /\ HalfNew = {} /\ HalfNew' = {} /\ Head \in Members
        /\ Removed = IF pc[t] \in {"unlinkTail", "free"} THEN {c} ELSE {}
        /\ c \in Record
    BY UnlinksAlone DEF Unlinks
  <1>2. /\ pc[t] = "free" /\ pc'[t] \in {"visit", "count"}
        /\ freed' = freed \union {c}
        /\ cur'[t] = IF a = NULL THEN Head ELSE a
        /\ UNCHANGED <<next, prev, tail>>
        /\ misused' = ({c} \intersect freed # {})
    BY <1>1 DEF Free, Goes, Stage, Moves, TypeOK
  <1>3. /\ c \notin freed /\ a = next[c] /\ tail # c
        /\ a = NULL \/ a \in Members \ {Head}
    BY <1>1, <1>2 DEF ApartInv, Erased, Erasing
  <1>4. Members' = Members
    <2>1. Removed = {c} /\ Removed' = {}
      BY <1>1, <1>2 DEF Removed
    <2> QED
      BY <1>1, <1>2, <2>1 DEF Members
  <1>5. ~ misused'
    BY <1>2, <1>3
  <1>6. Unallocated' /\ Inserted' /\ Erased'
    BY <1>1, <1>2 DEF ApartInv, Unallocated, Inserted, Erased, Inserting, Erasing
  <1>7. Walkers'
    BY <1>1, <1>2, <1>3, <1>4 DEF Walkers
  <1>8. TailLinked'
    BY <1>1, <1>2, <1>3, <1>4 DEF ApartInv, TailLinked
  <1>9. Forward' /\ Backward'
    BY <1>1, <1>2, <1>4 DEF ApartInv, Forward, Backward, Bypassed
  <1> QED
    BY <1>1, <1>5, <1>6, <1>7, <1>8, <1>9 DEF ApartInv

(* What is known of a thread that appends, before its step.                *)
LEMMA InsertsAlone ==
    ASSUME RaceInv, NEW t \in Thread, Insert(t), ~ overlapped'
    PROVE  /\ BaseInv /\ ApartInv /\ EraserAlone' /\ TypeOK
           /\ \A u \in Thread \ {t} :
                 /\ pc'[u] = pc[u] /\ cur'[u] = cur[u]
                 /\ pc[u] \notin Inserting
           /\ \A u \in Thread : pc[u] \notin Erasing /\ pc'[u] \notin Erasing
           /\ Removed = {} /\ Removed' = {}
           /\ Head \in Members /\ tail \in Members
  <1>1. /\ BaseInv /\ ApartInv /\ EraserAlone' /\ TypeOK
        /\ \A u \in Thread \ {t} : pc'[u] = pc[u] /\ cur'[u] = cur[u]
    BY ThreadFrame DEF RaceInv, BaseInv
  <1>2. \/ pc[t] = "idle" /\ pc'[t] = "linkNext" /\ writer = NoThread
        \/ pc[t] \in Inserting /\ pc'[t] \in Inserting \union {"idle"}
    BY <1>1 DEF Insert, LockAndLink, LinkNext, LinkPrev, SetTail, Goes, Inserting,
                TypeOK
  <1>3. \A u \in Thread \ {t} : pc[u] \notin Inserting
    BY <1>1, <1>2, CacheRaceAssumption DEF BaseInv, WriterInserts
  <1>4. \A u \in Thread : pc[u] \notin Erasing /\ pc'[u] \notin Erasing
    <2>1. CASE pc[t] = "idle"
      BY <1>1, <1>2, <2>1 DEF EraserAlone, Erasing, Inserting
    <2>2. CASE pc[t] # "idle"
      BY <1>1, <1>2, <2>2 DEF ApartInv, EraserAlone, Erasing, Inserting
    <2> QED
      BY <2>1, <2>2
  <1>5. Removed = {} /\ Removed' = {}
    BY <1>4 DEF Removed, Erasing
  <1>6. Head \in Members
    BY <1>1, <1>5, HalfNewNewest, NodeNumbers DEF Members, TypeOK, Head, Record
  <1>7. tail \in Members
    BY <1>1, <1>4 DEF ApartInv, TailLinked, Erasing
  <1> QED
    BY <1>1, <1>3, <1>4, <1>5, <1>6, <1>7

LEMMA ApartLock ==
    ASSUME RaceInv, NEW t \in Thread, LockAndLink(t), ~ overlapped'
    PROVE  ApartInv'
  <1> DEFINE k == allocated + 1
  <1> USE NodeNumbers
  <1>1. /\ BaseInv /\ ApartInv /\ EraserAlone' /\ TypeOK
        /\ \A u \in Thread \ {t} :
              /\ pc'[u] = pc[u] /\ cur'[u] = cur[u]
              /\ pc[u] \notin Inserting
        /\ \A u \in Thread : pc[u] \notin Erasing /\ pc'[u] \notin Erasing
        /\ Removed = {} /\ Removed' = {}
        /\ Head \in Members /\ tail \in Members
    BY InsertsAlone DEF Insert
  <1>2. /\ pc'[t] = "linkNext" /\ writer = NoThread /\ writer' = t
        /\ allocated' = k /\ cur'[t] = k /\ k \in Node /\ allocated \in Nat
        /\ UNCHANGED <<next, prev, tail, freed>> /\ ~ misused'
        /\ HalfNew = {}
    BY <1>1, HalfNewNewest DEF LockAndLink, Goes, listVars, TypeOK, Node
  <1>3. HalfNew' = {k} /\ Members' = Members
    <2>1. HalfNew' = {k}
      BY <1>1, <1>2 DEF HalfNew, Inserting
    <2> QED
      BY <1>1, <1>2, <2>1 DEF Members
  <1>4. k \notin freed /\ next[k] = NULL /\ next[tail] = NULL
    BY <1>1, <1>2 DEF BaseInv, DueLinked, ApartInv, Unallocated, TailLinked
  <1>5. Unallocated'
    BY <1>1, <1>2 DEF ApartInv, Unallocated, Node
  <1>6. Inserted' /\ Erased'
    BY <1>1, <1>2, <1>4 DEF Inserted, Erased, Inserting
  <1>7. TailLinked' /\ Walkers'
    BY <1>1, <1>2, <1>3, CacheRaceAssumption DEF ApartInv, TailLinked, Walkers
  <1>8. Forward' /\ Backward'
    BY <1>1, <1>2, <1>3 DEF ApartInv, Forward, Backward, Bypassed, Erasing
  <1> QED
    BY <1>1, <1>2, <1>5, <1>6, <1>7, <1>8 DEF ApartInv

LEMMA ApartLinkNext ==
    ASSUME RaceInv, NEW t \in Thread, LinkNext(t), ~ overlapped'
    PROVE  ApartInv'
  <1> DEFINE k == cur[t]
  <1> USE NodeNumbers
  <1>1. /\ BaseInv /\ ApartInv /\ EraserAlone' /\ TypeOK
        /\ \A u \in Thread \ {t} :
              /\ pc'[u] = pc[u] /\ cur'[u] = cur[u]
              /\ pc[u] \notin Inserting
        /\ \A u \in Thread : pc[u] \notin Erasing /\ pc'[u] \notin Erasing
        /\ Removed = {} /\ Removed' = {}
        /\ Head \in Members /\ tail \in Members
    BY InsertsAlone DEF Insert
  <1>2. /\ pc[t] = "linkNext" /\ pc'[t] = "linkPrev" /\ writer = t /\ writer' = t
        /\ next' = [next EXCEPT ![tail] = k]
        /\ UNCHANGED <<prev, tail, freed, allocated, cur>>
        /\ misused' = ({tail} \intersect freed # {})
    BY <1>1 DEF LinkNext, Goes, localVars, TypeOK, BaseInv, WriterInserts, Inserting
  <1>3. HalfNew = {k} /\ HalfNew' = {k} /\ Members' = Members /\ k \in Node
    <2>1. HalfNew = {k} /\ HalfNew' = {k}
      BY <1>1, <1>2 DEF HalfNew, Inserting, TypeOK
    <2> QED
      BY <1>1, <1>2, <2>1 DEF Members, TypeOK
  <1>4. /\ k \notin Members /\ tail \notin freed /\ tail <= allocated
        /\ k \notin freed /\ next[k] = NULL /\ next[tail] = NULL
        /\ next'[tail] = k
    BY <1>1, <1>2, <1>3, MembersAre DEF ApartInv, Inserted, Inserting, TypeOK
  <1>5. ~ misused'
    BY <1>2, <1>4
  <1>6. Unallocated'
    BY <1>1, <1>2, <1>4 DEF ApartInv, Unallocated, TypeOK
  <1>7. Inserted' /\ Erased'
    <2>1. next'[k] = NULL
      BY <1>1, <1>2, <1>3, <1>4 DEF TypeOK
    <2> QED
      BY <1>1, <1>2, <1>4, <2>1 DEF Inserted, Erased, Inserting
  <1>8. TailLinked' /\ Walkers'
    BY <1>1, <1>2, <1>3, CacheRaceAssumption DEF ApartInv, TailLinked, Walkers
  <1>9. Forward'
    <2> SUFFICES ASSUME NEW n \in Members
                 PROVE  \/ next'[n] = NULL \/ (next'[n] \in HalfNew /\ n = tail)
                        \/ next'[n] \in Members \ {Head} /\ prev[next'[n]] = n
      BY <1>1, <1>2, <1>3 DEF Forward
    <2>1. CASE n = tail
      BY <1>3, <1>4, <2>1
    <2>2. CASE n # tail
      <3>1. next'[n] = next[n]
        BY <1>1, <1>2, <2>2, MembersAre DEF TypeOK
      <3> QED
        BY <1>1, <2>2, <3>1 DEF ApartInv, Forward, Erasing
    <2> QED
      BY <2>1, <2>2
  <1>10. Backward'
    <2> SUFFICES ASSUME NEW n \in Members \ {Head}
                 PROVE  /\ prev[n] \in Members /\ prev[n] < n
                        /\ next'[prev[n]] = n
      BY <1>1, <1>2, <1>3 DEF Backward
    <2>1. prev[n] \in Members /\ prev[n] < n /\ next[prev[n]] = n
      BY <1>1 DEF ApartInv, Backward, Bypassed, Erasing
    <2>2. prev[n] # tail
      BY <1>1, <1>4, <2>1, MembersAre
    <2> QED
      BY <1>1, <1>2, <2>1, <2>2, MembersAre DEF TypeOK
  <1> QED
    BY <1>1, <1>5, <1>6, <1>7, <1>8, <1>9, <1>10 DEF ApartInv

LEMMA ApartLinkPrev ==
    ASSUME RaceInv, NEW t \in Thread, LinkPrev(t), ~ overlapped'
    PROVE  ApartInv'
  <1> DEFINE k == cur[t]
  <1> USE NodeNumbers
  <1>1. /\ BaseInv /\ ApartInv /\ EraserAlone' /\ TypeOK
        /\ \A u \in Thread \ {t} :
              /\ pc'[u] = pc[u] /\ cur'[u] = cur[u]
              /\ pc[u] \notin Inserting
        /\ \A u \in Thread : pc[u] \notin Erasing /\ pc'[u] \notin Erasing
        /\ Removed = {} /\ Removed' = {}
        /\ Head \in Members /\ tail \in Members
    BY InsertsAlone DEF Insert
  <1>2. /\ pc[t] = "linkPrev" /\ pc'[t] = "setTail" /\ writer = t /\ writer' = t
        /\ prev' = [prev EXCEPT ![k] = tail]
        /\ UNCHANGED <<next, tail, freed, allocated, cur>>
        /\ ~ misused'
    BY <1>1 DEF LinkPrev, Goes, localVars, TypeOK, BaseInv, WriterInserts, Inserting
  <1>3. /\ HalfNew = {k} /\ HalfNew' = {} /\ k \in Node
        /\ k = allocated /\ k # Head /\ k \notin freed
        /\ next[k] = NULL /\ next[tail] = k
    BY <1>1, <1>2
       DEF HalfNew, Inserting, TypeOK, BaseInv, NewestInserted, ApartInv, Inserted
  <1>4. Members' = Members \union {k} /\ k \notin Members
    BY <1>1, <1>2, <1>3 DEF Members, TypeOK
  <1>5. tail < k /\ prev'[k] = tail
    BY <1>1, <1>2, <1>3, <1>4, MembersAre DEF TypeOK
  <1>6. \A n \in Members : prev'[n] = prev[n]
    BY <1>1, <1>2, <1>4, MembersAre DEF TypeOK
  <1>7. Unallocated' /\ Inserted' /\ Erased'
    BY <1>1, <1>2, <1>3, <1>5
       DEF ApartInv, Unallocated, Inserted, Erased, Inserting
  <1>8. TailLinked' /\ Walkers'
    BY <1>1, <1>2, <1>3, <1>4, CacheRaceAssumption
       DEF ApartInv, TailLinked, Walkers
  <1>9. Forward'
    <2> SUFFICES ASSUME NEW n \in Members \union {k}, next[n] # NULL
                 PROVE  /\ next[n] \in (Members \union {k}) \ {Head}
                        /\ prev'[next[n]] = n
      BY <1>2, <1>4 DEF Forward
    <2>1. CASE n = tail
      BY <1>3, <1>5, <2>1
    <2>2. CASE n # tail
      BY <1>1, <1>3, <1>6, <2>2 DEF ApartInv, Forward, Erasing
    <2> QED
      BY <2>1, <2>2
  <1>10. Backward'
    <2> SUFFICES ASSUME NEW n \in (Members \union {k}) \ {Head}
                 PROVE  /\ prev'[n] \in Members /\ prev'[n] < n
                        /\ next[prev'[n]] = n
      BY <1>2, <1>4 DEF Backward
    <2>1. CASE n = k
      BY <1>1, <1>3, <1>5, <2>1
    <2>2. CASE n # k
      BY <1>1, <1>6, <2>2 DEF ApartInv, Backward, Bypassed, Erasing
    <2> QED
      BY <2>1, <2>2
  <1> QED
    BY <1>1, <1>2, <1>7, <1>8, <1>9, <1>10 DEF ApartInv

LEMMA ApartSetTail ==
    ASSUME RaceInv, NEW t \in Thread, SetTail(t), ~ overlapped'
    PROVE  ApartInv'
  <1> DEFINE k == cur[t]
  <1> USE NodeNumbers
  <1>1. /\ BaseInv /\ ApartInv /\ EraserAlone' /\ TypeOK
        /\ \A u \in Thread \ {t} :
              /\ pc'[u] = pc[u] /\ cur'[u] = cur[u]
              /\ pc[u] \notin Inserting
        /\ \A u \in Thread : pc[u] \notin Erasing /\ pc'[u] \notin Erasing
        /\ Removed = {} /\ Removed' = {}
        /\ Head \in Members /\ tail \in Members
    BY InsertsAlone DEF Insert
  <1>2. /\ pc[t] = "setTail" /\ pc'[t] = "idle" /\ writer' = NoThread
        /\ tail' = k /\ cur'[t] = Head
        /\ UNCHANGED <<next, prev, freed, allocated>>
        /\ ~ misused'
    BY <1>1 DEF SetTail, Goes, TypeOK
  <1>3. HalfNew = {} /\ HalfNew' = {} /\ Members' = Members
    <2>1. HalfNew = {} /\ HalfNew' = {}
      BY <1>1, <1>2 DEF HalfNew, Inserting
    <2> QED
      BY <1>1, <1>2, <2>1 DEF Members
  <1>4. k \in Members /\ next[k] = NULL
    BY <1>1, <1>2, <1>3 DEF ApartInv, Walkers, Inserted, Inserting
  <1>5. Unallocated' /\ Inserted' /\ Erased'
    BY <1>1, <1>2 DEF ApartInv, Unallocated, Inserted, Erased, Inserting
  <1>6. TailLinked' /\ Walkers'
    BY <1>1, <1>2, <1>3, <1>4 DEF ApartInv, TailLinked, Walkers
  <1>7. Forward' /\ Backward'
    BY <1>1, <1>2, <1>3 DEF ApartInv, Forward, Backward, Bypassed, Erasing
  <1> QED
    BY <1>1, <1>2, <1>5, <1>6, <1>7 DEF ApartInv

-----------------------------------------------------------------------------
LEMMA RaceStep == RaceInv /\ [Next]_vars => RaceInv'
  <1> SUFFICES ASSUME RaceInv, [Next]_vars, ~ overlapped'
               PROVE  ApartInv'
    BY BaseStep DEF RaceInv
  <1>1. CASE UNCHANGED vars
    BY <1>1
       DEF vars, listVars, localVars, RaceInv, ApartInv, EraserAlone, Unallocated,
           Inserted, Erased, TailLinked, Forward, Backward, Bypassed, Walkers,
           Members, HalfNew, Removed
  <1>2. ASSUME NEW n \in Record, Expire(n)
        PROVE  ApartInv'
    BY <1>2
       DEF Expire, listVars, localVars, RaceInv, ApartInv, EraserAlone,
           Unallocated, Inserted, Erased, TailLinked, Forward, Backward, Bypassed,
           Walkers, Members, HalfNew, Removed
  <1>3. ASSUME NEW t \in Thread, Insert(t)
        PROVE  ApartInv'
    BY <1>3, ApartLock, ApartLinkNext, ApartLinkPrev, ApartSetTail DEF Insert
  <1>4. ASSUME NEW t \in Thread, Looks(t)
        PROVE  ApartInv'
    BY <1>4, ApartLooks
  <1>5. ASSUME NEW t \in Thread, Unlinks(t)
        PROVE  ApartInv'
    BY <1>5, ApartUnlinkNext, ApartUnlinkPrev, ApartUnlinkTail, ApartFree
       DEF Unlinks
  <1> QED
    BY <1>1, <1>2, <1>3, <1>4, <1>5, StepKinds DEF Next

LEMMA RaceInvariance == Spec => []RaceInv
  BY RaceInit, RaceStep, PTL DEF Spec

(* The links, the tail and what each thread holds are of their kind,       *)
(* however the threads overlap (list.h:91-138, handle.c:43-178).           *)
THEOREM RaceTyped == Spec => []TypeOK
  <1>1. RaceInv => TypeOK
    BY DEF RaceInv, BaseInv
  <1> QED
    BY <1>1, RaceInvariance, PTL

(* Any number of threads append to a list of any length and read it        *)
(* without a lock, and none uses a node that has been freed, as long as    *)
(* no thread is in list_erase beside another one (list.h:101-138,          *)
(* cache.c:28-67).                                                         *)
THEOREM NoFreedNodeUsedApart == Spec => []FreedUnusedApart
  <1>1. RaceInv => FreedUnusedApart
    BY DEF RaceInv, ApartInv, FreedUnusedApart
  <1> QED
    BY <1>1, RaceInvariance, PTL


-----------------------------------------------------------------------------
(* What the threads make of the list as long as no thread is in list_erase *)
(* beside another one: the list is whole, and an answer has every record   *)
(* it owes.  The links are followed from the head on here, by induction    *)
(* over the length of the way.                                             *)

NoEraser == \A t \in Thread : pc[t] \notin Erasing

(* The nodes of the list, and the one that is linked but not linked back.  *)
Reached ==
    Members \union
        {n \in Node : \E t \in Thread : pc[t] = "linkPrev" /\ cur[t] = n}

(* The size is that of the list, but for the node that is being inserted.  *)
SizeCounts ==
    size + 1 = Cardinality((1 .. allocated) \ freed)
                   - (IF writer = NoThread THEN 0 ELSE 1)

(* What a thread that answers knows, part by part of the way: what it owes *)
(* is in the list; what was due is gone behind it, then everywhere; what   *)
(* it has passed while writing the answer is written.                      *)
Answering(t) ==
    /\ pc[t] \in Reading \union Erasing => owed[t] \subseteq Members \ (due[t] \union {Head})
    /\ pc[t] \in Reading => cur[t] \in Reached
    /\ pc[t] \notin {"count", "test", "dump", "send"} => counted[t] = {}
    /\ pc[t] \notin {"dump", "send"} => sent[t] = {}
    /\ pc[t] \in {"visit"} \union Erasing => \A m \in Members : m \in due[t] => cur[t] <= m
    /\ pc[t] \in Erasing =>
          \A m \in Members : cur[t] < m => after[t] # NULL /\ after[t] <= m
    /\ pc[t] \in {"count", "test", "dump", "send"} =>
          /\ \A m \in Members : m \notin due[t]
          /\ counted[t] \subseteq Reached
          /\ sent[t] \intersect due[t] = {}
    /\ pc[t] = "dump" => \A m \in Members : m # Head /\ m < cur[t] => m \in sent[t]
    /\ pc[t] = "send" => owed[t] \union counted[t] \subseteq sent[t]

AnswerInv == SizeCounts /\ \A t \in Thread : Answering(t)

WholeInv == RaceInv /\ (~ overlapped => AnswerInv)

-----------------------------------------------------------------------------
(* The way from the head.                                                  *)

(* The recursion that defines the nodes met in k steps is well-founded.    *)
LEMMA MetUnfolds ==
    ASSUME NEW f,
           f = [k \in 0 .. MaxNode |-> IF k = 0 THEN {Head} ELSE Onward(f[k - 1])]
    PROVE  Met = [k \in 0 .. MaxNode |->
                     IF k = 0 THEN {Head} ELSE Onward(Met[k - 1])]
  BY Zenon DEF Met

LEMMA MetDefined ==
    /\ Met[0] = {Head}
    /\ \A k \in 1 .. MaxNode : Met[k] = Onward(Met[k - 1])
  <1> DEFINE Defines(f, n) ==
                 /\ f = [k \in 0 .. n |-> f[k]]
                 /\ f[0] = {Head} /\ \A k \in 1 .. n : f[k] = Onward(f[k - 1])
             Good == {n \in 0 .. MaxNode : \E f : Defines(f, n)}
  <1>0. MaxNode \in Nat
    BY NodeNumbers
  <1>1. 0 \in Good
    <2> DEFINE f == [k \in 0 .. 0 |-> {Head}]
    <2>1. Defines(f, 0)
      OBVIOUS
    <2> HIDE DEF f, Defines
    <2>2. \E g : Defines(g, 0)
      BY <2>1
    <2> QED
      BY <1>0, <2>2
  <1>2. ASSUME NEW n \in 1 .. MaxNode, n - 1 \in Good
        PROVE  n \in Good
    <2>1. PICK f : Defines(f, n - 1)
      BY <1>2
    <2> DEFINE g == [k \in 0 .. n |-> IF k = n THEN Onward(f[n - 1]) ELSE f[k]]
    <2>2. g[0] = {Head}
      <3>1. 0 \in 0 .. n /\ 0 # n
        BY <1>0
      <3>2. f[0] = {Head}
        BY <2>1
      <3> QED
        BY <3>1, <3>2
    <2>3. ASSUME NEW k \in 1 .. n
          PROVE  g[k] = Onward(g[k - 1])
      <3>1. k - 1 \in 0 .. n /\ k \in 0 .. n /\ k - 1 # n /\ g[k - 1] = f[k - 1]
        BY <1>0
      <3>2. CASE k = n
        BY <3>1, <3>2
      <3>3. CASE k # n
        <4>1. k \in 1 .. (n - 1) /\ g[k] = f[k]
          BY <1>0, <3>1, <3>3
        <4> QED
          BY <2>1, <3>1, <4>1
      <3> QED
        BY <3>2, <3>3
    <2>4. g = [k \in 0 .. n |-> g[k]]
      OBVIOUS
    <2> HIDE DEF g
    <2>5. Defines(g, n)
      BY <2>2, <2>3, <2>4
    <2> HIDE DEF Defines
    <2>6. \E h : Defines(h, n)
      BY <2>5
    <2> QED
      BY <1>0, <2>6
  <1>3. \E f : Defines(f, MaxNode)
    <2> HIDE DEF Defines
    <2>1. Good = {n \in 0 .. MaxNode : \E f : Defines(f, n)}
      OBVIOUS
    <2> HIDE DEF Good
    <2>2. MaxNode \in Good
      BY <1>0, <1>1, <1>2, HoldsUpTo
    <2> QED
      BY <2>1, <2>2
  <1>4. PICK f : f = [k \in 0 .. MaxNode |-> IF k = 0 THEN {Head} ELSE Onward(f[k - 1])]
    <2>1. PICK f : Defines(f, MaxNode)
      BY <1>3
    <2>2. f = [k \in 0 .. MaxNode |-> IF k = 0 THEN {Head} ELSE Onward(f[k - 1])]
      BY <1>0, <2>1
    <2> QED
      BY <2>2
  <1>6. Met = [k \in 0 .. MaxNode |-> IF k = 0 THEN {Head} ELSE Onward(Met[k - 1])]
    BY <1>4, MetUnfolds
  <1>7. Met[0] = {Head}
    BY <1>0, <1>6
  <1>8. ASSUME NEW k \in 1 .. MaxNode
        PROVE  Met[k] = Onward(Met[k - 1])
    <2>1. k \in 0 .. MaxNode /\ k # 0
      BY <1>0
    <2>2. Met[k] = [i \in 0 .. MaxNode |->
                       IF i = 0 THEN {Head} ELSE Onward(Met[i - 1])][k]
      BY <1>6
    <2> QED
      BY <2>1, <2>2
  <1> QED
    BY <1>7, <1>8

(* Nothing is met outside a set that holds the head and whose links stay   *)
(* inside.                                                                 *)
LEMMA MetInside ==
    ASSUME TypeOK, NEW S, Head \in S, \A n \in S : next[n] \in S \union {NULL}
    PROVE  Linked \subseteq S
  <1> DEFINE Good == {k \in 0 .. MaxNode : \A n \in Met[k] : n \in S}
  <1>0. MaxNode \in Nat
    BY NodeNumbers
  <1>1. 0 \in Good
    BY <1>0, MetDefined
  <1>2. ASSUME NEW k \in 1 .. MaxNode, k - 1 \in Good
        PROVE  k \in Good
    <2>1. Met[k] = Onward(Met[k - 1])
      BY MetDefined
    <2>2. \A n \in Met[k - 1] : n \in S
      BY <1>2
    <2>3. \A n \in Met[k] : n \in S
      <3> DEFINE before == Met[k - 1]
      <3>1. \A n \in Onward(before) : n \in S
        <4> HIDE DEF before
        <4> SUFFICES ASSUME \A n \in before : n \in S
                     PROVE  \A n \in Onward(before) : n \in S
          BY <2>2 DEF before
        <4> QED
          BY DEF Onward
      <3> QED
        BY <2>1, <3>1
    <2> QED
      BY <1>0, <2>3
  <1>3. MaxNode \in Good
    <2> HIDE DEF Good
    <2> QED
      BY <1>0, <1>1, <1>2, HoldsUpTo
  <1> QED
    BY <1>3 DEF Linked

(* Where every node but the head is linked to by a lower one, all are met. *)
LEMMA MetAll ==
    ASSUME TypeOK, NEW S \in SUBSET Node,
           \A n \in S \ {Head} : prev[n] \in S /\ prev[n] < n /\ next[prev[n]] = n
    PROVE  S \subseteq Linked
  <1> DEFINE Good == {k \in 0 .. MaxNode : \A n \in S : n <= k + 1 => n \in Met[k]}
  <1>0. MaxNode \in Nat /\ \A n \in S : n \in Nat /\ n >= 1 /\ n <= MaxNode
    BY NodeNumbers DEF Node
  <1>1. 0 \in Good
    BY <1>0, MetDefined DEF Head
  <1>2. ASSUME NEW k \in 1 .. MaxNode, k - 1 \in Good
        PROVE  k \in Good
    <2> DEFINE before == Met[k - 1]
    <2>1. Met[k] = Onward(before)
      BY MetDefined
    <2>2. \A n \in S : n <= k => n \in before
      BY <1>0, <1>2
    <2> HIDE DEF before
    <2>3. ASSUME NEW n \in S, n <= k + 1
          PROVE  n \in Onward(before)
      <3>1. CASE n <= k
        BY <2>2, <3>1 DEF Onward
      <3>2. CASE ~ (n <= k)
        <4>1. n # Head /\ n # NULL
          BY <1>0, <3>2 DEF Head, NULL
        <4>2. prev[n] \in S /\ prev[n] < n /\ next[prev[n]] = n
          BY <4>1
        <4>3. prev[n] <= k
          BY <1>0, <2>3, <4>2
        <4>4. prev[n] \in before
          BY <2>2, <4>2, <4>3
        <4> QED
          BY <4>1, <4>2, <4>4 DEF Onward
      <3> QED
        BY <3>1, <3>2
    <2> QED
      BY <1>0, <2>1, <2>3
  <1>3. MaxNode \in Good
    <2> HIDE DEF Good
    <2> QED
      BY <1>0, <1>1, <1>2, HoldsUpTo
  <1> QED
    BY <1>0, <1>3 DEF Linked

-----------------------------------------------------------------------------
(* While no thread erases, the links lead upwards past no node of the list *)
(* and end at its last.                                                    *)

LEMMA InOrder ==
    ASSUME BaseInv, ApartInv, NoEraser
    PROVE  \A p, x \in Members : p < x => next[p] # NULL /\ next[p] <= x
  <1> DEFINE Passed(p, x) == p < x /\ ~ (next[p] # NULL /\ next[p] <= x)
             T == {x \in Members : \E p \in Members : Passed(p, x)}
  <1> SUFFICES ASSUME T # {}
               PROVE  FALSE
    OBVIOUS
  <1>1. \A n \in Members : n \in Nat /\ n >= 1
    BY MembersAre, NodeNumbers DEF Node
  <1>2. PICK x \in T : \A y \in T : x <= y
    <2>1. T \subseteq Nat
      BY <1>1
    <2> HIDE DEF T
    <2> QED
      BY <2>1, LeastNumber
  <1>3. PICK p \in Members : Passed(p, x)
    BY <1>2
  <1>4. x \in Members \ {Head} /\ p < x
    BY <1>1, <1>2, <1>3 DEF Head
  <1> DEFINE q == prev[x]
  <1>5. q \in Members /\ q < x /\ next[q] = x
    BY <1>4 DEF NoEraser, Erasing, ApartInv, Backward, Bypassed
  <1>6. \A n \in Members : n < x => ~ \E m \in Members : Passed(m, n)
    BY <1>1, <1>2
  <1> HIDE DEF q
  <1>7. CASE p < q
    <2>1. next[p] # NULL /\ next[p] <= q
      BY <1>5, <1>6, <1>7
    <2>2. next[p] \in Nat
      <3>1. p \in Node /\ Node \subseteq Nat
        BY MembersAre, NodeNumbers
      <3> QED
        BY <2>1, <3>1 DEF BaseInv, TypeOK
    <2> QED
      BY <1>1, <1>3, <1>4, <1>5, <2>1, <2>2
  <1>8. CASE q < p
    <2>1. next[q] <= p
      BY <1>4, <1>6, <1>8, <1>5
    <2> QED
      BY <1>1, <1>4, <1>5, <2>1
  <1>9. CASE p = q
    BY <1>1, <1>3, <1>4, <1>5, <1>9, NodeNumbers, MembersAre
  <1> QED
    BY <1>1, <1>5, <1>7, <1>8, <1>9

LEMMA ReachMoves ==
    ASSUME BaseInv, ApartInv, NoEraser, NEW c \in Reached
    PROVE  /\ c \in Nat /\ c <= allocated
           /\ next[c] = NULL \/ next[c] \in Reached \ {Head}
           /\ \A m \in Members : c < m => next[c] # NULL /\ next[c] <= m
           /\ \A m \in Reached : next[c] = NULL => m <= c
  <1> DEFINE New == {n \in Node : \E t \in Thread : pc[t] = "linkPrev" /\ cur[t] = n}
  <1>1. /\ Members \subseteq Node /\ Node \subseteq Nat /\ allocated \in Nat
        /\ \A m \in Members : m <= allocated
    BY MembersAre, NodeNumbers DEF BaseInv, TypeOK
  <1>2. \A n \in New : n = allocated /\ next[n] = NULL /\ next[tail] = n /\ n # NULL
                       /\ n # Head
    BY NodeNumbers
       DEF BaseInv, NewestInserted, ApartInv, Inserted, Inserting
  <1>3. Reached = Members \union New
    BY DEF Reached
  <1> HIDE DEF New
  <1>4. \A m \in Reached : m \in Nat /\ m <= allocated
    BY <1>1, <1>2, <1>3
  <1>5. CASE c \in New
    BY <1>1, <1>2, <1>3, <1>4, <1>5
  <1>6. CASE c \in Members
    <2>1. next[c] = NULL \/ next[c] \in Reached \ {Head}
      <3>1. ASSUME next[c] \in HalfNew, c = tail
            PROVE  next[c] \in Reached \ {Head}
        <4>1. PICK t \in Thread : pc[t] \in {"linkNext", "linkPrev"} /\ cur[t] = next[c]
          BY <3>1 DEF HalfNew
        <4>2. next[c] \in Node
          BY <3>1 DEF HalfNew
        <4>3. pc[t] = "linkPrev"
          BY <3>1, <4>1, <4>2, NodeNumbers DEF ApartInv, Inserted, Inserting
        <4>4. next[c] \in New
          BY <4>1, <4>2, <4>3 DEF New
        <4> QED
          BY <1>2, <1>3, <4>4
      <3> QED
        BY <1>3, <1>6, <3>1 DEF ApartInv, Forward, NoEraser, Erasing
    <2>2. \A m \in Members : c < m => next[c] # NULL /\ next[c] <= m
      BY <1>6, InOrder
    <2>3. ASSUME NEW m \in Reached, next[c] = NULL
          PROVE  m <= c
      <3>1. tail \in Members
        BY DEF ApartInv, TailLinked, NoEraser, Erasing
      <3>2. CASE m \in Members
        BY <1>1, <1>6, <2>2, <2>3, <3>2
      <3>3. CASE m \in New
        <4>1. next[tail] = m /\ m # NULL
          BY <1>2, <3>3
        <4>2. tail < c
          BY <1>1, <1>6, <2>2, <2>3, <3>1, <4>1
        <4> QED
          BY <1>6, <3>1, <4>1, <4>2, InOrder
      <3> QED
        BY <1>3, <3>2, <3>3
    <2> QED
      BY <1>4, <2>1, <2>2, <2>3
  <1> QED
    BY <1>3, <1>5, <1>6

(* The nodes met from the head are then the nodes of the list.             *)
LEMMA LinkedIsMembers ==
    ASSUME BaseInv, ApartInv, NoEraser, writer = NoThread
    PROVE  /\ Linked = Members /\ Members = (1 .. allocated) \ freed
           /\ Head \in Members
           /\ tail \in Members /\ next[tail] = NULL
           /\ \A n \in Members : next[n] # NULL => prev[next[n]] = n
  <1>1. HalfNew = {} /\ Removed = {}
    BY HalfNewNewest DEF NoEraser, Erasing, Removed
  <1>2. Members = (1 .. allocated) \ freed
    BY <1>1 DEF Members
  <1>3. Head \in Members
    BY <1>2, NodeNumbers DEF BaseInv, TypeOK, Head, Record
  <1>4. tail \in Members /\ next[tail] = NULL
    BY DEF ApartInv, TailLinked, NoEraser, Erasing
  <1>5. \A n \in Members : next[n] # NULL => next[n] \in Members /\ prev[next[n]] = n
    BY <1>1 DEF ApartInv, Forward, NoEraser, Erasing
  <1>6. Linked \subseteq Members
    BY <1>3, <1>5, MetInside DEF BaseInv
  <1>7. Members \subseteq Linked
    <2>1. \A n \in Members \ {Head} :
              prev[n] \in Members /\ prev[n] < n /\ next[prev[n]] = n
      BY DEF ApartInv, Backward, Bypassed, NoEraser, Erasing
    <2> QED
      BY <2>1, MetAll, MembersAre DEF BaseInv
  <1> QED
    BY <1>2, <1>3, <1>4, <1>5, <1>6, <1>7

-----------------------------------------------------------------------------
(* The size of the list.                                                   *)

LEMMA KeptFinite ==
    ASSUME TypeOK
    PROVE  /\ IsFiniteSet((1 .. allocated) \ freed)
           /\ Cardinality((1 .. allocated) \ freed) \in Nat
  <1>1. IsFiniteSet(1 .. allocated)
    BY FS_Interval, NodeNumbers DEF TypeOK
  <1>2. IsFiniteSet((1 .. allocated) \ freed)
    BY <1>1, FS_Difference
  <1> QED
    BY <1>2, FS_CardinalityType

LEMMA SizeInit == Init => SizeCounts
  <1> SUFFICES ASSUME Init
               PROVE  SizeCounts
    OBVIOUS
  <1>1. Cardinality(1 .. Initial + 1) = Initial + 1
    BY FS_Interval, CacheRaceAssumption
  <1>2. (1 .. allocated) \ freed = 1 .. Initial + 1
    BY DEF Init
  <1> QED
    BY <1>1, <1>2, CacheRaceAssumption DEF Init, SizeCounts

LEMMA SizeStep ==
    ASSUME RaceInv, SizeCounts, NEW t \in Thread, ~ overlapped',
           Insert(t) \/ Unlinks(t)
    PROVE  SizeCounts'
  <1> DEFINE Kept == (1 .. allocated) \ freed
  <1>1. /\ TypeOK /\ BaseInv /\ ApartInv
        /\ IsFiniteSet(Kept) /\ Cardinality(Kept) \in Nat /\ size \in Int
        /\ size + 1 = Cardinality(Kept) - (IF writer = NoThread THEN 0 ELSE 1)
    <2>1. ~ overlapped
      BY ThreadFrame, UnlinksFrame DEF RaceInv, BaseInv
    <2> QED
      BY <2>1, KeptFinite DEF RaceInv, BaseInv, TypeOK, SizeCounts
  <1>2. CASE LockAndLink(t)
    <2>1. /\ writer = NoThread /\ writer' # NoThread /\ size' = size
          /\ allocated' = allocated + 1 /\ freed' = freed
      BY <1>2, CacheRaceAssumption DEF LockAndLink, listVars
    <2>2. allocated \in Nat /\ allocated + 1 \notin freed
      BY <1>1, NodeNumbers DEF TypeOK, BaseInv, DueLinked
    <2>3. Kept' = Kept \union {allocated + 1} /\ allocated + 1 \notin Kept
      BY <1>1, <2>1, <2>2 DEF TypeOK
    <2>4. Cardinality(Kept') = Cardinality(Kept) + 1
      BY <1>1, <2>3, FS_AddElement
    <2> QED
      BY <1>1, <2>1, <2>4 DEF SizeCounts
  <1>3. CASE LinkNext(t) \/ LinkPrev(t)
    <2>1. UNCHANGED <<writer, size, allocated, freed>>
      BY <1>3 DEF LinkNext, LinkPrev
    <2> QED
      BY <2>1 DEF SizeCounts
  <1>4. CASE SetTail(t)
    <2>1. /\ writer # NoThread /\ writer' = NoThread
          /\ size' = size + 1 /\ UNCHANGED <<allocated, freed>>
      BY <1>1, <1>4, CacheRaceAssumption
         DEF SetTail, Goes, BaseInv, WriterInserts, Inserting
    <2>2. Kept' = Kept
      BY <2>1
    <2> HIDE DEF Kept
    <2>3. size' + 1 = Cardinality(Kept')
      BY <1>1, <2>1, <2>2
    <2> QED
      BY <2>1, <2>3 DEF SizeCounts, Kept
  <1>5. CASE UnlinkNext(t) \/ UnlinkPrev(t) \/ UnlinkTail(t)
    <2>1. UNCHANGED <<writer, size, allocated, freed>>
      BY <1>5 DEF UnlinkNext, UnlinkPrev, UnlinkTail, ErasingGoes
    <2> QED
      BY <2>1 DEF SizeCounts
  <1>6. CASE Free(t)
    <2>1. /\ pc[t] = "free" /\ UNCHANGED <<writer, allocated>>
          /\ size' = size - 1 /\ freed' = freed \union {cur[t]}
      BY <1>6 DEF Free, Goes
    <2>2. cur[t] \in Kept
      <3>1. cur[t] \in 1 .. allocated
        BY <1>6, UnlinksAlone DEF Unlinks
      <3>2. cur[t] \notin freed
        BY <1>1, <2>1 DEF ApartInv, Erased, Erasing
      <3> QED
        BY <3>1, <3>2
    <2>3. Kept' = Kept \ {cur[t]}
      BY <2>1
    <2> HIDE DEF Kept
    <2>4. Cardinality(Kept') = Cardinality(Kept) - 1
      BY <1>1, <2>2, <2>3, FS_RemoveElement
    <2>5. size' + 1 = Cardinality(Kept') - (IF writer' = NoThread THEN 0 ELSE 1)
      BY <1>1, <2>1, <2>4
    <2> QED
      BY <2>5 DEF SizeCounts, Kept
  <1> QED
    BY <1>2, <1>3, <1>4, <1>5, <1>6 DEF Insert, Unlinks

-----------------------------------------------------------------------------
(* A thread keeps what it knows while others append or read.               *)

LEMMA StaysAnswering ==
    ASSUME NEW u \in Thread, Answering(u), pc[u] \notin Erasing,
           pc'[u] = pc[u], cur'[u] = cur[u], due'[u] = due[u],
           counted'[u] = counted[u], sent'[u] = sent[u], owed'[u] = owed[u],
           Members \subseteq Members', Reached \subseteq Reached',
           \A m \in Members' \ Members : m \notin due[u] /\ ~ (m < cur[u])
    PROVE  Answering(u)'
  BY DEF Answering, Erasing

LEMMA OthersAnswers ==
    ASSUME TypeOK, NEW t \in Thread, Insert(t) \/ Update(t) \/ Answer(t)
    PROVE  \A u \in Thread \ {t} :
               counted'[u] = counted[u] /\ sent'[u] = sent[u] /\ owed'[u] = owed[u]
  <1>1. CASE Insert(t)
    BY <1>1 DEF Insert, LockAndLink, LinkNext, LinkPrev, SetTail, localVars, TypeOK
  <1>2. CASE Update(t)
    BY <1>2 DEF Update, Keep, Erase, ErasingGoes, UnlinkNext, UnlinkPrev,
                UnlinkTail, Free, localVars, TypeOK
  <1>3. CASE Answer(t)
    BY <1>3 DEF Answer, Find, Walks, Count, Test, Dump, Send, TypeOK
  <1> QED
    BY <1>1, <1>2, <1>3

(* Another thread appends.                                                 *)
LEMMA AnswerInsert ==
    ASSUME RaceInv, AnswerInv, NEW t \in Thread, Insert(t), ~ overlapped'
    PROVE  AnswerInv'
  <1> USE NodeNumbers
  <1>1. /\ BaseInv /\ ApartInv /\ TypeOK
        /\ \A u \in Thread \ {t} :
              /\ pc'[u] = pc[u] /\ cur'[u] = cur[u] /\ due'[u] = due[u]
              /\ pc[u] \notin Inserting
        /\ \A u \in Thread : pc[u] \notin Erasing /\ pc'[u] \notin Erasing
        /\ Removed = {} /\ Removed' = {}
    BY InsertsAlone, ThreadFrame
  <1>2. UNCHANGED <<counted, sent, owed, due>>
    BY DEF Insert, LockAndLink, LinkNext, LinkPrev, SetTail, localVars
  <1>3. /\ pc[t] \in {"idle"} \union Inserting
        /\ pc'[t] \in {"idle"} \union Inserting
    BY <1>1 DEF Insert, LockAndLink, LinkNext, LinkPrev, SetTail, Goes, Inserting,
                TypeOK
  <1>4. /\ Members \subseteq Members' /\ Reached \subseteq Reached'
        /\ \A m \in Members' \ Members :
              m = allocated /\ m \in HalfNew
    <2>1. CASE LockAndLink(t)
      <3>1. /\ HalfNew = {} /\ allocated' = allocated + 1 /\ allocated \in Nat
            /\ freed' = freed /\ cur'[t] = allocated + 1
            /\ pc[t] = "idle" /\ pc'[t] = "linkNext"
        BY <1>1, <2>1, HalfNewNewest DEF LockAndLink, Goes, listVars, TypeOK
      <3>2. HalfNew' \subseteq {allocated + 1} /\ allocated + 1 \in HalfNew'
        <4>1. allocated + 1 \in Node
          BY <1>1, <2>1 DEF LockAndLink, TypeOK, Node
        <4> QED
          BY <1>1, <3>1, <4>1 DEF HalfNew, Inserting
      <3>3. Members' = Members
        BY <1>1, <3>1, <3>2 DEF Members
      <3> QED
        BY <1>1, <3>1, <3>3 DEF Reached
    <2>2. CASE LinkNext(t)
      <3>1. /\ UNCHANGED <<allocated, freed, cur>>
            /\ pc[t] = "linkNext" /\ pc'[t] = "linkPrev"
        BY <1>1, <2>2 DEF LinkNext, Goes, localVars, TypeOK
      <3>2. HalfNew' = HalfNew
        BY <1>1, <3>1 DEF HalfNew
      <3>3. Members' = Members
        BY <1>1, <3>1, <3>2 DEF Members
      <3> QED
        BY <1>1, <3>1, <3>3 DEF Reached
    <2>3. CASE LinkPrev(t)
      <3>1. /\ UNCHANGED <<allocated, freed, cur>>
            /\ pc[t] = "linkPrev" /\ pc'[t] = "setTail"
        BY <1>1, <2>3 DEF LinkPrev, Goes, localVars, TypeOK
      <3>2. /\ HalfNew = {cur[t]} /\ HalfNew' = {} /\ cur[t] \in Node
            /\ cur[t] = allocated /\ cur[t] \notin freed
        BY <1>1, <3>1
           DEF HalfNew, TypeOK, BaseInv, NewestInserted, ApartInv, Inserted, Inserting
      <3>3. Members' = Members \union {cur[t]}
        BY <1>1, <3>1, <3>2 DEF Members, Node
      <3>4. Reached \subseteq Members \union {cur[t]}
        BY <1>1, <3>1 DEF Reached, Inserting
      <3> QED
        BY <3>2, <3>3, <3>4 DEF Reached
    <2>4. CASE SetTail(t)
      <3>1. /\ UNCHANGED <<allocated, freed>>
            /\ pc[t] = "setTail" /\ pc'[t] = "idle"
        BY <1>1, <2>4 DEF SetTail, Goes, TypeOK
      <3>2. HalfNew' = HalfNew
        BY <1>1, <3>1 DEF HalfNew
      <3>3. Members' = Members
        BY <1>1, <3>1, <3>2 DEF Members
      <3> QED
        BY <1>1, <3>1, <3>3 DEF Reached
    <2> QED
      BY <2>1, <2>2, <2>3, <2>4 DEF Insert
  <1>5. ASSUME NEW u \in Thread \ {t}
        PROVE  Answering(u)'
    <2>1. \A m \in Members' \ Members : m \notin due[u] /\ ~ (m < cur[u])
      <3>1. due[u] \intersect HalfNew = {}
        BY <1>1 DEF BaseInv, DueLinked
      <3>2. cur[u] \in Members \union HalfNew
        BY <1>1 DEF ApartInv, Walkers, Erasing
      <3>3. cur[u] \in Nat /\ cur[u] <= allocated /\ allocated \in Nat
        BY <1>1, <3>2, MembersAre, HalfNewNewest DEF TypeOK
      <3> QED
        BY <1>4, <3>1, <3>3
    <2> QED
      BY <1>1, <1>2, <1>4, <2>1, StaysAnswering DEF AnswerInv
  <1>6. Answering(t)'
    BY <1>2, <1>3 DEF AnswerInv, Answering, Reading, Erasing, Inserting
  <1> QED
    BY <1>5, <1>6, SizeStep DEF AnswerInv

(* A thread that erases is alone.                                          *)
LEMMA AnswerUnlinks ==
    ASSUME RaceInv, AnswerInv, NEW t \in Thread, Unlinks(t), ~ overlapped'
    PROVE  AnswerInv'
  <1> DEFINE c == cur[t]
             a == after[t]
  <1> USE NodeNumbers
  <1>1. /\ BaseInv /\ ApartInv /\ TypeOK
        /\ due' = due /\ allocated' = allocated
        /\ \A u \in Thread \ {t} : pc[u] = "idle" /\ pc'[u] = "idle"
        /\ HalfNew = {} /\ HalfNew' = {}
        /\ Removed = IF pc[t] \in {"unlinkTail", "free"} THEN {c} ELSE {}
        /\ Head \in Members
        /\ pc[t] \in Erasing /\ pc'[t] \in Erasing \union {"visit", "count"}
    BY UnlinksAlone, UnlinksFrame
  <1>2. /\ UNCHANGED <<counted, sent, owed>>
        /\ freed' = freed \/ freed' = freed \union {c}
    BY DEF Unlinks, UnlinkNext, UnlinkPrev, UnlinkTail, ErasingGoes, Free, localVars
  <1>3. /\ c \in due[t] /\ c \in Nat /\ Members \subseteq Nat
        /\ a = NULL \/ a \in Members \ {Head}
    BY <1>1, MembersAre DEF BaseInv, TypeOK, DueLinked, ApartInv, Erased, Erasing
  <1>4. ASSUME NEW u \in Thread \ {t}
        PROVE  Answering(u)'
    BY <1>1, <1>2 DEF AnswerInv, Answering, Reading, Erasing
  <1>5. Answering(t)'
    <2>1. Answering(t)
      BY DEF AnswerInv
    <2>2. CASE Free(t)
      <3>1. /\ pc[t] = "free" /\ pc'[t] = Stage(a, "visit", "count")
            /\ freed' = freed \union {c}
            /\ cur'[t] = IF a = NULL THEN Head ELSE a
        BY <1>1, <2>2 DEF Free, Goes, Moves, TypeOK
      <3>2. Members' = Members /\ c \notin Members
        <4>1. Removed = {c} /\ Removed' = {}
          BY <1>1, <3>1 DEF Removed, Stage
        <4> QED
          BY <1>1, <3>1, <4>1 DEF Members
      <3>3. ASSUME NEW m \in Members, m \in due[t]
            PROVE  a # NULL /\ a <= m
        <4>1. c <= m /\ c # m
          BY <2>1, <3>1, <3>2, <3>3 DEF Answering, Erasing
        <4> QED
          BY <1>3, <2>1, <3>1, <4>1 DEF Answering, Erasing
      <3>4. cur'[t] \in Reached'
        BY <1>1, <1>3, <3>1, <3>2 DEF Reached
      <3>5. /\ owed[t] \subseteq Members \ (due[t] \union {Head})
            /\ counted[t] = {} /\ sent[t] = {}
        BY <2>1, <3>1 DEF Answering, Erasing
      <3> QED
        BY <1>1, <1>2, <3>1, <3>2, <3>3, <3>4, <3>5
           DEF Answering, Erasing, Reading, Stage
    <2>3. CASE UnlinkNext(t) \/ UnlinkPrev(t) \/ UnlinkTail(t)
      <3>1. /\ UNCHANGED <<cur, after, freed>> /\ pc'[t] \in Erasing
        BY <1>1, <2>3 DEF UnlinkNext, UnlinkPrev, UnlinkTail, ErasingGoes, Goes,
                          localVars, Erasing, TypeOK
      <3>2. Members' = Members \/ Members' = Members \ {c}
        <4>1. Removed' = {} \/ Removed' = {c}
          BY <1>1, <3>1 DEF Removed, TypeOK
        <4>2. Removed' = {} => Removed = {}
          BY <1>1, <2>3, <3>1
             DEF Removed, UnlinkNext, UnlinkPrev, UnlinkTail, ErasingGoes, Goes, TypeOK
        <4> QED
          BY <1>1, <3>1, <4>1, <4>2 DEF Members
      <3> QED
        BY <1>1, <1>2, <1>3, <2>1, <3>1, <3>2 DEF Answering, Erasing, Reading
    <2> QED
      BY <2>2, <2>3 DEF Unlinks
  <1> QED
    BY <1>4, <1>5, SizeStep DEF AnswerInv

-----------------------------------------------------------------------------
(* A step that only reads the list.                                        *)

LEMMA LooksAlone ==
    ASSUME RaceInv, NEW t \in Thread, Looks(t), ~ overlapped'
    PROVE  /\ BaseInv /\ ApartInv /\ TypeOK /\ NoEraser
           /\ \A u \in Thread \ {t} :
                 /\ pc'[u] = pc[u] /\ cur'[u] = cur[u] /\ due'[u] = due[u]
                 /\ pc[u] \notin Erasing
           /\ pc[t] \in {"idle"} \union Reading
           /\ Members' = Members /\ Reached' = Reached /\ Head \in Members
           /\ UNCHANGED <<size, allocated, freed, writer>>
  <1>1. /\ BaseInv /\ ApartInv /\ EraserAlone' /\ TypeOK
        /\ UNCHANGED <<listVars, allocated, writer>>
        /\ pc[t] \in {"idle"} \union Reading
        /\ pc'[t] \in {"idle", "unlinkNext"} \union Reading
        /\ \A u \in Thread \ {t} :
              pc'[u] = pc[u] /\ cur'[u] = cur[u] /\ due'[u] = due[u]
    BY LooksFrame, ThreadFrame DEF RaceInv, BaseInv
  <1>2. NoEraser
    <2>1. pc'[t] # "idle" \/ pc[t] # "idle"
      BY <1>1
         DEF Looks, Find, Keep, Erase, Count, Test, Dump, Walks, Send, Goes, TypeOK
    <2> QED
      BY <1>1, <2>1 DEF ApartInv, EraserAlone, NoEraser, Erasing, Reading
  <1>3. HalfNew' = HalfNew /\ Removed' = Removed /\ Removed = {}
    BY <1>1, <1>2 DEF HalfNew, Removed, Reading, NoEraser, Erasing
  <1>4. Members' = Members
    BY <1>1, <1>3 DEF Members, listVars
  <1>5. Reached' = Reached
    BY <1>1, <1>4 DEF Reached, Reading
  <1>6. Head \in Members
    BY <1>1, <1>3, HalfNewNewest, NodeNumbers DEF Members, TypeOK, Head, Record
  <1> QED
    BY <1>1, <1>2, <1>4, <1>5, <1>6 DEF listVars, NoEraser

(* The list is found: what is owed is linked.                              *)
LEMMA AnswerFind ==
    ASSUME NEW t \in Thread, RaceInv, Answering(t), Find(t), ~ overlapped'
    PROVE  Answering(t)'
  <1>1. /\ BaseInv /\ ApartInv /\ TypeOK /\ NoEraser
        /\ Members' = Members /\ Reached' = Reached /\ Head \in Members
    BY LooksAlone DEF Looks
  <1>2. /\ pc[t] = "idle" /\ pc'[t] = "visit" /\ writer = NoThread
        /\ due'[t] = expired
        /\ owed'[t] = {n \in Record \ expired : n \in Linked}
        /\ cur' = cur /\ counted' = counted /\ sent' = sent
    BY <1>1 DEF Find, Goes, TypeOK
  <1>3. cur'[t] = Head /\ \A m \in Members : Head <= m
    BY <1>1, <1>2, MembersAre, NodeNumbers DEF ApartInv, Walkers, Node, Head
  <1>4. owed'[t] \subseteq Members \ (due'[t] \union {Head})
    BY <1>1, <1>2, LinkedIsMembers DEF Record
  <1> QED
    BY <1>1, <1>2, <1>3, <1>4 DEF Answering, Erasing, Reading, Reached

(* The walk that erases what is due.                                       *)
LEMMA AnswerUpdate ==
    ASSUME NEW t \in Thread, RaceInv, Answering(t), Keep(t) \/ Erase(t), ~ overlapped'
    PROVE  Answering(t)'
  <1> DEFINE c == cur[t]
  <1>1. /\ BaseInv /\ ApartInv /\ TypeOK /\ NoEraser
        /\ Members' = Members /\ Reached' = Reached /\ Head \in Members
    BY LooksAlone DEF Looks
  <1>2. pc[t] = "visit" /\ UNCHANGED <<due, counted, sent, owed>>
    BY DEF Keep, Erase, Goes
  <1>3. /\ owed[t] \subseteq Members \ (due[t] \union {Head})
        /\ c \in Reached /\ counted[t] = {} /\ sent[t] = {}
        /\ \A m \in Members : m \in due[t] => c <= m
    BY <1>2 DEF Answering, Reading
  <1>4. /\ next[c] = NULL \/ next[c] \in Reached \ {Head}
        /\ \A m \in Members : c < m => next[c] # NULL /\ next[c] <= m
        /\ c \in Nat /\ Members \subseteq Nat
    BY <1>1, <1>3, ReachMoves, MembersAre
  <1>5. CASE Erase(t)
    <2>1. pc'[t] = "unlinkNext" /\ cur'[t] = c /\ after'[t] = next[c]
      BY <1>1, <1>5 DEF Erase, Goes, TypeOK
    <2> QED
      BY <1>1, <1>2, <1>3, <1>4, <2>1 DEF Answering, Erasing, Reading
  <1>6. CASE Keep(t)
    <2>1. /\ pc'[t] = Stage(next[c], "visit", "count") /\ c \notin due[t]
          /\ cur'[t] = IF next[c] = NULL THEN Head ELSE next[c]
      BY <1>1, <1>6 DEF Keep, Goes, Moves, TypeOK
    <2>2. ASSUME NEW m \in Members, m \in due[t]
          PROVE  next[c] # NULL /\ next[c] <= m
      <3>1. c <= m /\ c # m
        BY <1>3, <2>1, <2>2
      <3> QED
        BY <1>4, <3>1
    <2>3. cur'[t] \in Reached'
      BY <1>1, <1>4, <2>1 DEF Reached
    <2> QED
      BY <1>1, <1>2, <1>3, <2>1, <2>2, <2>3 DEF Answering, Erasing, Reading, Stage
  <1> QED
    BY <1>5, <1>6

(* The walks that count and write.                                         *)
LEMMA AnswerWalks ==
    ASSUME NEW t \in Thread, RaceInv, Answering(t),
           Count(t) \/ Test(t) \/ Dump(t), ~ overlapped'
    PROVE  Answering(t)'
  <1> DEFINE c == cur[t]
  <1>1. /\ BaseInv /\ ApartInv /\ TypeOK /\ NoEraser
        /\ Members' = Members /\ Reached' = Reached /\ Head \in Members
    BY LooksAlone DEF Looks
  <1>2. /\ pc[t] \in {"count", "test", "dump"} /\ due' = due /\ owed' = owed
        /\ cur'[t] = IF next[c] = NULL THEN Head ELSE next[c]
    BY <1>1 DEF Count, Test, Dump, Walks, Goes, Moves, TypeOK
  <1>3. /\ owed[t] \subseteq Members \ (due[t] \union {Head})
        /\ c \in Reached
        /\ \A m \in Members : m \notin due[t]
        /\ counted[t] \subseteq Reached
        /\ sent[t] \intersect due[t] = {}
    BY <1>2 DEF Answering, Reading
  <1>4. /\ next[c] = NULL \/ next[c] \in Reached \ {Head}
        /\ \A m \in Members : c < m => next[c] # NULL /\ next[c] <= m
        /\ \A m \in Reached : next[c] = NULL => m <= c
        /\ c \in Nat
    BY <1>1, <1>3, ReachMoves
  <1>5. cur'[t] \in Reached' /\ \A m \in Reached : m \in Nat /\ m >= Head
    <2>1. \A m \in Reached : m \in Node
      BY <1>1, MembersAre DEF Reached
    <2> QED
      BY <1>1, <1>2, <1>4, <2>1, NodeNumbers DEF Reached, Node, Head
  <1>6. CASE Count(t)
    <2>1. /\ pc[t] = "count" /\ sent' = sent
          /\ counted'[t] = counted[t] \union ({c} \ {Head})
          /\ pc'[t] = Stage(next[c], "count", IF counted'[t] = {} THEN "idle" ELSE "test")
      BY <1>1, <1>6 DEF Count, Walks, Goes, TypeOK
    <2>2. counted'[t] \subseteq Reached' /\ sent[t] = {}
      BY <1>1, <1>2, <1>3, <2>1 DEF Answering
    <2> QED
      BY <1>1, <1>2, <1>3, <1>5, <2>1, <2>2 DEF Answering, Erasing, Reading, Stage
  <1>7. CASE Test(t)
    <2>1. /\ pc[t] = "test" /\ sent' = sent /\ counted' = counted
          /\ pc'[t] = Stage(next[c], "test", "dump")
          /\ pc'[t] = "dump" => cur'[t] = Head
      BY <1>1, <1>2, <1>7 DEF Test, Walks, Goes, Stage, TypeOK
    <2>2. pc'[t] = "dump" => \A m \in Members : ~ (m < cur'[t])
      BY <1>5, <2>1, NodeNumbers DEF Reached, Head
    <2>3. sent[t] = {}
      BY <2>1 DEF Answering
    <2> QED
      BY <1>1, <1>2, <1>3, <1>5, <2>1, <2>2, <2>3 DEF Answering, Erasing, Reading, Stage
  <1>8. CASE Dump(t)
    <2>1. /\ pc[t] = "dump" /\ counted' = counted
          /\ sent'[t] = sent[t] \union ({c} \ {Head})
          /\ pc'[t] = Stage(next[c], "dump", "send")
      BY <1>1, <1>8 DEF Dump, Walks, Goes, TypeOK
    <2>2. c \notin due[t]
      <3>1. CASE c \in Members
        BY <1>3, <3>1
      <3>2. CASE c \notin Members
        <4>1. c \in HalfNew
          BY <1>3, <3>2 DEF Reached, HalfNew
        <4> QED
          BY <1>1, <4>1 DEF BaseInv, DueLinked
      <3> QED
        BY <3>1, <3>2
    <2>3. \A m \in Members : m # Head /\ m <= c => m \in sent'[t]
      <3>1. \A m \in Members : m # Head /\ m < c => m \in sent[t]
        BY <2>1 DEF Answering
      <3> QED
        BY <1>4, <1>5, <2>1, <3>1 DEF Reached
    <2>4. CASE next[c] # NULL
      <3>1. \A m \in Members : m < next[c] => m <= c
        BY <1>4, <1>5, <2>4 DEF Reached
      <3> QED
        BY <1>1, <1>2, <1>3, <1>5, <2>1, <2>2, <2>3, <2>4, <3>1
           DEF Answering, Erasing, Reading, Stage
    <2>5. CASE next[c] = NULL
      <3>1. \A m \in Reached : m # Head => m \in sent'[t]
        <4> SUFFICES ASSUME NEW m \in Reached, m # Head
                     PROVE  m \in sent'[t]
          OBVIOUS
        <4>1. m <= c
          BY <1>4, <2>5
        <4>2. CASE m \in Members
          BY <2>3, <4>1, <4>2
        <4>3. CASE m \notin Members
          <5>1. m = allocated
            BY <1>1, <4>3 DEF Reached, BaseInv, NewestInserted, Inserting
          <5>2. c <= allocated /\ allocated \in Nat
            BY <1>1, <1>3, ReachMoves DEF TypeOK
          <5>3. m = c
            BY <1>4, <4>1, <5>1, <5>2
          <5> QED
            BY <2>1, <5>3
        <4> QED
          BY <4>2, <4>3
      <3>2. counted[t] \subseteq Record /\ Head \notin Record /\ Members \subseteq Reached
        BY <1>1, NodeNumbers DEF TypeOK, Reached
      <3>3. owed[t] \union counted[t] \subseteq sent'[t]
        BY <1>3, <3>1, <3>2
      <3> QED
        BY <1>1, <1>2, <1>3, <1>5, <2>1, <2>2, <2>5, <3>3
           DEF Answering, Erasing, Reading, Stage
    <2> QED
      BY <2>4, <2>5
  <1> QED
    BY <1>6, <1>7, <1>8

LEMMA AnswerLooks ==
    ASSUME RaceInv, AnswerInv, NEW t \in Thread, Looks(t), ~ overlapped'
    PROVE  AnswerInv'
  <1>1. /\ TypeOK /\ Members' = Members /\ Reached' = Reached
        /\ UNCHANGED <<size, allocated, freed, writer>>
        /\ \A u \in Thread \ {t} :
              /\ pc'[u] = pc[u] /\ cur'[u] = cur[u] /\ due'[u] = due[u]
              /\ pc[u] \notin Erasing
    BY LooksAlone
  <1>2. ASSUME NEW u \in Thread \ {t}
        PROVE  Answering(u)'
    <2>1. counted'[u] = counted[u] /\ sent'[u] = sent[u] /\ owed'[u] = owed[u]
      BY <1>1, LooksFrame, OthersAnswers
    <2> QED
      BY <1>1, <2>1, StaysAnswering DEF AnswerInv
  <1>3. Answering(t)'
    <2>1. Answering(t)
      BY DEF AnswerInv
    <2>2. CASE Send(t)
      BY <1>1, <2>2 DEF Send, Goes, TypeOK, Answering, Erasing, Reading
    <2> QED
      BY <2>1, <2>2, AnswerFind, AnswerUpdate, AnswerWalks DEF Looks
  <1>4. SizeCounts'
    BY <1>1 DEF AnswerInv, SizeCounts
  <1> QED
    BY <1>2, <1>3, <1>4 DEF AnswerInv

-----------------------------------------------------------------------------
LEMMA WholeInit == Init => WholeInv
  <1> SUFFICES ASSUME Init
               PROVE  AnswerInv
    BY RaceInit DEF WholeInv
  <1>1. ASSUME NEW t \in Thread
        PROVE  Answering(t)
    BY DEF Init, Answering, Erasing, Reading
  <1> QED
    BY <1>1, SizeInit DEF AnswerInv

LEMMA WholeStep == WholeInv /\ [Next]_vars => WholeInv'
  <1> SUFFICES ASSUME WholeInv, [Next]_vars, ~ overlapped'
               PROVE  AnswerInv'
    BY RaceStep DEF WholeInv
  <1>1. CASE UNCHANGED vars \/ \E n \in Record : Expire(n)
    <2>1. /\ UNCHANGED <<listVars, allocated, writer, pc, localVars, overlapped>>
      BY <1>1 DEF vars, Expire
    <2>2. AnswerInv
      BY <2>1 DEF WholeInv
    <2>3. Members' = Members /\ Reached' = Reached
      BY <2>1 DEF Members, Reached, HalfNew, Removed, listVars, localVars
    <2>4. SizeCounts'
      BY <2>1, <2>2 DEF AnswerInv, SizeCounts, listVars
    <2>5. \A t \in Thread : Answering(t)'
      BY <2>1, <2>2, <2>3 DEF AnswerInv, Answering, localVars
    <2> QED
      BY <2>4, <2>5 DEF AnswerInv
  <1>2. ASSUME NEW t \in Thread, Insert(t) \/ Update(t) \/ Answer(t)
        PROVE  AnswerInv'
    <2>1. RaceInv /\ AnswerInv
      BY <1>2, ThreadFrame DEF WholeInv, RaceInv, BaseInv
    <2> QED
      BY <1>2, <2>1, StepKinds, AnswerInsert, AnswerLooks, AnswerUnlinks
  <1> QED
    BY <1>1, <1>2 DEF Next

LEMMA WholeInvariance == Spec => []WholeInv
  BY WholeInit, WholeStep, PTL DEF Spec

(* However threads that append, threads that read and a thread that erases *)
(* alone have been interleaved, between the calls the list is whole: it    *)
(* leads from the head to every node appended and not freed, and its tail, *)
(* its size and the links back agree with it (list.h:91-138).              *)
THEOREM ListStaysWhole == Spec => []ListWhole
  <1>1. WholeInv => ListWhole
    <2> SUFFICES ASSUME WholeInv, ~ overlapped, writer = NoThread, NoEraser
                 PROVE  /\ Linked = (1 .. allocated) \ freed
                        /\ tail \in Linked /\ next[tail] = NULL
                        /\ size + 1 = Cardinality(Linked)
                        /\ \A n \in Linked : next[n] # NULL => prev[next[n]] = n
      BY DEF ListWhole, NoEraser
    <2>1. BaseInv /\ ApartInv /\ SizeCounts
      BY DEF WholeInv, RaceInv, AnswerInv
    <2>2. /\ Linked = Members /\ Members = (1 .. allocated) \ freed
          /\ tail \in Members /\ next[tail] = NULL
          /\ \A n \in Members : next[n] # NULL => prev[next[n]] = n
      BY <2>1, LinkedIsMembers
    <2>3. size + 1 = Cardinality(Linked)
      <3>1. Cardinality((1 .. allocated) \ freed) \in Nat
        BY <2>1, KeptFinite DEF BaseInv
      <3> QED
        BY <2>1, <2>2, <3>1 DEF SizeCounts
    <2> QED
      BY <2>2, <2>3
  <1> QED
    BY <1>1, WholeInvariance, PTL

(* An answer written in three walks without a lock, beside any number of   *)
(* threads that append, holds every record that was linked and not expired *)
(* when the list was found, and every record its header counts             *)
(* (handle.c:62-74, 143-153).                                              *)
THEOREM AnswerMissesNothing == Spec => []NothingMissed
  <1>1. WholeInv => NothingMissed
    BY DEF WholeInv, AnswerInv, Answering, NothingMissed
  <1> QED
    BY <1>1, WholeInvariance, PTL

=============================================================================

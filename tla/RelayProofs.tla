---------------------------- MODULE RelayProofs ----------------------------
(* Proofs about Relay, for any numbers of queries, responses and ids.      *)
EXTENDS Relay, TLAPS

(* A number's remainder is a wire id, and a wire id indexes the table.     *)
LEMMA WireIds ==
    /\ \A n \in Nat : n % IdSpace \in WireId
    /\ \A n \in WireId : n % IdSpace = n
    /\ WireId \subseteq Slot
    /\ 0 \in WireId
  BY RelayAssumption DEF WireId, Slot, MAP_LEN

LEMMA TypeInit == Init => TypeOK
  BY RelayAssumption, WireIds
     DEF Init, TypeOK, Answer, QueryPc, Registering, Waiting, ResponsePc,
         NO_ERROR

LEMMA TypeQuery ==
    ASSUME TypeOK, NEW q \in Query, QueryStep(q)
    PROVE  TypeOK'
  <1> USE RelayAssumption, WireIds
      DEF TypeOK, Goto, Finish, indexVars, entryVars, waitVars, queryVars,
          responseVars, QueryPc, Registering, Waiting
  <1>1. CASE RejectMalformed(q)
    BY <1>1 DEF RejectMalformed, Reply
  <1>2. CASE AnswerFromCache(q)
    BY <1>2 DEF AnswerFromCache, Reply
  <1>3. CASE MissCache(q)
    BY <1>3 DEF MissCache
  <1>4. CASE WriteReqId(q)
    BY <1>4 DEF WriteReqId, Store
  <1>5. CASE WriteSock(q)
    BY <1>5 DEF WriteSock, Store
  <1>6. CASE TestWrap(q)
    BY <1>6 DEF TestWrap
  <1>7. CASE Reset(q)
    BY <1>7 DEF Reset
  <1>8. CASE TakeId(q)
    BY <1>8 DEF TakeId
  <1>9. CASE Increment(q)
    BY <1>9 DEF Increment
  <1>10. CASE SendQuery(q)
    BY <1>10 DEF SendQuery, Forwarded
  <1>11. CASE ArmWait(q)
    BY <1>11 DEF ArmWait
  <1>12. CASE WakeUp(q)
    BY <1>12 DEF WakeUp
  <1>13. CASE ClearValid(q)
    BY <1>13 DEF ClearValid
  <1> QED
    BY <1>1, <1>2, <1>3, <1>4, <1>5, <1>6, <1>7, <1>8, <1>9, <1>10, <1>11,
       <1>12, <1>13 DEF QueryStep

LEMMA TypeResponse ==
    ASSUME TypeOK, NEW r \in Response, ReceiveResponse(r) \/ ResponseStep(r)
    PROVE  TypeOK'
  <1> USE RelayAssumption, WireIds
      DEF TypeOK, Advance, indexVars, entryVars, waitVars, queryVars,
          responseVars, ResponsePc
  <1>1. CASE ReceiveResponse(r)
    BY <1>1 DEF ReceiveResponse, Forwarded, Answer, NO_ERROR, NAME_ERROR
  <1>2. CASE WriteCache(r)
    BY <1>2 DEF WriteCache, SameName
  <1>3. CASE CheckValid(r)
    BY <1>3 DEF CheckValid
  <1>4. CASE ReadReqId(r)
    BY <1>4 DEF ReadReqId, Answer
  <1>5. CASE SendResponse(r)
    BY <1>5 DEF SendResponse, Answer, Reply
  <1>6. CASE PostSem(r)
    BY <1>6 DEF PostSem, Answer
  <1> QED
    BY <1>1, <1>2, <1>3, <1>4, <1>5, <1>6 DEF ResponseStep

LEMMA TypeStep == TypeOK /\ [Next]_vars => TypeOK'
  <1> SUFFICES ASSUME TypeOK, [Next]_vars
               PROVE  TypeOK'
    OBVIOUS
  <1>1. CASE UNCHANGED vars
    BY <1>1 DEF TypeOK, vars, indexVars, entryVars, waitVars, queryVars,
                responseVars
  <1>2. CASE ReceiveQuery
    BY <1>2, RelayAssumption
       DEF TypeOK, ReceiveQuery, indexVars, entryVars, waitVars, responseVars,
           QueryPc, Registering, Query
  <1>3. ASSUME NEW q \in Query, TimerFires(q)
        PROVE  TypeOK'
    BY <1>3, WireIds
       DEF TypeOK, TimerFires, indexVars, entryVars, queryVars, responseVars
  <1> QED
    BY <1>1, <1>2, <1>3, TypeQuery, TypeResponse DEF Next

(* The state of the relay is well-formed in every interleaving of its      *)
(* threads: ids fit the wire and the table, semaphores do not go negative. *)
THEOREM TypeCorrect == Spec => []TypeOK
  BY TypeInit, TypeStep, PTL DEF Spec

-----------------------------------------------------------------------------
(* The frames of the actors' steps.                                       *)

(* What the steps of one actor leave alone of the others.                  *)
LEMMA QueryFrame ==
    ASSUME TypeOK, NEW q \in Query, QueryStep(q)
    PROVE  /\ UNCHANGED <<arrived, rpc, rmsg, rid>>
           /\ \A p \in Query \ {q} :
                 UNCHANGED <<qpc[p], hid[p], old[p], timer[p], req_at[p], sock_at[p]>>
  BY DEF TypeOK, QueryStep, Goto, Finish, indexVars, entryVars, waitVars,
         queryVars, responseVars, RejectMalformed, AnswerFromCache, MissCache,
         WriteReqId, WriteSock, TestWrap, Reset, TakeId, Increment, SendQuery,
         ArmWait, WakeUp, ClearValid

LEMMA ResponseFrame ==
    ASSUME TypeOK, NEW r \in Response, ReceiveResponse(r) \/ ResponseStep(r)
    PROVE  /\ UNCHANGED <<indexVars, entryVars, queryVars, valid, timer, sent>>
           /\ \A o \in Response \ {r} : UNCHANGED <<rpc[o], rmsg[o], rid[o]>>
  BY DEF TypeOK, ResponseStep, Advance, indexVars, entryVars, waitVars,
         queryVars, responseVars, ReceiveResponse, WriteCache, CheckValid,
         ReadReqId, SendResponse, PostSem

LEMMA TimerFrame ==
    ASSUME TypeOK, NEW q \in Query, TimerFires(q)
    PROVE  /\ UNCHANGED <<indexVars, entryVars, queryVars, responseVars, valid,
                          sent, replies>>
           /\ \A p \in Query \ {q} : timer'[p] = timer[p]
  BY DEF TypeOK, TimerFires, indexVars, entryVars, waitVars, queryVars,
         responseVars

LEMMA ReceiveFrame ==
    ASSUME TypeOK, ReceiveQuery
    PROVE  /\ UNCHANGED <<indexVars, entryVars, waitVars, responseVars, sent,
                          replies>>
           /\ \A p \in Query \ {arrived + 1} : qpc'[p] = qpc[p]
  BY DEF TypeOK, ReceiveQuery, indexVars, entryVars, waitVars, responseVars

-----------------------------------------------------------------------------
(* Valid entries.                                                          *)

(* The queries that have not arrived yet are the idle ones.                *)
IdleAhead == \A q \in Query : qpc[q] = "idle" <=> q > arrived

ValidInv == TypeOK /\ IdleAhead /\ ValidHasWaiter

LEMMA ValidInit == Init => ValidInv
  BY TypeInit DEF Init, ValidInv, IdleAhead, ValidHasWaiter, Query

LEMMA IdleStep == TypeOK /\ IdleAhead /\ [Next]_vars => IdleAhead'
  <1> SUFFICES ASSUME TypeOK, IdleAhead, [Next]_vars
               PROVE  IdleAhead'
    OBVIOUS
  <1> USE DEF IdleAhead
  <1>1. CASE UNCHANGED vars
    BY <1>1 DEF vars, queryVars
  <1>2. CASE ReceiveQuery
    BY <1>2, RelayAssumption DEF ReceiveQuery, TypeOK, Query
  <1>3. ASSUME NEW q \in Query, QueryStep(q)
        PROVE  IdleAhead'
    <2>1. qpc[q] # "idle" /\ qpc'[q] # "idle"
      BY <1>3
         DEF TypeOK, QueryStep, Goto, Finish, RejectMalformed, AnswerFromCache,
             MissCache, WriteReqId, WriteSock, TestWrap, Reset, TakeId,
             Increment, SendQuery, ArmWait, WakeUp, ClearValid
    <2> QED
      BY <1>3, <2>1, QueryFrame
  <1>4. ASSUME NEW q \in Query, TimerFires(q)
        PROVE  IdleAhead'
    BY <1>4, TimerFrame DEF queryVars
  <1>5. ASSUME NEW r \in Response, ReceiveResponse(r) \/ ResponseStep(r)
        PROVE  IdleAhead'
    BY <1>5, ResponseFrame DEF queryVars
  <1> QED
    BY <1>1, <1>2, <1>3, <1>4, <1>5 DEF Next

(* A thread stops waiting for an id where it marks the id as not valid.    *)
LEMMA ValidStep == ValidInv /\ [Next]_vars => ValidHasWaiter'
  <1> SUFFICES ASSUME ValidInv, [Next]_vars,
                      NEW i \in Slot, valid'[i] = 1
               PROVE  \E p \in Query : qpc'[p] \in Waiting /\ hid'[p] = i
    BY DEF ValidHasWaiter
  <1> USE DEF ValidInv, ValidHasWaiter, IdleAhead
  <1>1. CASE UNCHANGED vars
    BY <1>1 DEF vars, indexVars, waitVars, queryVars
  <1>2. CASE ReceiveQuery
    <2>1. \A p \in Query : qpc[p] \in Waiting => p # arrived + 1
      BY DEF Waiting, TypeOK, Query
    <2> QED
      BY <1>2, <2>1, ReceiveFrame DEF indexVars, waitVars
  <1>3. ASSUME NEW q \in Query, QueryStep(q)
        PROVE  \E p \in Query : qpc'[p] \in Waiting /\ hid'[p] = i
    <2>1. CASE ArmWait(q)
      <3>1. CASE i = hid[q]
        BY <2>1, <3>1 DEF ArmWait, Goto, Waiting, TypeOK, indexVars
      <3>2. CASE i # hid[q]
        BY <1>3, <2>1, <3>2, QueryFrame
           DEF ArmWait, Goto, Waiting, TypeOK, indexVars
      <3> QED
        BY <3>1, <3>2
    <2>2. CASE ClearValid(q)
      <3>1. i # hid[q] /\ valid[i] = 1
        BY <2>2, WireIds DEF ClearValid, TypeOK
      <3> QED
        BY <1>3, <2>2, <3>1, QueryFrame
    <2>3. CASE ~ ArmWait(q) /\ ~ ClearValid(q)
      <3>1. valid' = valid
        BY <1>3, <2>3
           DEF QueryStep, Finish, waitVars, RejectMalformed, AnswerFromCache,
               MissCache, WriteReqId, WriteSock, TestWrap, Reset, TakeId,
               Increment, SendQuery, WakeUp
      <3>2. qpc[q] \in Waiting => qpc'[q] \in Waiting /\ hid'[q] = hid[q]
        BY <1>3, <2>3
           DEF QueryStep, Goto, Finish, indexVars, waitVars, RejectMalformed,
               AnswerFromCache, MissCache, WriteReqId, WriteSock, TestWrap,
               Reset, TakeId, Increment, SendQuery, WakeUp, Waiting, TypeOK
      <3> QED
        BY <1>3, <3>1, <3>2, QueryFrame
    <2> QED
      BY <2>1, <2>2, <2>3
  <1>4. ASSUME NEW q \in Query, TimerFires(q)
        PROVE  \E p \in Query : qpc'[p] \in Waiting /\ hid'[p] = i
    BY <1>4, TimerFrame DEF indexVars, queryVars
  <1>5. ASSUME NEW r \in Response, ReceiveResponse(r) \/ ResponseStep(r)
        PROVE  \E p \in Query : qpc'[p] \in Waiting /\ hid'[p] = i
    BY <1>5, ResponseFrame DEF indexVars, queryVars
  <1> QED
    BY <1>1, <1>2, <1>3, <1>4, <1>5 DEF Next

LEMMA ValidInductive == ValidInv /\ [Next]_vars => ValidInv'
  BY TypeStep, IdleStep, ValidStep DEF ValidInv

(* An entry is valid only while somebody waits, in every interleaving,     *)
(* whichever queries share an id (handle.c:212-242).                       *)
THEOREM ValidOnlyWhileAwaited == Spec => []ValidHasWaiter
  <1>1. ValidInv => ValidHasWaiter
    BY DEF ValidInv
  <1> QED
    BY <1>1, ValidInit, ValidInductive, PTL DEF Spec

-----------------------------------------------------------------------------
(* What is sent on, whichever queries overlap and whichever ids come round  *)
(* again.  An entry holds what was last written to it, so that the only    *)
(* query that had to do with an entry finds there what it wrote.           *)

(* How far a query's thread has come in its entry.                         *)
History(q) ==
    /\ qpc[q] \in {"idle", "start", "wreq"} => req_at[q] = 0
    /\ qpc[q] \in {"idle", "start", "wreq", "wsock"} => sock_at[q] = 0
    /\ Taken(q) \/ qpc[q] \in {"wsock", "wrap", "reset", "take"} => req_at[q] # 0
    /\ Taken(q) \/ qpc[q] \in {"wrap", "reset", "take"} => sock_at[q] # 0
    /\ timer[q] \in {"armed", "fired"} <=> qpc[q] \in Waiting
    /\ timer[q] = "cancelled" => qpc[q] = "done"

Histories == \A q \in Query : History(q)

WroteReqId(i) == {w \in Query : req_at[w] = i /\ i # 0}
WroteSock(i) == {w \in Query : sock_at[w] = i /\ i # 0}

(* An entry holds the zeroes of server_init or what some query has         *)
(* written; entry 0 is never written.                                      *)
EntriesWritten ==
    \A i \in Slot :
        /\ \/ WroteReqId(i) = {} /\ buf_req_id[i] = 0
           \/ \E w \in WroteReqId(i) : buf_req_id[i] = ReqId[w]
        /\ \/ WroteSock(i) = {} /\ buf_sock[i] = NoSock
           \/ \E w \in WroteSock(i) : buf_sock[i] = Sender[w]

(* Message m belongs to the exchange with the upstream server about q.     *)
Owner(q, m) == Taken(q) /\ m.id = hid[q] /\ m.question = Asked[q]

SentOwned == \A m \in sent : \E q \in Query : Owner(q, m)

(* An id that some mixed query has put where it was read.                  *)
MixedId(id) == id = 0 \/ \E w \in Mixed : id = ReqId[w]

ResponsesOwned ==
    \A r \in Response : rpc[r] # "idle" =>
        \E q \in Query :
            /\ Owner(q, rmsg[r])
            /\ rpc[r] = "send" =>
                  IF q \in Mixed THEN MixedId(rid[r]) ELSE rid[r] = ReqId[q]
            /\ rpc[r] \in {"post", "done"} =>
                  q \in Mixed \/ ReplyTo(q, "upstream") \in replies

(* A token is there for a reason that the owner of the entry knows.        *)
TokensFounded ==
    \A i \in Slot : sem[i] > 0 =>
        \E q \in Query :
            /\ Taken(q) /\ hid[q] = i
            /\ \/ q \in Mixed
               \/ timer[q] \in {"fired", "cancelled"}
               \/ ReplyTo(q, "upstream") \in replies

RelayInv ==
    /\ ValidInv
    /\ Histories
    /\ EntriesWritten
    /\ SentOwned
    /\ ResponsesOwned
    /\ TokensFounded
    /\ WokenForCause
    /\ WaitersReachable

LEMMA RelayInit == Init => RelayInv
  <1> SUFFICES ASSUME Init
               PROVE  RelayInv
    OBVIOUS
  <1>1. ValidInv
    BY ValidInit
  <1>2. Histories
    BY DEF Init, Histories, History, Taken, Waiting
  <1>3. EntriesWritten
    BY DEF Init, EntriesWritten, WroteReqId, WroteSock, Slot
  <1>4. SentOwned /\ ResponsesOwned /\ TokensFounded
    BY DEF Init, SentOwned, ResponsesOwned, TokensFounded
  <1>5. WokenForCause /\ WaitersReachable
    BY DEF Init, WokenForCause, WaitersReachable, Waiting
  <1> QED
    BY <1>1, <1>2, <1>3, <1>4, <1>5 DEF RelayInv

(* What a query's own step does to its history.                            *)
LEMMA HistoryOfStep ==
    ASSUME RelayInv, NEW q \in Query, QueryStep(q)
    PROVE  History(q)'
  <1>1. TypeOK /\ History(q)
    BY DEF RelayInv, ValidInv, Histories
  <1> QED
    BY <1>1
       DEF TypeOK, History, Taken, QueryStep, Goto, Finish, RejectMalformed,
           AnswerFromCache, MissCache, WriteReqId, WriteSock, TestWrap, Reset,
           TakeId, Increment, SendQuery, ArmWait, WakeUp, ClearValid, Waiting,
           indexVars, entryVars, waitVars

LEMMA HistoriesKept == RelayInv /\ [Next]_vars => Histories'
  <1> SUFFICES ASSUME RelayInv, [Next]_vars, NEW q \in Query
               PROVE  History(q)'
    BY DEF Histories
  <1>0. TypeOK /\ IdleAhead /\ History(q)
    BY DEF RelayInv, ValidInv, Histories
  <1>1. CASE UNCHANGED vars
    BY <1>0, <1>1 DEF History, Taken, vars, entryVars, waitVars, queryVars
  <1>2. CASE ReceiveQuery
    <2>1. \/ qpc'[q] = qpc[q]
          \/ qpc[q] = "idle" /\ qpc'[q] = "start"
      BY <1>0, <1>2 DEF ReceiveQuery, IdleAhead, TypeOK
    <2> QED
      BY <1>0, <1>2, <2>1, ReceiveFrame DEF History, Taken, Waiting, entryVars, waitVars
  <1>3. ASSUME NEW p \in Query, QueryStep(p)
        PROVE  History(q)'
    BY <1>0, <1>3, HistoryOfStep, QueryFrame DEF History, Taken
  <1>4. ASSUME NEW p \in Query, TimerFires(p)
        PROVE  History(q)'
    BY <1>0, <1>4, TimerFrame
       DEF History, Taken, TimerFires, TypeOK, entryVars, queryVars
  <1>5. ASSUME NEW r \in Response, ReceiveResponse(r) \/ ResponseStep(r)
        PROVE  History(q)'
    BY <1>0, <1>5, ResponseFrame DEF History, Taken, entryVars, queryVars
  <1> QED
    BY <1>1, <1>2, <1>3, <1>4, <1>5 DEF Next

(* A query keeps the id it has taken and the entries it has written.       *)
LEMMA HistoryStays ==
    ASSUME RelayInv, [Next]_vars, NEW q \in Query
    PROVE  /\ Taken(q) => Taken(q)' /\ hid'[q] = hid[q]
           /\ req_at[q] # 0 => req_at'[q] = req_at[q]
           /\ sock_at[q] # 0 => sock_at'[q] = sock_at[q]
  <1>0. TypeOK /\ IdleAhead /\ History(q)
    BY DEF RelayInv, ValidInv, Histories
  <1>1. CASE UNCHANGED vars
    BY <1>1 DEF Taken, vars, indexVars, entryVars, waitVars, queryVars
  <1>2. CASE ReceiveQuery
    <2>1. qpc'[q] = qpc[q] \/ qpc[q] = "idle"
      BY <1>0, <1>2 DEF ReceiveQuery, IdleAhead, TypeOK
    <2> QED
      BY <1>2, <2>1, <1>0, ReceiveFrame
         DEF History, Taken, Waiting, indexVars, entryVars, waitVars
  <1>3. ASSUME NEW p \in Query, QueryStep(p)
        PROVE  /\ Taken(q) => Taken(q)' /\ hid'[q] = hid[q]
               /\ req_at[q] # 0 => req_at'[q] = req_at[q]
               /\ sock_at[q] # 0 => sock_at'[q] = sock_at[q]
    <2>1. CASE p # q
      BY <1>3, <2>1, <1>0, QueryFrame DEF Taken
    <2>2. CASE p = q
      BY <1>3, <2>2, <1>0
         DEF TypeOK, History, Taken, QueryStep, Goto, Finish, RejectMalformed,
             AnswerFromCache, MissCache, WriteReqId, WriteSock, TestWrap, Reset,
             TakeId, Increment, SendQuery, ArmWait, WakeUp, ClearValid, Waiting,
             indexVars, entryVars, waitVars
    <2> QED
      BY <2>1, <2>2
  <1>4. ASSUME NEW p \in Query, TimerFires(p)
        PROVE  /\ UNCHANGED <<hid, req_at, sock_at>>
               /\ Taken(q) => Taken(q)'
    BY <1>0, <1>4, TimerFrame
       DEF Taken, TimerFires, TypeOK, indexVars, entryVars, queryVars
  <1>5. ASSUME NEW r \in Response, ReceiveResponse(r) \/ ResponseStep(r)
        PROVE  UNCHANGED <<qpc, timer, hid, req_at, sock_at>>
    BY <1>0, <1>5, ResponseFrame DEF indexVars, entryVars, queryVars
  <1> QED
    BY <1>1, <1>2, <1>3, <1>4, <1>5 DEF Next, Taken

(* Once mixed, always mixed.                                               *)
LEMMA MixedGrows ==
    ASSUME RelayInv, [Next]_vars
    PROVE  Mixed \subseteq Mixed'
  <1>1. ASSUME NEW q \in Query
        PROVE  Entries(q) \subseteq Entries(q)'
    BY HistoryStays DEF Entries
  <1>2. ASSUME NEW q \in Query, Taken(q)
        PROVE  Taken(q)' /\ UNCHANGED <<hid[q], req_at[q], sock_at[q]>>
    BY <1>2, HistoryStays DEF RelayInv, Histories, History
  <1> QED
    BY <1>1, <1>2 DEF Mixed, Shares

(* What a query that is not mixed can rely on.                             *)
LEMMA Unmixed ==
    ASSUME Histories, NEW q \in Query, Taken(q), q \notin Mixed
    PROVE  /\ hid[q] # 0 /\ req_at[q] = hid[q] /\ sock_at[q] = hid[q]
           /\ \A p \in Query \ {q} :
                 /\ Taken(p) => hid[p] # hid[q]
                 /\ req_at[p] # hid[q]
                 /\ sock_at[p] # hid[q]
  <1>1. hid[q] # 0 /\ req_at[q] = hid[q] /\ sock_at[q] = hid[q]
    BY DEF Mixed, Histories, History
  <1>2. hid[q] \in Entries(q)
    BY DEF Entries
  <1>3. ASSUME NEW p \in Query \ {q}
        PROVE  hid[q] \notin Entries(p)
    BY <1>2, <1>3 DEF Mixed, Shares
  <1> QED
    BY <1>1, <1>3 DEF Entries

(* What the entry of a query's id holds.                                   *)
LEMMA EntryHolds ==
    ASSUME RelayInv, NEW q \in Query, Taken(q)
    PROVE  IF q \in Mixed
           THEN /\ MixedId(buf_req_id[hid[q]])
                /\ \/ buf_sock[hid[q]] = NoSock
                   \/ \E w \in Mixed : buf_sock[hid[q]] = Sender[w]
           ELSE /\ buf_req_id[hid[q]] = ReqId[q]
                /\ buf_sock[hid[q]] = Sender[q]
  <1> USE DEF RelayInv, ValidInv
  <1>1. hid[q] \in Slot
    BY WireIds DEF TypeOK
  <1>2. CASE q \in Mixed
    <2>1. ASSUME NEW w \in Query, w \in WroteReqId(hid[q]) \/ w \in WroteSock(hid[q])
          PROVE  w \in Mixed
      <3>1. hid[q] \in Entries(q) /\ hid[q] \in Entries(w)
        BY <2>1 DEF Entries, WroteReqId, WroteSock
      <3> QED
        BY <1>2, <3>1 DEF Mixed, Shares
    <2>2. WroteReqId(hid[q]) \subseteq Query /\ WroteSock(hid[q]) \subseteq Query
      BY DEF WroteReqId, WroteSock
    <2> QED
      BY <1>1, <1>2, <2>1, <2>2 DEF EntriesWritten, MixedId
  <1>3. CASE q \notin Mixed
    <2>1. hid[q] # 0 /\ WroteReqId(hid[q]) = {q} /\ WroteSock(hid[q]) = {q}
      BY <1>3, Unmixed DEF WroteReqId, WroteSock
    <2> QED
      BY <1>1, <1>3, <2>1 DEF EntriesWritten
  <1> QED
    BY <1>2, <1>3

-----------------------------------------------------------------------------
(* The invariant is kept.                                                  *)

LEMMA EntriesKept == RelayInv /\ [Next]_vars => EntriesWritten'
  <1> SUFFICES ASSUME RelayInv, [Next]_vars
               PROVE  EntriesWritten'
    OBVIOUS
  <1> USE DEF EntriesWritten, WroteReqId, WroteSock
  <1>0. TypeOK /\ EntriesWritten
    BY DEF RelayInv, ValidInv
  <1>1. CASE UNCHANGED entryVars
    BY <1>0, <1>1 DEF entryVars
  <1>2. ASSUME NEW q \in Query, WriteReqId(q)
        PROVE  EntriesWritten'
    <2>1. req_at[q] = 0
      BY <1>2 DEF RelayInv, Histories, History, WriteReqId, Goto
    <2>2. /\ req_at' = [req_at EXCEPT ![q] = buf1_len]
          /\ buf_req_id' = IF buf1_len \in Slot
                           THEN [buf_req_id EXCEPT ![buf1_len] = ReqId[q]]
                           ELSE buf_req_id
          /\ UNCHANGED <<buf_sock, sock_at>>
      BY <1>2 DEF WriteReqId, Store
    <2>3. ASSUME NEW i \in Slot, i # buf1_len
          PROVE  WroteReqId(i)' = WroteReqId(i) /\ buf_req_id'[i] = buf_req_id[i]
      BY <1>0, <2>1, <2>2, <2>3 DEF TypeOK
    <2>4. ASSUME NEW i \in Slot, i = buf1_len
          PROVE  q \in WroteReqId(i)' /\ buf_req_id'[i] = ReqId[q]
      BY <1>0, <2>2, <2>4 DEF TypeOK
    <2> QED
      BY <1>0, <2>2, <2>3, <2>4
  <1>3. ASSUME NEW q \in Query, WriteSock(q)
        PROVE  EntriesWritten'
    <2>1. sock_at[q] = 0
      BY <1>3 DEF RelayInv, Histories, History, WriteSock, Goto
    <2>2. /\ sock_at' = [sock_at EXCEPT ![q] = buf1_len]
          /\ buf_sock' = IF buf1_len \in Slot
                         THEN [buf_sock EXCEPT ![buf1_len] = Sender[q]]
                         ELSE buf_sock
          /\ UNCHANGED <<buf_req_id, req_at>>
      BY <1>3 DEF WriteSock, Store
    <2>3. ASSUME NEW i \in Slot, i # buf1_len
          PROVE  WroteSock(i)' = WroteSock(i) /\ buf_sock'[i] = buf_sock[i]
      BY <1>0, <2>1, <2>2, <2>3 DEF TypeOK
    <2>4. ASSUME NEW i \in Slot, i = buf1_len
          PROVE  q \in WroteSock(i)' /\ buf_sock'[i] = Sender[q]
      BY <1>0, <2>2, <2>4 DEF TypeOK
    <2> QED
      BY <1>0, <2>2, <2>3, <2>4
  <1>4. ASSUME NEW q \in Query, QueryStep(q), ~ WriteReqId(q), ~ WriteSock(q)
        PROVE  UNCHANGED entryVars
    BY <1>4
       DEF QueryStep, Finish, RejectMalformed, AnswerFromCache, MissCache,
           TestWrap, Reset, TakeId, Increment, SendQuery, ArmWait, WakeUp,
           ClearValid
  <1> QED
    BY <1>0, <1>1, <1>2, <1>3, <1>4, TimerFrame, ResponseFrame, ReceiveFrame
       DEF Next, vars

(* A step takes no message from its owner, and no answer back.             *)
LEMMA OwnersStay ==
    ASSUME RelayInv, [Next]_vars, NEW q \in Query, NEW m, Owner(q, m)
    PROVE  Owner(q, m)'
  BY HistoryStays DEF Owner

LEMMA RepliesGrow ==
    ASSUME RelayInv, [Next]_vars
    PROVE  replies \subseteq replies'
  <1>1. TypeOK
    BY DEF RelayInv, ValidInv
  <1>2. ASSUME NEW q \in Query, QueryStep(q)
        PROVE  replies \subseteq replies'
    BY <1>2
       DEF QueryStep, Finish, RejectMalformed, AnswerFromCache, MissCache,
           WriteReqId, WriteSock, TestWrap, Reset, TakeId, Increment, SendQuery,
           ArmWait, WakeUp, ClearValid
  <1>3. ASSUME NEW r \in Response, ReceiveResponse(r) \/ ResponseStep(r)
        PROVE  replies \subseteq replies'
    BY <1>3
       DEF ReceiveResponse, ResponseStep, WriteCache, CheckValid, ReadReqId,
           SendResponse, PostSem
  <1> QED
    BY <1>1, <1>2, <1>3, TimerFrame, ReceiveFrame DEF Next, vars

LEMMA SentOwnedKept == RelayInv /\ [Next]_vars => SentOwned'
  <1> SUFFICES ASSUME RelayInv, [Next]_vars, NEW m \in sent'
               PROVE  \E q \in Query : Owner(q, m)'
    BY DEF SentOwned
  <1>0. TypeOK
    BY DEF RelayInv, ValidInv
  <1>1. CASE m \in sent
    BY <1>1, OwnersStay DEF SentOwned, RelayInv
  <1>2. ASSUME NEW q \in Query, SendQuery(q), m \notin sent
        PROVE  Owner(q, m)'
    BY <1>0, <1>2 DEF SendQuery, Owner, Taken, Goto, TypeOK, indexVars
  <1>3. ASSUME NEW q \in Query, QueryStep(q), ~ SendQuery(q)
        PROVE  sent' = sent
    BY <1>3
       DEF QueryStep, Finish, RejectMalformed, AnswerFromCache, MissCache,
           WriteReqId, WriteSock, TestWrap, Reset, TakeId, Increment, ArmWait,
           WakeUp, ClearValid
  <1> QED
    BY <1>0, <1>1, <1>2, <1>3, TimerFrame, ResponseFrame, ReceiveFrame
       DEF Next, vars

(* A response's own step.                                                  *)
ResponseOwned(r) ==
    \E q \in Query :
        /\ Owner(q, rmsg[r])
        /\ rpc[r] = "send" =>
              IF q \in Mixed THEN MixedId(rid[r]) ELSE rid[r] = ReqId[q]
        /\ rpc[r] \in {"post", "done"} =>
              q \in Mixed \/ ReplyTo(q, "upstream") \in replies

LEMMA OwnedByOwnStep ==
    ASSUME RelayInv, [Next]_vars, NEW r \in Response,
           ReceiveResponse(r) \/ ResponseStep(r)
    PROVE  ResponseOwned(r)'
  <1>0. TypeOK /\ SentOwned /\ ResponsesOwned
    BY DEF RelayInv, ValidInv
  <1>1. Mixed' = Mixed /\ \A q \in Query : Taken(q)' = Taken(q) /\ hid'[q] = hid[q]
    BY <1>0, ResponseFrame
       DEF Mixed, Shares, Entries, Taken, indexVars, entryVars, queryVars
  <1> USE DEF Advance, TypeOK
  <1>2. CASE ReceiveResponse(r)
    <2>1. PICK m \in sent : /\ rpc'[r] = "parse"
                            /\ rmsg'[r].id = m.id /\ rmsg'[r].question = m.question
      BY <1>0, <1>2 DEF ReceiveResponse
    <2>2. PICK q \in Query : Owner(q, m)
      BY <1>0, <2>1 DEF SentOwned
    <2> QED
      BY <1>1, <2>1, <2>2 DEF ResponseOwned, Owner
  <1>3. CASE WriteCache(r) \/ CheckValid(r) \/ PostSem(r)
    <2>1. /\ rpc[r] # "idle" /\ rpc'[r] \notin {"idle", "send"} /\ rmsg' = rmsg
          /\ replies' = replies
          /\ rpc'[r] \in {"post", "done"} => rpc[r] \in {"post", "done"}
      BY <1>0, <1>3 DEF WriteCache, CheckValid, PostSem
    <2> QED
      BY <1>0, <1>1, <2>1 DEF ResponsesOwned, ResponseOwned, Owner
  <1>4. CASE ReadReqId(r)
    <2>1. /\ rpc[r] = "read" /\ rpc'[r] = "send" /\ rmsg' = rmsg
          /\ rid'[r] = buf_req_id[rmsg[r].id]
      BY <1>0, <1>4 DEF ReadReqId
    <2>2. PICK q \in Query : Owner(q, rmsg[r])
      BY <1>0, <2>1 DEF ResponsesOwned
    <2>3. IF q \in Mixed THEN MixedId(rid'[r]) ELSE rid'[r] = ReqId[q]
      BY <2>1, <2>2, EntryHolds DEF Owner
    <2> QED
      BY <1>1, <2>1, <2>2, <2>3 DEF ResponseOwned, Owner, MixedId
  <1>5. CASE SendResponse(r)
    <2>1. /\ rpc[r] = "send" /\ rpc'[r] = "post" /\ rmsg' = rmsg
          /\ [to |-> buf_sock[rmsg[r].id], id |-> rid[r],
              question |-> rmsg[r].question, from |-> "upstream"] \in replies'
      BY <1>0, <1>5 DEF SendResponse
    <2>2. PICK q \in Query :
             /\ Owner(q, rmsg[r])
             /\ IF q \in Mixed THEN MixedId(rid[r]) ELSE rid[r] = ReqId[q]
      BY <1>0, <2>1 DEF ResponsesOwned
    <2>3. q \in Mixed \/ ReplyTo(q, "upstream") \in replies'
      BY <2>1, <2>2, EntryHolds DEF Owner, ReplyTo
    <2> QED
      BY <1>1, <2>1, <2>2, <2>3 DEF ResponseOwned, Owner, ReplyTo
  <1> QED
    BY <1>2, <1>3, <1>4, <1>5 DEF ResponseStep

LEMMA ResponsesOwnedKept == RelayInv /\ [Next]_vars => ResponsesOwned'
  <1> SUFFICES ASSUME RelayInv, [Next]_vars, NEW r \in Response, rpc'[r] # "idle"
               PROVE  ResponseOwned(r)'
    BY DEF ResponsesOwned, ResponseOwned
  <1>0. TypeOK /\ ResponsesOwned
    BY DEF RelayInv, ValidInv
  <1>1. CASE UNCHANGED <<rpc[r], rmsg[r], rid[r]>>
    <2>1. PICK q \in Query :
            /\ Owner(q, rmsg[r])
            /\ rpc[r] = "send" =>
                  IF q \in Mixed THEN MixedId(rid[r]) ELSE rid[r] = ReqId[q]
            /\ rpc[r] \in {"post", "done"} =>
                  q \in Mixed \/ ReplyTo(q, "upstream") \in replies
      BY <1>0, <1>1 DEF ResponsesOwned
    <2>2. Owner(q, rmsg[r])'
      BY <1>1, <2>1, OwnersStay DEF Owner
    <2>3. rpc[r] = "send" =>
             IF q \in Mixed' THEN MixedId(rid[r])' ELSE rid[r] = ReqId[q]
      BY <1>1, <2>1, MixedGrows DEF MixedId
    <2>4. rpc[r] \in {"post", "done"} =>
                  q \in Mixed' \/ ReplyTo(q, "upstream") \in replies'
      BY <2>1, MixedGrows, RepliesGrow
    <2> QED
      BY <1>1, <2>2, <2>3, <2>4 DEF ResponseOwned, MixedId, ReplyTo
  <1>2. CASE ReceiveResponse(r) \/ ResponseStep(r)
    BY <1>2, OwnedByOwnStep
  <1>3. ASSUME NEW o \in Response, o # r, ReceiveResponse(o) \/ ResponseStep(o)
        PROVE  UNCHANGED <<rpc[r], rmsg[r], rid[r]>>
    BY <1>0, <1>3, ResponseFrame
  <1>4. CASE UNCHANGED <<rpc, rmsg, rid>>
    BY <1>1, <1>4
  <1> QED
    BY <1>0, <1>1, <1>2, <1>3, <1>4, TimerFrame, QueryFrame, ReceiveFrame
       DEF Next, vars, responseVars

(* Who makes a token, and what becomes of the reason for it.               *)
Founded(q, i) ==
    /\ Taken(q) /\ hid[q] = i
    /\ \/ q \in Mixed
       \/ timer[q] \in {"fired", "cancelled"}
       \/ ReplyTo(q, "upstream") \in replies

LEMMA FoundedStays ==
    ASSUME RelayInv, [Next]_vars, NEW q \in Query, NEW i, Founded(q, i)
    PROVE  Founded(q, i)'
  <1>0. TypeOK /\ History(q) /\ IdleAhead
    BY DEF RelayInv, ValidInv, Histories
  <1>1. timer[q] \in {"fired", "cancelled"} => timer'[q] \in {"fired", "cancelled"}
    <2>1. ASSUME NEW p \in Query, QueryStep(p), timer[q] \in {"fired", "cancelled"}
          PROVE  timer'[q] \in {"fired", "cancelled"}
      BY <1>0, <2>1
         DEF TypeOK, History, QueryStep, Goto, Finish, RejectMalformed,
             AnswerFromCache, MissCache, WriteReqId, WriteSock, TestWrap, Reset,
             TakeId, Increment, SendQuery, ArmWait, WakeUp, ClearValid, Waiting,
             waitVars
    <2>2. ASSUME NEW p \in Query, TimerFires(p), timer[q] \in {"fired", "cancelled"}
          PROVE  timer'[q] \in {"fired", "cancelled"}
      BY <1>0, <2>2 DEF TimerFires, TypeOK
    <2> QED
      BY <1>0, <2>1, <2>2, ResponseFrame, ReceiveFrame DEF Next, vars, waitVars
  <1> QED
    BY <1>1, HistoryStays, MixedGrows, RepliesGrow DEF Founded, ReplyTo

LEMMA TokensKept == RelayInv /\ [Next]_vars => TokensFounded'
  <1> SUFFICES ASSUME RelayInv, [Next]_vars, NEW i \in Slot, sem'[i] > 0
               PROVE  \E q \in Query : Founded(q, i)'
    BY DEF TokensFounded, Founded
  <1>0. TypeOK /\ ResponsesOwned /\ Histories
    BY DEF RelayInv, ValidInv
  <1>1. CASE sem[i] > 0
    <2>1. PICK q \in Query : Founded(q, i)
      BY <1>1 DEF TokensFounded, RelayInv, Founded
    <2> QED
      BY <2>1, FoundedStays
  <1>2. ASSUME NEW q \in Query, TimerFires(q), ~ (sem[i] > 0)
        PROVE  Founded(q, i)'
    <2>1. i = hid[q] /\ timer'[q] = "fired" /\ hid' = hid
      BY <1>0, <1>2, WireIds DEF TimerFires, TypeOK, indexVars
    <2>2. Taken(q)
      BY <1>0, <1>2 DEF TimerFires, Histories, History, Taken, Waiting
    <2> QED
      BY <2>1, <2>2, HistoryStays DEF Founded
  <1>3. ASSUME NEW r \in Response, PostSem(r), ~ (sem[i] > 0)
        PROVE  \E q \in Query : Founded(q, i)'
    <2>1. i = rmsg[r].id /\ rpc[r] = "post"
      BY <1>0, <1>3, WireIds DEF PostSem, Advance, TypeOK, Answer
    <2>2. PICK q \in Query :
             /\ Owner(q, rmsg[r])
             /\ q \in Mixed \/ ReplyTo(q, "upstream") \in replies
      BY <1>0, <2>1 DEF ResponsesOwned
    <2>3. Founded(q, i)
      BY <2>1, <2>2 DEF Founded, Owner
    <2> QED
      BY <2>3, FoundedStays
  <1>4. ASSUME NEW r \in Response, ReceiveResponse(r) \/ ResponseStep(r), ~ PostSem(r)
        PROVE  sem' = sem
    BY <1>4
       DEF ReceiveResponse, ResponseStep, WriteCache, CheckValid, ReadReqId,
           SendResponse, waitVars
  <1>5. ASSUME NEW q \in Query, QueryStep(q)
        PROVE  sem[i] > 0
    BY <1>0, <1>5
       DEF QueryStep, Finish, RejectMalformed, AnswerFromCache, MissCache,
           WriteReqId, WriteSock, TestWrap, Reset, TakeId, Increment, SendQuery,
           ArmWait, WakeUp, ClearValid, TypeOK, waitVars
  <1> QED
    BY <1>0, <1>1, <1>2, <1>3, <1>4, <1>5, ReceiveFrame DEF Next, vars, waitVars

LEMMA WokenForCauseKept == RelayInv /\ [Next]_vars => WokenForCause'
  <1> SUFFICES ASSUME RelayInv, [Next]_vars,
                      NEW q \in Query, qpc'[q] = "clear", q \notin Mixed'
               PROVE  \/ timer'[q] = "fired"
                      \/ ReplyTo(q, "upstream") \in replies'
    BY DEF WokenForCause, ReplyTo
  <1>0. TypeOK /\ History(q) /\ Histories /\ q \notin Mixed
    BY MixedGrows DEF RelayInv, ValidInv, Histories
  <1>1. CASE qpc[q] = "clear" /\ timer'[q] = timer[q]
    BY <1>0, <1>1, RepliesGrow DEF RelayInv, WokenForCause
  <1>2. CASE WakeUp(q)
    <2>1. sem[hid[q]] > 0 /\ qpc[q] = "wait" /\ timer'[q] = timer[q]
      BY <1>2 DEF WakeUp, Goto
    <2>2. PICK p \in Query : Founded(p, hid[q])
      BY <1>0, <2>1, WireIds DEF RelayInv, TokensFounded, Founded, TypeOK
    <2>3. Taken(q)
      BY <2>1 DEF Taken, Waiting
    <2>4. p = q
      BY <1>0, <2>2, <2>3, Unmixed DEF Founded
    <2>5. timer[q] \in {"fired", "cancelled"} \/ ReplyTo(q, "upstream") \in replies
      BY <1>0, <2>2, <2>4 DEF Founded
    <2>6. timer[q] # "cancelled"
      BY <1>0, <2>1 DEF History
    <2> QED
      BY <2>1, <2>5, <2>6, RepliesGrow
  <1>3. ASSUME NEW p \in Query, QueryStep(p), ~ WakeUp(q)
        PROVE  qpc[q] = "clear" /\ timer'[q] = timer[q]
    <2>1. CASE p # q
      BY <1>0, <1>3, <2>1, QueryFrame
    <2>2. CASE p = q
      BY <1>0, <1>3, <2>2
         DEF TypeOK, QueryStep, Goto, Finish, RejectMalformed, AnswerFromCache,
             MissCache, WriteReqId, WriteSock, TestWrap, Reset, TakeId,
             Increment, SendQuery, ArmWait, ClearValid
    <2> QED
      BY <2>1, <2>2
  <1>4. ASSUME NEW p \in Query, TimerFires(p)
        PROVE  \/ timer'[q] = "fired"
               \/ qpc[q] = "clear" /\ timer'[q] = timer[q]
    BY <1>0, <1>4, TimerFrame DEF TimerFires, TypeOK, queryVars
  <1>5. CASE ReceiveQuery
    BY <1>0, <1>1, <1>5, ReceiveFrame DEF ReceiveQuery, TypeOK, waitVars
  <1>6. ASSUME NEW r \in Response, ReceiveResponse(r) \/ ResponseStep(r)
        PROVE  qpc[q] = "clear" /\ timer'[q] = timer[q]
    BY <1>0, <1>6, ResponseFrame DEF queryVars
  <1>7. CASE UNCHANGED vars
    BY <1>1, <1>7 DEF vars, queryVars, waitVars
  <1> QED
    BY <1>1, <1>2, <1>3, <1>4, <1>5, <1>6, <1>7 DEF Next

(* The thread that clears the mark of its id is the only one with that id. *)
LEMMA ReachableKept == RelayInv /\ [Next]_vars => WaitersReachable'
  <1> SUFFICES ASSUME RelayInv, [Next]_vars,
                      NEW q \in Query, qpc'[q] \in Waiting,
                      \A p \in Query \ {q} : Taken(p)' => hid'[p] # hid'[q]
               PROVE  valid'[hid'[q]] = 1
    BY DEF WaitersReachable
  <1>0. TypeOK /\ IdleAhead /\ WaitersReachable
    BY DEF RelayInv, ValidInv
  <1>1. ASSUME qpc[q] \in Waiting
        PROVE  /\ hid'[q] = hid[q] /\ valid[hid[q]] = 1
               /\ \A p \in Query \ {q} : Taken(p) => hid[p] # hid[q]
    <2>1. Taken(q)
      BY <1>1 DEF Taken
    <2>2. \A p \in Query : Taken(p) => Taken(p)' /\ hid'[p] = hid[p]
      BY HistoryStays
    <2> QED
      BY <1>0, <1>1, <2>1, <2>2 DEF WaitersReachable
  <1>2. ASSUME NEW p \in Query, QueryStep(p)
        PROVE  valid'[hid'[q]] = 1
    <2>1. CASE ArmWait(p)
      <3>1. hid' = hid /\ valid' = [valid EXCEPT ![hid[p]] = 1]
        BY <2>1 DEF ArmWait, indexVars
      <3>2. q = p \/ qpc[q] \in Waiting
        BY <1>0, <1>2, QueryFrame
      <3> QED
        BY <1>0, <1>1, <3>1, <3>2, WireIds DEF TypeOK
    <2>2. CASE ClearValid(p)
      <3>1. /\ hid' = hid /\ valid' = [valid EXCEPT ![hid[p]] = 0]
            /\ qpc[p] = "clear" /\ qpc'[p] = "done"
        BY <1>0, <2>2 DEF ClearValid, indexVars, Goto, TypeOK
      <3>2. q # p /\ qpc[q] \in Waiting
        BY <1>0, <1>2, <3>1, QueryFrame DEF Waiting
      <3>3. Taken(p)
        BY <3>1 DEF Taken, Waiting
      <3>4. hid[q] # hid[p]
        BY <1>1, <3>2, <3>3
      <3> QED
        BY <1>0, <1>1, <3>1, <3>2, <3>4, WireIds DEF TypeOK
    <2>3. CASE ~ ArmWait(p) /\ ~ ClearValid(p)
      <3>1. valid' = valid
        BY <1>2, <2>3
           DEF QueryStep, Finish, waitVars, RejectMalformed, AnswerFromCache,
               MissCache, WriteReqId, WriteSock, TestWrap, Reset, TakeId,
               Increment, SendQuery, WakeUp
      <3>2. qpc'[p] \in Waiting => qpc[p] \in Waiting
        BY <1>0, <1>2, <2>3
           DEF QueryStep, Goto, Finish, RejectMalformed, AnswerFromCache,
               MissCache, WriteReqId, WriteSock, TestWrap, Reset, TakeId,
               Increment, SendQuery, WakeUp, Waiting, TypeOK
      <3> QED
        BY <1>0, <1>1, <1>2, <3>1, <3>2, QueryFrame
    <2> QED
      BY <2>1, <2>2, <2>3
  <1>3. ASSUME NEW p \in Query, TimerFires(p)
        PROVE  valid' = valid /\ qpc' = qpc
    BY <1>0, <1>3, TimerFrame DEF queryVars
  <1>4. CASE ReceiveQuery
    <2>1. qpc'[q] = qpc[q] /\ valid' = valid
      BY <1>0, <1>4, ReceiveFrame DEF ReceiveQuery, Waiting, TypeOK, waitVars
    <2> QED
      BY <1>1, <2>1
  <1>5. ASSUME NEW r \in Response, ReceiveResponse(r) \/ ResponseStep(r)
        PROVE  valid' = valid /\ qpc' = qpc
    BY <1>0, <1>5, ResponseFrame DEF queryVars
  <1>6. CASE UNCHANGED vars
    BY <1>1, <1>6 DEF vars, queryVars, waitVars
  <1> QED
    BY <1>1, <1>2, <1>3, <1>4, <1>5, <1>6 DEF Next

LEMMA RelayInductive == RelayInv /\ [Next]_vars => RelayInv'
  <1> SUFFICES ASSUME RelayInv, [Next]_vars
               PROVE  RelayInv'
    OBVIOUS
  <1>1. ValidInv'
    BY ValidInductive DEF RelayInv
  <1>2. Histories' /\ EntriesWritten' /\ SentOwned'
    BY HistoriesKept, EntriesKept, SentOwnedKept
  <1>3. ResponsesOwned' /\ TokensFounded'
    BY ResponsesOwnedKept, TokensKept
  <1>4. WokenForCause' /\ WaitersReachable'
    BY WokenForCauseKept, ReachableKept
  <1> QED
    BY <1>1, <1>2, <1>3, <1>4 DEF RelayInv

LEMMA RelayInvariance == Spec => []RelayInv
  BY RelayInit, RelayInductive, PTL DEF Spec

(* No thread is woken by a token left by another query's exchange, unless  *)
(* something went wrong with the entries of the two (handle.c:237).        *)
THEOREM WakingsCaused == Spec => []WokenForCause
  <1>1. RelayInv => WokenForCause
    BY DEF RelayInv
  <1> QED
    BY <1>1, RelayInvariance, PTL

(* No answer that comes while a thread waits for it is dropped as late     *)
(* (handle.c:432-436): while no other query has taken its id, only the     *)
(* thread itself takes the mark off it.                                    *)
THEOREM WaitersStayReachable == Spec => []WaitersReachable
  <1>1. RelayInv => WaitersReachable
    BY DEF RelayInv
  <1> QED
    BY <1>1, RelayInvariance, PTL

-----------------------------------------------------------------------------
(* The refinement of RelayPromise.                                         *)

Phase == [q \in Query |-> IF qpc[q] = "done" THEN "closed"
                          ELSE IF qpc[q] \in Waiting THEN "open" ELSE "new"]
Matched == {q \in Query \ Mixed : Accepted(q)}
promised == <<Phase, Matched, Mixed, replies>>

AcceptedPc == {"read", "send", "post", "done"}

(* Who is mixed follows from where queries wrote and what they took.       *)
LEMMA MixedSame ==
    ASSUME UNCHANGED <<hid, req_at, sock_at>>,
           \A q \in Query : Taken(q)' <=> Taken(q)
    PROVE  /\ Mixed' = Mixed
           /\ UNCHANGED <<rpc, rmsg>> => Matched' = Matched
  <1>1. \A q \in Query : Entries(q)' = Entries(q)
    BY DEF Entries
  <1>2. Mixed' = Mixed
    BY <1>1 DEF Mixed, Shares
  <1> QED
    BY <1>2 DEF Matched, Accepted

(* Registering changes nothing of what is promised but who is mixed.       *)
LEMMA RegisteringMixes ==
    ASSUME RelayInv, [Next]_vars, NEW q \in Query,
           WriteReqId(q) \/ WriteSock(q) \/ TakeId(q)
    PROVE  \/ UNCHANGED promised
           \/ Promise!Mix(q)
  <1>0. TypeOK /\ ResponsesOwned /\ Histories
    BY DEF RelayInv, ValidInv
  <1>1. Phase[q] = "new" /\ Phase' = Phase /\ replies' = replies
    BY <1>0
       DEF WriteReqId, WriteSock, TakeId, Goto, Phase, Waiting, TypeOK
  <1>2. /\ UNCHANGED <<rpc, rmsg, timer>> /\ ~ Taken(q)
        /\ \A p \in Query \ {q} :
              UNCHANGED <<qpc[p], hid[p], req_at[p], sock_at[p]>>
    <2>1. qpc[q] \in {"wreq", "wsock", "take"}
      BY DEF WriteReqId, WriteSock, TakeId, Goto
    <2>2. ~ Taken(q)
      BY <1>0, <2>1 DEF Histories, History, Taken, Waiting
    <2>3. UNCHANGED <<rpc, rmsg, timer>>
      BY DEF WriteReqId, WriteSock, TakeId, responseVars, waitVars
    <2> QED
      BY <1>0, <2>2, <2>3, QueryFrame DEF QueryStep
  <1>3. \A p \in Query \ {q} : Entries(p)' = Entries(p) /\ Taken(p)' = Taken(p)
    BY <1>2 DEF Entries, Taken
  <1>4. Mixed' # Mixed => q \in Mixed'
    <2>1. ASSUME NEW p \in Query, p \notin Mixed, p \in Mixed', p # q
          PROVE  q \in Mixed'
      BY <1>2, <1>3, <2>1 DEF Mixed, Shares
    <2>2. ASSUME NEW p \in Mixed'
          PROVE  p \in Query
      BY DEF Mixed
    <2> QED
      BY <2>1, <2>2, MixedGrows
  <1>5. \A p \in Query : p \notin Mixed' => (Accepted(p)' <=> Accepted(p))
    <2>1. ASSUME NEW p \in Query, p # q
          PROVE  Accepted(p)' <=> Accepted(p)
      BY <1>2, <1>3, <2>1 DEF Accepted
    <2>2. ~ Accepted(q)
      BY <1>2 DEF Accepted
    <2>3. ASSUME Accepted(q)', q \notin Mixed'
          PROVE  FALSE
      <3>1. PICK r \in Response : rpc[r] \in AcceptedPc /\ rmsg[r].id = hid'[q]
        BY <1>2, <2>3 DEF Accepted, AcceptedPc
      <3>2. PICK p \in Query : Owner(p, rmsg[r])
        BY <1>0, <3>1 DEF ResponsesOwned, AcceptedPc
      <3>3. p # q /\ Taken(p)' /\ hid'[p] = hid'[q]
        BY <1>2, <3>1, <3>2, HistoryStays DEF Owner
      <3>4. Taken(q)' /\ hid'[q] \in Entries(q)' /\ hid'[q] \in Entries(p)'
        BY <2>3, <3>3 DEF Accepted, Entries
      <3> QED
        BY <2>3, <3>3, <3>4 DEF Mixed, Shares
    <2> QED
      BY <2>1, <2>2, <2>3
  <1>6. Matched' = Matched \ Mixed'
    BY <1>5, MixedGrows DEF Matched
  <1>7. CASE Mixed' = Mixed
    BY <1>1, <1>6, <1>7 DEF Matched, promised
  <1>8. CASE Mixed' # Mixed
    <2>1. Mixed' \in SUBSET Query
      BY DEF Mixed
    <2>2. Mixed' = Mixed \union Mixed' \union {q}
      BY <1>4, <1>8, MixedGrows
    <2>3. \E S \in SUBSET Query : Mixed' = Mixed \union S \union {q}
      BY <2>1, <2>2
    <2> QED
      BY <1>1, <1>6, <2>3 DEF Promise!Mix, Phase, Matched
  <1> QED
    BY <1>7, <1>8

LEMMA PhaseOfQuery ==
    ASSUME RelayInv, NEW q \in Query, QueryStep(q),
           ~ WriteReqId(q), ~ WriteSock(q), ~ TakeId(q)
    PROVE  /\ Mixed' = Mixed /\ Matched' = Matched
           /\ \/ Phase' = Phase /\ replies' = replies
              \/ /\ Phase[q] = "new" /\ Phase' = [Phase EXCEPT ![q] = "closed"]
                 /\ \/ replies' = replies \union {Promise!ReplyTo(q, "cache")}
                    \/ replies' = replies \union {Promise!FormatError(q)}
              \/ /\ Phase[q] = "new" /\ Phase' = [Phase EXCEPT ![q] = "open"]
                 /\ replies' = replies
              \/ /\ Phase[q] = "open" /\ Phase' = [Phase EXCEPT ![q] = "closed"]
                 /\ replies' = replies
  <1>0. TypeOK /\ Histories
    BY DEF RelayInv, ValidInv
  <1>1. /\ UNCHANGED <<hid, req_at, sock_at, rpc, rmsg>>
        /\ Taken(q)' <=> Taken(q)
    BY <1>0
       DEF TypeOK, Histories, History, Taken, QueryStep, Goto, Finish,
           RejectMalformed, AnswerFromCache, MissCache, TestWrap, Reset,
           Increment, SendQuery, ArmWait, WakeUp, ClearValid, Waiting,
           indexVars, entryVars, waitVars, responseVars
  <1>2. \A p \in Query : Taken(p)' <=> Taken(p)
    BY <1>0, <1>1, QueryFrame DEF Taken
  <1>3. Mixed' = Mixed /\ Matched' = Matched
    BY <1>1, <1>2, MixedSame
  <1> USE <1>0 DEF Phase, Waiting, Goto, TypeOK
  <1>4. CASE RejectMalformed(q)
    BY <1>3, <1>4 DEF RejectMalformed, Finish, Promise!FormatError
  <1>5. CASE AnswerFromCache(q)
    BY <1>3, <1>5 DEF AnswerFromCache, Finish, Promise!ReplyTo
  <1>6. CASE ArmWait(q)
    BY <1>3, <1>6 DEF ArmWait
  <1>7. CASE WakeUp(q)
    BY <1>3, <1>7 DEF WakeUp
  <1>8. CASE ClearValid(q)
    BY <1>3, <1>8 DEF ClearValid
  <1>9. CASE \/ MissCache(q) \/ TestWrap(q) \/ Reset(q) \/ Increment(q)
             \/ SendQuery(q)
    BY <1>3, <1>9 DEF MissCache, TestWrap, Reset, Increment, SendQuery
  <1> QED
    BY <1>4, <1>5, <1>6, <1>7, <1>8, <1>9 DEF QueryStep

(* A response is accepted while the query under its id waits; if it is not *)
(* mixed, it is the only one with that id.                                 *)
LEMMA AcceptIsMatch ==
    ASSUME RelayInv, NEW r \in Response, CheckValid(r), valid[rmsg[r].id] # 0,
           Mixed' = Mixed, \A q \in Query : Taken(q)' <=> Taken(q)
    PROVE  \/ Matched' = Matched
           \/ \E q \in Query \ Mixed : /\ qpc[q] \in Waiting
                                       /\ Matched' = Matched \union {q}
  <1>0. TypeOK /\ ValidHasWaiter /\ Histories
    BY DEF RelayInv, ValidInv
  <1>1. PICK q \in Query : qpc[q] \in Waiting /\ hid[q] = rmsg[r].id
    <2>1. rmsg[r].id \in Slot
      BY <1>0, WireIds DEF TypeOK, Answer
    <2> QED
      BY <1>0, <2>1 DEF ValidHasWaiter, TypeOK
  <1>2. /\ rpc'[r] = "read" /\ rpc[r] = "check" /\ rmsg' = rmsg /\ hid' = hid
        /\ \A o \in Response \ {r} : rpc'[o] = rpc[o]
    BY <1>0 DEF CheckValid, Advance, TypeOK, indexVars
  <1>3. \A p \in Query :
           Accepted(p)' <=> Accepted(p) \/ (Taken(p) /\ hid[p] = hid[q])
    BY <1>1, <1>2 DEF Accepted
  <1>4. Taken(q)
    BY <1>1 DEF Taken
  <1>5. CASE q \in Mixed
    <2>1. ASSUME NEW p \in Query, Taken(p), hid[p] = hid[q]
          PROVE  p \in Mixed
      <3>1. hid[q] \in Entries(p) /\ hid[q] \in Entries(q)
        BY <1>4, <2>1 DEF Entries
      <3> QED
        BY <1>5, <3>1 DEF Mixed, Shares
    <2> QED
      BY <1>3, <2>1 DEF Matched
  <1>6. CASE q \notin Mixed
    <2>1. \A p \in Query : Taken(p) /\ hid[p] = hid[q] <=> p = q
      BY <1>0, <1>4, <1>6, Unmixed
    <2>2. Matched' = Matched \union {q}
      BY <1>3, <1>6, <2>1 DEF Matched
    <2> QED
      BY <1>1, <1>6, <2>2
  <1> QED
    BY <1>5, <1>6

(* Any other step of a response accepts nothing.                           *)
LEMMA MatchedByResponse ==
    ASSUME RelayInv, NEW r \in Response, ReceiveResponse(r) \/ ResponseStep(r)
    PROVE  /\ Mixed' = Mixed /\ \A q \in Query : Taken(q)' <=> Taken(q)
           /\ Phase' = Phase
           /\ \/ Matched' = Matched
              \/ CheckValid(r) /\ valid[rmsg[r].id] # 0
  <1>0. TypeOK
    BY DEF RelayInv, ValidInv
  <1>1. /\ UNCHANGED <<hid, req_at, sock_at, qpc, timer>>
        /\ \A q \in Query : Taken(q)' <=> Taken(q)
    BY <1>0, ResponseFrame DEF indexVars, entryVars, queryVars, Taken
  <1>2. Mixed' = Mixed
    BY <1>1, MixedSame
  <1>3. ASSUME ~ (CheckValid(r) /\ valid[rmsg[r].id] # 0)
        PROVE  Matched' = Matched
    <2>1. rpc'[r] \in AcceptedPc <=> rpc[r] \in AcceptedPc
      BY <1>0, <1>3
         DEF AcceptedPc, ReceiveResponse, ResponseStep, WriteCache, CheckValid,
             ReadReqId, SendResponse, PostSem, Advance, TypeOK
    <2>2. rpc[r] \in AcceptedPc => rmsg'[r] = rmsg[r]
      BY DEF AcceptedPc, ReceiveResponse, ResponseStep, WriteCache, CheckValid,
             ReadReqId, SendResponse, PostSem, Advance
    <2>3. \A o \in Response :
             /\ rpc'[o] \in AcceptedPc <=> rpc[o] \in AcceptedPc
             /\ rpc[o] \in AcceptedPc => rmsg'[o] = rmsg[o]
      BY <1>0, <2>1, <2>2, ResponseFrame
    <2> QED
      BY <1>1, <1>2, <2>3 DEF Matched, Accepted, AcceptedPc
  <1> QED
    BY <1>1, <1>2, <1>3 DEF Phase

(* What is sent on is the answer to the owner of the id, or is made of     *)
(* parts of mixed queries.                                                 *)
LEMMA SendIsDelivery ==
    ASSUME RelayInv, NEW r \in Response, SendResponse(r)
    PROVE  \/ \E q \in Matched :
                 replies' = replies \union {Promise!ReplyTo(q, "upstream")}
           \/ \E m \in [to: {Sender[q] : q \in Mixed} \union {NoSock},
                        id: {ReqId[q] : q \in Mixed} \union {0},
                        question: {Asked[q] : q \in Mixed}, from: {"upstream"}] :
                 replies' = replies \union {m}
  <1> DEFINE m == [to |-> buf_sock[rmsg[r].id], id |-> rid[r],
                   question |-> rmsg[r].question, from |-> "upstream"]
  <1>1. rpc[r] = "send" /\ replies' = replies \union {m}
    BY DEF SendResponse, Advance
  <1>2. PICK q \in Query :
           /\ Owner(q, rmsg[r])
           /\ IF q \in Mixed THEN MixedId(rid[r]) ELSE rid[r] = ReqId[q]
    BY <1>1 DEF ResponsesOwned, RelayInv
  <1>3. CASE q \in Mixed
    <2>1. \/ m.to = NoSock
          \/ \E w \in Mixed : m.to = Sender[w]
      BY <1>2, <1>3, EntryHolds DEF Owner
    <2>2. m.id \in {ReqId[w] : w \in Mixed} \union {0}
      BY <1>2, <1>3 DEF MixedId
    <2>3. m.question \in {Asked[w] : w \in Mixed}
      BY <1>2, <1>3 DEF Owner
    <2>4. m \in [to: {Sender[w] : w \in Mixed} \union {NoSock},
                 id: {ReqId[w] : w \in Mixed} \union {0},
                 question: {Asked[w] : w \in Mixed}, from: {"upstream"}]
      BY <2>1, <2>2, <2>3
    <2> QED
      BY <1>1, <2>4
  <1>4. CASE q \notin Mixed
    <2>1. m = Promise!ReplyTo(q, "upstream")
      BY <1>2, <1>4, EntryHolds DEF Owner, Promise!ReplyTo
    <2>2. q \in Matched
      BY <1>1, <1>2, <1>4 DEF Owner, Matched, Accepted
    <2> QED
      BY <1>1, <2>1, <2>2
  <1> QED
    BY <1>3, <1>4

(* The relay implements its promise in every interleaving: each step of it *)
(* is a step of RelayPromise or leaves phases, matches, mixed queries and  *)
(* replies as they are.                                                    *)
THEOREM RelayKeepsPromise == Spec => KeepsPromise
  <1>1. Init => Promise!Init
    <2> SUFFICES ASSUME Init
                 PROVE  Promise!Init
      OBVIOUS
    <2>1. \A q \in Query : ~ Taken(q) /\ Entries(q) = {}
      BY DEF Init, Taken, Waiting, Entries
    <2>2. Mixed = {} /\ \A q \in Query : ~ Accepted(q)
      BY <2>1 DEF Mixed, Shares, Accepted
    <2> QED
      BY <2>2 DEF Init, Promise!Init, Waiting
  <1>2. RelayInv /\ [Next]_vars => [Promise!Next]_(Promise!vars)
    <2> SUFFICES ASSUME RelayInv, [Next]_vars
                 PROVE  [Promise!Next]_promised
      BY DEF Phase, Matched, promised, Promise!vars
    <2>0. TypeOK /\ IdleAhead /\ Histories
      BY DEF RelayInv, ValidInv
    <2>1. CASE UNCHANGED vars
      <3>1. \A q \in Query : Taken(q)' <=> Taken(q)
        BY <2>1 DEF Taken, vars, queryVars, waitVars
      <3> QED
        BY <2>1, <3>1, MixedSame
           DEF vars, queryVars, responseVars, indexVars, entryVars, Phase, promised
    <2>2. CASE ReceiveQuery
      <3>1. \A q \in Query : Taken(q)' <=> Taken(q)
        BY <2>0, <2>2
           DEF ReceiveQuery, TypeOK, IdleAhead, Taken, Waiting, waitVars
      <3>2. Phase' = Phase
        BY <2>0, <2>2 DEF ReceiveQuery, Phase, Waiting, TypeOK, IdleAhead
      <3> QED
        BY <2>2, <3>1, <3>2, MixedSame
           DEF ReceiveQuery, indexVars, entryVars, responseVars, promised
    <2>3. ASSUME NEW q \in Query, QueryStep(q)
          PROVE  [Promise!Next]_promised
      <3>1. CASE WriteReqId(q) \/ WriteSock(q) \/ TakeId(q)
        BY <3>1, RegisteringMixes DEF Promise!Next
      <3>2. CASE ~ (WriteReqId(q) \/ WriteSock(q) \/ TakeId(q))
        BY <2>3, <3>2, PhaseOfQuery
           DEF Promise!Next, Promise!AnswerAtOnce, Promise!Open, Promise!Close,
               Promise!Move, Phase, Matched, promised
      <3> QED
        BY <3>1, <3>2
    <2>4. ASSUME NEW q \in Query, TimerFires(q)
          PROVE  UNCHANGED promised
      <3>1. /\ UNCHANGED <<hid, req_at, sock_at, rpc, rmsg, qpc, replies>>
            /\ \A p \in Query : Taken(p)' <=> Taken(p)
        BY <2>0, <2>4
           DEF TimerFires, TypeOK, Taken, indexVars, entryVars, queryVars,
               responseVars
      <3> QED
        BY <3>1, MixedSame DEF Phase, promised
    <2>5. ASSUME NEW r \in Response, ReceiveResponse(r) \/ ResponseStep(r)
          PROVE  [Promise!Next]_promised
      <3>1. CASE SendResponse(r)
        <4>1. rpc[r] # "check"
          BY <3>1 DEF SendResponse, Advance
        <4>2. Mixed' = Mixed /\ Phase' = Phase /\ Matched' = Matched
          BY <2>5, <4>1, MatchedByResponse DEF CheckValid, Advance
        <4>3. Matched \subseteq Query
          BY DEF Matched
        <4> QED
          BY <3>1, <4>2, <4>3, SendIsDelivery
             DEF Promise!Next, Promise!Deliver, Promise!Misdeliver, Phase, Matched
      <3>2. CASE ~ SendResponse(r)
        <4>1. replies' = replies
          BY <2>5, <3>2
             DEF ResponseStep, ReceiveResponse, WriteCache, CheckValid,
                 ReadReqId, PostSem
        <4>2. /\ Mixed' = Mixed /\ Phase' = Phase
              /\ \/ Matched' = Matched
                 \/ \E q \in Query \ Mixed : /\ qpc[q] \in Waiting
                                             /\ Matched' = Matched \union {q}
          BY <2>5, MatchedByResponse, AcceptIsMatch
        <4>3. \A q \in Query : qpc[q] \in Waiting => Phase[q] = "open"
          BY DEF Phase, Waiting
        <4> QED
          BY <4>1, <4>2, <4>3
             DEF Promise!Next, Promise!Match, Phase, Matched, promised
      <3> QED
        BY <3>1, <3>2
    <2> QED
      BY <2>1, <2>2, <2>3, <2>4, <2>5 DEF Next
  <1> QED
    BY <1>1, <1>2, RelayInvariance, PTL DEF Spec, KeepsPromise, Promise!Spec
=============================================================================

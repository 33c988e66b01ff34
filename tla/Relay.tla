------------------------------- MODULE Relay -------------------------------
(***************************************************************************)
(* The relaying of queries: handle.c from event_loop() down.  Every        *)
(* datagram gets a thread of its own.  A query's thread writes the         *)
(* client's id and address into an entry of convert_table, forwards the    *)
(* query under a new id, and waits on the entry's semaphore for the answer *)
(* or for a timer.  A response's thread looks the id up in the table and   *)
(* sends the answer on to the client it finds there.                       *)
(*                                                                         *)
(* No lock protects the table or buf1_len, so every access of them is a    *)
(* step of its own (the build sets no optimisation level: each use of      *)
(* buf1_len is a load).  What the cache answers is reduced to the set of   *)
(* questions it can answer; RecordCache models what is in it.              *)
(***************************************************************************)
EXTENDS Integers

CONSTANTS
    NumQueries,     \* bound: how many client queries arrive
    Response,       \* bound: one member for each response that may arrive
    IdSpace,        \* number of wire ids: 2^16 in the code (header->id is a u16)
    SemBound,       \* bound: a timer posts no token to a semaphore that holds so many
    Client,         \* the addresses of clients
    NoSock,         \* the zeroed address of an entry never written
    Question,       \* a name and a type,
    NameOf,         \*   and the name of each question
    NoQuestion,     \* no question in the message
    Hosts,          \* the questions the hosts file answers
    Sender,         \* the client that sends each query,
    ReqId,          \*   the id it gives it,
    Asked,          \*   what it asks,
    Malformed       \*   and the queries that have qdcount # 1

Query == 1 .. NumQueries
SameName(x) == {y \in Question : NameOf[y] = NameOf[x]}
WireId == 0 .. IdSpace - 1

(* convert_table[MAP_LEN]: MAP_LEN is one more than the number of ids.     *)
MAP_LEN == IdSpace + 1
Slot == 0 .. MAP_LEN - 1

NO_ERROR == 0
NAME_ERROR == 3

ASSUME RelayAssumption ==
    /\ NumQueries \in Nat
    /\ IdSpace \in Nat \ {0, 1}
    /\ SemBound \in Nat \ {0}
    /\ NoSock \notin Client
    /\ NoQuestion \notin Question
    /\ Hosts \subseteq Question
    /\ Sender \in [Query -> Client]
    /\ ReqId \in [Query -> WireId]
    /\ Asked \in [Query -> Question]
    /\ Malformed \subseteq Query

VARIABLES
    buf1_len,       \* the next entry of the table to use
    buf_req_id,     \* convert_table[i].buf_req_id
    buf_sock,       \* convert_table[i].buf_sock
    valid,          \* convert_table[i].valid
    sem,            \* convert_table[i].sem
    cached,         \* the questions the cache has records for
    arrived,        \* how many queries event_loop has received
    qpc,            \* where each query's thread is in handle_receive_query
    old,            \* the value its buf1_len++ has loaded
    hid,            \* its header->id after that
    timer,          \* its dispatch timer
    rpc,            \* where each response's thread is in handle_receive_response
    rmsg,           \* the response it handles
    rid,            \* its header->id, once set from the table
    sent,           \* the queries forwarded to the upstream server
    replies,        \* the datagrams sent to clients
    req_at,         \* history: the entry each query wrote its id into,
    sock_at         \*   and its address (0: none yet)

indexVars == <<buf1_len, old, hid>>
entryVars == <<buf_req_id, buf_sock, req_at, sock_at>>
waitVars == <<valid, sem, timer>>
queryVars == <<arrived, qpc>>
responseVars == <<rpc, rmsg, rid>>
vars == <<indexVars, entryVars, waitVars, queryVars, responseVars,
          cached, sent, replies>>

(* A query thread up to the point where it has its id (handle.c:186-193).  *)
Registering == {"start", "wreq", "wsock", "wrap", "reset", "take", "incr"}
Waiting == {"wait", "clear"}
QueryPc == {"idle", "send", "arm", "done"} \union Registering \union Waiting
ResponsePc == {"idle", "parse", "check", "read", "send", "post", "done", "dropped"}

Forwarded == [id: WireId, question: Question]
Answer == [id: WireId, question: Question \union {NoQuestion},
           rcode: {NO_ERROR, NAME_ERROR}]
Reply == [to: Client \union {NoSock}, id: WireId,
          question: Question \union {NoQuestion},
          from: {"format_error", "cache", "upstream"}]

TypeOK ==
    /\ buf1_len \in Nat \ {0}
    /\ buf_req_id \in [Slot -> WireId]
    /\ buf_sock \in [Slot -> Client \union {NoSock}]
    /\ valid \in [Slot -> {0, 1}]
    /\ sem \in [Slot -> Nat]
    /\ cached \subseteq Question
    /\ arrived \in 0 .. NumQueries
    /\ qpc \in [Query -> QueryPc]
    /\ old \in [Query -> Nat]
    /\ hid \in [Query -> WireId]
    /\ timer \in [Query -> {"none", "armed", "fired", "cancelled"}]
    /\ rpc \in [Response -> ResponsePc]
    /\ rmsg \in [Response -> Answer]
    /\ rid \in [Response -> WireId]
    /\ sent \subseteq Forwarded
    /\ replies \subseteq Reply
    /\ req_at \in [Query -> Nat]
    /\ sock_at \in [Query -> Nat]

(* After server_init(): buf1_len starts at 1, convert_table is zeroed and  *)
(* its semaphores are created with 0 tokens.                               *)
Init ==
    /\ buf1_len = 1
    /\ buf_req_id = [i \in Slot |-> 0]
    /\ buf_sock = [i \in Slot |-> NoSock]
    /\ valid = [i \in Slot |-> 0]
    /\ sem = [i \in Slot |-> 0]
    /\ cached = Hosts
    /\ arrived = 0
    /\ qpc = [q \in Query |-> "idle"]
    /\ old = [q \in Query |-> 0]
    /\ hid = [q \in Query |-> 0]
    /\ timer = [q \in Query |-> "none"]
    /\ rpc = [r \in Response |-> "idle"]
    /\ rmsg = [r \in Response |-> [id |-> 0, question |-> NoQuestion,
                                   rcode |-> NO_ERROR]]
    /\ rid = [r \in Response |-> 0]
    /\ sent = {}
    /\ replies = {}
    /\ req_at = [q \in Query |-> 0]
    /\ sock_at = [q \in Query |-> 0]

-----------------------------------------------------------------------------
(* A query's thread: handle_receive_query.                                 *)

Goto(q, from, to) ==
    /\ qpc[q] = from
    /\ qpc' = [qpc EXCEPT ![q] = to]

Finish(q, reply) ==
    /\ Goto(q, "start", "done")
    /\ replies' = replies \union {reply}
    /\ UNCHANGED <<indexVars, entryVars, waitVars, arrived, responseVars,
                   cached, sent>>

(* event_loop receives the next query and creates its thread.              *)
ReceiveQuery ==
    /\ arrived < NumQueries
    /\ arrived' = arrived + 1
    /\ qpc' = [qpc EXCEPT ![arrived + 1] = "start"]
    /\ UNCHANGED <<indexVars, entryVars, waitVars, responseVars, cached, sent,
                   replies>>

(* qdcount # 1: an error header, whose id is 0, and nothing else.          *)
RejectMalformed(q) ==
    /\ q \in Malformed
    /\ Finish(q, [to |-> Sender[q], id |-> 0, question |-> NoQuestion,
                  from |-> "format_error"])

(* handle_read_cache finds records (or a 0.0.0.0 entry) and answers.       *)
AnswerFromCache(q) ==
    /\ q \notin Malformed
    /\ Asked[q] \in cached
    /\ Finish(q, [to |-> Sender[q], id |-> ReqId[q], question |-> Asked[q],
                  from |-> "cache"])

(* It finds none, or list_update leaves none: entries of the hosts file    *)
(* never expire, any other may have.                                       *)
MissCache(q) ==
    /\ q \notin Malformed
    /\ Asked[q] \notin Hosts
    /\ Goto(q, "start", "wreq")
    /\ cached' = cached \ {Asked[q]}
    /\ UNCHANGED <<indexVars, entryVars, waitVars, arrived, responseVars, sent,
                   replies>>

(* convert_table[buf1_len] = v.  An index past the table leaves the table  *)
(* as it is: the write lands in memory that is not the table's.            *)
Store(field, v) ==
    IF buf1_len \in Slot THEN [field EXCEPT ![buf1_len] = v] ELSE field

WriteReqId(q) ==
    /\ Goto(q, "wreq", "wsock")
    /\ buf_req_id' = Store(buf_req_id, ReqId[q])
    /\ req_at' = [req_at EXCEPT ![q] = buf1_len]
    /\ UNCHANGED <<indexVars, buf_sock, sock_at, waitVars, arrived, responseVars,
                   cached, sent, replies>>

WriteSock(q) ==
    /\ Goto(q, "wsock", "wrap")
    /\ buf_sock' = Store(buf_sock, Sender[q])
    /\ sock_at' = [sock_at EXCEPT ![q] = buf1_len]
    /\ UNCHANGED <<indexVars, buf_req_id, req_at, waitVars, arrived, responseVars,
                   cached, sent, replies>>

(* if (buf1_len >= MAP_LEN) ... : the test and the assignment.             *)
TestWrap(q) ==
    /\ Goto(q, "wrap", IF buf1_len >= MAP_LEN THEN "reset" ELSE "take")
    /\ UNCHANGED <<indexVars, entryVars, waitVars, arrived, responseVars, cached,
                   sent, replies>>

Reset(q) ==
    /\ Goto(q, "reset", "take")
    /\ buf1_len' = 1
    /\ UNCHANGED <<old, hid, entryVars, waitVars, arrived, responseVars, cached,
                   sent, replies>>

(* A fault: header->id = ++buf1_len.                                       *)
TakeNextId(q) ==
    /\ Goto(q, "take", "incr")
    /\ old' = [old EXCEPT ![q] = buf1_len]
    /\ hid' = [hid EXCEPT ![q] = (buf1_len + 1) % IdSpace]
    /\ UNCHANGED <<buf1_len, entryVars, waitVars, arrived, responseVars, cached,
                   sent, replies>>

(* header->id = buf1_len++: the load, and the store.  The id keeps the low *)
(* 16 bits.                                                                *)
TakeId(q) ==
    /\ Goto(q, "take", "incr")
    /\ old' = [old EXCEPT ![q] = buf1_len]
    /\ hid' = [hid EXCEPT ![q] = buf1_len % IdSpace]
    /\ UNCHANGED <<buf1_len, entryVars, waitVars, arrived, responseVars, cached,
                   sent, replies>>

(* A fault: the new value is not stored.                                   *)
IncrementLost(q) ==
    /\ Goto(q, "incr", "send")
    /\ UNCHANGED <<indexVars, entryVars, waitVars, arrived, responseVars, cached,
                   sent, replies>>

Increment(q) ==
    /\ Goto(q, "incr", "send")
    /\ buf1_len' = old[q] + 1
    /\ UNCHANGED <<old, hid, entryVars, waitVars, arrived, responseVars, cached,
                   sent, replies>>

SendQuery(q) ==
    /\ Goto(q, "send", "arm")
    /\ sent' = sent \union {[id |-> hid[q], question |-> Asked[q]]}
    /\ UNCHANGED <<indexVars, entryVars, waitVars, arrived, responseVars, cached,
                   replies>>

(* valid = 1, then the timer is created and started; until it fires the    *)
(* timer is the thread's own.                                              *)
ArmWait(q) ==
    /\ Goto(q, "arm", "wait")
    /\ valid' = [valid EXCEPT ![hid[q]] = 1]
    /\ timer' = [timer EXCEPT ![q] = "armed"]
    /\ UNCHANGED <<indexVars, entryVars, sem, arrived, responseVars, cached, sent,
                   replies>>

(* A fault: the thread does not wait for a token.                          *)
WakeUpAtOnce(q) ==
    /\ Goto(q, "wait", "clear")
    /\ sem' = [sem EXCEPT ![hid[q]] = @ - 1]
    /\ UNCHANGED <<indexVars, entryVars, valid, timer, arrived, responseVars,
                   cached, sent, replies>>

(* sem_wait returns.                                                       *)
WakeUp(q) ==
    /\ Goto(q, "wait", "clear")
    /\ sem[hid[q]] > 0
    /\ sem' = [sem EXCEPT ![hid[q]] = @ - 1]
    /\ UNCHANGED <<indexVars, entryVars, valid, timer, arrived, responseVars,
                   cached, sent, replies>>

(* A fault: the entry stays valid.                                         *)
CancelOnly(q) ==
    /\ Goto(q, "clear", "done")
    /\ timer' = [timer EXCEPT ![q] = "cancelled"]
    /\ UNCHANGED <<indexVars, entryVars, valid, sem, arrived, responseVars, cached,
                   sent, replies>>

(* A fault: the next entry is marked invalid.                              *)
ClearNext(q) ==
    /\ Goto(q, "clear", "done")
    /\ valid' = [valid EXCEPT ![(hid[q] + 1) % IdSpace] = 0]
    /\ timer' = [timer EXCEPT ![q] = "cancelled"]
    /\ UNCHANGED <<indexVars, entryVars, sem, arrived, responseVars, cached, sent,
                   replies>>

(* valid = 0, and the timer is cancelled (a firing in between commutes     *)
(* with the assignment).                                                   *)
ClearValid(q) ==
    /\ Goto(q, "clear", "done")
    /\ valid' = [valid EXCEPT ![hid[q]] = 0]
    /\ timer' = [timer EXCEPT ![q] = "cancelled"]
    /\ UNCHANGED <<indexVars, entryVars, sem, arrived, responseVars, cached, sent,
                   replies>>

(* A fault: the timer signals the entry of the client's id.                *)
TimerSignalsReqId(q) ==
    /\ timer[q] \in {"armed", "fired"}
    /\ sem[ReqId[q]] < SemBound
    /\ sem' = [sem EXCEPT ![ReqId[q]] = @ + 1]
    /\ timer' = [timer EXCEPT ![q] = "fired"]
    /\ UNCHANGED <<indexVars, entryVars, valid, queryVars, responseVars, cached,
                   sent, replies>>

(* timer_handler runs on a dispatch queue, every interval until the timer  *)
(* is cancelled.                                                           *)
TimerFires(q) ==
    /\ timer[q] \in {"armed", "fired"}
    /\ sem[hid[q]] < SemBound
    /\ sem' = [sem EXCEPT ![hid[q]] = @ + 1]
    /\ timer' = [timer EXCEPT ![q] = "fired"]
    /\ UNCHANGED <<indexVars, entryVars, valid, queryVars, responseVars, cached,
                   sent, replies>>

-----------------------------------------------------------------------------
(* A response's thread: handle_receive_response.                           *)

Advance(r, from, to) ==
    /\ rpc[r] = from
    /\ rpc' = [rpc EXCEPT ![r] = to]

(* A response to a query that was forwarded: late, repeated, reordered     *)
(* with others, or never.                                                  *)
ReceiveResponse(r) ==
    \E m \in sent, rcode \in {NO_ERROR, NAME_ERROR} :
        /\ Advance(r, "idle", "parse")
        /\ rmsg' = [rmsg EXCEPT ![r] = [id |-> m.id, question |-> m.question,
                                        rcode |-> rcode]]
        /\ UNCHANGED <<indexVars, entryVars, waitVars, queryVars, rid, cached,
                       sent, replies>>

(* The records go to the cache before the id is looked at, all under the   *)
(* name asked for, each under its own type; other types are not cached.    *)
WriteCache(r) ==
    /\ Advance(r, "parse", "check")
    /\ \/ /\ rmsg[r].rcode = NO_ERROR
          /\ \E S \in SUBSET SameName(rmsg[r].question) :
                cached' = cached \union S
       \/ /\ rmsg[r].rcode # NO_ERROR
          /\ cached' = cached
    /\ UNCHANGED <<indexVars, entryVars, waitVars, queryVars, rmsg, rid, sent,
                   replies>>

(* A fault: every response is accepted.                                    *)
CheckNothing(r) ==
    /\ Advance(r, "check", "read")
    /\ UNCHANGED <<indexVars, entryVars, waitVars, queryVars, rmsg, rid, cached,
                   sent, replies>>

CheckValid(r) ==
    /\ Advance(r, "check", IF valid[rmsg[r].id] = 0 THEN "dropped" ELSE "read")
    /\ UNCHANGED <<indexVars, entryVars, waitVars, queryVars, rmsg, rid, cached,
                   sent, replies>>

(* A fault: the thread that waits is signalled before the answer is sent.  *)
SignalFirst(r) ==
    /\ Advance(r, "read", "send")
    /\ rid' = [rid EXCEPT ![r] = buf_req_id[rmsg[r].id]]
    /\ sem' = [sem EXCEPT ![rmsg[r].id] = @ + 1]
    /\ UNCHANGED <<indexVars, entryVars, valid, timer, queryVars, rmsg, cached,
                   sent, replies>>

(* handle_send_response reads the id at its start, the address at its end. *)
ReadReqId(r) ==
    /\ Advance(r, "read", "send")
    /\ rid' = [rid EXCEPT ![r] = buf_req_id[rmsg[r].id]]
    /\ UNCHANGED <<indexVars, entryVars, waitVars, queryVars, rmsg, cached, sent,
                   replies>>

SendResponse(r) ==
    /\ Advance(r, "send", "post")
    /\ replies' = replies \union
         {[to |-> buf_sock[rmsg[r].id], id |-> rid[r],
           question |-> rmsg[r].question, from |-> "upstream"]}
    /\ UNCHANGED <<indexVars, entryVars, waitVars, queryVars, rmsg, rid, cached,
                   sent>>

PostSem(r) ==
    /\ Advance(r, "post", "done")
    /\ sem' = [sem EXCEPT ![rmsg[r].id] = @ + 1]
    /\ UNCHANGED <<indexVars, entryVars, valid, timer, queryVars, rmsg, rid,
                   cached, sent, replies>>

-----------------------------------------------------------------------------
QueryStep(q) ==
    \/ RejectMalformed(q)
    \/ AnswerFromCache(q)
    \/ MissCache(q)
    \/ WriteReqId(q)
    \/ WriteSock(q)
    \/ TestWrap(q)
    \/ Reset(q)
    \/ TakeId(q)
    \/ Increment(q)
    \/ SendQuery(q)
    \/ ArmWait(q)
    \/ WakeUp(q)
    \/ ClearValid(q)

ResponseStep(r) ==
    \/ WriteCache(r)
    \/ CheckValid(r)
    \/ ReadReqId(r)
    \/ SendResponse(r)
    \/ PostSem(r)

Next ==
    \/ ReceiveQuery
    \/ \E q \in Query : QueryStep(q) \/ TimerFires(q)
    \/ \E r \in Response : ReceiveResponse(r) \/ ResponseStep(r)

Spec == Init /\ [][Next]_vars

(* Threads that can run are run, and a timer that is not cancelled fires.  *)
(* Nothing makes a client ask or the upstream server answer.               *)
Fairness ==
    /\ \A q \in Query : WF_vars(QueryStep(q)) /\ WF_vars(TimerFires(q))
    /\ \A r \in Response : WF_vars(ResponseStep(r))

(* Queries that come one at a time: the next one is received only when     *)
(* every earlier one has been answered or has its id.                      *)
ReceiveApart ==
    /\ \A q \in Query : qpc[q] \notin Registering
    /\ ReceiveQuery

ApartNext ==
    \/ ReceiveApart
    \/ \E q \in Query : QueryStep(q) \/ TimerFires(q)
    \/ \E r \in Response : ReceiveResponse(r) \/ ResponseStep(r)

ApartSpec == Init /\ [][ApartNext]_vars

FairApartSpec == ApartSpec /\ Fairness

-----------------------------------------------------------------------------
(* Properties.                                                             *)

(* An id is only marked valid while the thread of a query that was         *)
(* forwarded under it waits (handle.c:212-242, tested at handle.c:433):    *)
(* once every wait for an id has ended, by an answer or by the timer, no   *)
(* response that carries it passes the test, however the threads that      *)
(* share the id interleave.                                                *)
ValidHasWaiter ==
    \A i \in Slot : valid[i] = 1 =>
        \E q \in Query : qpc[q] \in Waiting /\ hid[q] = i

(* The reply to query q.                                                   *)
ReplyTo(q, from) ==
    [to |-> Sender[q], id |-> ReqId[q], question |-> Asked[q], from |-> from]

(* Every answer sent downstream is the answer to a query that its receiver *)
(* asked, under the id the receiver gave it: the entry of the table that   *)
(* handle_send_response reads (handle.c:301, 313) is still the one the     *)
(* forwarded query has written (handle.c:186-187).                         *)
RightReply ==
    \A m \in replies : m.from # "format_error" =>
        \E q \in Query : m = ReplyTo(q, m.from)

(* Query q has its id; which entries it has to do with.                    *)
Taken(q) == qpc[q] \in {"incr", "send", "arm"} \union Waiting \/ timer[q] = "cancelled"

Entries(q) ==
    {i \in {req_at[q], sock_at[q]} : i # 0}
        \union {i \in {hid[q]} : Taken(q)}

(* The queries that something has gone wrong for: another query had to do  *)
(* with the same entry, or the id taken is not that of the entry written.  *)
(* Registrations that overlap mix queries, and so does an index or an id   *)
(* that comes round again.                                                 *)
Shares(p, q) == p # q /\ Entries(p) \intersect Entries(q) # {}

Mixed ==
    {q \in Query :
        \/ \E p \in Query : Shares(p, q)
        \/ Taken(q) /\ <<req_at[q], sock_at[q]>> # <<hid[q], hid[q]>>}

(* A thread that has stopped waiting was woken by its own timer or by an   *)
(* answer that its client was sent (handle.c:237): no token that another   *)
(* query's exchange has left ends its wait, unless the queries are mixed.  *)
WokenForCause ==
    \A q \in Query : qpc[q] = "clear" /\ q \notin Mixed =>
        timer[q] = "fired" \/ ReplyTo(q, "upstream") \in replies

(* Two threads that wait for an answer at the same time wait for it under  *)
(* different ids.                                                          *)
WaitersDistinct ==
    \A p, q \in Query :
        p # q /\ qpc[p] \in Waiting /\ qpc[q] \in Waiting => hid[p] # hid[q]

(* A thread that waits can be reached: while no other query has its id,    *)
(* nothing takes the mark off its entry (handle.c:212, 242), so that no    *)
(* answer which comes while it waits is dropped as late                    *)
(* (handle.c:432-436).  An answer that comes before the mark, while the    *)
(* thread is still creating its timer, is.                                 *)
WaitersReachable ==
    \A q \in Query :
        qpc[q] \in Waiting /\ (\A p \in Query \ {q} : Taken(p) => hid[p] # hid[q])
            => valid[hid[q]] = 1

(* Under the id of query q, an answer has been accepted.                   *)
Accepted(q) ==
    /\ Taken(q)
    /\ \E r \in Response : /\ rpc[r] \in {"read", "send", "post", "done"}
                           /\ rmsg[r].id = hid[q]

Promise == INSTANCE RelayPromise WITH
    phase <- [q \in Query |-> IF qpc[q] = "done" THEN "closed"
                              ELSE IF qpc[q] \in Waiting THEN "open" ELSE "new"],
    matched <- {q \in Query \ Mixed : Accepted(q)},
    mixed <- Mixed

(* The relay keeps RelayPromise: a query is open while its thread waits    *)
(* (handle.c:212-242), an answer that is sent on for a query which is not  *)
(* mixed with another was accepted by the test of handle.c:433 while that  *)
(* query was open, and whatever else is sent on is made of parts of        *)
(* queries that are mixed (handle.c:186-193, 301, 313).                    *)
KeepsPromise == Promise!Spec

(* Every query that arrives is disposed of: its thread is answered or      *)
(* times out, even when others share its id and take its tokens.           *)
QueriesEnd == \A q \in Query : qpc[q] = "start" ~> qpc[q] = "done"
=============================================================================

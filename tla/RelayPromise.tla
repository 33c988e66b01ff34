---------------------------- MODULE RelayPromise ----------------------------
(***************************************************************************)
(* What relaying promises to a client, with no table, ids, semaphores or   *)
(* threads: a query is answered at once, or it is opened, and an upstream  *)
(* answer is sent to the client that asked, under the client's id, only if *)
(* it was matched with the query while the query was open.  An opened      *)
(* query closes whether or not an answer came.                             *)
(*                                                                         *)
(* While a query is new it may get mixed with others.  For mixed queries   *)
(* the promise is only that what goes wrong stays among them: answers to   *)
(* questions of theirs, to their clients, under ids of theirs.             *)
(***************************************************************************)
CONSTANTS Query, Sender, ReqId, Asked, NoQuestion, NoSock

VARIABLES
    phase,          \* phase[q]: "new", "open" (awaiting the answer), "closed"
    matched,        \* the queries an upstream answer has been accepted for
    mixed,          \* the queries that are mixed with others
    replies         \* the datagrams sent to clients

vars == <<phase, matched, mixed, replies>>

ReplyTo(q, from) ==
    [to |-> Sender[q], id |-> ReqId[q], question |-> Asked[q], from |-> from]

FormatError(q) ==
    [to |-> Sender[q], id |-> 0, question |-> NoQuestion, from |-> "format_error"]

Init ==
    /\ phase = [q \in Query |-> "new"]
    /\ matched = {}
    /\ mixed = {}
    /\ replies = {}

Move(q, from, to) ==
    /\ phase[q] = from
    /\ phase' = [phase EXCEPT ![q] = to]

AnswerAtOnce(q) ==
    /\ Move(q, "new", "closed")
    /\ \E m \in {ReplyTo(q, "cache"), FormatError(q)} :
          replies' = replies \union {m}
    /\ UNCHANGED <<matched, mixed>>

Open(q) ==
    /\ Move(q, "new", "open")
    /\ UNCHANGED <<matched, mixed, replies>>

Match(q) ==
    /\ phase[q] = "open"
    /\ q \notin mixed
    /\ matched' = matched \union {q}
    /\ UNCHANGED <<phase, mixed, replies>>

Deliver(q) ==
    /\ q \in matched
    /\ replies' = replies \union {ReplyTo(q, "upstream")}
    /\ UNCHANGED <<phase, matched, mixed>>

Close(q) ==
    /\ Move(q, "open", "closed")
    /\ UNCHANGED <<matched, mixed, replies>>

Mix(q) ==
    /\ phase[q] = "new"
    /\ \E S \in SUBSET Query : mixed' = mixed \union S \union {q}
    /\ matched' = matched \ mixed'
    /\ UNCHANGED <<phase, replies>>

Misdeliver ==
    /\ \E m \in [to: {Sender[q] : q \in mixed} \union {NoSock},
                  id: {ReqId[q] : q \in mixed} \union {0},
                  question: {Asked[q] : q \in mixed}, from: {"upstream"}] :
          replies' = replies \union {m}
    /\ UNCHANGED <<phase, matched, mixed>>

Next ==
    \/ \E q \in Query :
          AnswerAtOnce(q) \/ Open(q) \/ Match(q) \/ Deliver(q) \/ Close(q) \/ Mix(q)
    \/ Misdeliver

Spec == Init /\ [][Next]_vars
=============================================================================

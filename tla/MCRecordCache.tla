---------------------------- MODULE MCRecordCache ----------------------------
(* An instance of RecordCache: a name the hosts file blocks and one it     *)
(* gives an address; 2 seconds for the limit of 180 and 1 for the grace of *)
(* 10, so that the clock passes both.                                      *)
EXTENDS RecordCache

CONSTANTS blocked, local

Rr(section, type, ttl) ==
    [section |-> section, type |-> type, ttl |-> ttl, zero |-> FALSE]

Address(ttl) == Rr("ANSWER", A, ttl)
Alias(ttl) == Rr("ANSWER", CNAME, ttl)

HostsFile == <<[name |-> local, zero |-> FALSE], [name |-> blocked, zero |-> TRUE]>>

(* Addresses that outlive one another, an alias in front of an address,    *)
(* and a record of each section, one with no time to live.                 *)
AnswersMixed ==
    {<<Address(1)>>, <<Alias(3), Address(3)>>,
     <<Address(3), Rr("AUTHORITY", A, 1), Rr("ADDITIONAL", AAAA, 0)>>}
=============================================================================

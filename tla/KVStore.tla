------------------------------ MODULE KVStore -------------------------------
(***************************************************************************)
(* What the key-value API promises for one key (src/src/ela_hive.h, the    *)
(* comments of hive_put_value, hive_set_value, hive_get_values and         *)
(* hive_delete_key): a list of values, and calls that each take effect at  *)
(* one moment between their invocation and their return.  A call that      *)
(* fails may have taken effect, unless it failed with HIVEERR_TRY_AGAIN.   *)
(***************************************************************************)
EXTENDS Naturals, Sequences

CONSTANTS Clients, Values

VARIABLES
    vals,           \* the values of the key, oldest first
    phase,          \* a call: "idle", "pending", "done" (took effect)
    op,             \* the operation a client has called
    result,         \* the outcome of its last call
    got             \* what its last get_values delivered

vars == <<vals, phase, op, result, got>>

Ops == [kind : {"put", "set"}, value : Values] \cup [kind : {"get", "delete"}]
NoOp == [kind |-> "delete"]

Init ==
    /\ vals   = <<>>
    /\ phase  = [c \in Clients |-> "idle"]
    /\ op     = [c \in Clients |-> NoOp]
    /\ result = [c \in Clients |-> "none"]
    /\ got    = [c \in Clients |-> <<>>]

Call(c, o) ==
    /\ phase[c] = "idle"
    /\ phase'  = [phase EXCEPT ![c] = "pending"]
    /\ op'     = [op EXCEPT ![c] = o]
    /\ result' = [result EXCEPT ![c] = "none"]
    /\ got'    = [got EXCEPT ![c] = <<>>]
    /\ UNCHANGED vals

\* The values after operation o.
After(o, vs) == CASE o.kind = "put"    -> Append(vs, o.value)
                  [] o.kind = "set"    -> <<o.value>>
                  [] o.kind = "delete" -> <<>>
                  [] o.kind = "get"    -> vs

Effect(c) ==
    /\ phase[c] = "pending" /\ op[c].kind # "get"
    /\ vals'  = After(op[c], vals)
    /\ phase' = [phase EXCEPT ![c] = "done"]
    /\ UNCHANGED <<op, result, got>>

\* get_values delivers the values, or the first ones when the callback stops it;
\* deleting a key without values changes nothing.
Read(c) ==
    /\ phase[c] = "pending"
    /\ \/ /\ op[c].kind = "get"
          /\ \E n \in 0..Len(vals) :
               /\ n = 0 => vals = <<>>
               /\ got' = [got EXCEPT ![c] = SubSeq(vals, 1, n)]
       \/ /\ op[c].kind = "delete" /\ vals = <<>>
          /\ UNCHANGED got
    /\ phase'  = [phase EXCEPT ![c] = "idle"]
    /\ result' = [result EXCEPT ![c] = "ok"]
    /\ UNCHANGED <<vals, op>>

Return(c, r) ==
    /\ \/ phase[c] = "done"    /\ r \in {"ok", "error"}
       \/ phase[c] = "pending" /\ r \in {"again", "error"}
    /\ phase'  = [phase EXCEPT ![c] = "idle"]
    /\ result' = [result EXCEPT ![c] = r]
    /\ UNCHANGED <<vals, op, got>>

Next ==
    \E c \in Clients :
        \/ \E o \in Ops : Call(c, o)
        \/ Effect(c)
        \/ Read(c)
        \/ \E r \in {"ok", "again", "error"} : Return(c, r)

Spec == Init /\ [][Next]_vars
=============================================================================

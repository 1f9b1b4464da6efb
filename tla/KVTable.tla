------------------------------ MODULE KVTable ------------------------------
(***************************************************************************)
(* The table of the key-value services: the sequential model of            *)
(* models/kv.go, against which the histories of the services are checked.  *)
(* A value is the sequence of what was put and appended to it.             *)
(***************************************************************************)
EXTENDS Sequences

CONSTANTS
    Key,
    Nil   \* no such key, and no operation

OP_PUT == "Put"
OP_APPEND == "Append"
OP_GET == "Get"

EmptyTable == [k \in Key |-> Nil]

IsGet(o) == o.op = OP_GET

\* The value of a key as Get returns it: "" when there is none.
Lookup(t, o) == IF t[o.key] = Nil THEN <<>> ELSE t[o.key]

\* The table after a write.
Written(t, o) ==
    [t EXCEPT ![o.key] = IF o.op = OP_APPEND THEN Append(Lookup(t, o), o.value) ELSE <<o.value>>]
=============================================================================

-------------------------- MODULE WriteOnceTables ---------------------------
(***************************************************************************)
(* What policy caches promise together: each is a table in which an entry, *)
(* once written, stays as it is; a new table is empty or a copy of an      *)
(* existing one; and a step touches one table only.                        *)
(***************************************************************************)
CONSTANTS
    Cache,      \* tables that may come to exist
    Key,        \* exact policy call keys
    Action,     \* policy actions
    NoAction    \* the entry of a key without an action

VARIABLE tables     \* the contents of every table that exists

Empty == [k \in Key |-> NoAction]

(* Tables by name: a function on the names in use. *)
With(name, contents) ==
    [c \in DOMAIN tables \cup {name} |-> IF c = name THEN contents ELSE tables[c]]

Init == tables = [c \in {} |-> Empty]

Create(c) ==
    /\ c \notin DOMAIN tables
    /\ tables' = With(c, Empty)

Copy(c, d) ==
    /\ c \in DOMAIN tables /\ d \notin DOMAIN tables
    /\ tables' = With(d, tables[c])

Write(c, k, a) ==
    /\ c \in DOMAIN tables
    /\ tables[c][k] = NoAction
    /\ tables' = With(c, [tables[c] EXCEPT ![k] = a])

Next ==
    \/ \E c \in Cache : Create(c)
    \/ \E c, d \in Cache : Copy(c, d)
    \/ \E c \in Cache, k \in Key, a \in Action : Write(c, k, a)

Spec == Init /\ [][Next]_tables
=============================================================================

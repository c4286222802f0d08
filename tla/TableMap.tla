------------------------------ MODULE TableMap ------------------------------
(***************************************************************************)
(* What src/btree.c promises of new keys: a table from keys to values.  An *)
(* insertion of a new key stores it, a look-up answers what is stored, or  *)
(* ENOENT.  A call that runs out of memory answers ENOMEM; an insertion    *)
(* that does may lose keys (the TODO in btree_insert), never change or add *)
(* one.                                                                    *)
(***************************************************************************)
CONSTANTS
  Threads,  \* the callers
  Keys,     \* the keys
  Values,   \* what is stored for them
  NoValue   \* nothing stored, nothing answered

VARIABLES
  table,    \* the value stored for each key
  answer    \* what the last call of each thread returned

Init ==
  /\ table = [k \in Keys |-> NoValue]
  /\ answer = [t \in Threads |-> [code |-> "SUCCESS", value |-> NoValue]]

Answer(t, code, value) ==
  answer' = [answer EXCEPT ![t] = [code |-> code, value |-> value]]

Store(t, k, v) ==
  /\ Answer(t, "SUCCESS", NoValue)
  /\ table[k] = NoValue
  /\ table'[k] = v
  /\ \A j \in Keys \ {k} : table'[j] = table[j]

LookUp(t, k) ==
  /\ IF table[k] = NoValue
       THEN Answer(t, "ENOENT", NoValue)
       ELSE Answer(t, "SUCCESS", table[k])
  /\ UNCHANGED table

RunOut(t) ==
  /\ Answer(t, "ENOMEM", NoValue)
  /\ table' \in [Keys -> Values \cup {NoValue}]
  /\ \A k \in Keys : table'[k] \in {table[k], NoValue}

Next ==
  \E t \in Threads :
    \/ \E k \in Keys, v \in Values : Store(t, k, v)
    \/ \E k \in Keys : LookUp(t, k)
    \/ RunOut(t)

Spec == Init /\ [][Next]_<<table, answer>>

=============================================================================

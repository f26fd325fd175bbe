----------------------------- MODULE Dictionary -----------------------------
(***************************************************************************)
(* What a script relies on in a table: a map from keys to values, and an   *)
(* iteration (foreach, lv_next) that returns each key once.  An iteration  *)
(* promises only some key that is there once a slot was created in the     *)
(* table, or its nodes were laid out again, since it began.                *)
(***************************************************************************)
CONSTANTS
    Key,    \* the keys
    Value,  \* the values
    NoKeys  \* no iteration, or one that makes no promise

VARIABLES
    dict,   \* the slots: a function on some of the keys
    todo,   \* the keys the iteration has still to return
    last    \* what the iteration just returned: <<key, value>>, else <<>>

vars == <<dict, todo, last>>

Empty == [k \in {} |-> {}]

Init ==
    /\ dict = Empty
    /\ todo = NoKeys
    /\ last = <<>>

NewSlot(k, v) ==
    /\ dict' = [j \in DOMAIN dict \cup {k} |-> IF j = k THEN v ELSE dict[j]]
    /\ todo' = IF k \in DOMAIN dict THEN todo ELSE NoKeys
    /\ last' = <<>>

\* Only a slot that exists is set.
Set(k, v) ==
    /\ k \in DOMAIN dict
    /\ dict' = [dict EXCEPT ![k] = v]
    /\ last' = <<>>
    /\ UNCHANGED todo

\* A slot that does not count: null is no key.
SetNull ==
    /\ last' = <<>>
    /\ UNCHANGED <<dict, todo>>

DeleteSlot(k) ==
    /\ k \in DOMAIN dict
    /\ dict' = [j \in DOMAIN dict \ {k} |-> dict[j]]
    /\ \/ todo' = NoKeys
       \/ todo # NoKeys /\ todo' = todo \ {k}
    /\ last' = <<>>

Clear ==
    /\ dict' = Empty
    /\ todo' = NoKeys
    /\ last' = <<>>

\* The script goes on with a copy.
Clone ==
    /\ todo' = NoKeys
    /\ last' = <<>>
    /\ UNCHANGED dict

Begin ==
    /\ todo' = DOMAIN dict
    /\ last' = <<>>
    /\ UNCHANGED dict

\* A step of an iteration: its next key with its value.
Iterate ==
    /\ \E k \in DOMAIN dict :
          /\ todo # NoKeys => k \in todo
          /\ todo' = IF todo = NoKeys THEN NoKeys ELSE todo \ {k}
          /\ last' = <<k, dict[k]>>
    /\ UNCHANGED dict

\* An iteration ends when it has returned every key.
End ==
    /\ todo \in {NoKeys, {}}
    /\ todo' = NoKeys
    /\ last' = <<>>
    /\ UNCHANGED dict

Next ==
    \/ SetNull \/ Clear \/ Clone \/ Begin \/ Iterate \/ End
    \/ \E k \in Key : \/ DeleteSlot(k)
                      \/ \E v \in Value : NewSlot(k, v) \/ Set(k, v)

Spec == Init /\ [][Next]_vars
=============================================================================

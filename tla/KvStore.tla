------------------------------ MODULE KvStore ------------------------------
(***************************************************************************)
(* What DbInterface (src/src/db/_db-interface.hpp) promises to the Bedrock *)
(* converter: values are put while the store is open, and closing it       *)
(* either makes them readable at once or fails and shows none.  What was   *)
(* lost on the way to the disk is lost from sight, not from contents: a    *)
(* store that loses nothing commits everything that was put.               *)
(***************************************************************************)
CONSTANTS
  Keys,                 \* the keys of the store
  Values,               \* the values put
  Missing               \* what a key without a value reads as

VARIABLES
  contents,             \* the value last put for each key
  visible,              \* what someone who opens the database reads
  state,                \* "open", then "committed" or "failed"
  lost                  \* the keys whose values were lost without a word

storeVars == <<contents, visible, state, lost>>

Nothing == [k \in Keys |-> Missing]

Init ==
  /\ contents = Nothing
  /\ visible = Nothing
  /\ state = "open"
  /\ lost = {}

Put(k, v) ==
  /\ state = "open"
  /\ contents' = [contents EXCEPT ![k] = v]
  /\ UNCHANGED <<visible, state, lost>>

\* Values put before are lost.
Lose(K) ==
  /\ state = "open"
  /\ lost' = lost \cup K
  /\ UNCHANGED <<contents, visible, state>>

Commit ==
  /\ state = "open"
  /\ visible' = [k \in Keys |-> IF k \in lost THEN Missing ELSE contents[k]]
  /\ state' = "committed"
  /\ UNCHANGED <<contents, lost>>

Fail ==
  /\ state = "open"
  /\ state' = "failed"
  /\ UNCHANGED <<contents, visible, lost>>

Next ==
  \/ \E k \in Keys, v \in Values : Put(k, v)
  \/ \E K \in SUBSET Keys : Lose(K)
  \/ Commit
  \/ Fail

Spec == Init /\ [][Next]_storeVars
=============================================================================

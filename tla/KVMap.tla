------------------------------- MODULE KVMap -------------------------------
(***************************************************************************)
(* What a key-value table is to its clients (KVPut, KVGet, KVDelete and    *)
(* DeleteKVTable of pkg/collection/kv.go): a map from keys to values that  *)
(* changes in one step, and whose reads, which take time, return a value   *)
(* the key had at some moment of the read.                                 *)
(***************************************************************************)
CONSTANTS Keys, Values, None, Readers

VARIABLES content,  \* key -> value or None
          asked,    \* key of each read, and the values it had since the read began
          answer    \* key and result of a read, in the state in which it ends

vars == <<content, asked, answer>>

NoRead == [key |-> None, may |-> {}]
NoAnswer == [key |-> None, value |-> None]

Init ==
    /\ content = [k \in Keys |-> None]
    /\ asked = [r \in Readers |-> NoRead]
    /\ answer = NoAnswer

\* The table changes, and the reads in progress may see the change or not.
Change(new) ==
    /\ content' = new
    /\ asked' = [r \in Readers |->
                   IF asked[r] = NoRead THEN NoRead
                   ELSE [asked[r] EXCEPT !.may = @ \cup {new[asked[r].key]}]]
    /\ answer' = NoAnswer

Put(k, v) == Change([content EXCEPT ![k] = v])
Delete(k) == Change([content EXCEPT ![k] = None])
Clear == Change([k \in Keys |-> None])

Ask(r, k) ==
    /\ asked[r] = NoRead
    /\ asked' = [asked EXCEPT ![r] = [key |-> k, may |-> {content[k]}]]
    /\ answer' = NoAnswer
    /\ UNCHANGED content

Answer(r) ==
    /\ \E v \in asked[r].may : answer' = [key |-> asked[r].key, value |-> v]
    /\ asked' = [asked EXCEPT ![r] = NoRead]
    /\ UNCHANGED content

\* The processes stop: reads end without an answer.
Abandon ==
    /\ asked' = [r \in Readers |-> NoRead]
    /\ answer' = NoAnswer
    /\ UNCHANGED content

\* Nothing that a client could see.
Quiet == answer' = NoAnswer /\ UNCHANGED <<content, asked>>

Next ==
    \/ \E k \in Keys : Delete(k) \/ \E v \in Values : Put(k, v)
    \/ Clear
    \/ \E r \in Readers : Answer(r) \/ \E k \in Keys : Ask(r, k)
    \/ Abandon
    \/ Quiet

Spec == Init /\ [][Next]_vars
=============================================================================

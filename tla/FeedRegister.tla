---------------------------- MODULE FeedRegister ----------------------------
(***************************************************************************)
(* What a feed is to the rest of the program (CreateFeed, UpdateFeed and   *)
(* GetFeedData of pkg/feed/api.go): one register per topic.  A write takes *)
(* effect when it is acknowledged and a read returns the last write.       *)
(***************************************************************************)
CONSTANTS Topics, Values, Absent

VARIABLES reg,      \* topic -> last acknowledged write
          answer    \* topic and result of the last read

vars == <<reg, answer>>

Init ==
    /\ reg = [t \in Topics |-> Absent]
    /\ answer \in [topic: Topics, value: {Absent}]

Write(t, v) ==
    /\ reg' = [reg EXCEPT ![t] = v]
    /\ UNCHANGED answer

Read(t) ==
    /\ answer' = [topic |-> t, value |-> reg[t]]
    /\ UNCHANGED reg

Next == \E t \in Topics : Read(t) \/ \E v \in Values : Write(t, v)

Spec == Init /\ [][Next]_vars
=============================================================================

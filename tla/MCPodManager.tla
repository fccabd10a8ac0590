---------------------------- MODULE MCPodManager ----------------------------
(* Instances of PodManager: the threads of one session, or a session each. *)
EXTENDS PodManager

MCHomeOne == [t \in Threads |-> CHOOSE s \in Sessions : TRUE]
MCHomeEach == CHOOSE h \in [Threads -> Sessions] :
                 \A t, u \in Threads : h[t] = h[u] => t = u
=============================================================================

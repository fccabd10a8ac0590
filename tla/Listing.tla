------------------------------ MODULE Listing -------------------------------
(***************************************************************************)
(* The goroutines of one listing. ListDir (pkg/dir/ls.go) and ListFiles    *)
(* (pkg/file/ls.go) give a task per name to the task manager and wait for  *)
(* a WaitGroup; SyncDirectoryAsync (pkg/dir/sync.go) does what ListDir     *)
(* does, with the file map for the list. PublicPodDisLs                    *)
(* (pkg/dfs/pod_api.go) starts a goroutine per name, Slots at a time, and  *)
(* receives from channels that a last goroutine closes.                    *)
(***************************************************************************)
EXTENDS Naturals, Integers, FiniteSets

CONSTANTS MaxNames,      \* bound on the names in a directory
          Slots,         \* the semaphore of PublicPodDisLs
          MaxOld,        \* bound on the subdirectories stored in the old way
          MayRefuse      \* whether the task manager may refuse a task

VARIABLES call,      \* the function called
          found,     \* name -> what reading it gives
          started,   \* names the caller has started, in their order
          owes,      \* whether ListFiles has given a task away and not called wg.Add yet
          counter,   \* of the WaitGroup
          task,      \* name -> where its task is
          topic,     \* the variable the goroutines of PublicPodDisLs share
          entries,   \* the entries in the list or in the channels: task and name read
          received,  \* entries the caller has received
          closed,    \* whether the channels are closed
          ret        \* "none" while the call runs

vars == <<call, found, started, owes, counter, task, topic, entries, received, closed, ret>>

names == DOMAIN found
Local == {"ListDir", "ListFiles"}
Finds == {"entry", "old", "deleted", "error"}
Having(f) == {n \in names : found[n] = f}
In(step) == {n \in names : task[n] = step}

Init ==
    /\ call \in Local \cup {"PublicPodDisLs"}
    /\ found \in UNION {[1..n -> Finds] : n \in 0..MaxNames}
    /\ Cardinality(Having("old")) <= IF call \in Local THEN 0 ELSE MaxOld
    /\ started = 0 /\ counter = 0 /\ owes = FALSE
    /\ task = [n \in names |-> "none"]
    /\ topic = 0 /\ entries = {} /\ received = {}
    /\ closed = FALSE /\ ret = "none"

Caller == <<started, owes, counter>>
Answers == <<received, closed, ret>>
Runs == ret = "none" /\ UNCHANGED <<call, found>>
CallOf(f) == Runs /\ call = f
More == started < Cardinality(names)
Steps(n, step) == task' = [task EXCEPT ![n] = step]
Starts(step) == started' = started + 1 /\ Steps(started + 1, step)

-----------------------------------------------------------------------------
\* Mutant: a refused task is waited for.
WaitsForRefused ==
    /\ CallOf("ListDir") /\ More
    /\ Starts("given") \/ (MayRefuse /\ Starts("refused"))
    /\ counter' = counter + 1
    /\ UNCHANGED <<owes, topic, entries, Answers>>

\* ListDir raises the WaitGroup, and lowers it when the task is refused.
GiveDirTask ==
    /\ CallOf("ListDir") /\ More
    /\ \/ Starts("given") /\ counter' = counter + 1
       \/ MayRefuse /\ Starts("refused") /\ UNCHANGED counter
    /\ UNCHANGED <<owes, topic, entries, Answers>>

\* ListFiles gives the task away first.
GiveFileTask ==
    /\ CallOf("ListFiles") /\ More /\ ~owes
    /\ \/ Starts("given") /\ owes' = TRUE
       \/ MayRefuse /\ Starts("refused") /\ UNCHANGED owes
    /\ UNCHANGED <<counter, topic, entries, Answers>>

AddFileTask ==
    /\ CallOf("ListFiles") /\ owes
    /\ owes' = FALSE /\ counter' = counter + 1
    /\ UNCHANGED <<started, task, topic, entries, Answers>>

\* PublicPodDisLs takes a slot before it starts the goroutine.
StartGoroutine ==
    /\ CallOf("PublicPodDisLs") /\ More
    /\ Cardinality(In("given") \cup In("looking") \cup In("read")) < Slots
    /\ Starts("given") /\ counter' = counter + 1
    /\ UNCHANGED <<owes, topic, entries, Answers>>

\* An old directory has no index file: its goroutine sets topic, and reads what
\* topic says by then.
SetTopic(n) ==
    /\ Runs /\ task[n] = "given" /\ found[n] = "old"
    /\ topic' = n /\ Steps(n, "looking")
    /\ UNCHANGED <<Caller, entries, Answers>>

\* Mutant: a name that gives no entry gives an empty one.
ReadAlways(n) ==
    /\ Runs
    /\ task[n] = "looking" \/ (task[n] = "given" /\ found[n] # "old")
    /\ Steps(n, "read")
    /\ entries' = entries \cup {<<n, IF task[n] = "looking" THEN topic ELSE n>>}
    /\ UNCHANGED <<Caller, topic, Answers>>

\* The task reads its inode or metadata, and appends or sends the entry.
Read(n) ==
    /\ Runs
    /\ task[n] = "looking" \/ (task[n] = "given" /\ found[n] # "old")
    /\ Steps(n, "read")
    /\ entries' = CASE task[n] = "looking" -> entries \cup {<<n, topic>>}
                    [] found[n] = "entry"  -> entries \cup {<<n, n>>}
                    [] OTHER               -> entries
    /\ UNCHANGED <<Caller, topic, Answers>>

\* wg.Done; below zero it panics.
Done(n) ==
    /\ Runs /\ task[n] = "read"
    /\ Steps(n, "done")
    /\ IF counter > 0 THEN counter' = counter - 1 /\ UNCHANGED ret
       ELSE ret' = "panic" /\ UNCHANGED counter
    /\ UNCHANGED <<started, owes, topic, entries, received, closed>>

\* wg.Wait
Return ==
    /\ Runs /\ call \in Local /\ ~More /\ ~owes /\ counter = 0
    /\ ret' = "ok" /\ received' = entries
    /\ UNCHANGED <<Caller, task, topic, entries, closed>>

-----------------------------------------------------------------------------
CloseChannels ==
    /\ CallOf("PublicPodDisLs") /\ ~More /\ counter = 0 /\ ~closed
    /\ closed' = TRUE
    /\ UNCHANGED <<Caller, task, topic, entries, received, ret>>

\* The caller's loop ends when every name gave an entry (missingCount stays 0).
EndsWhenAll == ret' = IF Cardinality(received') = Cardinality(names) THEN "ok" ELSE "none"

ReceiveEntry ==
    /\ CallOf("PublicPodDisLs") /\ ~More
    /\ \E e \in entries \ received : received' = received \cup {e}
    /\ EndsWhenAll
    /\ UNCHANGED <<Caller, task, topic, entries, closed>>

\* What errChan has: an error of a task that is read or done.
ReceiveError ==
    /\ CallOf("PublicPodDisLs") /\ ~More
    /\ Having("error") \cap (In("read") \cup In("done")) # {}
    /\ ret' = "error"
    /\ UNCHANGED <<Caller, task, topic, entries, received, closed>>

\* A closed channel gives nothing for ever.
ReceiveNothing ==
    /\ CallOf("PublicPodDisLs") /\ closed
    /\ UNCHANGED received /\ EndsWhenAll
    /\ UNCHANGED <<Caller, task, topic, entries, closed>>

Main == GiveDirTask \/ GiveFileTask \/ AddFileTask \/ StartGoroutine \/ Return
            \/ ReceiveEntry \/ ReceiveError \/ ReceiveNothing

Task(n) == SetTopic(n) \/ Read(n) \/ Done(n)

Next == Main \/ CloseChannels \/ \E n \in names : Task(n)

\* The scheduler runs every goroutine; reads from the store return.
Fairness ==
    /\ WF_vars(Main) /\ WF_vars(CloseChannels)
    /\ \A n \in 1..MaxNames : WF_vars(n \in names /\ Task(n))

Spec == Init /\ [][Next]_vars /\ Fairness

-----------------------------------------------------------------------------
\* A listing that returns without an error has the entry of every name, each once: the
\* names whose task was taken and could be read (ListDir, ListFiles), all of them
\* (PublicPodDisLs).  There every name has sent an entry, which is its own, unless two
\* directories are stored in the old way: their goroutines share the outer topic
\* (pod_api.go:463), and the entry of one may stand in for another's.
ListsEveryName ==
    ret = "ok" =>
        /\ call \in Local =>
              received = {<<n, n>> : n \in Having("entry") \ In("refused")}
        /\ call = "PublicPodDisLs" =>
              /\ {e[1] : e \in received} = names
              /\ names \ Having("old") \subseteq {e[2] : e \in received}
              /\ (\A n, m \in Having("old") : n = m) => {e[2] : e \in received} = names

\* The goroutine of a deleted file sends neither an entry nor an error
\* (pod_api.go:537), and nothing counts it as missing: the caller's loop then goes on
\* over the closed channels for ever, unless another name gives it an error.
Endless == call = "PublicPodDisLs" /\ Having("deleted") # {} /\ Having("error") = {}

\* Every other listing ends with a list or an error: no WaitGroup waits for a task that
\* was not given away, no channel for an entry nobody sends.  ListFiles alone may panic:
\* a task may be done before the caller has counted it (file/ls.go:50).
ListingReturns ==
    ~Endless => <>(ret \in {"ok", "error"} \/ (ret = "panic" /\ call = "ListFiles"))
=============================================================================

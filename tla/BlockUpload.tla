---------------------------- MODULE BlockUpload ----------------------------
(***************************************************************************)
(* File.Upload of pkg/file/upload.go for one file: the goroutine that      *)
(* reads the data and starts a worker per block, the workers, the one that *)
(* waits for the WaitGroup, and the caller, which selects between the end  *)
(* of the wait (doneC) and an error (errC, unbuffered).                    *)
(*                                                                         *)
(* mainErr is shared without a lock: whether the reading goroutine sees    *)
(* what a worker wrote to it is a choice.  The store (external) accepts or *)
(* refuses a block, the source may fail or end early.  Blocks are numbered *)
(* from 0 as in the code; what is in them is of no concern here.           *)
(***************************************************************************)
EXTENDS Integers, Sequences, FiniteSets

CONSTANTS MaxBlocks,            \* bound on the blocks of a file
          noOfParallelWorkers,
          StoreFails,           \* whether the store may refuse a blob or a feed
          SourceFails,          \* whether reading the data may fail
          Missing               \* no block (a nil *BlockInfo)

ASSUME UploadAssumption ==
    /\ MaxBlocks \in Nat
    /\ noOfParallelWorkers \in Nat \ {0}
    /\ StoreFails \in BOOLEAN /\ SourceFails \in BOOLEAN
    /\ Missing \notin Nat

VARIABLES size,      \* number of blocks of the data
          reader,    \* the reading goroutine: what it does next
          next,      \* i, the number of the next block
          worker,    \* block -> state of its goroutine
          refMap,    \* blocks stored and recorded
          mainErr,
          wg,        \* the WaitGroup
          caller,    \* what the call does next, or its result
          inode      \* fileINode.Blocks

uploadVars == <<size, reader, next, worker, refMap, mainErr, wg, caller, inode>>

Blocks == 0..(MaxBlocks - 1)

\* One goroutine per block at most, and refMap and the inode name its blocks.
UploadTypeOK ==
    /\ size \in 0..MaxBlocks
    /\ reader \in {"check", "read", "start", "sendMainErr", "sendReadErr", "ended"}
    /\ next \in 0..size
    /\ worker \in [Blocks -> {"none", "uploading", "ending", "ended"}]
    /\ refMap \in SUBSET Blocks
    /\ mainErr \in BOOLEAN
    /\ wg \in Nat
    /\ caller \in {"select", "inode", "meta", "ok", "error"}
    /\ inode \in Seq(Blocks \cup {Missing})

UploadInit ==
    /\ size \in 0..MaxBlocks
    /\ reader = "check"
    /\ next = 0
    /\ worker = [k \in Blocks |-> "none"]
    /\ refMap = {}
    /\ mainErr = FALSE
    /\ wg = 1
    /\ caller = "select"
    /\ inode = <<>>

-----------------------------------------------------------------------------
\* The top of the loop.  The read of mainErr is not synchronized.
CheckMainErr ==
    /\ reader = "check"
    /\ \E seen \in {FALSE, mainErr} : reader' = IF seen THEN "sendMainErr" ELSE "read"
    /\ UNCHANGED <<size, next, worker, refMap, mainErr, wg, caller, inode>>

\* reader.Read: a block, the end of the data, or an error (that the data ended
\* before fileSize is one).
ReadBlock ==
    /\ reader = "read"
    /\ next < size
    /\ reader' = "start" /\ wg' = wg + 1
    /\ UNCHANGED <<size, next, worker, refMap, mainErr, caller, inode>>

ReadEOF ==
    /\ reader = "read"
    /\ next = size
    /\ reader' = "ended" /\ wg' = wg - 1
    /\ UNCHANGED <<size, next, worker, refMap, mainErr, caller, inode>>

ReadFails ==
    /\ SourceFails
    /\ reader = "read"
    /\ reader' = "sendReadErr"
    /\ UNCHANGED <<size, next, worker, refMap, mainErr, wg, caller, inode>>

Holding == {k \in Blocks : worker[k] = "uploading"}

\* worker <- true, which waits for a free place, and go.
StartWorker ==
    /\ reader = "start"
    /\ Cardinality(Holding) < noOfParallelWorkers
    /\ worker' = [worker EXCEPT ![next] = "uploading"]
    /\ next' = next + 1
    /\ reader' = "check"
    /\ UNCHANGED <<size, refMap, mainErr, wg, caller, inode>>

\* Mutant: a worker that fails calls wg.Done, and so does its deferred function.
UploadBlockDoneTwice(k) ==
    /\ worker[k] = "uploading"
    /\ \/ refMap' = refMap \cup {k} /\ UNCHANGED <<mainErr, wg>>
       \/ StoreFails /\ mainErr' = TRUE /\ wg' = wg - 1 /\ UNCHANGED refMap
    /\ worker' = [worker EXCEPT ![k] = "ending"]
    /\ UNCHANGED <<size, reader, next, caller, inode>>

\* UploadBlob; the deferred function gives the place in the pool back.
UploadBlock(k) ==
    /\ worker[k] = "uploading"
    /\ \/ refMap' = refMap \cup {k} /\ UNCHANGED mainErr
       \/ StoreFails /\ mainErr' = TRUE /\ UNCHANGED refMap
    /\ worker' = [worker EXCEPT ![k] = "ending"]
    /\ UNCHANGED <<size, reader, next, wg, caller, inode>>

\* Mutant: a worker that failed does not call wg.Done.
EndWorkerUncounted(k) ==
    /\ worker[k] = "ending"
    /\ worker' = [worker EXCEPT ![k] = "ended"]
    /\ wg' = IF k \in refMap THEN wg - 1 ELSE wg
    /\ UNCHANGED <<size, reader, next, refMap, mainErr, caller, inode>>

EndWorker(k) ==
    /\ worker[k] = "ending"
    /\ worker' = [worker EXCEPT ![k] = "ended"]
    /\ wg' = wg - 1
    /\ UNCHANGED <<size, reader, next, refMap, mainErr, caller, inode>>

\* errC is unbuffered: the reading goroutine and the caller meet in this step.
\* Only after mainErr does the former call wg.Done.
ReceiveError ==
    /\ caller = "select"
    /\ reader \in {"sendMainErr", "sendReadErr"}
    /\ caller' = "error"
    /\ reader' = "ended"
    /\ wg' = IF reader = "sendMainErr" THEN wg - 1 ELSE wg
    /\ UNCHANGED <<size, next, worker, refMap, mainErr, inode>>

\* Mutant: off by one at the end.
BlocksButLast(refs) == [i \in 1..(Cardinality(refs) - 1) |-> IF i - 1 \in refs THEN i - 1 ELSE Missing]

\* The loop that copies refMap to the inode, from 0 to len(refMap) - 1.
BlocksOf(refs) ==
    [i \in 1..Cardinality(refs) |-> IF i - 1 \in refs THEN i - 1 ELSE Missing]

\* wg.Wait returned and doneC is closed.
ReceiveDone ==
    /\ caller = "select"
    /\ wg = 0
    /\ caller' = "inode"
    /\ inode' = BlocksOf(refMap)
    /\ UNCHANGED <<size, reader, next, worker, refMap, mainErr, wg>>

StoreInode ==
    /\ caller = "inode"
    /\ caller' \in IF StoreFails THEN {"meta", "error"} ELSE {"meta"}
    /\ UNCHANGED <<size, reader, next, worker, refMap, mainErr, wg, inode>>

\* handleMeta; then the file is in the fileMap and the call returns.
StoreMeta ==
    /\ caller = "meta"
    /\ caller' \in IF StoreFails THEN {"ok", "error"} ELSE {"ok"}
    /\ UNCHANGED <<size, reader, next, worker, refMap, mainErr, wg, inode>>

ReaderStep == CheckMainErr \/ ReadBlock \/ ReadEOF \/ ReadFails \/ StartWorker
WorkerStep(k) == UploadBlock(k) \/ EndWorker(k)
CallerStep == ReceiveError \/ ReceiveDone \/ StoreInode \/ StoreMeta

UploadNext == ReaderStep \/ CallerStep \/ \E k \in Blocks : WorkerStep(k)

\* Every goroutine runs on; a read and a store end, one way or the other.
UploadFairness ==
    /\ WF_uploadVars(ReaderStep)
    /\ WF_uploadVars(CallerStep)
    /\ \A k \in Blocks : WF_uploadVars(WorkerStep(k))

UploadSpec == UploadInit /\ [][UploadNext]_uploadVars /\ UploadFairness

-----------------------------------------------------------------------------
\* The caller of Upload gets an answer, whichever blocks fail and in whatever
\* order the goroutines run: the reading goroutine is never stuck on errC or on
\* a full pool while the caller waits.
UploadReturns == <>(caller \in {"ok", "error"})

\* When the wait is over no goroutine of the upload is left that could still
\* change refMap, from which the inode is built, without its lock.
QuietWhenDone ==
    caller \in {"inode", "meta", "ok"} =>
        reader = "ended" /\ \A k \in Blocks : worker[k] \in {"none", "ended"}

Complete == inode = [i \in 1..size |-> i - 1]

\* If the store takes every block, the inode lists all blocks in order, however
\* the workers overtake each other.
BlocksInOrder == caller \in {"meta", "ok"} /\ ~mainErr => Complete

\* Upload "uploads the given blob and returns the references": a call that
\* returns no error has stored every block.
OkMeansComplete == caller = "ok" => Complete
=============================================================================

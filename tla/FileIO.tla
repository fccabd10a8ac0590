------------------------------- MODULE FileIO -------------------------------
(***************************************************************************)
(* A file from its upload to its readers: the goroutines of BlockUpload    *)
(* store the blocks, WriteAt replaces some of them, and a Reader walks     *)
(* through the blocks of the inode it was opened with.  The blocks of an   *)
(* inode never change; WriteAt stores a new inode.  Its goroutines are     *)
(* those of Upload and it is one step here, without truncation, which no   *)
(* caller asks for.                                                        *)
(***************************************************************************)
EXTENDS BlockUpload, FileBlocks

CONSTANTS UpdateSizes,    \* lengths of the updates
          BufferSizes,    \* lengths of the buffers of readers
          MaxWrites,      \* bound on the calls of WriteAt
          PartialTails,   \* whether WriteAt may end inside a last, short block
          SeekLater,      \* whether Seek is called after Read
          NoFile, NoHandle

Inodes == [blocks : Seq(Seq(Nat)), blockSize : Nat, size : Nat]
Readers == [readOffset : Nat, lastBlock : Seq(Nat), blockSize : Nat, blockCursor : Nat,
            totalSize : Nat]

ASSUME FileAssumption ==
    /\ BlockSize \in Nat \ {0}
    /\ UpdateSizes \subseteq Nat /\ BufferSizes \subseteq Nat \ {0}
    /\ MaxWrites \in Nat
    /\ PartialTails \in BOOLEAN /\ SeekLater \in BOOLEAN
    /\ NoFile \notin Inodes /\ NoHandle \notin [reader : Readers, file : Inodes]

VARIABLES file,      \* inode and meta: blocks, blockSize, size
          writes,    \* calls of WriteAt so far
          handle,    \* the open Reader and the file it was made from
          got        \* what the last Read returned

vars == <<uploadVars, file, writes, handle, got>>

MaxLength == MaxBlocks * BlockSize
Contents == {[i \in 1..n |-> i] : n \in 0..MaxLength}
\* The bytes of one update differ from those of the other updates and the data.
Update(k, n) == [i \in 1..n |-> 100 * k + i]
Nothing == [data |-> <<>>, err |-> "nil"]

\* Bytes, offsets and errors are what File and Reader of the code may hold: a
\* file is never longer than its blocks, a reader never past the end of its file.
TypeOK ==
    /\ UploadTypeOK
    /\ file = NoFile \/ file.size <= Len(FlattenSeq(file.blocks))
    /\ writes \in 0..MaxWrites
    /\ handle = NoHandle \/ handle.reader.readOffset \in 0..Len(FlattenSeq(handle.file.blocks))
    /\ got.err \in {"nil", "EOF", "panic"}

Init ==
    /\ UploadInit
    /\ file = NoFile
    /\ writes = 0
    /\ handle = NoHandle
    /\ got = Nothing

-----------------------------------------------------------------------------
Uploading == UploadNext /\ UNCHANGED <<file, writes, handle, got>>

\* Upload returned, and the store took every block (see OkMeansComplete).
Uploaded ==
    /\ caller = "ok" /\ file = NoFile
    /\ ~mainErr
    /\ \E data \in Contents :
          LET blocks == Split(data, BlockSize) IN
          /\ Len(blocks) = size
          /\ file' = [blocks |-> [i \in DOMAIN inode |-> blocks[inode[i] + 1]],
                      blockSize |-> BlockSize, size |-> Len(data)]
    /\ UNCHANGED <<uploadVars, writes, handle, got>>

\* Where the update ends, the old data ends too or fills its block.
EndsWell(f, end) ==
    \/ end >= f.size \/ f.size < f.blockSize
    \/ end % f.blockSize = 0
    \/ end \div f.blockSize < f.size \div f.blockSize

WriteAtFile ==
    /\ file # NoFile
    /\ writes < MaxWrites
    /\ \E offset \in 0..file.size, n \in UpdateSizes :
          /\ offset + n <= MaxLength
          /\ PartialTails \/ EndsWell(file, offset + n)
          /\ file' = WriteAt(file, Update(writes + 1, n), offset, FALSE)
    /\ writes' = writes + 1
    /\ UNCHANGED <<uploadVars, handle, got>>

Download ==
    /\ file # NoFile
    /\ handle' = [reader |-> NewReader(file), file |-> file]
    /\ got' = Nothing
    /\ UNCHANGED <<uploadVars, file, writes>>

Took(answer) ==
    /\ handle' = [handle EXCEPT !.reader = answer.reader]
    /\ got' = [data |-> answer.data, err |-> answer.err]
    /\ UNCHANGED <<uploadVars, file, writes>>

ReadSome ==
    /\ handle # NoHandle
    /\ \E n \in BufferSizes : Took(Read(handle.reader, n, handle.file))

\* The callers (collection/document.go) seek in a reader they just opened, to
\* the start of something.
SeekTo ==
    /\ handle # NoHandle
    /\ SeekLater \/ handle.reader = NewReader(handle.file)
    /\ \E offset \in 0..(handle.file.size - 1) : Took(Seek(handle.reader, offset, handle.file))

Next == Uploading \/ Uploaded \/ WriteAtFile \/ Download \/ ReadSome \/ SeekTo

Spec == Init /\ [][Next]_vars /\ UploadFairness

-----------------------------------------------------------------------------
\* Upload, WriteAt and Reader are a file of bytes: what is read is what was
\* written, at the position of the reader, through short reads, block borders,
\* updates across blocks, and readers opened before an update.
Bytes == INSTANCE ByteFile
            WITH Uploads <- Contents,
                 Updates <- {Update(k, n) : k \in 1..MaxWrites, n \in UpdateSizes},
                 Buffers <- BufferSizes,
                 content <- IF file = NoFile THEN <<>> ELSE FlattenSeq(file.blocks),
                 view <- IF handle = NoHandle THEN <<>> ELSE FlattenSeq(handle.file.blocks),
                 pos <- IF handle = NoHandle THEN 0 ELSE handle.reader.readOffset
IsByteFile == Bytes!Spec
=============================================================================

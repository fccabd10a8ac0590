----------------------------- MODULE FileBlocks -----------------------------
(***************************************************************************)
(* What a file's blocks say: cutting data into blocks (file/upload.go),    *)
(* the Reader (file/reader.go) and the rewriting of blocks by WriteAt      *)
(* (file/writeAt.go).  Bytes are members of a set, 0 the byte that fresh   *)
(* Go slices hold.  A block is the sequence of its bytes, what compressing *)
(* and decompressing it gives back.                                        *)
(***************************************************************************)
EXTENDS Integers, SequencesExt

CONSTANT BlockSize  \* bytes in a block of the files uploaded

Least(i, j) == IF i < j THEN i ELSE j
From(s, i) == SubSeq(s, i + 1, Len(s))              \* s[i:]
Slice(s, i, j) == SubSeq(s, i + 1, j)               \* s[i:j]
Zeros(n) == [i \in 1..n |-> 0]

\* Upload: blocks of blockSize, the last one shorter.  A block is what one Read
\* of the source returns: the sources in the program fill the buffer.
Split(data, blockSize) ==
    [i \in 1..((Len(data) + blockSize - 1) \div blockSize) |->
        Slice(data, (i - 1) * blockSize, Least(i * blockSize, Len(data)))]

\* What a download has of an uploaded file: the blocks of its inode, and its meta data.
FileOf(data) == [blocks |-> Split(data, BlockSize), blockSize |-> BlockSize, size |-> Len(data)]

-----------------------------------------------------------------------------
(***************************************************************************)
(* The Reader.  lastBlock is <<>> where the code has nil: no block is      *)
(* empty.  An answer has the reader afterwards, the bytes and the error.   *)
(***************************************************************************)
NewReader(file) ==
    [readOffset |-> 0, lastBlock |-> <<>>, blockSize |-> file.blockSize,
     blockCursor |-> 0, totalSize |-> 0]

Answer(r, data, err) == [reader |-> r, data |-> data, err |-> err]

Advance(r, n) == [r EXCEPT !.readOffset = @ + n, !.totalSize = @ + n]
DropBlock(r) == [r EXCEPT !.lastBlock = <<>>, !.blockCursor = 0]

\* n more bytes from the block that holds readOffset, after the bytes in done.
ReadNextBlock(r, n, file, done) ==
    LET k == r.readOffset \div r.blockSize
        block == file.blocks[k + 1]
        size == Least(n, Len(block))
        s == Advance([r EXCEPT !.blockSize = Len(block)], size)
    IN  IF k >= Len(file.blocks) THEN Answer(r, done, "EOF")
        ELSE Answer(IF size = Len(block) THEN DropBlock(s)
                    ELSE [s EXCEPT !.lastBlock = block, !.blockCursor = @ + size],
                    done \o Slice(block, 0, size), "nil")

\* Read with a buffer of n bytes.
Read(r, n, file) ==
    LET left == From(r.lastBlock, r.blockCursor)
        s == Advance(r, n)
        rest == DropBlock(Advance(r, Len(left)))
    IN  CASE r.totalSize >= file.size -> Answer(r, <<>>, "EOF")
          [] r.totalSize < file.size /\ r.lastBlock = <<>> -> ReadNextBlock(r, n, file, <<>>)
          [] OTHER ->
                IF n <= Len(left)
                THEN Answer(IF n = Len(left) THEN DropBlock(s)
                            ELSE [s EXCEPT !.blockCursor = @ + n],
                            Slice(left, 0, n), "nil")
                ELSE IF rest.totalSize >= file.size THEN Answer(rest, left, "EOF")
                ELSE ReadNextBlock(rest, n - Len(left), file, left)

\* Seek; an index past the last block panics.
Seek(r, offset, file) ==
    LET k == offset \div r.blockSize
        block == file.blocks[k + 1]
    IN  IF offset > file.size THEN Answer(r, <<>>, "ErrInvalidOffset")
        ELSE IF k >= Len(file.blocks) THEN Answer(r, <<>>, "panic")
        ELSE Answer([readOffset |-> offset, lastBlock |-> block, blockSize |-> Len(block),
                     blockCursor |-> offset % r.blockSize, totalSize |-> offset],
                    <<>>, "nil")

\* ReadFrom of a buffer: Read until it says EOF, which is at most once for every
\* block and once behind the last, since a Read ends where a block does.
ReadAll(file) ==
    LET reads[k \in 0..Len(file.blocks) + 1] ==
            IF k = 0 THEN Answer(NewReader(file), <<>>, "nil")
            ELSE LET a == reads[k - 1]
                     more == Read(a.reader, file.blockSize, file)
                 IN  IF a.err = "EOF" THEN a ELSE Answer(more.reader, a.data \o more.data, more.err)
    IN  reads[Len(file.blocks) + 1].data

-----------------------------------------------------------------------------
(***************************************************************************)
(* WriteAt.  The loop is a function of the rounds made: the bytes of the   *)
(* old data and of the update that are not consumed (reader, updater), the *)
(* position reached (totalLength), the block number i and the blocks so    *)
(* far.  The three parts of a block come from the old data before offset,  *)
(* from the update, and from the old data after it.                        *)
(***************************************************************************)
WritePart(w, file, offset, end) ==
    LET room == file.blockSize - Len(w.data)
        part == Slice(w.updater, 0, Least(room, Len(w.updater)))
    IN  IF w.totalLength >= offset /\ w.totalLength < end /\ room > 0
        THEN [w EXCEPT !.data = @ \o part, !.updater = From(@, Len(part)),
                       !.totalLength = @ + Len(part),
                       !.reader = From(@, Least(Len(part), Len(@)))]
        ELSE w

\* Mutant: the old bytes after the update are dropped.
NoTailPart(w, file, oldSize, truncate) == w

\* The buffer for the old bytes has the block's full size even if fewer are left.
TailPart(w, file, oldSize, truncate) ==
    LET size == IF oldSize < file.blockSize THEN oldSize ELSE file.blockSize
        room == size - Len(w.data)
        part == Slice(w.reader, 0, Least(room, Len(w.reader)))
    IN  IF Len(w.data) # file.blockSize /\ ~truncate /\ w.totalLength < oldSize
        THEN [w EXCEPT !.data = @ \o part \o Zeros(room - Len(part)),
                       !.reader = From(@, Len(part)),
                       !.totalLength = @ + Len(part)]
        ELSE w

HeadPart(w, offset, blockOffset) ==
    IF w.totalLength < offset
    THEN [w EXCEPT !.data = Slice(w.reader, 0, blockOffset),
                   !.reader = From(@, blockOffset),
                   !.totalLength = @ + blockOffset]
    ELSE [w EXCEPT !.data = <<>>]

\* One round of the loop, which writes one block, and none when all is written.
WriteBlock(w, file, offset, end, oldSize, newSize, truncate) ==
    LET head == HeadPart(w, offset, offset % file.blockSize)
        full == TailPart(WritePart(head, file, offset, end), file, oldSize, truncate)
    IN  IF w.totalLength < newSize /\ w.updater # <<>>
        THEN [full EXCEPT !.blocks = IF w.i < Len(@) THEN [@ EXCEPT ![w.i + 1] = full.data]
                                     ELSE Append(@, full.data),
                          !.i = @ + 1]
        ELSE w

\* The file WriteAt leaves when nothing fails (offset is at most its size).
WriteAt(file, update, offset, truncate) ==
    LET old == ReadAll(file)
        end == offset + Len(update)
        newSize == IF end > Len(old) THEN end
                   ELSE IF truncate THEN Len(update) ELSE Len(old)
        start == offset \div file.blockSize
        first == [reader |-> From(old, start * file.blockSize), updater |-> update, data |-> <<>>,
                  totalLength |-> start * file.blockSize, i |-> start, blocks |-> file.blocks]
        \* a round takes a byte of the update at least
        after[n \in 0..Len(update)] ==
            IF n = 0 THEN first
            ELSE WriteBlock(after[n - 1], file, offset, end, Len(old), newSize, truncate)
        done == after[Len(update)]
        kept == IF truncate /\ done.i < Len(done.blocks) THEN done.i + 1 ELSE Len(done.blocks)
    IN  [file EXCEPT !.blocks = Slice(done.blocks, 0, kept), !.size = newSize]
=============================================================================

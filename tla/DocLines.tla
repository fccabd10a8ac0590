------------------------------ MODULE DocLines ------------------------------
(***************************************************************************)
(* The lines of a file (Reader.ReadLine, file/reader.go): a new reader      *)
(* reads them one after another, and a new reader that is sought to where  *)
(* a line starts reads that line, as file/reader_test.go does.  Read and   *)
(* Seek below it are in FileBlocks.  An immutable document database is     *)
(* meant to be indexed and read this way (DocFileIndex, getLineFromFile in *)
(* collection/document.go), but never comes so far: OpenFileForIndex       *)
(* decrypts the inode of the file, which Upload stores unencrypted.        *)
(***************************************************************************)
EXTENDS FileBlocks

CONSTANT MaxSize  \* bound on the bytes of a file

NewLine == 1
Other == 2

VARIABLES docFile,   \* the file: blocks, blockSize, size
          lines,     \* the reader of its lines
          seekIndex  \* where the next line starts, by the lengths read so far

docLinesVars == <<docFile, lines, seekIndex>>

-----------------------------------------------------------------------------
\* A reader of lines: the buffer (its whole capacity), how much of it was read, the
\* place of the last newline, and whether that is the buffer's first byte.
\* length is 0 where the code has a nil buffer.
NewLineReader(f) ==
    [reader |-> NewReader(f), buffer |-> <<>>, length |-> 0, at |-> 0, first |-> FALSE]

Line(l, data, err) == [lines |-> l, data |-> data, err |-> err]

\* Mutant: the byte behind the last newline is not stepped over when it is the first.
ForgetsFirst(l) == IF l.at # 0 THEN l.at + 1 ELSE l.at

\* Where the next line starts in the buffer.
readOffset(l) == IF l.at # 0 \/ l.first THEN l.at + 1 ELSE l.at

Buffered(l, a) ==
    [l EXCEPT !.reader = a.reader, !.length = Len(a.data), !.at = 0,
              !.buffer = a.data \o Zeros(l.reader.blockSize - Len(a.data))]

\* From READ: to the next goto READ, in which case the line is not ended and err is
\* "more". A buffer filled here is not cut to what was read.
ReadRound(x, f) ==
    LET l == x.lines
        from == readOffset(l)
        ends == {i \in (from + 1)..l.length : l.buffer[i] = NewLine}
        end == CHOOSE i \in ends : \A j \in ends : i <= j
        found == [l EXCEPT !.at = end - 1, !.first = (end = 1)]
        rest == x.data \o Slice(l.buffer, from, l.reader.blockSize)
        more == Read(l.reader, l.reader.blockSize, f)
        full == [Buffered(l, more) EXCEPT !.length = l.reader.blockSize, !.first = FALSE]
    IN  CASE ends # {} ->
               Line(IF end = l.length THEN [found EXCEPT !.length = 0, !.at = 0] ELSE found,
                    x.data \o Slice(l.buffer, from, end), "nil")
          [] ends = {} /\ from > l.reader.blockSize -> Line(l, <<>>, "panic")
          [] OTHER ->
               IF l.reader.totalSize = f.size THEN Line(l, rest, "EOF")
               ELSE IF more.err # "nil" THEN Line(l, <<>>, more.err)
               ELSE Line(full, rest, "more")

\* A round that goes on reads a block or the rest of one.
ReadOn(l, f) ==
    LET rounds[k \in 0..Len(f.blocks) + 1] ==
            IF k = 0 THEN Line(l, <<>>, "more")
            ELSE IF rounds[k - 1].err # "more" THEN rounds[k - 1]
            ELSE ReadRound(rounds[k - 1], f)
    IN  rounds[Len(f.blocks) + 1]

ReadLine(l, f) ==
    LET a == Read(l.reader, l.reader.blockSize, f) IN
    IF l.length # 0 THEN ReadOn(l, f)
    ELSE IF a.err = "EOF" /\ (a.data = <<>> \/ Last(a.data) # NewLine)
    THEN Line([l EXCEPT !.reader = a.reader], <<>>, "EOF")
    ELSE ReadOn(Buffered(l, a), f)

\* A Seek throws the buffer away.
SeekLine(l, offset, f) ==
    [l EXCEPT !.reader = Seek(l.reader, offset, f).reader, !.length = 0, !.at = 0]

\* What a new reader reads that is sought to the offset.
LineAt(f, offset) == ReadLine(SeekLine(NewLineReader(f), offset, f), f)

-----------------------------------------------------------------------------
\* Files of every content, empty ones and ones without a newline at the end among them.
Files == {FileOf(data) : data \in UNION {[1..n -> {NewLine, Other}] : n \in 0..MaxSize}}

DocLinesInit ==
    /\ docFile \in Files
    /\ lines = NewLineReader(docFile)
    /\ seekIndex = 0

ReadNextLine ==
    LET answer == ReadLine(lines, docFile) IN
    /\ answer.err = "nil"
    /\ seekIndex' = seekIndex + Len(answer.data)
    /\ lines' = answer.lines
    /\ UNCHANGED docFile

\* At the end of a file its reader is dropped and another file read.
NextFile ==
    /\ ReadLine(lines, docFile).err # "nil"
    /\ docFile' \in Files
    /\ lines' = NewLineReader(docFile')
    /\ seekIndex' = 0

DocLinesNext == ReadNextLine \/ NextFile

DocLinesSpec == DocLinesInit /\ [][DocLinesNext]_docLinesVars

-----------------------------------------------------------------------------
Data == FlattenSeq(docFile.blocks)
Ends == {i \in DOMAIN Data : Data[i] = NewLine}

IsNextLine(answer, q) == answer.err = "nil" /\ answer.data = Slice(Data, seekIndex, q)

\* A seek into the middle of a last block makes its Read say EOF with the bytes, which
\* ReadLine takes for no line unless the file ends with one.
ReadsPastSeek(offset) ==
    \/ Last(Data) = NewLine
    \/ offset % docFile.blockSize = 0
    \/ offset \div docFile.blockSize < (Len(Data) - 1) \div docFile.blockSize

\* Every line of the file is read once, whole and in its place, and EOF behind the
\* last newline, whatever follows it.  A line that a block can hold is read again by a
\* new reader sought to where it starts: lines that cross the border of two blocks,
\* or start or end there, among them (ReadLine, Seek).
LinesAreFound ==
    LET left == {i \in Ends : i > seekIndex}
        q == CHOOSE i \in left : \A j \in left : i <= j
    IN  IF left = {} THEN ReadLine(lines, docFile).err = "EOF"
        ELSE /\ IsNextLine(ReadLine(lines, docFile), q)
             /\ q - seekIndex <= docFile.blockSize /\ ReadsPastSeek(seekIndex) =>
                   IsNextLine(LineAt(docFile, seekIndex), q)
=============================================================================

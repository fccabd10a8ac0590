------------------------------ MODULE ByteFile ------------------------------
(***************************************************************************)
(* What a file promises: it is uploaded, overwritten at offsets, and read  *)
(* by an io.Reader that sees the file as it was when it was opened.        *)
(***************************************************************************)
EXTENDS Integers, Sequences

CONSTANTS Uploads,     \* contents a file may be uploaded with
          Updates,     \* what WriteAt may write
          Buffers      \* lengths of the buffers passed to Read

VARIABLES content,     \* the file
          view,        \* what the open reader reads
          pos,         \* its position
          got          \* what the last Read returned

vars == <<content, view, pos, got>>

Nothing == [data |-> <<>>, err |-> "nil"]

Init == content = <<>> /\ view = <<>> /\ pos = 0 /\ got = Nothing

Upload == content' \in Uploads /\ UNCHANGED <<view, pos, got>>

Overwrite(c, update, offset) ==
    SubSeq(c, 1, offset) \o update \o SubSeq(c, offset + Len(update) + 1, Len(c))

WriteAt ==
    /\ \E u \in Updates : \E offset \in 0..Len(content) :
          content' = Overwrite(content, u, offset)
    /\ UNCHANGED <<view, pos, got>>

Open == view' = content /\ pos' = 0 /\ got' = Nothing /\ UNCHANGED content

Seek == pos' \in 0..Len(view) /\ got' = Nothing /\ UNCHANGED <<content, view>>

\* Some bytes and no error, or the rest of the bytes and EOF.
Read ==
    /\ \E n \in Buffers : \E m \in 0..n :
          /\ pos + m <= Len(view)
          /\ pos' = pos + m
          /\ got' = [data |-> SubSeq(view, pos + 1, pos + m), err |-> got'.err]
          /\ IF got'.err = "EOF" THEN pos + m = Len(view) ELSE got'.err = "nil" /\ m > 0
    /\ UNCHANGED <<content, view>>

Next == Upload \/ WriteAt \/ Open \/ Seek \/ Read

Spec == Init /\ [][Next]_vars
=============================================================================

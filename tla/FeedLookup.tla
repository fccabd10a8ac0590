----------------------------- MODULE FeedLookup -----------------------------
(***************************************************************************)
(* The two algorithms that search a feed for its latest update.            *)
(* FluzCapacitorAlgorithm is sequential.  LongEarthAlgorithm, the one the  *)
(* program uses, races three goroutines per step (read, look ahead, look   *)
(* back) and prunes them by cancelling contexts, so it is modelled by the  *)
(* set of answers the possible timings give.                               *)
(*                                                                         *)
(* ch is the set of slots a read finds; an answer is a slot or None.       *)
(***************************************************************************)
EXTENDS FeedEpoch

None == [time |-> -1, level |-> -1]
Slots == [time: Times, level: Levels]

read(ch, e) == IF EpochID(e) \in ch THEN EpochID(e) ELSE None

-----------------------------------------------------------------------------
\* Where FluzCapacitorAlgorithm is: the time it looks at, the update it starts from and
\* the last one it found.
FluzPositions == [t: Times, hint: Epoch, found: Slots \cup {None}]

\* Mutant: gives up at the first failing read that is not in the hint's period.
FluzForward(ch, loop, k) ==
    LET epoch == GetNextEpoch(k.hint, k.t)
        value == read(ch, epoch)
    IN  IF value # None /\ ~(epoch.level = LowestLevel \/ Equals(epoch, k.hint))
        THEN loop[[t |-> k.t, hint |-> epoch, found |-> value]]
        ELSE IF value # None THEN value ELSE k.found

\* One round at k; loop tells what the rounds behind it answer.
FluzRound(ch, loop, k) ==
    LET epoch == GetNextEpoch(k.hint, k.t)
        value == read(ch, epoch)
        last == epoch.level = LowestLevel \/ Equals(epoch, k.hint)
    IN  CASE value # None /\ last -> value
          [] value # None /\ ~last ->
                loop[[t |-> k.t, hint |-> epoch, found |-> value]]
          [] value = None /\ Base(epoch) = Base(k.hint) ->
                IF k.found # None \/ k.hint = worstHint THEN k.found
                ELSE IF read(ch, k.hint) # None THEN read(ch, k.hint)
                ELSE loop[[t |-> Base(k.hint), hint |-> worstHint, found |-> None]]
          [] OTHER ->
                IF Base(epoch) = 0 THEN None
                ELSE loop[[k EXCEPT !.t = Base(epoch) - 1]]

FluzLoop(ch) == LET loop[k \in FluzPositions] == FluzRound(ch, loop, k) IN loop

FluzCapacitorAlgorithm(ch, now, hint) ==
    FluzLoop(ch)[[t |-> now, hint |-> IF hint = NoClue THEN worstHint ELSE hint,
                  found |-> None]]

-----------------------------------------------------------------------------
(***************************************************************************)
(* Answers of one step of LongEarthAlgorithm.  R reads epoch; A is the     *)
(* step after it, started when R succeeds or when its head start is over;  *)
(* B looks before epoch.  A step cut short by its caller may answer with   *)
(* whatever of A, R and B was complete.  A look-ahead that answers before  *)
(* a failing read wins.                                                    *)
(***************************************************************************)
Steps == [t: Times, last: Epoch, cut: BOOLEAN]

\* The step k; step tells what the steps it starts may answer.
LongEarthRead(ch, step, k) ==
    LET epoch == GetNextEpoch(k.last, k.t)
        valueR == read(ch, epoch)
        lookAhead(c) ==
            IF epoch.level = LowestLevel \/ Equals(epoch, k.last) THEN {None}
            ELSE step[[t |-> k.t, last |-> epoch, cut |-> c]]
        lookBack(c) ==
            IF Base(epoch) = Base(k.last) \/ Base(epoch) = 0 THEN {None}
            ELSE step[[t |-> Base(epoch) - 1, last |-> k.last, cut |-> c]]
    IN  CASE k.cut -> {None, valueR} \cup lookAhead(TRUE) \cup lookBack(TRUE)
          [] ~k.cut /\ valueR # None ->
                {IF a # None THEN a ELSE valueR : a \in lookAhead(FALSE)}
          [] OTHER -> (lookAhead(TRUE) \ {None}) \cup lookBack(FALSE)

LongEarthStep(ch) == LET step[k \in Steps] == LongEarthRead(ch, step, k) IN step

\* now = hint.Base(), decremented at the highest level, on unsigned words.
RestartTime(hint) ==
    (Base(hint) - (IF hint.level = HighestLevel THEN 1 ELSE 0)) % 2^WordBits

\* What the steps that begin at an epoch may answer.
Search(ch, now, last) == LongEarthStep(ch)[[t |-> now, last |-> last, cut |-> FALSE]]

\* A search that finds nothing challenges its hint, and starts again without one
\* when nothing is there.
LongEarthAlgorithm(ch, now, clue) ==
    LET challenge == IF read(ch, clue) # None THEN {read(ch, clue)}
                     ELSE Search(ch, RestartTime(clue), worstHint)
        answers == Search(ch, now, clue)
    IN  IF clue = NoClue THEN Search(ch, now, worstHint)
        ELSE (answers \ {None}) \cup (IF None \in answers THEN challenge ELSE {})
=============================================================================

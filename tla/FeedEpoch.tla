----------------------------- MODULE FeedEpoch -----------------------------
(***************************************************************************)
(* Epoch arithmetic of the feeds (pkg/feed/lookup/epoch.go, lookup.go).    *)
(* An epoch is a period of 2^level seconds; an update of a feed is the     *)
(* single owner chunk whose id is the pair (level, base time).  In the     *)
(* code HighestLevel is 31 and worstHint has level 63; here both are       *)
(* parameters, so that a small clock crosses every kind of boundary.       *)
(***************************************************************************)
EXTENDS Integers, FiniteSets, FiniteSetsExt

CONSTANTS HighestLevel,   \* lookup.HighestLevel (31)
          WorstLevel,     \* level of worstHint (63)
          WordBits        \* width of the unsigned clock (64)

ASSUME EpochConstants ==
    /\ HighestLevel \in Nat \ {0}
    /\ WorstLevel \in Nat
    /\ WorstLevel > HighestLevel + 1
    /\ WordBits \in Nat
    /\ WordBits > HighestLevel + 1

LowestLevel == 0
Levels == LowestLevel..HighestLevel
Times == 0..(2^WordBits - 1)

Epoch == [time: Times, level: Levels \cup {WorstLevel}]

NoClue == [time |-> 0, level |-> 0]
worstHint == [time |-> 0, level |-> WorstLevel]

getBaseTime(t, level) == t - (t % 2^level)

Base(e) == getBaseTime(e.time, e.level)

\* The slot an epoch names: all the times of one period are one slot.
EpochID(e) == [time |-> Base(e), level |-> e.level]

Equals(e, f) == EpochID(e) = EpochID(f)

\* Positions at or below the highest bit in which a and b differ: the number
\* a XOR b, as far as the position of its highest bit is concerned.
DifferingBits(a, b) == {i \in 0..(HighestLevel + 1) : a \div 2^i # b \div 2^i}

\* 1 << (last.Level - 1) is 0 when Level is 0: the uint8 shift count wraps.
LevelBit(last) == IF last.level > 0 THEN {last.level - 1} ELSE {}

\* Mutant: the level is not limited to last.level - 1.
GetNextLevelUnlimited(last, now) ==
    Min({HighestLevel, Max(DifferingBits(Base(last), now) \cup {LowestLevel})})

GetNextLevel(last, now) ==
    LET mix == DifferingBits(Base(last), now) \cup LevelBit(last)
    IN  Min({HighestLevel, Max(mix \cup {LowestLevel})})

GetFirstEpoch(now) == [time |-> now, level |-> HighestLevel]

GetNextEpoch(last, now) ==
    IF last = NoClue THEN GetFirstEpoch(now)
    ELSE [time |-> now, level |-> GetNextLevel(last, now)]
=============================================================================

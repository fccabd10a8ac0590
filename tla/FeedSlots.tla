----------------------------- MODULE FeedSlots -----------------------------
(***************************************************************************)
(* What the writers of a feed promise to its readers: where the updates    *)
(* may be placed.  Time is cut into periods, one family per level, the     *)
(* periods of a level nested in those of the next; SlotOf(t, l) names the  *)
(* period of level l that holds t.  The search descends from the highest   *)
(* level and stops at the first empty slot, so an update is only reachable *)
(* when every period around it holds an update too.                        *)
(***************************************************************************)
EXTENDS Integers

CONSTANTS HighestLevel, Clock, SlotOf(_, _)

Levels == 0..HighestLevel
Slots == [time: Clock, level: Levels]

\* What the theorems assume of the constants (FeedWriters checks it of epochs).
SlotAssumption ==
    /\ HighestLevel \in Nat
    /\ Clock \subseteq Nat
    /\ \A t \in Clock, l \in Levels : SlotOf(t, l) \in Clock
    /\ \A t \in Clock, l \in Levels, m \in Levels :
          l <= m => SlotOf(SlotOf(t, l), m) = SlotOf(t, m)

VARIABLES now, chunks   \* the clock; the set of slots that hold an update

vars == <<now, chunks>>

Slot(t, l) == [time |-> SlotOf(t, l), level |-> l]

\* The clock and the slots in use stay within the levels and times epoch.go has.
TypeOK == now \in Clock /\ chunks \in SUBSET Slots

Init == now \in Clock /\ chunks = {}

Tick == now' \in Clock /\ now' >= now /\ UNCHANGED chunks

\* The first update of a feed goes to the highest level.
PlaceFirst ==
    /\ chunks' = chunks \cup {Slot(now, HighestLevel)}
    /\ UNCHANGED now

\* A next update goes at most one level below the update it follows, and not
\* below a level whose period has changed since (lookup.GetNextLevel).
NextLevels(last) ==
    {l \in Levels :
        /\ l >= last.level - 1
        /\ \A m \in Levels : m > l => SlotOf(last.time, m) = SlotOf(now, m)}

PlaceNext ==
    /\ \E last \in chunks : \E l \in NextLevels(last) :
          chunks' = chunks \cup {Slot(now, l)}
    /\ UNCHANGED now

Next == Tick \/ PlaceFirst \/ PlaceNext

Spec == Init /\ [][Next]_vars

\* Every period around an update holds an update, up to the highest level
\* (GetNextLevel: "limited to not return a level that is smaller than the
\* last-1"), whichever earlier update each writer started from.
NoHoles ==
    \A c \in chunks : \A l \in Levels : l >= c.level => Slot(c.time, l) \in chunks
=============================================================================

-------------------------- MODULE PodManagerProofs --------------------------
(***************************************************************************)
(* However many sessions and threads work on a user's list of pods, and    *)
(* wherever they die, the stored list never holds two pods with one name   *)
(* or one index; with a single thread that always finds the list, no       *)
(* created pod is lost from it and the open pods are in it, crashes        *)
(* included; and if that thread is not stopped in a call, every listed pod *)
(* has its root and a call removes no other pod's.                         *)
(***************************************************************************)
EXTENDS PodManager, SequenceTheorems, TLAPS

-----------------------------------------------------------------------------
(* What the changes of the list keep. *)

LEMMA WithPodLemma ==
  ASSUME NEW l \in Lists, NEW item \in Item
  PROVE  /\ WithPod(l, item) \in Lists
         /\ WithPod(l, item).shared = l.shared
         /\ Positions(l) = 1..Len(l.pods) /\ Len(l.pods) \in Nat
         /\ Positions(WithPod(l, item)) = 1..(Len(l.pods) + 1)
         /\ \A k \in Positions(l) : WithPod(l, item).pods[k] = l.pods[k]
         /\ WithPod(l, item).pods[Len(l.pods) + 1] = item
<1>1. l.pods \in Seq(Item)
  BY DEF Lists
<1>2. /\ Append(l.pods, item) \in Seq(Item)
      /\ Len(Append(l.pods, item)) = Len(l.pods) + 1
      /\ Append(l.pods, item)[Len(l.pods) + 1] = item
      /\ \A k \in 1..Len(l.pods) : Append(l.pods, item)[k] = l.pods[k]
  BY <1>1, AppendProperties
<1>3. Len(l.pods) \in Nat /\ DOMAIN l.pods = 1..Len(l.pods)
  BY <1>1, LenProperties
<1>4. DOMAIN Append(l.pods, item) = 1..(Len(l.pods) + 1)
  BY <1>2, LenProperties
<1>5. WithPod(l, item).pods = Append(l.pods, item) /\ WithPod(l, item).shared = l.shared
  BY DEF WithPod, Lists
<1>6. WithPod(l, item) \in Lists
  BY <1>2 DEF WithPod, Lists
<1> QED
  BY <1>2, <1>3, <1>4, <1>5, <1>6 DEF Positions

LEMMA WithoutPositionLemma ==
  ASSUME NEW l \in Lists, NEW k \in Positions(l)
  PROVE  /\ WithoutPosition(l, k) \in Lists
         /\ WithoutPosition(l, k).shared = l.shared
         /\ Positions(l) = 1..Len(l.pods) /\ Len(l.pods) \in Nat
         /\ Positions(WithoutPosition(l, k)) = 1..(Len(l.pods) - 1)
         /\ \A j \in 1..(Len(l.pods) - 1) :
               WithoutPosition(l, k).pods[j] = IF j < k THEN l.pods[j] ELSE l.pods[j + 1]
<1> DEFINE n == Len(l.pods)
           short == [j \in 1..(n - 1) |-> IF j < k THEN l.pods[j] ELSE l.pods[j + 1]]
<1>1. l.pods \in Seq(Item)
  BY DEF Lists
<1>2. n \in Nat /\ DOMAIN l.pods = 1..n /\ \A j \in 1..n : l.pods[j] \in Item
  BY <1>1, LenProperties, ElementOfSeq
<1>3. k \in 1..n /\ n - 1 \in Nat
  BY <1>2 DEF Positions
<1>4. short \in [1..(n - 1) -> Item]
  BY <1>2, <1>3
<1>5. short \in Seq(Item)
  BY <1>3, <1>4, SeqDef
<1>6. WithoutPosition(l, k).pods = short /\ WithoutPosition(l, k).shared = l.shared
  BY DEF WithoutPosition, Lists
<1>7. WithoutPosition(l, k) \in Lists
  BY <1>5 DEF WithoutPosition, Lists
<1>8. DOMAIN short = 1..(n - 1)
  OBVIOUS
<1> HIDE DEF short
<1>9. \A j \in 1..(n - 1) : short[j] = IF j < k THEN l.pods[j] ELSE l.pods[j + 1]
  BY DEF short
<1> QED
  BY <1>2, <1>6, <1>7, <1>8, <1>9 DEF Positions

LEMMA SharedLemma ==
  ASSUME NEW l \in Lists, NEW names \in SUBSET Names
  PROVE  /\ [l EXCEPT !.shared = names] \in Lists
         /\ [l EXCEPT !.shared = names].pods = l.pods
         /\ [l EXCEPT !.shared = names].shared = names
         /\ Positions([l EXCEPT !.shared = names]) = Positions(l)
BY DEF Lists, Positions

-----------------------------------------------------------------------------
(* Every variable keeps its type. *)

LEMMA RequestFields ==
  ASSUME TypeOK, NEW t \in Threads
  PROVE  /\ thread[t].pc = "storeNew" => thread[t].item \in Item /\ thread[t].list \in Lists
         /\ thread[t].pc \in {"makeRoot", "openRoot"} => thread[t].item \in Item
         /\ thread[t].pc = "storeShared" => thread[t].name \in Names /\ thread[t].list \in Lists
         /\ thread[t].pc = "deleteOwn" => thread[t].name \in Names
         /\ thread[t].pc = "storeLess" =>
               thread[t].list \in Lists /\ thread[t].removed \in SUBSET Item
<1>1. thread[t] \in Requests
  BY DEF TypeOK
<1> QED
  BY <1>1, SMTT(30) DEF Requests, Idle

LEMMA ListTyped ==
  ASSUME TypeOK
  PROVE  /\ list \in Lists
         /\ \A k \in Positions(list) : list.pods[k] \in Item
         /\ Positions(list) \subseteq Nat
         /\ list.shared \in SUBSET Names
<1>1. list \in Lists /\ list.pods \in Seq(Item) /\ list.shared \in SUBSET Names
  BY DEF TypeOK, Lists
<1> QED
  BY <1>1, LenProperties, ElementOfSeq DEF Positions

LEMMA GotoTyped ==
  ASSUME TypeOK, NEW t \in Threads, NEW r \in Requests, Goto(t, r)
  PROVE  thread' \in [Threads -> Requests]
BY DEF TypeOK, Goto

LEMMA MapTyped ==
  ASSUME TypeOK, NEW t \in Threads, NEW n \in Names, NEW open \in Open \cup {NoPod},
         Map(t, n, open)
  PROVE  podMap' \in [Sessions -> [Names -> Open \cup {NoPod}]]
<1>1. Home[t] \in Sessions
  BY PodAssumption
<1> QED
  BY <1>1 DEF TypeOK, Map

LEMMA AccountsTyped ==
  ASSUME TypeOK, NEW t \in Threads, NEW i \in Nat, Load(t, i) \/ Unload(t, i)
  PROVE  accounts' \in [Sessions -> SUBSET Nat]
<1>1. Home[t] \in Sessions
  BY PodAssumption
<1> QED
  BY <1>1 DEF TypeOK, Load, Unload

LEMMA OwnPodTyped ==
  ASSUME NEW item \in Item, NEW b \in BOOLEAN
  PROVE  OwnPod(item, b) \in Open /\ SharedPod \in Open
BY DEF OwnPod, SharedPod, Open

LEMMA OpenedTyped ==
  ASSUME TypeOK, NEW t \in Threads, NEW n \in Names,
         Opened(t, n) \notin {NoPod, SharedPod}
  PROVE  /\ Opened(t, n).item \in Item
         /\ Opened(t, n).rooted \in BOOLEAN
<1>1. Opened(t, n) \in Open
  BY PodAssumption DEF TypeOK, Opened
<1>2. Opened(t, n) \in [shared: {FALSE}, item: Item, rooted: BOOLEAN]
  BY <1>1 DEF Open, SharedPod
<1> QED
  BY <1>2

\* Every variable of the pods' bookkeeping keeps its type.
THEOREM PodTyped == Spec => []TypeOK
<1>1. Init => TypeOK
  <2> SUFFICES ASSUME Init PROVE TypeOK
    OBVIOUS
  <2>1. list \in Lists
    BY EmptySeq DEF Init, Lists, loadUserPods
  <2> QED
    BY <2>1, PodAssumption DEF Init, TypeOK, Requests
<1>2. TypeOK /\ [Next]_vars => TypeOK'
  <2> SUFFICES ASSUME TypeOK, [Next]_vars PROVE TypeOK'
    OBVIOUS
  <2> USE ListTyped, RequestFields
  <2>1. ASSUME NEW t \in Threads, NEW n \in Names, NEW i \in Indices, CreatePod(t, n, i)
        PROVE  TypeOK'
    <3> DEFINE item == [name |-> n, index |-> i, pass |-> made + 1]
               r == [pc |-> "storeNew", item |-> item, list |-> WithPod(list, item)]
    <3>1. made' \in 0..MaxPods /\ made + 1 \in Passwords
      BY <2>1, PodAssumption DEF CreatePod, TypeOK, Passwords
    <3>2. item \in Item
      BY <3>1 DEF Item
    <3>3. WithPod(list, item) \in Lists
      BY <3>2, WithPodLemma
    <3>4. r \in Requests
      BY <3>2, <3>3 DEF Requests
    <3>5. thread' \in [Threads -> Requests]
      BY <2>1, <3>4, GotoTyped DEF CreatePod
    <3>6. accounts' \in [Sessions -> SUBSET Nat]
      BY <2>1, AccountsTyped, PodAssumption DEF CreatePod, Indices
    <3> QED
      BY <2>1, <3>1, <3>5, <3>6 DEF CreatePod, TypeOK
  <2>2. ASSUME NEW t \in Threads, StoreNew(t) PROVE TypeOK'
    <3> DEFINE item == thread[t].item
    <3>1. item \in Item /\ thread[t].list \in Lists
      BY <2>2 DEF StoreNew
    <3>2. [pc |-> "makeRoot", item |-> item] \in Requests /\ Idle \in Requests
      BY <3>1 DEF Requests
    <3>3. thread' \in [Threads -> Requests]
      BY <2>2, <3>2, GotoTyped DEF StoreNew
    <3>4. item.name \in Names
      BY <3>1 DEF Item
    <3>5. podMap' \in [Sessions -> [Names -> Open \cup {NoPod}]]
      BY <2>2, <3>1, <3>4, MapTyped, OwnPodTyped DEF StoreNew, TypeOK
    <3> QED
      BY <2>2, <3>1, <3>3, <3>5 DEF StoreNew, TypeOK
  <2>3. ASSUME NEW t \in Threads, MakeRoot(t) PROVE TypeOK'
    <3> DEFINE item == thread[t].item
    <3>1. item \in Item /\ item.name \in Names /\ item.index \in Indices /\ item.pass \in Passwords
      BY <2>3 DEF MakeRoot, Item
    <3>2. thread' \in [Threads -> Requests]
      BY <2>3, GotoTyped DEF MakeRoot, Requests
    <3>3. podMap' \in [Sessions -> [Names -> Open \cup {NoPod}]]
      BY <2>3, <3>1, MapTyped, OwnPodTyped DEF MakeRoot, TypeOK
    <3>4. root' \in [Indices -> Passwords \cup {Absent, Deleted}]
      BY <2>3, <3>1 DEF MakeRoot, TypeOK
    <3> QED
      BY <2>3, <3>2, <3>3, <3>4 DEF MakeRoot, TypeOK
  <2>4. ASSUME NEW t \in Threads, NEW k \in Positions(list), OpenPod(t, k) PROVE TypeOK'
    <3> DEFINE item == list.pods[k]
    <3>1. item \in Item /\ item.index \in Nat
      BY PodAssumption DEF Item, Indices
    <3>2. [pc |-> "openRoot", item |-> item] \in Requests
      BY <3>1 DEF Requests
    <3>3. thread' \in [Threads -> Requests]
      BY <2>4, <3>2, GotoTyped DEF OpenPod
    <3>4. accounts' \in [Sessions -> SUBSET Nat]
      BY <2>4, <3>1, AccountsTyped DEF OpenPod
    <3> QED
      BY <2>4, <3>3, <3>4 DEF OpenPod, TypeOK
  <2>5. ASSUME NEW t \in Threads, OpenRoot(t) PROVE TypeOK'
    <3> DEFINE item == thread[t].item
    <3>1. item \in Item /\ item.name \in Names
      BY <2>5 DEF OpenRoot, Item
    <3>2. thread' \in [Threads -> Requests]
      BY <2>5, GotoTyped DEF OpenRoot, Requests
    <3>3. (root[item.index] = item.pass) \in BOOLEAN
      OBVIOUS
    <3>4. OwnPod(item, root[item.index] = item.pass) \in Open
      BY <3>1, <3>3, OwnPodTyped
    <3>5. podMap' \in [Sessions -> [Names -> Open \cup {NoPod}]]
      BY <2>5, <3>1, <3>4, MapTyped DEF OpenRoot, TypeOK
    <3> QED
      BY <2>5, <3>2, <3>5 DEF OpenRoot, TypeOK
  <2>6. ASSUME NEW t \in Threads, NEW n \in Names, OpenSharedPod(t, n) PROVE TypeOK'
    <3>1. SharedPod \in Open
      BY DEF SharedPod, Open
    <3>2. podMap' \in [Sessions -> [Names -> Open \cup {NoPod}]]
      BY <2>6, <3>1, MapTyped DEF OpenSharedPod
    <3> QED
      BY <2>6, <3>2 DEF OpenSharedPod, TypeOK
  <2>7. ASSUME NEW t \in Threads, NEW n \in Names, ClosePod(t, n) PROVE TypeOK'
    <3>1. podMap' \in [Sessions -> [Names -> Open \cup {NoPod}]]
      BY <2>7, MapTyped DEF ClosePod
    <3>2. accounts' \in [Sessions -> SUBSET Nat]
      BY <2>7, PodAssumption DEF ClosePod, TypeOK
    <3> QED
      BY <2>7, <3>1, <3>2 DEF ClosePod, TypeOK
  <2>8. ASSUME NEW t \in Threads, NEW n \in Names, ReceivePod(t, n) PROVE TypeOK'
    <3>1. [list EXCEPT !.shared = @ \cup {n}] \in Lists
      BY SharedLemma
    <3>2. [pc |-> "storeShared", name |-> n,
           list |-> [list EXCEPT !.shared = @ \cup {n}]] \in Requests
      BY <3>1 DEF Requests
    <3>3. thread' \in [Threads -> Requests]
      BY <2>8, <3>2, GotoTyped DEF ReceivePod
    <3> QED
      BY <2>8, <3>3 DEF ReceivePod, TypeOK
  <2>9. ASSUME NEW t \in Threads, StoreShared(t) PROVE TypeOK'
    <3>1. thread[t].name \in Names /\ thread[t].list \in Lists
      BY <2>9 DEF StoreShared
    <3>2. SharedPod \in Open
      BY DEF SharedPod, Open
    <3>3. podMap' \in [Sessions -> [Names -> Open \cup {NoPod}]]
      BY <2>9, <3>1, <3>2, MapTyped DEF StoreShared
    <3>4. thread' \in [Threads -> Requests]
      BY <2>9, GotoTyped DEF StoreShared, Requests
    <3> QED
      BY <2>9, <3>1, <3>3, <3>4 DEF StoreShared, TypeOK
  <2>10. ASSUME NEW t \in Threads, NEW n \in Names, DeleteSharedPod(t, n) PROVE TypeOK'
    <3>1. [list EXCEPT !.shared = @ \ {n}] \in Lists
      BY SharedLemma
    <3>2. [pc |-> "storeLess", removed |-> {},
           list |-> [list EXCEPT !.shared = @ \ {n}]] \in Requests
      BY <3>1 DEF Requests
    <3>3. thread' \in [Threads -> Requests]
      BY <2>10, <3>2, GotoTyped DEF DeleteSharedPod
    <3>4. podMap' \in [Sessions -> [Names -> Open \cup {NoPod}]]
      BY <2>10, MapTyped DEF DeleteSharedPod
    <3> QED
      BY <2>10, <3>3, <3>4 DEF DeleteSharedPod, TypeOK
  <2>11. ASSUME NEW t \in Threads, NEW n \in Names, DeletePod(t, n) PROVE TypeOK'
    <3> DEFINE open == Opened(t, n)
    <3>1. open.item \in Item /\ open.item.index \in Indices
      BY <2>11, OpenedTyped DEF DeletePod, Item
    <3>2. [pc |-> "deleteOwn", name |-> n] \in Requests
      BY DEF Requests
    <3>3. thread' \in [Threads -> Requests]
      BY <2>11, <3>2, GotoTyped DEF DeletePod
    <3>4. podMap' \in [Sessions -> [Names -> Open \cup {NoPod}]]
      BY <2>11, <3>1, MapTyped, OwnPodTyped DEF DeletePod
    <3>5. root' \in [Indices -> Passwords \cup {Absent, Deleted}]
      BY <2>11, <3>1 DEF DeletePod, TypeOK
    <3> QED
      BY <2>11, <3>3, <3>4, <3>5 DEF DeletePod, TypeOK
  <2>12. ASSUME NEW t \in Threads, NEW k \in Positions(list), DeleteOwnPod(t, k)
         PROVE  TypeOK'
    <3> DEFINE item == list.pods[k]
    <3>1. item \in Item /\ item.name \in Names
      BY DEF Item
    <3>2. WithoutPosition(list, k) \in Lists /\ k \in 1..Len(list.pods) /\ Len(list.pods) \in Nat
      BY WithoutPositionLemma
    <3>3. [pc |-> "storeLess", removed |-> {item},
           list |-> WithoutPosition(list, k)] \in Requests
      BY <3>1, <3>2 DEF Requests
    <3>4. thread' \in [Threads -> Requests]
      BY <2>12, <3>3, GotoTyped DEF DeleteOwnPod
    <3>5. podMap' \in [Sessions -> [Names -> Open \cup {NoPod}]]
      BY <2>12, <3>1, MapTyped DEF DeleteOwnPod
    <3>6. accounts' \in [Sessions -> SUBSET Nat]
      BY <2>12, <3>2, AccountsTyped DEF DeleteOwnPod
    <3> QED
      BY <2>12, <3>4, <3>5, <3>6 DEF DeleteOwnPod, TypeOK
  <2>13. ASSUME NEW t \in Threads, DeleteFails(t) PROVE TypeOK'
    <3>1. thread' \in [Threads -> Requests]
      BY <2>13, GotoTyped DEF DeleteFails, Requests
    <3>2. CASE \/ thread[t].name \notin OwnNames(list)
               \/ Opened(t, thread[t].name) # NoPod
      BY <2>13, <3>1, <3>2 DEF DeleteFails, TypeOK
    <3>3. ASSUME NEW k \in Positions(list), list.pods[k].name = thread[t].name,
                 Map(t, thread[t].name, OwnPod(list.pods[k], FALSE)),
                 Load(t, list.pods[k].index)
          PROVE  TypeOK'
      <4>1. list.pods[k] \in Item /\ list.pods[k].index \in Nat
        BY PodAssumption DEF Item, Indices
      <4>2. podMap' \in [Sessions -> [Names -> Open \cup {NoPod}]]
        BY <2>13, <3>3, <4>1, MapTyped, OwnPodTyped DEF DeleteFails
      <4>3. accounts' \in [Sessions -> SUBSET Nat]
        BY <3>3, <4>1, AccountsTyped
      <4> QED
        BY <2>13, <3>1, <4>2, <4>3 DEF DeleteFails, TypeOK
    <3> QED
      BY <2>13, <3>2, <3>3 DEF DeleteFails
  <2>14. ASSUME NEW t \in Threads, StoreLess(t) PROVE TypeOK'
    <3>1. thread' \in [Threads -> Requests]
      BY <2>14, GotoTyped DEF StoreLess, Requests
    <3> QED
      BY <2>14, <3>1 DEF StoreLess, TypeOK
  <2>15. ASSUME NEW s \in Sessions, Crash(s) PROVE TypeOK'
    <3>1. thread' \in [Threads -> Requests]
      BY <2>15 DEF Crash, TypeOK, Requests
    <3> QED
      BY <2>15, <3>1 DEF Crash, TypeOK
  <2>16. ASSUME NEW t \in Threads, PodListFallsBack(t) PROVE TypeOK'
    <3>1. loadUserPods \in Lists
      BY EmptySeq DEF loadUserPods, Lists
    <3> QED
      BY <2>16, <3>1 DEF PodListFallsBack, TypeOK
  <2>17. CASE UNCHANGED vars
    BY <2>17 DEF vars, TypeOK
  <2> QED
    BY <2>1, <2>2, <2>3, <2>4, <2>5, <2>6, <2>7, <2>8, <2>9, <2>10, <2>11, <2>12,
       <2>13, <2>14, <2>15, <2>16, <2>17 DEF Next, Step
<1> QED
  BY <1>1, <1>2, PTL DEF Spec

-----------------------------------------------------------------------------
(* Every list a thread is about to store is well formed: it is a change of  *)
(* a list that once was the stored one.                                     *)

Storing == {"storeNew", "storeShared", "storeLess"}

CopiesWellFormed ==
    \A t \in Threads : thread[t].pc \in Storing => WellFormed(thread[t].list)

LEMMA WithPodWellFormed ==
  ASSUME NEW l \in Lists, WellFormed(l), NEW item \in Item,
         ~IsPodPresent(l, item.name), item.index \notin UsedIndices(l)
  PROVE  WellFormed(WithPod(l, item))
<1> DEFINE m == WithPod(l, item)
           n == Len(l.pods)
<1>1. /\ Positions(l) = 1..n /\ n \in Nat /\ Positions(m) = 1..(n + 1)
      /\ \A k \in 1..n : m.pods[k] = l.pods[k]
      /\ m.pods[n + 1] = item /\ m.shared = l.shared
  BY WithPodLemma
<1> HIDE DEF m, n
<1>2. \A k \in 1..n : l.pods[k].name # item.name /\ l.pods[k].index # item.index
  BY <1>1 DEF IsPodPresent, OwnNames, UsedIndices
<1>3. ASSUME NEW j \in 1..(n + 1), NEW k \in 1..(n + 1), j # k
      PROVE  m.pods[j].name # m.pods[k].name /\ m.pods[j].index # m.pods[k].index
  <2>1. CASE j \in 1..n /\ k \in 1..n
    BY <1>1, <1>3, <2>1 DEF WellFormed
  <2>2. CASE j = n + 1
    <3>1. k \in 1..n
      BY <1>1, <1>3, <2>2
    <3> QED
      BY <1>1, <1>2, <2>2, <3>1
  <2>3. CASE k = n + 1
    <3>1. j \in 1..n
      BY <1>1, <1>3, <2>3
    <3> QED
      BY <1>1, <1>2, <2>3, <3>1
  <2> QED
    BY <1>1, <2>1, <2>2, <2>3
<1>4. OwnNames(m) \cap m.shared = {}
  <2>1. SUFFICES ASSUME NEW k \in 1..(n + 1) PROVE m.pods[k].name \notin l.shared
    BY <1>1 DEF OwnNames
  <2>2. CASE k \in 1..n
    BY <1>1, <2>2 DEF WellFormed, OwnNames
  <2>3. CASE k = n + 1
    BY <1>1, <2>3 DEF IsPodPresent
  <2> QED
    BY <1>1, <2>2, <2>3
<1>5. WellFormed(m)
  BY <1>1, <1>3, <1>4 DEF WellFormed
<1> QED
  BY <1>5 DEF m

LEMMA WithoutPositionWellFormed ==
  ASSUME NEW l \in Lists, WellFormed(l), NEW k \in Positions(l)
  PROVE  WellFormed(WithoutPosition(l, k))
<1> DEFINE m == WithoutPosition(l, k)
           n == Len(l.pods)
           from(j) == IF j < k THEN j ELSE j + 1
<1>1. /\ Positions(l) = 1..n /\ n \in Nat /\ Positions(m) = 1..(n - 1)
      /\ \A j \in 1..(n - 1) : m.pods[j] = IF j < k THEN l.pods[j] ELSE l.pods[j + 1]
      /\ m.shared = l.shared
  BY WithoutPositionLemma
<1> HIDE DEF m, n
<1>2. \A j \in 1..(n - 1) : from(j) \in 1..n /\ m.pods[j] = l.pods[from(j)]
  BY <1>1
<1>3. \A i, j \in 1..(n - 1) : i # j => from(i) # from(j)
  BY <1>1
<1> HIDE DEF from
<1>4. ASSUME NEW i \in 1..(n - 1), NEW j \in 1..(n - 1), i # j
      PROVE  m.pods[i].name # m.pods[j].name /\ m.pods[i].index # m.pods[j].index
  <2>1. from(i) \in Positions(l) /\ from(j) \in Positions(l) /\ from(i) # from(j)
    BY <1>1, <1>2, <1>3, <1>4
  <2>2. /\ l.pods[from(i)].name # l.pods[from(j)].name
        /\ l.pods[from(i)].index # l.pods[from(j)].index
    BY <2>1 DEF WellFormed
  <2> QED
    BY <1>2, <2>2
<1>5. OwnNames(m) \subseteq OwnNames(l)
  BY <1>1, <1>2 DEF OwnNames
<1>6. WellFormed(m)
  BY <1>1, <1>4, <1>5 DEF WellFormed
<1> QED
  BY <1>6 DEF m

\* No thread of any session stores a list with two pods of one name or index.
THEOREM ListsStayWellFormed == Spec => []ListWellFormed
<1>1. Init => ListWellFormed /\ CopiesWellFormed
  <2> SUFFICES ASSUME Init PROVE ListWellFormed /\ CopiesWellFormed
    OBVIOUS
  <2>1. Positions(list) = {} /\ list.shared = {}
    BY DEF Init, Positions, loadUserPods
  <2>2. \A t \in Threads : thread[t].pc = "idle"
    BY DEF Init, Idle
  <2> QED
    BY <2>1, <2>2 DEF ListWellFormed, WellFormed, OwnNames, CopiesWellFormed, Storing
<1>2. TypeOK /\ ListWellFormed /\ CopiesWellFormed /\ [Next]_vars
        => ListWellFormed' /\ CopiesWellFormed'
  <2> SUFFICES ASSUME TypeOK, ListWellFormed, CopiesWellFormed, [Next]_vars
               PROVE  ListWellFormed' /\ CopiesWellFormed'
    OBVIOUS
  <2> USE ListTyped
  \* A step that keeps the list, and leaves its thread with a well formed copy.
  <2>1. ASSUME NEW t \in Threads, NEW r, Goto(t, r), UNCHANGED list,
               r.pc \in Storing => WellFormed(r.list)
        PROVE  ListWellFormed' /\ CopiesWellFormed'
    <3>1. \A u \in Threads : thread'[u] = IF u = t THEN r ELSE thread[u]
      BY <2>1 DEF Goto, TypeOK
    <3>2. CopiesWellFormed'
      BY <2>1, <3>1 DEF CopiesWellFormed
    <3> QED
      BY <2>1, <3>2 DEF ListWellFormed
  \* A step that stores a thread's copy.
  <2>2. ASSUME NEW t \in Threads, NEW r, Goto(t, r), thread[t].pc \in Storing,
               list' = thread[t].list, r.pc \notin Storing
        PROVE  ListWellFormed' /\ CopiesWellFormed'
    <3>1. \A u \in Threads : thread'[u] = IF u = t THEN r ELSE thread[u]
      BY <2>2 DEF Goto, TypeOK
    <3>2. WellFormed(thread[t].list)
      BY <2>2 DEF CopiesWellFormed
    <3> QED
      BY <2>2, <3>1, <3>2 DEF CopiesWellFormed, ListWellFormed
  <2>3. ASSUME UNCHANGED list,
               \A u \in Threads : thread'[u] = thread[u] \/ thread'[u] = Idle
        PROVE  ListWellFormed' /\ CopiesWellFormed'
    BY <2>3 DEF CopiesWellFormed, ListWellFormed, Idle, Storing
  <2>4. ASSUME NEW t \in Threads, NEW n \in Names, NEW i \in Indices, CreatePod(t, n, i)
        PROVE  ListWellFormed' /\ CopiesWellFormed'
    <3> DEFINE item == [name |-> n, index |-> i, pass |-> made + 1]
    <3>1. item \in Item
      BY <2>4, PodAssumption DEF CreatePod, TypeOK, Item, Passwords
    <3>2. WellFormed(WithPod(list, item))
      BY <2>4, <3>1, WithPodWellFormed DEF CreatePod, getFreeId, ListWellFormed
    <3> QED
      BY <2>1, <2>4, <3>2 DEF CreatePod
  <2>5. ASSUME NEW t \in Threads, StoreNew(t) PROVE ListWellFormed' /\ CopiesWellFormed'
    <3>1. CASE thread[t].item.index \in accounts[Home[t]]
      BY <2>2, <2>5, <3>1 DEF StoreNew, Storing
    <3>2. CASE thread[t].item.index \notin accounts[Home[t]]
      BY <2>2, <2>5, <3>2 DEF StoreNew, Storing, Idle
    <3> QED
      BY <3>1, <3>2
  <2>6. ASSUME NEW t \in Threads, MakeRoot(t) \/ OpenRoot(t) \/ DeleteFails(t)
        PROVE  ListWellFormed' /\ CopiesWellFormed'
    BY <2>1, <2>6 DEF MakeRoot, OpenRoot, DeleteFails, Idle, Storing
  <2>7. ASSUME NEW t \in Threads, StoreShared(t) \/ StoreLess(t)
        PROVE  ListWellFormed' /\ CopiesWellFormed'
    BY <2>2, <2>7 DEF StoreShared, StoreLess, Idle, Storing
  <2>8. ASSUME NEW t \in Threads, NEW k \in Positions(list), OpenPod(t, k)
        PROVE  ListWellFormed' /\ CopiesWellFormed'
    BY <2>1, <2>8 DEF OpenPod, Storing
  <2>9. ASSUME NEW t \in Threads, NEW k \in Positions(list), DeleteOwnPod(t, k)
        PROVE  ListWellFormed' /\ CopiesWellFormed'
    <3>1. WellFormed(WithoutPosition(list, k))
      BY WithoutPositionWellFormed DEF ListWellFormed
    <3> QED
      BY <2>1, <2>9, <3>1 DEF DeleteOwnPod
  <2>10. ASSUME NEW t \in Threads, NEW n \in Names, OpenSharedPod(t, n) \/ ClosePod(t, n)
         PROVE  ListWellFormed' /\ CopiesWellFormed'
    BY <2>3, <2>10 DEF OpenSharedPod, ClosePod
  <2>11. ASSUME NEW t \in Threads, NEW n \in Names, ReceivePod(t, n)
         PROVE  ListWellFormed' /\ CopiesWellFormed'
    <3> DEFINE m == [list EXCEPT !.shared = @ \cup {n}]
    <3>1. m.pods = list.pods /\ m.shared = list.shared \cup {n} /\ Positions(m) = Positions(list)
      BY SharedLemma
    <3>2. n \notin OwnNames(list)
      BY <2>11 DEF ReceivePod, IsPodPresent
    <3>3. WellFormed(m)
      BY <3>1, <3>2 DEF WellFormed, ListWellFormed, OwnNames
    <3> QED
      BY <2>1, <2>11, <3>3 DEF ReceivePod
  <2>12. ASSUME NEW t \in Threads, NEW n \in Names, DeleteSharedPod(t, n)
         PROVE  ListWellFormed' /\ CopiesWellFormed'
    <3> DEFINE m == [list EXCEPT !.shared = @ \ {n}]
    <3>1. m.pods = list.pods /\ m.shared = list.shared \ {n} /\ Positions(m) = Positions(list)
      BY SharedLemma
    <3>2. WellFormed(m)
      BY <3>1 DEF WellFormed, ListWellFormed, OwnNames
    <3> QED
      BY <2>1, <2>12, <3>2 DEF DeleteSharedPod
  <2>13. ASSUME NEW t \in Threads, NEW n \in Names, DeletePod(t, n)
         PROVE  ListWellFormed' /\ CopiesWellFormed'
    BY <2>1, <2>13 DEF DeletePod, Storing
  <2>14. ASSUME NEW s \in Sessions, Crash(s) PROVE ListWellFormed' /\ CopiesWellFormed'
    BY <2>3, <2>14 DEF Crash
  <2>15. ASSUME NEW t \in Threads, PodListFallsBack(t)
         PROVE  ListWellFormed' /\ CopiesWellFormed'
    <3>1. WellFormed(loadUserPods)
      BY DEF loadUserPods, WellFormed, Positions, OwnNames
    <3> QED
      BY <2>15, <3>1 DEF PodListFallsBack, ListWellFormed, CopiesWellFormed
  <2>16. CASE UNCHANGED vars
    BY <2>3, <2>16 DEF vars
  <2> QED
    BY <2>4, <2>5, <2>6, <2>7, <2>8, <2>9, <2>10, <2>11, <2>12, <2>13, <2>14, <2>15,
       <2>16 DEF Next, Step
<1> QED
  BY <1>1, <1>2, PodTyped, PTL DEF Spec

-----------------------------------------------------------------------------
(* With one thread, the copy it is about to store is a change of what is    *)
(* stored now: it holds every pod but the one being deleted.                *)

Holds(l, items) == \A item \in items : \E k \in Positions(l) : l.pods[k] = item

CopiesHoldPods ==
    \A t \in Threads :
        /\ thread[t].pc = "storeNew" => Holds(thread[t].list, acked \cup {thread[t].item})
        /\ thread[t].pc = "storeShared" => Holds(thread[t].list, acked)
        /\ thread[t].pc = "storeLess" => Holds(thread[t].list, acked \ thread[t].removed)

OneThread == \A t, u \in Threads : t = u

LEMMA WithPodHolds ==
  ASSUME NEW l \in Lists, NEW item \in Item, NEW items, Holds(l, items)
  PROVE  Holds(WithPod(l, item), items \cup {item})
BY WithPodLemma DEF Holds

LEMMA WithoutPositionHolds ==
  ASSUME NEW l \in Lists, NEW k \in Positions(l), NEW items, Holds(l, items)
  PROVE  Holds(WithoutPosition(l, k), items \ {l.pods[k]})
<1> DEFINE m == WithoutPosition(l, k)
           n == Len(l.pods)
<1>1. /\ Positions(l) = 1..n /\ n \in Nat /\ Positions(m) = 1..(n - 1)
      /\ \A j \in 1..(n - 1) : m.pods[j] = IF j < k THEN l.pods[j] ELSE l.pods[j + 1]
  BY WithoutPositionLemma
<1> HIDE DEF m, n
<1>2. ASSUME NEW item \in items \ {l.pods[k]}
      PROVE  \E j \in Positions(m) : m.pods[j] = item
  <2>1. PICK i \in Positions(l) : l.pods[i] = item
    BY DEF Holds
  <2>2. i \in 1..n /\ k \in 1..n /\ i # k
    BY <1>1, <2>1
  <2>3. CASE i < k
    BY <1>1, <2>1, <2>2, <2>3
  <2>4. CASE i > k
    <3>1. i - 1 \in 1..(n - 1) /\ ~(i - 1 < k) /\ (i - 1) + 1 = i
      BY <1>1, <2>2, <2>4
    <3> QED
      BY <1>1, <2>1, <3>1
  <2> QED
    BY <1>1, <2>2, <2>3, <2>4
<1>3. Holds(m, items \ {l.pods[k]})
  BY <1>2 DEF Holds
<1> QED
  BY <1>3 DEF m

\* A session whose only thread may be interrupted anywhere, and which always
\* reads the list (PodList does not fall back), loses no created pod.
THEOREM OneThreadKeepsPods == OneThread /\ ~MayMissList => (Spec => []NoLostPods)
<1> SUFFICES ASSUME OneThread, ~MayMissList PROVE Spec => []NoLostPods
  OBVIOUS
<1>1. Init => NoLostPods /\ CopiesHoldPods
  BY DEF Init, NoLostPods, CopiesHoldPods, Idle
<1>2. TypeOK /\ NoLostPods /\ CopiesHoldPods /\ [Next]_vars => NoLostPods' /\ CopiesHoldPods'
  <2> SUFFICES ASSUME TypeOK, NoLostPods, CopiesHoldPods, [Next]_vars
               PROVE  NoLostPods' /\ CopiesHoldPods'
    OBVIOUS
  <2> USE ListTyped
  <2>1. Holds(list, acked)
    BY DEF NoLostPods, Holds
  \* A step that keeps the list and what is acknowledged.
  <2>2. ASSUME NEW t \in Threads, NEW r, Goto(t, r), UNCHANGED <<list, acked>>,
               r.pc = "storeNew" => Holds(r.list, acked \cup {r.item}),
               r.pc = "storeShared" => Holds(r.list, acked),
               r.pc = "storeLess" => Holds(r.list, acked \ r.removed)
        PROVE  NoLostPods' /\ CopiesHoldPods'
    <3>1. \A u \in Threads : thread'[u] = r
      BY <2>2 DEF Goto, TypeOK, OneThread
    <3> QED
      BY <2>2, <3>1 DEF CopiesHoldPods, NoLostPods, Holds
  \* A step that stores what holds everything acknowledged after it.
  <2>3. ASSUME NEW t \in Threads, NEW r, Goto(t, r),
               r.pc \notin {"storeNew", "storeShared", "storeLess"},
               list' = thread[t].list, Holds(thread[t].list, acked')
        PROVE  NoLostPods' /\ CopiesHoldPods'
    <3>1. \A u \in Threads : thread'[u] = r
      BY <2>3 DEF Goto, TypeOK, OneThread
    <3> QED
      BY <2>3, <3>1 DEF CopiesHoldPods, NoLostPods, Holds
  <2>4. ASSUME UNCHANGED <<list, acked>>,
               \A u \in Threads : thread'[u] = thread[u] \/ thread'[u] = Idle
        PROVE  NoLostPods' /\ CopiesHoldPods'
    BY <2>4 DEF CopiesHoldPods, NoLostPods, Holds, Idle
  <2>5. ASSUME NEW t \in Threads, NEW n \in Names, NEW i \in Indices, CreatePod(t, n, i)
        PROVE  NoLostPods' /\ CopiesHoldPods'
    <3> DEFINE item == [name |-> n, index |-> i, pass |-> made + 1]
    <3>1. item \in Item
      BY <2>5, PodAssumption DEF CreatePod, TypeOK, Item, Passwords
    <3>2. Holds(WithPod(list, item), acked \cup {item})
      BY <2>1, <3>1, WithPodHolds
    <3> QED
      BY <2>2, <2>5, <3>2 DEF CreatePod
  <2>6. ASSUME NEW t \in Threads, StoreNew(t) PROVE NoLostPods' /\ CopiesHoldPods'
    <3>1. Holds(thread[t].list, acked')
      BY <2>6 DEF StoreNew, CopiesHoldPods
    <3>2. CASE thread[t].item.index \in accounts[Home[t]]
      BY <2>3, <2>6, <3>1, <3>2 DEF StoreNew
    <3>3. CASE thread[t].item.index \notin accounts[Home[t]]
      BY <2>3, <2>6, <3>1, <3>3 DEF StoreNew, Idle
    <3> QED
      BY <3>2, <3>3
  <2>7. ASSUME NEW t \in Threads, MakeRoot(t) \/ OpenRoot(t) \/ DeleteFails(t)
        PROVE  NoLostPods' /\ CopiesHoldPods'
    BY <2>2, <2>7 DEF MakeRoot, OpenRoot, DeleteFails, Idle
  <2>8. ASSUME NEW t \in Threads, StoreShared(t) PROVE NoLostPods' /\ CopiesHoldPods'
    BY <2>3, <2>8 DEF StoreShared, Idle, CopiesHoldPods
  <2>9. ASSUME NEW t \in Threads, StoreLess(t) PROVE NoLostPods' /\ CopiesHoldPods'
    BY <2>3, <2>9 DEF StoreLess, Idle, CopiesHoldPods
  <2>10. ASSUME NEW t \in Threads, NEW k \in Positions(list), OpenPod(t, k)
         PROVE  NoLostPods' /\ CopiesHoldPods'
    BY <2>2, <2>10 DEF OpenPod
  <2>11. ASSUME NEW t \in Threads, NEW k \in Positions(list), DeleteOwnPod(t, k)
         PROVE  NoLostPods' /\ CopiesHoldPods'
    <3>1. Holds(WithoutPosition(list, k), acked \ {list.pods[k]})
      BY <2>1, WithoutPositionHolds
    <3> QED
      BY <2>2, <2>11, <3>1 DEF DeleteOwnPod
  <2>12. ASSUME NEW t \in Threads, NEW n \in Names, OpenSharedPod(t, n) \/ ClosePod(t, n)
         PROVE  NoLostPods' /\ CopiesHoldPods'
    BY <2>4, <2>12 DEF OpenSharedPod, ClosePod
  <2>13. ASSUME NEW t \in Threads, NEW n \in Names, ReceivePod(t, n)
         PROVE  NoLostPods' /\ CopiesHoldPods'
    <3>1. Holds([list EXCEPT !.shared = @ \cup {n}], acked)
      BY <2>1, SharedLemma DEF Holds
    <3> QED
      BY <2>2, <2>13, <3>1 DEF ReceivePod
  <2>14. ASSUME NEW t \in Threads, NEW n \in Names, DeleteSharedPod(t, n)
         PROVE  NoLostPods' /\ CopiesHoldPods'
    <3>1. Holds([list EXCEPT !.shared = @ \ {n}], acked \ {})
      BY <2>1, SharedLemma DEF Holds
    <3> QED
      BY <2>2, <2>14, <3>1 DEF DeleteSharedPod
  <2>15. ASSUME NEW t \in Threads, NEW n \in Names, DeletePod(t, n)
         PROVE  NoLostPods' /\ CopiesHoldPods'
    BY <2>2, <2>15 DEF DeletePod
  <2>16. ASSUME NEW s \in Sessions, Crash(s) PROVE NoLostPods' /\ CopiesHoldPods'
    BY <2>4, <2>16 DEF Crash
  <2>17. CASE UNCHANGED vars
    BY <2>4, <2>17 DEF vars
  <2>18. ASSUME NEW t \in Threads, PodListFallsBack(t) PROVE FALSE
    BY <2>18 DEF PodListFallsBack
  <2> QED
    BY <2>5, <2>6, <2>7, <2>8, <2>9, <2>10, <2>11, <2>12, <2>13, <2>14, <2>15, <2>16,
       <2>17, <2>18 DEF Next, Step
<1> QED
  BY <1>1, <1>2, PodTyped, PTL DEF Spec
-----------------------------------------------------------------------------
(* With one thread that always finds the list, what is open is listed: no   *)
(* request is about to store a list without a pod that is still open.       *)

HasPod(l, item) == \E k \in Positions(l) : l.pods[k] = item

MapFits ==
    \A s \in Sessions, n \in Names : podMap[s][n] # NoPod =>
        IF podMap[s][n] = SharedPod THEN n \in list.shared
        ELSE podMap[s][n].item.name = n /\ HasPod(list, podMap[s][n].item)

\* A session nobody works for has nothing open.
OthersClosed ==
    \A s \in Sessions, n \in Names :
        (\A t \in Threads : Home[t] # s) => podMap[s][n] = NoPod

AddsPod(t) ==
    /\ thread[t].list = WithPod(list, thread[t].item)
    /\ thread[t].item.index \notin UsedIndices(list)

AddsShared(t) == thread[t].list = [list EXCEPT !.shared = @ \cup {thread[t].name}]

DropsShared(t) ==
    /\ thread[t].removed = {}
    /\ \E n \in Names : /\ Opened(t, n) = NoPod
                        /\ thread[t].list = [list EXCEPT !.shared = @ \ {n}]

DropsPod(t) ==
    \E k \in Positions(list) :
        /\ thread[t].removed = {list.pods[k]}
        /\ Opened(t, list.pods[k].name) = NoPod
        /\ thread[t].list = WithoutPosition(list, k)

\* What a request is about to store, or to open, fits what is stored now.
RequestFits(t) ==
    /\ thread[t].pc = "storeNew" => AddsPod(t)
    /\ thread[t].pc \in {"makeRoot", "openRoot"} => HasPod(list, thread[t].item)
    /\ thread[t].pc = "storeShared" => AddsShared(t)
    /\ thread[t].pc = "storeLess" => DropsShared(t) \/ DropsPod(t)

Sequential == MapFits /\ OthersClosed /\ \A t \in Threads : RequestFits(t)

\* What is open stays listed when the list only grows.
Grows == list.shared \subseteq list'.shared /\ \A item \in Item : HasPod(list, item) => HasPod(list', item)

LEMMA UnchangedGrows == UNCHANGED list => Grows
BY DEF Grows

LEMMA MapValue ==
  ASSUME TypeOK, NEW t \in Threads, NEW n \in Names, NEW open, Map(t, n, open)
  PROVE  \A s \in Sessions, m \in Names :
            podMap'[s][m] = IF s = Home[t] /\ m = n THEN open ELSE podMap[s][m]
<1>1. Home[t] \in Sessions
  BY PodAssumption
<1> QED
  BY <1>1 DEF TypeOK, Map

LEMMA OpenItem ==
  ASSUME TypeOK, NEW s \in Sessions, NEW n \in Names, podMap[s][n] \notin {NoPod, SharedPod}
  PROVE  podMap[s][n].item \in Item
<1>1. podMap[s][n] \in [shared: {FALSE}, item: Item, rooted: BOOLEAN]
  BY DEF TypeOK, Open, SharedPod
<1> QED
  BY <1>1

LEMMA OwnPodFields ==
  ASSUME NEW item, NEW b
  PROVE  OwnPod(item, b).item = item /\ OwnPod(item, b) # SharedPod
<1>1. OwnPod(item, b).shared = FALSE /\ SharedPod.shared = TRUE
  BY DEF OwnPod, SharedPod
<1> QED
  BY <1>1 DEF OwnPod

LEMMA KeptMapFits ==
  ASSUME TypeOK, MapFits, OthersClosed, Grows, UNCHANGED podMap
  PROVE  MapFits' /\ OthersClosed'
<1>1. ASSUME NEW s \in Sessions, NEW n \in Names, podMap[s][n] # NoPod
      PROVE  IF podMap[s][n] = SharedPod THEN n \in list'.shared
             ELSE podMap[s][n].item.name = n /\ HasPod(list', podMap[s][n].item)
  BY <1>1, OpenItem DEF MapFits, Grows
<1>2. MapFits'
  BY <1>1 DEF MapFits, SharedPod
<1> QED
  BY <1>2 DEF OthersClosed

\* One entry of the map changes to nothing, or to a pod that is listed now.
LEMMA ChangedMapFits ==
  ASSUME TypeOK, MapFits, OthersClosed, Grows, NEW t \in Threads, NEW n \in Names, NEW open,
         Map(t, n, open),
         \/ open = NoPod
         \/ open = SharedPod /\ n \in list'.shared
         \/ open # SharedPod /\ open.item.name = n /\ HasPod(list', open.item)
  PROVE  MapFits' /\ OthersClosed'
<1>0. \A s \in Sessions, m \in Names :
         podMap'[s][m] = IF s = Home[t] /\ m = n THEN open ELSE podMap[s][m]
  BY MapValue
<1>1. ASSUME NEW s \in Sessions, NEW m \in Names, podMap'[s][m] # NoPod
      PROVE  IF podMap'[s][m] = SharedPod THEN m \in list'.shared
             ELSE podMap'[s][m].item.name = m /\ HasPod(list', podMap'[s][m].item)
  <2>1. CASE s = Home[t] /\ m = n
    BY <1>0, <1>1, <2>1
  <2>2. CASE ~(s = Home[t] /\ m = n)
    <3>1. podMap'[s][m] = podMap[s][m]
      BY <1>0, <2>2
    <3> QED
      BY <1>1, <3>1, OpenItem DEF MapFits, Grows
  <2> QED
    BY <2>1, <2>2
<1>2. MapFits'
  BY <1>1 DEF MapFits, SharedPod
<1>3. OthersClosed'
  BY <1>0 DEF OthersClosed
<1> QED
  BY <1>2, <1>3

LEMMA WithPodGrows ==
  ASSUME TypeOK, NEW item \in Item, list' = WithPod(list, item)
  PROVE  Grows /\ HasPod(list', item)
<1>1. list \in Lists
  BY DEF TypeOK
<1>2. /\ list'.shared = list.shared
      /\ Positions(list) = 1..Len(list.pods) /\ Len(list.pods) \in Nat
      /\ Positions(list') = 1..(Len(list.pods) + 1)
      /\ \A k \in Positions(list) : list'.pods[k] = list.pods[k]
      /\ list'.pods[Len(list.pods) + 1] = item
  BY <1>1, WithPodLemma
<1> QED
  BY <1>2 DEF Grows, HasPod

LEMMA SharedGrows ==
  ASSUME TypeOK, NEW n \in Names, list' = [list EXCEPT !.shared = @ \cup {n}]
  PROVE  Grows /\ n \in list'.shared
<1>1. list \in Lists /\ list.shared \in SUBSET Names
  BY ListTyped
<1>2. /\ list'.pods = list.pods /\ list'.shared = list.shared \cup {n}
      /\ Positions(list') = Positions(list)
  BY <1>1, SharedLemma
<1> QED
  BY <1>2 DEF Grows, HasPod

\* Only a pod that is not open leaves the list.
LEMMA DroppedMapFits ==
  ASSUME TypeOK, Sequential, OneThread, NEW t \in Threads,
         DropsShared(t) \/ DropsPod(t), list' = thread[t].list, UNCHANGED podMap
  PROVE  MapFits' /\ OthersClosed'
<1> USE ListTyped
<1>0. \A s \in Sessions, n \in Names : s # Home[t] => podMap[s][n] = NoPod
  BY DEF Sequential, OthersClosed, OneThread
<1>1. ASSUME NEW s \in Sessions, NEW n \in Names, podMap[s][n] # NoPod
      PROVE  IF podMap[s][n] = SharedPod THEN n \in list'.shared
             ELSE podMap[s][n].item.name = n /\ HasPod(list', podMap[s][n].item)
  <2>1. /\ s = Home[t]
        /\ podMap[s][n] = SharedPod => n \in list.shared
        /\ podMap[s][n] # SharedPod =>
              /\ podMap[s][n].item.name = n
              /\ \E j \in Positions(list) : list.pods[j] = podMap[s][n].item
    BY <1>0, <1>1 DEF Sequential, MapFits, HasPod
  <2>2. CASE DropsShared(t)
    <3>1. PICK m \in Names : Opened(t, m) = NoPod
                             /\ list' = [list EXCEPT !.shared = @ \ {m}]
      BY <2>2 DEF DropsShared
    <3>2. /\ list'.pods = list.pods /\ list'.shared = list.shared \ {m}
          /\ Positions(list') = Positions(list)
      BY <3>1, SharedLemma
    <3>3. n # m
      BY <1>1, <2>1, <3>1 DEF Opened
    <3> QED
      BY <2>1, <3>2, <3>3 DEF HasPod
  <2>3. CASE DropsPod(t)
    <3>1. PICK k \in Positions(list) : Opened(t, list.pods[k].name) = NoPod
                                       /\ list' = WithoutPosition(list, k)
      BY <2>3 DEF DropsPod
    <3>2. list'.shared = list.shared
      BY <3>1, WithoutPositionLemma
    <3>3. CASE podMap[s][n] = SharedPod
      BY <2>1, <3>2, <3>3
    <3>4. CASE podMap[s][n] # SharedPod
      <4>1. PICK item : item = podMap[s][n].item
        OBVIOUS
      <4>2. item.name = n /\ Holds(list, {item})
        BY <2>1, <3>4, <4>1 DEF Holds
      <4>3. item # list.pods[k]
        BY <1>1, <2>1, <3>1, <4>2 DEF Opened
      <4>4. Holds(list', {item} \ {list.pods[k]})
        BY <3>1, <4>2, WithoutPositionHolds
      <4> QED
        BY <3>4, <4>1, <4>2, <4>3, <4>4 DEF Holds, HasPod
    <3> QED
      BY <3>3, <3>4
  <2> QED
    BY <2>2, <2>3
<1>2. MapFits'
  BY <1>1 DEF MapFits, SharedPod
<1>3. OthersClosed'
  BY DEF Sequential, OthersClosed
<1> QED
  BY <1>2, <1>3

\* Every step of the one thread, and its death, keep the fit between the list, the
\* map and the request.
LEMMA SequentialAlways == OneThread /\ ~MayMissList => (Spec => []Sequential)
<1> SUFFICES ASSUME OneThread, ~MayMissList PROVE Spec => []Sequential
  OBVIOUS
<1>1. Init => Sequential
  <2> SUFFICES ASSUME Init PROVE Sequential
    OBVIOUS
  <2>1. \A t \in Threads : RequestFits(t)
    BY DEF Init, RequestFits, Idle
  <2> QED
    BY <2>1 DEF Init, Sequential, MapFits, OthersClosed
<1>2. TypeOK /\ Sequential /\ [Next]_vars => Sequential'
  <2> SUFFICES ASSUME TypeOK, Sequential, [Next]_vars PROVE Sequential'
    OBVIOUS
  <2> USE ListTyped
  <2>0. MapFits /\ OthersClosed /\ \A t \in Threads : RequestFits(t)
    BY DEF Sequential
  \* There is one request; one that has nothing left to store fits anything.
  <2>1. ASSUME NEW t \in Threads, NEW r, Goto(t, r)
        PROVE  \A u \in Threads : u = t /\ thread'[u] = r
    BY <2>1 DEF Goto, TypeOK, OneThread
  <2>2. ASSUME NEW t \in Threads, NEW r, Goto(t, r),
               r.pc \notin {"storeNew", "makeRoot", "openRoot", "storeShared", "storeLess"}
        PROVE  \A u \in Threads : RequestFits(u)'
    BY <2>1, <2>2 DEF RequestFits
  <2>3. ASSUME NEW t \in Threads, NEW n \in Names, NEW i \in Indices, CreatePod(t, n, i)
        PROVE  Sequential'
    <3> DEFINE item == [name |-> n, index |-> i, pass |-> made + 1]
               r == [pc |-> "storeNew", item |-> item, list |-> WithPod(list, item)]
    <3>1. MapFits' /\ OthersClosed'
      BY <2>0, <2>3, KeptMapFits, UnchangedGrows DEF CreatePod
    <3>2. \A u \in Threads : thread'[u] = r
      BY <2>1, <2>3 DEF CreatePod
    <3>3. i \notin UsedIndices(list) /\ UNCHANGED list
      BY <2>3 DEF CreatePod, getFreeId
    <3>4. \A u \in Threads : AddsPod(u)'
      BY <3>2, <3>3 DEF AddsPod
    <3> QED
      BY <3>1, <3>2, <3>4 DEF Sequential, RequestFits
  <2>4. ASSUME NEW t \in Threads, StoreNew(t) PROVE Sequential'
    <3> DEFINE item == thread[t].item
    <3>1. item \in Item /\ item.name \in Names
      BY <2>4, RequestFields DEF StoreNew, Item
    <3>2. list' = WithPod(list, item)
      BY <2>0, <2>4 DEF StoreNew, RequestFits, AddsPod
    <3>3. Grows /\ HasPod(list', item)
      BY <3>1, <3>2, WithPodGrows
    <3>4. CASE item.index \in accounts[Home[t]]
      <4>1. OwnPod(item, FALSE) # SharedPod /\ OwnPod(item, FALSE).item = item
        BY OwnPodFields
      <4>2. Map(t, item.name, OwnPod(item, FALSE)) /\ Goto(t, [pc |-> "makeRoot", item |-> item])
        BY <2>4, <3>4 DEF StoreNew
      <4> DEFINE open == OwnPod(item, FALSE)
      <4> HIDE DEF open
      <4>3. MapFits' /\ OthersClosed'
        <5>1. Map(t, item.name, open) /\ open # SharedPod /\ open.item.name = item.name
              /\ HasPod(list', open.item)
          BY <3>3, <4>1, <4>2 DEF open
        <5> QED
          BY <2>0, <3>1, <3>3, <5>1, ChangedMapFits
      <4>4. \A u \in Threads : thread'[u] = [pc |-> "makeRoot", item |-> item]
        BY <2>1, <4>2
      <4> QED
        BY <3>3, <4>3, <4>4 DEF Sequential, RequestFits
    <3>5. CASE item.index \notin accounts[Home[t]]
      BY <2>0, <2>2, <2>4, <3>3, <3>5, KeptMapFits DEF StoreNew, Sequential, Idle
    <3> QED
      BY <3>4, <3>5
  <2>5. ASSUME NEW t \in Threads, MakeRoot(t) PROVE Sequential'
    <3> DEFINE item == thread[t].item
    <3>1. item \in Item /\ item.name \in Names /\ HasPod(list, item)
      BY <2>0, <2>5, RequestFields DEF MakeRoot, RequestFits, Item
    <3>2. OwnPod(item, TRUE) # SharedPod /\ OwnPod(item, TRUE).item = item
      BY OwnPodFields
    <3>3. MapFits' /\ OthersClosed'
      <4>1. CASE UNCHANGED podMap
        BY <2>0, <2>5, <4>1, KeptMapFits, UnchangedGrows DEF MakeRoot
      <4>2. CASE Map(t, item.name, OwnPod(item, TRUE))
        <5> DEFINE open == OwnPod(item, TRUE)
        <5>1. Map(t, item.name, open) /\ open # SharedPod /\ open.item.name = item.name
              /\ HasPod(list', open.item) /\ Grows
          BY <2>5, <3>1, <3>2, <4>2, UnchangedGrows DEF MakeRoot
        <5> HIDE DEF open
        <5> QED
          BY <2>0, <3>1, <5>1, ChangedMapFits
      <4> QED
        BY <2>5, <4>1, <4>2 DEF MakeRoot
    <3> QED
      BY <2>2, <2>5, <3>3 DEF MakeRoot, Sequential, Idle
  <2>6. ASSUME NEW t \in Threads, NEW k \in Positions(list), OpenPod(t, k) PROVE Sequential'
    <3> DEFINE item == list.pods[k]
    <3>1. MapFits' /\ OthersClosed'
      BY <2>0, <2>6, KeptMapFits, UnchangedGrows DEF OpenPod
    <3>2. \A u \in Threads : thread'[u] = [pc |-> "openRoot", item |-> item]
      BY <2>1, <2>6 DEF OpenPod
    <3>3. HasPod(list', item)
      BY <2>6 DEF OpenPod, HasPod
    <3> QED
      BY <3>1, <3>2, <3>3 DEF Sequential, RequestFits
  <2>7. ASSUME NEW t \in Threads, OpenRoot(t) PROVE Sequential'
    <3> DEFINE item == thread[t].item
               open == OwnPod(item, root[item.index] = item.pass)
    <3>1. item \in Item /\ item.name \in Names /\ HasPod(list, item)
      BY <2>0, <2>7, RequestFields DEF OpenRoot, RequestFits, Item
    <3>2. open # SharedPod /\ open.item = item
      BY OwnPodFields
    <3>3. Grows /\ HasPod(list', item)
      BY <2>7, <3>1, UnchangedGrows DEF OpenRoot
    <3>4. MapFits' /\ OthersClosed'
      <4>1. CASE UNCHANGED podMap
        BY <2>0, <3>3, <4>1, KeptMapFits
      <4>2. CASE Map(t, item.name, open)
        <5> HIDE DEF open
        <5> QED
          BY <2>0, <3>1, <3>2, <3>3, <4>2, ChangedMapFits
      <4> QED
        BY <2>7, <4>1, <4>2 DEF OpenRoot
    <3> QED
      BY <2>2, <2>7, <3>4 DEF OpenRoot, Sequential, Idle
  <2>8. ASSUME NEW t \in Threads, NEW n \in Names, OpenSharedPod(t, n) PROVE Sequential'
    <3>1. Grows /\ n \in list'.shared /\ Map(t, n, SharedPod)
      BY <2>8, UnchangedGrows DEF OpenSharedPod
    <3>2. MapFits' /\ OthersClosed'
      BY <2>0, <3>1, ChangedMapFits
    <3>3. \A u \in Threads : RequestFits(u)'
      BY <2>1, <2>8 DEF OpenSharedPod, RequestFits, Idle, OneThread
    <3> QED
      BY <3>2, <3>3 DEF Sequential
  <2>9. ASSUME NEW t \in Threads, NEW n \in Names, ClosePod(t, n) PROVE Sequential'
    <3>1. Grows /\ Map(t, n, NoPod)
      BY <2>9, UnchangedGrows DEF ClosePod
    <3>2. MapFits' /\ OthersClosed'
      BY <2>0, <3>1, ChangedMapFits
    <3>3. \A u \in Threads : RequestFits(u)'
      BY <2>1, <2>9 DEF ClosePod, RequestFits, Idle, OneThread
    <3> QED
      BY <3>2, <3>3 DEF Sequential
  <2>10. ASSUME NEW t \in Threads, NEW n \in Names, ReceivePod(t, n) PROVE Sequential'
    <3>1. MapFits' /\ OthersClosed'
      BY <2>0, <2>10, KeptMapFits, UnchangedGrows DEF ReceivePod
    <3> DEFINE longer == [list EXCEPT !.shared = @ \cup {n}]
    <3>2. \A u \in Threads : thread'[u] = [pc |-> "storeShared", name |-> n, list |-> longer]
      BY <2>1, <2>10 DEF ReceivePod
    <3>3. longer = [list' EXCEPT !.shared = @ \cup {n}]
      BY <2>10 DEF ReceivePod
    <3> HIDE DEF longer
    <3>4. \A u \in Threads : thread'[u].list = longer /\ thread'[u].name = n
      BY <3>2
    <3>5. \A u \in Threads : AddsShared(u)'
      BY <3>3, <3>4 DEF AddsShared
    <3> QED
      BY <3>1, <3>2, <3>5 DEF Sequential, RequestFits
  <2>11. ASSUME NEW t \in Threads, StoreShared(t) PROVE Sequential'
    <3> DEFINE n == thread[t].name
    <3>1. n \in Names /\ list' = [list EXCEPT !.shared = @ \cup {n}]
      BY <2>0, <2>11, RequestFields DEF StoreShared, RequestFits, AddsShared
    <3>2. Grows /\ n \in list'.shared
      BY <3>1, SharedGrows
    <3>3. MapFits' /\ OthersClosed'
      BY <2>0, <2>11, <3>1, <3>2, ChangedMapFits DEF StoreShared
    <3> QED
      BY <2>2, <2>11, <3>3 DEF StoreShared, Sequential, Idle
  <2>12. ASSUME NEW t \in Threads, NEW n \in Names, DeleteSharedPod(t, n) PROVE Sequential'
    <3>1. Grows /\ Map(t, n, NoPod)
      BY <2>12, UnchangedGrows DEF DeleteSharedPod
    <3>2. MapFits' /\ OthersClosed'
      BY <2>0, <3>1, ChangedMapFits
    <3> DEFINE shorter == [list EXCEPT !.shared = @ \ {n}]
               r == [pc |-> "storeLess", removed |-> {}, list |-> shorter]
    <3>3. \A u \in Threads : u = t /\ thread'[u] = r
      BY <2>1, <2>12 DEF DeleteSharedPod
    <3>4. podMap'[Home[t]][n] = NoPod
      BY <3>1, MapValue, PodAssumption
    <3>5. shorter = [list' EXCEPT !.shared = @ \ {n}]
      BY <2>12 DEF DeleteSharedPod
    <3> HIDE DEF shorter
    <3>6. \A u \in Threads : thread'[u].list = shorter /\ thread'[u].removed = {}
      BY <3>3
    <3>7. \A u \in Threads : DropsShared(u)'
      BY <3>3, <3>4, <3>5, <3>6 DEF DropsShared, Opened
    <3> QED
      BY <3>2, <3>3, <3>7 DEF Sequential, RequestFits
  <2>13. ASSUME NEW t \in Threads, NEW n \in Names, DeletePod(t, n) PROVE Sequential'
    <3> DEFINE item == Opened(t, n).item
               open == OwnPod(item, FALSE)
    <3>1. item.name = n /\ HasPod(list, item)
      BY <2>0, <2>13, PodAssumption DEF DeletePod, MapFits, Opened
    <3>2. open # SharedPod /\ open.item = item
      BY OwnPodFields
    <3>3. Grows /\ HasPod(list', item) /\ Map(t, n, open)
      BY <2>13, <3>1, UnchangedGrows DEF DeletePod
    <3> HIDE DEF open
    <3>4. MapFits' /\ OthersClosed'
      BY <2>0, <3>1, <3>2, <3>3, ChangedMapFits
    <3> QED
      BY <2>2, <2>13, <3>4 DEF DeletePod, Sequential
  <2>14. ASSUME NEW t \in Threads, NEW k \in Positions(list), DeleteOwnPod(t, k)
         PROVE  Sequential'
    <3> DEFINE item == list.pods[k]
               r == [pc |-> "storeLess", removed |-> {item}, list |-> WithoutPosition(list, k)]
    <3>1. item.name \in Names
      BY DEF Item
    <3>2. Grows /\ Map(t, item.name, NoPod) /\ Goto(t, r) /\ UNCHANGED list
      BY <2>14, UnchangedGrows DEF DeleteOwnPod
    <3>3. MapFits' /\ OthersClosed'
      BY <2>0, <3>1, <3>2, ChangedMapFits
    <3>4. \A u \in Threads : u = t /\ thread'[u] = r
      BY <2>1, <3>2
    <3>5. podMap'[Home[t]][item.name] = NoPod
      BY <3>1, <3>2, MapValue, PodAssumption
    <3>6. \A u \in Threads : DropsPod(u)'
      BY <3>2, <3>4, <3>5 DEF DropsPod, Opened
    <3> QED
      BY <3>3, <3>4, <3>6 DEF Sequential, RequestFits
  <2>15. ASSUME NEW t \in Threads, DeleteFails(t) PROVE Sequential'
    <3> DEFINE n == thread[t].name
    <3>1. n \in Names
      BY <2>15, RequestFields DEF DeleteFails
    <3>2. Grows /\ UNCHANGED list
      BY <2>15, UnchangedGrows DEF DeleteFails
    <3>3. MapFits' /\ OthersClosed'
      <4>1. CASE n \notin OwnNames(list) \/ Opened(t, n) # NoPod
        BY <2>0, <2>15, <3>2, <4>1, KeptMapFits DEF DeleteFails
      <4>2. CASE n \in OwnNames(list) /\ Opened(t, n) = NoPod
        <5>1. PICK k \in Positions(list) : list.pods[k].name = n
                                           /\ Map(t, n, OwnPod(list.pods[k], FALSE))
          BY <2>15, <4>2 DEF DeleteFails
        <5> DEFINE open == OwnPod(list.pods[k], FALSE)
        <5>2. open # SharedPod /\ open.item.name = n /\ HasPod(list', open.item)
              /\ Map(t, n, open)
          BY <3>2, <5>1, OwnPodFields DEF HasPod
        <5> HIDE DEF open
        <5> QED
          BY <2>0, <3>1, <3>2, <5>2, ChangedMapFits
      <4> QED
        BY <4>1, <4>2
    <3> QED
      BY <2>2, <2>15, <3>3 DEF DeleteFails, Sequential, Idle
  <2>16. ASSUME NEW t \in Threads, StoreLess(t) PROVE Sequential'
    <3>1. DropsShared(t) \/ DropsPod(t)
      BY <2>0, <2>16 DEF StoreLess, RequestFits
    <3>2. MapFits' /\ OthersClosed'
      BY <2>16, <3>1, DroppedMapFits DEF StoreLess
    <3> QED
      BY <2>2, <2>16, <3>2 DEF StoreLess, Sequential, Idle
  <2>17. ASSUME NEW s \in Sessions, Crash(s) PROVE Sequential'
    <3>1. UNCHANGED list
      BY <2>17 DEF Crash
    <3>2. \A q \in Sessions, n \in Names :
             podMap'[q][n] = IF q = s THEN NoPod ELSE podMap[q][n]
      BY <2>17 DEF Crash, TypeOK
    <3>3. MapFits' /\ OthersClosed'
      BY <2>0, <3>1, <3>2 DEF MapFits, OthersClosed, SharedPod
    <3>4. ASSUME NEW t \in Threads PROVE RequestFits(t)'
      <4>1. CASE Home[t] = s
        BY <2>17, <4>1 DEF Crash, RequestFits, Idle
      <4>2. CASE Home[t] # s
        <5>1. thread'[t] = thread[t] /\ \A n \in Names : podMap'[Home[t]][n] = podMap[Home[t]][n]
          BY <2>17, <3>2, <4>2, PodAssumption DEF Crash
        <5>2. \A k \in Positions(list) : list.pods[k].name \in Names
          BY DEF Item
        <5> QED
          BY <2>0, <3>1, <5>1, <5>2
             DEF RequestFits, AddsPod, AddsShared, DropsShared, DropsPod, Opened, HasPod
      <4> QED
        BY <4>1, <4>2
    <3> QED
      BY <3>3, <3>4 DEF Sequential
  <2>18. ASSUME NEW t \in Threads, PodListFallsBack(t) PROVE FALSE
    BY <2>18 DEF PodListFallsBack
  <2>19. CASE UNCHANGED vars
    BY <2>19 DEF vars, Sequential, MapFits, OthersClosed, RequestFits, AddsPod, AddsShared,
       DropsShared, DropsPod, Opened
  <2> QED
    BY <2>3, <2>4, <2>5, <2>6, <2>7, <2>8, <2>9, <2>10, <2>11, <2>12, <2>13, <2>14, <2>15,
       <2>16, <2>17, <2>18, <2>19 DEF Next, Step
<1> QED
  BY <1>1, <1>2, PodTyped, PTL DEF Spec

\* A session whose only thread may die anywhere, but always reads the list, has
\* nothing open under a name but the pod the list has there (OpenPod, DeletePod).
THEOREM OneThreadOpensListedPods ==
  OneThread /\ ~MayMissList => (Spec => []OpenPodsAreListed)
<1> SUFFICES ASSUME OneThread, ~MayMissList PROVE Spec => []OpenPodsAreListed
  OBVIOUS
<1>1. Spec => []Sequential
  BY SequentialAlways
<1>2. Sequential => OpenPodsAreListed
  BY DEF Sequential, MapFits, OpenPodsAreListed, HasPod
<1> QED
  BY <1>1, <1>2, PTL

-----------------------------------------------------------------------------
(* If the thread does not die either, a listed pod has its root directory,  *)
(* and an index no pod is listed at has none: MkRootDir finds its feed free.*)

FreeRoots ==
    \A i \in Indices :
        \/ root[i] \in {Absent, Deleted}
        \/ \E item \in Item : HasPod(list, item) /\ item.index = i

PodRoots ==
    \A item \in Item :
        HasPod(list, item) => Busy(item) \/ root[item.index] = item.pass

\* The root of a pod on its way out is deleted already.
RootFits(t) ==
    /\ thread[t].pc = "storeNew" => thread[t].item.index \in accounts[Home[t]]
    /\ thread[t].pc = "makeRoot" => root[thread[t].item.index] \in {Absent, Deleted}
    /\ thread[t].pc = "deleteOwn" =>
          \E item \in Item : /\ HasPod(list, item)
                             /\ item.name = thread[t].name
                             /\ Opened(t, thread[t].name) = OwnPod(item, FALSE)
                             /\ root[item.index] = Deleted
    /\ thread[t].pc = "storeLess" =>
          \A item \in thread[t].removed : root[item.index] = Deleted

Rooted == FreeRoots /\ PodRoots /\ \A t \in Threads : RootFits(t)

LEMMA ListedPod ==
  ASSUME TypeOK
  PROVE  /\ \A k \in Positions(list) : list.pods[k] \in Item /\ HasPod(list, list.pods[k])
         /\ \A item : HasPod(list, item) => item \in Item
BY ListTyped DEF HasPod

LEMMA ItemFields ==
  ASSUME NEW item \in Item
  PROVE  item.name \in Names /\ item.index \in Indices /\ item.pass \in Passwords
BY DEF Item

LEMMA PodIsUnique ==
  ASSUME TypeOK, ListWellFormed, NEW a, NEW b, HasPod(list, a), HasPod(list, b),
         a.name = b.name \/ a.index = b.index
  PROVE  a = b
BY ListTyped DEF ListWellFormed, WellFormed, HasPod

LEMMA WithPodHas ==
  ASSUME NEW l \in Lists, NEW item \in Item
  PROVE  \A x : HasPod(WithPod(l, item), x) <=> HasPod(l, x) \/ x = item
<1> DEFINE m == WithPod(l, item)
           n == Len(l.pods)
<1>1. /\ Positions(l) = 1..n /\ n \in Nat /\ Positions(m) = 1..(n + 1)
      /\ \A k \in 1..n : m.pods[k] = l.pods[k]
      /\ m.pods[n + 1] = item
  BY WithPodLemma
<1> HIDE DEF m, n
<1>2. \A x : HasPod(m, x) <=> HasPod(l, x) \/ x = item
  <2> SUFFICES ASSUME NEW x PROVE HasPod(m, x) <=> HasPod(l, x) \/ x = item
    OBVIOUS
  <2>1. ASSUME NEW k \in 1..(n + 1) PROVE k \in 1..n \/ k = n + 1
    BY <1>1
  <2>2. HasPod(m, x) => HasPod(l, x) \/ x = item
    BY <1>1, <2>1 DEF HasPod
  <2>3. HasPod(l, x) \/ x = item => HasPod(m, x)
    BY <1>1 DEF HasPod
  <2> QED
    BY <2>2, <2>3
<1> QED
  BY <1>2 DEF m

LEMMA WithoutPositionHas ==
  ASSUME NEW l \in Lists, WellFormed(l), NEW k \in Positions(l)
  PROVE  \A x : HasPod(WithoutPosition(l, k), x) <=> HasPod(l, x) /\ x # l.pods[k]
<1> DEFINE m == WithoutPosition(l, k)
           n == Len(l.pods)
<1>1. /\ Positions(l) = 1..n /\ n \in Nat /\ Positions(m) = 1..(n - 1)
      /\ \A j \in 1..(n - 1) : m.pods[j] = IF j < k THEN l.pods[j] ELSE l.pods[j + 1]
  BY WithoutPositionLemma
<1> HIDE DEF m, n
<1> SUFFICES ASSUME NEW x PROVE HasPod(m, x) <=> HasPod(l, x) /\ x # l.pods[k]
  BY DEF m
<1>2. ASSUME NEW j \in 1..(n - 1), m.pods[j] = x PROVE HasPod(l, x) /\ x # l.pods[k]
  <2>1. PICK i \in 1..n : i # k /\ l.pods[i] = x
    <3>1. j \in 1..n /\ j + 1 \in 1..n /\ (j < k \/ j + 1 # k)
      BY <1>1
    <3> QED
      BY <1>1, <1>2, <3>1
  <2>2. l.pods[i].name # l.pods[k].name
    BY <1>1, <2>1 DEF WellFormed
  <2> QED
    BY <1>1, <2>1, <2>2 DEF HasPod
<1>3. ASSUME HasPod(l, x), x # l.pods[k] PROVE HasPod(m, x)
  <2>1. Holds(l, {x})
    BY <1>3 DEF Holds, HasPod
  <2>2. Holds(m, {x} \ {l.pods[k]})
    BY <2>1, WithoutPositionHolds DEF m
  <2> QED
    BY <1>3, <2>2 DEF Holds, HasPod
<1> QED
  BY <1>1, <1>2, <1>3 DEF HasPod

LEMMA RootedInit == Init => Rooted
<1> SUFFICES ASSUME Init PROVE Rooted
  OBVIOUS
<1>1. \A item : ~HasPod(list, item)
  BY DEF Init, HasPod, Positions, loadUserPods
<1>2. FreeRoots
  BY DEF Init, FreeRoots
<1>3. PodRoots
  BY <1>1 DEF PodRoots
<1>4. \A t \in Threads : RootFits(t)
  BY DEF Init, RootFits, Idle
<1> QED
  BY <1>2, <1>3, <1>4 DEF Rooted

\* Every step keeps the listed pods rooted, and the only root one deletes is that
\* of the pod it is to remove.
LEMMA RootedStep ==
  ASSUME OneThread, ~MayMissList, ~MayCrash, TypeOK, ListWellFormed, Sequential, Rooted,
         [Next]_vars
  PROVE  /\ Rooted'
         /\ \A i \in Indices : root[i] \in Passwords /\ root'[i] = Deleted =>
               \E t \in Threads : thread'[t].pc = "deleteOwn" /\
                  podMap'[Home[t]][thread'[t].name].item.pass = root[i]
<1> DEFINE Own == \A i \in Indices : root[i] \in Passwords /\ root'[i] = Deleted =>
                     \E t \in Threads : thread'[t].pc = "deleteOwn" /\
                        podMap'[Home[t]][thread'[t].name].item.pass = root[i]
<1> SUFFICES Rooted' /\ Own
  OBVIOUS
<1> HIDE DEF Own
<1>0. /\ FreeRoots /\ PodRoots /\ \A t \in Threads : RootFits(t)
      /\ MapFits /\ \A t \in Threads : RequestFits(t)
      /\ \A item : HasPod(list, item) => item \in Item
  BY ListedPod DEF Rooted, Sequential
<1>1. ASSUME NEW t \in Threads, NEW r, Goto(t, r)
      PROVE  \A u \in Threads : u = t /\ thread'[u] = r
  BY <1>1 DEF Goto, TypeOK, OneThread
<1>2. UNCHANGED root => Own
  BY PodAssumption DEF Own, Passwords
\* A step of a request that neither makes nor deletes a pod, or has done so.
<1>3. ASSUME NEW t \in Threads, UNCHANGED root, list'.pods = list.pods,
             thread[t].pc \in {"idle", "openRoot", "storeShared"},
             thread'[t].pc \notin {"storeNew", "makeRoot", "deleteOwn"},
             thread'[t].pc = "storeLess" => thread'[t].removed = {}
      PROVE  Rooted' /\ Own
  <2>0. \A item : HasPod(list', item) <=> HasPod(list, item)
    BY <1>3 DEF HasPod, Positions
  <2>1. FreeRoots'
    BY <1>0, <1>3, <2>0 DEF FreeRoots
  <2>2. \A item : ~Busy(item)
    BY <1>3 DEF Busy, OneThread
  <2>3. PodRoots'
    BY <1>0, <1>3, <2>0, <2>2 DEF PodRoots
  <2>4. \A u \in Threads : RootFits(u)'
    BY <1>3 DEF RootFits, OneThread
  <2> QED
    BY <1>2, <1>3, <2>1, <2>3, <2>4 DEF Rooted
<1>4. ASSUME NEW t \in Threads, NEW n \in Names, NEW i \in Indices, CreatePod(t, n, i)
      PROVE  Rooted' /\ Own
  <2> DEFINE item == [name |-> n, index |-> i, pass |-> made + 1]
  <2>1. UNCHANGED <<root, list>> /\ thread[t].pc = "idle" /\ i \in accounts'[Home[t]]
    BY <1>4, PodAssumption DEF CreatePod, Load, TypeOK, Idle
  <2>2. \A u \in Threads : u = t /\ thread'[u].pc = "storeNew" /\ thread'[u].item.index = i
    BY <1>1, <1>4 DEF CreatePod
  <2>3. \A x : ~Busy(x)
    BY <2>1 DEF Busy, OneThread
  <2>4. PodRoots' /\ FreeRoots'
    BY <1>0, <2>1, <2>3 DEF PodRoots, FreeRoots
  <2>5. \A u \in Threads : RootFits(u)'
    BY <2>1, <2>2 DEF RootFits
  <2> QED
    BY <1>2, <2>1, <2>4, <2>5 DEF Rooted
<1>5. ASSUME NEW t \in Threads, StoreNew(t) PROVE Rooted' /\ Own
  <2>0. PICK item : item = thread[t].item
    OBVIOUS
  <2>1. /\ thread[t].pc = "storeNew" /\ UNCHANGED root
        /\ list' = WithPod(list, item) /\ item.index \notin UsedIndices(list)
        /\ item.index \in accounts[Home[t]] /\ item \in Item
    BY <1>0, <1>5, <2>0, RequestFields DEF StoreNew, RequestFits, AddsPod, RootFits
  <2>2. \A u \in Threads : u = t /\ thread'[u].pc = "makeRoot" /\ thread'[u].item = item
    BY <1>1, <1>5, <2>0, <2>1 DEF StoreNew
  <2>3. \A x : HasPod(list', x) <=> HasPod(list, x) \/ x = item
    BY <2>1, WithPodHas, ListTyped
  <2>4. FreeRoots'
    BY <1>0, <2>1, <2>3 DEF FreeRoots
  <2>5. \A x : ~Busy(x)
    BY <2>1 DEF Busy, OneThread
  <2>6. Busy(item)'
    BY <2>2 DEF Busy
  <2>7. PodRoots'
    BY <1>0, <2>1, <2>3, <2>5, <2>6 DEF PodRoots
  <2>8. \A x : HasPod(list, x) => x.index # item.index
    BY <2>1 DEF HasPod, UsedIndices
  <2>9. root[item.index] \in {Absent, Deleted}
    BY <1>0, <2>1, <2>8, ItemFields DEF FreeRoots
  <2>10. \A u \in Threads : RootFits(u)'
    BY <2>1, <2>2, <2>9 DEF RootFits
  <2> QED
    BY <1>2, <2>1, <2>4, <2>7, <2>10 DEF Rooted
<1>6. ASSUME NEW t \in Threads, MakeRoot(t) PROVE Rooted' /\ Own
  <2> DEFINE item == thread[t].item
  <2>1. /\ thread[t].pc = "makeRoot" /\ UNCHANGED list /\ item \in Item
        /\ HasPod(list, item) /\ root[item.index] \in {Absent, Deleted}
    BY <1>0, <1>6, RequestFields DEF MakeRoot, RequestFits, RootFits
  <2>2. \A i \in Indices : root'[i] = IF i = item.index THEN item.pass ELSE root[i]
    BY <1>6, <2>1 DEF MakeRoot, TypeOK
  <2>3. \A u \in Threads : thread'[u].pc = "idle"
    BY <1>1, <1>6 DEF MakeRoot, Idle
  <2>4. FreeRoots'
    BY <1>0, <2>1, <2>2 DEF FreeRoots
  <2>5. \A x : x # item => ~Busy(x)
    BY <2>1 DEF Busy, OneThread
  <2>6. ASSUME NEW x \in Item, HasPod(list, x) PROVE root'[x.index] = x.pass
    <3>1. x = item \/ x.index # item.index
      BY <2>1, <2>6, PodIsUnique
    <3> QED
      BY <1>0, <2>1, <2>2, <2>5, <2>6, <3>1, ItemFields DEF PodRoots
  <2>7. PodRoots'
    BY <2>1, <2>6 DEF PodRoots
  <2>8. \A u \in Threads : RootFits(u)'
    BY <2>3 DEF RootFits
  <2>9. item.pass # Deleted
    BY <2>1, ItemFields, PodAssumption DEF Passwords
  <2>10. Own
    BY <2>2, <2>9, PodAssumption DEF Own, Passwords
  <2> QED
    BY <2>4, <2>7, <2>8, <2>10 DEF Rooted
<1>7. ASSUME NEW t \in Threads, NEW k \in Positions(list), OpenPod(t, k)
      PROVE  Rooted' /\ Own
  <2>1. thread[t].pc = "idle" /\ thread'[t].pc = "openRoot"
    BY <1>1, <1>7 DEF OpenPod, Idle
  <2> QED
    BY <1>3, <1>7, <2>1 DEF OpenPod
<1>8. ASSUME NEW t \in Threads, OpenRoot(t) PROVE Rooted' /\ Own
  <2>1. thread[t].pc = "openRoot" /\ thread'[t].pc = "idle"
    BY <1>1, <1>8 DEF OpenRoot, Idle
  <2> QED
    BY <1>3, <1>8, <2>1 DEF OpenRoot
<1>9. ASSUME NEW t \in Threads, NEW n \in Names, OpenSharedPod(t, n) \/ ClosePod(t, n)
      PROVE  Rooted' /\ Own
  <2>1. thread[t].pc = "idle" /\ UNCHANGED <<list, root, thread>>
    BY <1>9 DEF OpenSharedPod, ClosePod, Idle
  <2> QED
    BY <1>3, <2>1
<1>10. ASSUME NEW t \in Threads, NEW n \in Names, ReceivePod(t, n) PROVE Rooted' /\ Own
  <2>1. thread[t].pc = "idle" /\ thread'[t].pc = "storeShared"
    BY <1>1, <1>10 DEF ReceivePod, Idle
  <2> QED
    BY <1>3, <1>10, <2>1 DEF ReceivePod
<1>11. ASSUME NEW t \in Threads, StoreShared(t) PROVE Rooted' /\ Own
  <2>1. thread[t].pc = "storeShared" /\ thread[t].name \in Names
        /\ list' = [list EXCEPT !.shared = @ \cup {thread[t].name}]
    BY <1>0, <1>11, RequestFields DEF StoreShared, RequestFits, AddsShared
  <2>2. list'.pods = list.pods
    BY <2>1, ListTyped, SharedLemma
  <2>3. thread'[t].pc = "idle"
    BY <1>1, <1>11 DEF StoreShared, Idle
  <2> QED
    BY <1>3, <1>11, <2>1, <2>2, <2>3 DEF StoreShared
<1>12. ASSUME NEW t \in Threads, NEW n \in Names, DeleteSharedPod(t, n)
       PROVE  Rooted' /\ Own
  <2>1. /\ thread[t].pc = "idle"
        /\ thread'[t].pc = "storeLess" /\ thread'[t].removed = {}
    BY <1>1, <1>12 DEF DeleteSharedPod, Idle
  <2> QED
    BY <1>3, <1>12, <2>1 DEF DeleteSharedPod
<1>13. ASSUME NEW t \in Threads, NEW n \in Names, DeletePod(t, n) PROVE Rooted' /\ Own
  <2>0. PICK item : item = Opened(t, n).item
    OBVIOUS
  <2>1. /\ thread[t].pc = "idle" /\ UNCHANGED list
        /\ Opened(t, n) \notin {NoPod, SharedPod}
    BY <1>13 DEF DeletePod, Idle
  <2>2. item \in Item /\ item.name = n /\ HasPod(list, item)
    BY <1>0, <2>0, <2>1, OpenedTyped, PodAssumption DEF MapFits, Opened
  <2>3. \A i \in Indices : root'[i] = IF i = item.index THEN Deleted ELSE root[i]
    BY <1>13, <2>0 DEF DeletePod, TypeOK
  <2>4. \A u \in Threads : u = t /\ thread'[u].pc = "deleteOwn" /\ thread'[u].name = n
    BY <1>1, <1>13 DEF DeletePod
  <2>5. podMap'[Home[t]][n] = OwnPod(item, FALSE)
    BY <1>13, <2>0, PodAssumption DEF DeletePod, Map, TypeOK
  <2>6. FreeRoots'
    BY <1>0, <2>1, <2>3 DEF FreeRoots
  <2>7. \A x : ~Busy(x)
    BY <2>1 DEF Busy, OneThread
  <2>8. \A x \in Item : HasPod(list, x) => root[x.index] = x.pass
    BY <1>0, <2>7 DEF PodRoots
  <2>9. Busy(item)'
    BY <2>2, <2>4 DEF Busy
  <2>10. ASSUME NEW x \in Item, HasPod(list, x), x # item PROVE root'[x.index] = x.pass
    <3>1. x.index # item.index
      BY <2>2, <2>10, PodIsUnique
    <3> QED
      BY <2>3, <2>8, <2>10, <3>1, ItemFields
  <2>11. PodRoots'
    BY <2>1, <2>9, <2>10 DEF PodRoots
  <2>12. root'[item.index] = Deleted
    BY <2>2, <2>3, ItemFields
  <2>13. \A u \in Threads : RootFits(u)'
    BY <2>1, <2>2, <2>4, <2>5, <2>12 DEF RootFits, Opened
  <2>14. Own
    <3>1. OwnPod(item, FALSE).item = item
      BY OwnPodFields
    <3>2. root[item.index] = item.pass
      BY <2>2, <2>8
    <3>3. /\ thread'[t].pc = "deleteOwn"
          /\ podMap'[Home[t]][thread'[t].name].item.pass = root[item.index]
      BY <2>4, <2>5, <3>1, <3>2
    <3> QED
      BY <2>3, <3>3, PodAssumption DEF Own, Passwords
  <2> QED
    BY <2>6, <2>11, <2>13, <2>14 DEF Rooted
<1>14. ASSUME NEW t \in Threads, NEW k \in Positions(list), DeleteOwnPod(t, k)
       PROVE  Rooted' /\ Own
  <2>0. PICK item : item = list.pods[k]
    OBVIOUS
  <2>1. /\ thread[t].pc = "deleteOwn" /\ UNCHANGED <<list, root>>
        /\ item.name = thread[t].name /\ item \in Item /\ HasPod(list, item)
    BY <1>14, <2>0, ListedPod DEF DeleteOwnPod
  <2>2. root[item.index] = Deleted
    BY <1>0, <2>1, PodIsUnique DEF RootFits
  <2>3. \A u \in Threads : u = t /\ thread'[u].pc = "storeLess" /\ thread'[u].removed = {item}
    BY <1>1, <1>14, <2>0 DEF DeleteOwnPod
  <2>4. FreeRoots'
    BY <1>0, <2>1 DEF FreeRoots
  <2>5. Busy(item)'
    BY <2>3 DEF Busy
  <2>6. ASSUME NEW x \in Item, HasPod(list, x), x # item PROVE root[x.index] = x.pass
    <3>1. x.name # item.name
      BY <2>1, <2>6, PodIsUnique
    <3>2. ~Busy(x)
      BY <2>1, <3>1 DEF Busy, OneThread
    <3> QED
      BY <1>0, <2>6, <3>2 DEF PodRoots
  <2>7. PodRoots'
    BY <2>1, <2>5, <2>6 DEF PodRoots
  <2>8. \A u \in Threads : RootFits(u)'
    BY <2>1, <2>2, <2>3 DEF RootFits
  <2> QED
    BY <1>2, <2>1, <2>4, <2>7, <2>8 DEF Rooted
\* The pod being deleted is still listed and still open.
<1>15. ASSUME NEW t \in Threads, DeleteFails(t) PROVE FALSE
  <2>1. PICK item \in Item : /\ HasPod(list, item)
                             /\ item.name = thread[t].name
                             /\ Opened(t, thread[t].name) = OwnPod(item, FALSE)
    BY <1>0, <1>15 DEF DeleteFails, RootFits
  <2>2. thread[t].name \in OwnNames(list)
    BY <2>1 DEF HasPod, OwnNames
  <2>3. Opened(t, thread[t].name) # NoPod
    BY <2>1, OwnPodTyped, NoPodAssumption
  <2> QED
    BY <1>15, <2>2, <2>3 DEF DeleteFails
<1>16. ASSUME NEW t \in Threads, StoreLess(t) PROVE Rooted' /\ Own
  <2>1. thread[t].pc = "storeLess" /\ UNCHANGED root /\ list' = thread[t].list
        /\ \A item \in thread[t].removed : root[item.index] = Deleted
    BY <1>0, <1>16 DEF StoreLess, RootFits
  <2>2. \A u \in Threads : thread'[u].pc = "idle"
    BY <1>1, <1>16 DEF StoreLess, Idle
  <2>3. \A x : HasPod(list', x) <=> HasPod(list, x) /\ x \notin thread[t].removed
    <3>1. CASE DropsShared(t)
      <4>1. PICK m \in Names : list' = [list EXCEPT !.shared = @ \ {m}]
        BY <2>1, <3>1 DEF DropsShared
      <4>2. list'.pods = list.pods /\ Positions(list') = Positions(list)
        BY <4>1, ListTyped, SharedLemma
      <4> QED
        BY <3>1, <4>2 DEF DropsShared, HasPod
    <3>2. CASE DropsPod(t)
      <4>1. PICK k \in Positions(list) : thread[t].removed = {list.pods[k]}
                                         /\ list' = WithoutPosition(list, k)
        BY <2>1, <3>2 DEF DropsPod
      <4>2. \A x : HasPod(WithoutPosition(list, k), x) <=> HasPod(list, x) /\ x # list.pods[k]
        BY ListTyped, WithoutPositionHas DEF ListWellFormed
      <4> QED
        BY <4>1, <4>2
    <3> QED
      BY <1>0, <2>1, <3>1, <3>2 DEF RequestFits
  <2>4. FreeRoots'
    BY <1>0, <2>1, <2>3 DEF FreeRoots
  <2>5. \A x : x \notin thread[t].removed => ~Busy(x)
    BY <2>1 DEF Busy, OneThread
  <2>6. PodRoots'
    BY <1>0, <2>1, <2>3, <2>5 DEF PodRoots
  <2>7. \A u \in Threads : RootFits(u)'
    BY <2>2 DEF RootFits
  <2> QED
    BY <1>2, <2>1, <2>4, <2>6, <2>7 DEF Rooted
<1>17. ASSUME NEW s \in Sessions, Crash(s) PROVE FALSE
  BY <1>17 DEF Crash
<1>18. ASSUME NEW t \in Threads, PodListFallsBack(t) PROVE FALSE
  BY <1>18 DEF PodListFallsBack
<1>19. CASE UNCHANGED vars
  <2>1. UNCHANGED <<list, root, podMap, accounts, thread>>
    BY <1>19 DEF vars
  <2>2. Rooted'
    BY <1>0, <2>1 DEF Rooted, FreeRoots, PodRoots, RootFits, Busy, Opened
  <2> QED
    BY <1>2, <2>1, <2>2
<1> QED
  BY <1>4, <1>5, <1>6, <1>7, <1>8, <1>9, <1>10, <1>11, <1>12, <1>13, <1>14, <1>15, <1>16,
     <1>17, <1>18, <1>19 DEF Next, Step

LEMMA RootedPods == TypeOK /\ Rooted => PodsHaveRoots
<1> SUFFICES ASSUME TypeOK, Rooted, NEW k \in Positions(list)
             PROVE  Busy(list.pods[k]) \/ root[list.pods[k].index] = list.pods[k].pass
  BY DEF PodsHaveRoots
<1> QED
  BY ListedPod DEF Rooted, PodRoots

\* If that thread does not die either, every listed pod that no request is at has
\* its root directory: MkRootDir never finds the feed taken by another pod.
THEOREM OneThreadKeepsRoots ==
  OneThread /\ ~MayMissList /\ ~MayCrash => (Spec => []PodsHaveRoots)
<1> SUFFICES ASSUME OneThread, ~MayMissList, ~MayCrash PROVE Spec => []PodsHaveRoots
  OBVIOUS
<1>1. TypeOK /\ ListWellFormed /\ Sequential /\ Rooted /\ [Next]_vars => Rooted'
  BY RootedStep
<1>2. Spec => []Sequential
  BY SequentialAlways
<1> QED
  BY <1>1, <1>2, RootedInit, RootedPods, PodTyped, ListsStayWellFormed, PTL DEF Spec

\* Under the same conditions DeletePod deletes the root directory of the pod it was
\* asked to delete, and of no other.
THEOREM OneThreadDeletesOwnRoots ==
  OneThread /\ ~MayMissList /\ ~MayCrash => (Spec => DeletesOwnRootOnly)
<1> SUFFICES ASSUME OneThread, ~MayMissList, ~MayCrash PROVE Spec => DeletesOwnRootOnly
  OBVIOUS
<1> DEFINE Own == \A i \in Indices : root[i] \in Passwords /\ root'[i] = Deleted =>
                     \E t \in Threads : thread'[t].pc = "deleteOwn" /\
                        podMap'[Home[t]][thread'[t].name].item.pass = root[i]
<1>1. TypeOK /\ ListWellFormed /\ Sequential /\ Rooted /\ [Next]_vars => Rooted' /\ [Own]_vars
  BY RootedStep
<1>2. Spec => []Sequential
  BY SequentialAlways
<1>3. Spec => [][Own]_vars
  <2> HIDE DEF Own
  <2> QED
    BY <1>1, <1>2, RootedInit, PodTyped, ListsStayWellFormed, PTL DEF Spec
<1> QED
  BY <1>3 DEF DeletesOwnRootOnly
=============================================================================

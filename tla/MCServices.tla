----------------------------- MODULE MCServices -----------------------------
(***************************************************************************)
(* The instance of Services that TLC checks, with one part more: documents *)
(* in a file (DocLines).                                                   *)
(***************************************************************************)
EXTENDS Services, DocLines, TLC

vars == <<serviceVars, docLinesVars>>

-----------------------------------------------------------------------------
\* In the other parts a file of one line is open, and stays as it is.
Init ==
    /\ part \in {"groups", "acts", "accounts", "documents", "docLines", "listing"}
    /\ ServicesInit
    /\ DocLinesInit
    /\ Part("docLines") \/ docFile = FileOf(<<NewLine>>)

Next ==
    \/ ServicesNext /\ UNCHANGED docLinesVars
    \/ UNCHANGED serviceVars /\ Part("docLines") /\ DocLinesNext

\* Only a listing has to come to an end: its goroutines are run, and what they read comes.
Runs(A) == /\ Part("listing") /\ A
           /\ UNCHANGED <<part, groupVars, actVars, accountVars, docVars, docLinesVars>>

Fairness ==
    /\ WF_vars(Runs(listing!Main)) /\ WF_vars(Runs(listing!CloseChannels))
    /\ \A n \in 1..MaxNames : WF_vars(Runs(n \in listing!names /\ listing!Task(n)))

Spec == Init /\ [][Next]_vars /\ Fairness

-----------------------------------------------------------------------------
\* A listing returns, but for the two that cannot (Listing).
ListingReturns == Part("listing") => listing!ListingReturns

-----------------------------------------------------------------------------
\* The users: one session of the owner "o" and one of a member "m".
TheUser == ("so" :> "o") @@ ("sm" :> "m")
TheGroups == ("o" :> {"g"}) @@ ("m" :> {})
TheTables == ("o" :> {"a"}) @@ ("m" :> {"a", "b"})

\* Documents of one simple and one list field; a value of the first is one document's
\* at a time.
Doc(id, kind, tags) == [id |-> id, at |-> [kind |-> {kind}, tags |-> tags]]
TheDocs == {Doc("i1", "a", {"a"}), Doc("i1", "ab", {"a", "ab"}), Doc("i1", "ab", None),
            Doc("i2", "a", {"ab"})}

\* The key "ab" sorts behind "a", and contains it.
TheOrder == {<<"i1", "i2">>, <<"a", "ab">>}
TheMatches == {<<v, v>> : v \in {"i1", "i2", "a", "ab"}} \cup {<<"a", "ab">>}
=============================================================================

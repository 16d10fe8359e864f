--------------------------- MODULE MCReadwisePush ---------------------------
(***************************************************************************)
(* Two instances of ReadwisePush in one run: two tokens of one account, at *)
(* one computer, and two tokens of two, at two computers that take turns   *)
(* at one vault.                                                           *)
(***************************************************************************)
EXTENDS ReadwisePush

CONSTANTS t1, t2, a1, a2, d1, d2, k1

VARIABLE part

OneAccount == [t \in {t1, t2} |-> a1]
TwoAccounts == [t \in {t1, t2} |-> IF t = t1 THEN a1 ELSE a2]

Two == INSTANCE ReadwisePush WITH Docs <- {d1, d2}, Keys <- {k1}, Accounts <- {a1, a2}, AccountOf <- TwoAccounts, Changes <- 2,
          Ops <- {"erase", "mark", "startOver", "lost", "unreadable", "crash", "fail", "switchOpening"}

AllVars == <<part, vars>>
Steps(p, A) == part = p /\ A /\ UNCHANGED part
MCInit == (part = "one" /\ Init) \/ (part = "two" /\ Two!Init)
MCNext == Steps("one", Next) \/ Steps("two", Two!Turns)

\* The fairness of FairSpec and of TurnsSpec, each for its own part.
Fairness ==
    /\ WF_AllVars(Steps("one", Sync \/ Push) \/ Steps("two", Two!Sync \/ Two!Push))
    /\ SF_AllVars(Steps("one", StartSync) \/ Steps("two", token = t1 /\ Two!StartSync))
    /\ SF_AllVars(Steps("two", token = t2 /\ Two!StartSync))
    /\ \A t \in Tokens : SF_AllVars(Steps("two", Two!ChangeToken(t) /\ UNCHANGED budget))
MCSpec == MCInit /\ [][MCNext]_AllVars /\ Fairness

-----------------------------------------------------------------------------

\* In one account nothing stands in a book that the state does not remember.
OneAccountIsRemembered == part = "one" => ReadwiseIsRemembered

\* In the end the marks are in Readwise as on the tablet, or two accounts have stopped each other.
EndsSettled == <>[](IF part = "one" THEN AtRest ELSE Two!BothStopped)
=============================================================================

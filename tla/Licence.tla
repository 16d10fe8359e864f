------------------------------ MODULE Licence ------------------------------
(***************************************************************************)
(* The Pro licence and the trial: the record in data.json, what it entitles*)
(* to, and the calls that move it: a check before a gated feature, a pasted*)
(* key, Deactivate this vault, Start free trial.  Each call works on the   *)
(* record as it was when it began and stores its result when it ends.      *)
(*                                                                         *)
(* Polar sells one key; any other is a typing error.                       *)
(***************************************************************************)
EXTENDS Absent, Naturals, FiniteSets

CONSTANTS Bought, Typo,        \* the keys that get pasted
          SLOTS,               \* Polar's ACTIVATION_LIMIT
          TRIAL_DAYS, CHECK_INTERVAL_DAYS,
          MaxDay,              \* bounds the clock
          MaxActivations,      \* bounds the activations Polar hands out
          Overlap              \* TRUE where a call begins while another is under way

ASSUME LicenceAssumption ==
  /\ Bought # Typo /\ None \notin {Bought, Typo} \cup Nat /\ Overlap \in BOOLEAN
  /\ {SLOTS, TRIAL_DAYS, CHECK_INTERVAL_DAYS, MaxDay, MaxActivations} \subseteq Nat

Keys == {Bought, Typo}
Checks == {"run", "tick"}      \* Sync now (or a mapping past the cap), a background tick

VARIABLES
  today,
  withdrawn,     \* Polar: the purchase was refunded
  slots,         \* Polar: the activations in use
  handed,        \* Polar: how many it ever handed out
  ticket,        \* taggedsync.com: the day this vault's trial began, or None
  licence,       \* data.licence
  checks,        \* the checks under way: [pc, seen]
  user,          \* the settings tab's call under way: [pc, seen, key]
  said           \* history: the notices shown since the last good verdict

polarVars == <<withdrawn, slots, handed>>
licenceVars == <<today, polarVars, ticket, licence, checks, user, said>>

NO_LICENCE ==
  [key |-> None, activation |-> None, validated |-> None, revoked |-> FALSE,
   trial |-> None, proven |-> TRUE, told |-> FALSE]
NoCheck == [pc |-> "idle", seen |-> NO_LICENCE]
NoCall == [pc |-> "idle", seen |-> NO_LICENCE, key |-> None]

LicenceInit ==
  /\ today = 0
  /\ withdrawn = FALSE /\ slots = {} /\ handed = 0
  /\ ticket = None
  /\ licence = NO_LICENCE
  /\ checks = [c \in Checks |-> NoCheck]
  /\ user = NoCall
  /\ said = 0

-----------------------------------------------------------------------------
(* The record as a value (licence-state.ts).                                *)

TrialRuns(l) == l.trial # None /\ today < l.trial + TRIAL_DAYS

Tier(l) ==
  IF l.revoked THEN "revoked"
  ELSE IF l.key # None /\ l.validated # None THEN "pro"
  ELSE IF l.trial # None THEN IF TrialRuns(l) THEN "trial" ELSE "trial-ended"
  ELSE "free"

Ended(l) == Tier(l) \in {"revoked", "trial-ended"}

\* nextLicenceCall.
NextCall(l) ==
  IF l.key = None \/ l.revoked THEN "none"
  ELSE IF l.activation = None THEN "activate"
  ELSE IF l.validated = None \/ today >= l.validated + CHECK_INTERVAL_DAYS THEN "validate"
  ELSE "none"

\* Taking silence for an answer.
ApplyOutcomeHarshly(l, outcome) ==
  CASE outcome = "valid" -> [l EXCEPT !.validated = today, !.revoked = FALSE, !.told = FALSE]
    [] outcome \in {"unknown-key", "withdrawn", "unreachable"} -> [l EXCEPT !.revoked = TRUE]
    [] outcome = "unknown-activation" -> [l EXCEPT !.activation = None]
    [] OTHER -> l

ApplyOutcome(l, outcome) ==
  CASE outcome = "valid" -> [l EXCEPT !.validated = today, !.revoked = FALSE, !.told = FALSE]
    [] outcome \in {"unknown-key", "withdrawn"} -> [l EXCEPT !.revoked = TRUE]
    [] outcome = "unknown-activation" -> [l EXCEPT !.activation = None]
    [] OTHER -> l

WithActivation(l, id) ==
  [l EXCEPT !.activation = id, !.validated = today, !.revoked = FALSE, !.told = FALSE]

WithKey(l, k) ==
  [l EXCEPT !.key = k, !.activation = None, !.validated = None, !.revoked = FALSE, !.told = FALSE]

WithoutLicence(l) ==
  [l EXCEPT !.key = None, !.activation = None, !.validated = None, !.revoked = FALSE]

-----------------------------------------------------------------------------
(* Polar (licence-client.ts reads its answers).  A call that is timed out   *)
(* may have been carried out.                                               *)

\* A 404 is followed by a validate of the key alone, and either may be lost.
ValidateOutcomes(k, id) ==
  {"unreachable"} \cup
  (IF k = Typo THEN {"unknown-key"}
   ELSE IF withdrawn THEN {"withdrawn", "unknown-key"}
   ELSE IF id \in slots THEN {"valid"} ELSE {"unknown-activation"})

RefusalsOfActivate(k) ==
  {"unreachable"} \cup
  (IF k = Typo THEN {"unknown-key"}
   ELSE IF withdrawn THEN {"withdrawn", "activation-limit"}
   ELSE IF Cardinality(slots) >= SLOTS THEN {"activation-limit"} ELSE {})

\* The activation is handed out, and the answer arrives or is lost.
Activates(k) == k = Bought /\ ~withdrawn /\ Cardinality(slots) < SLOTS /\ handed < MaxActivations
HandOut == handed' = handed + 1 /\ slots' = slots \cup {handed + 1} /\ UNCHANGED withdrawn

DayPasses ==
  /\ today < MaxDay
  /\ today' = today + 1
  /\ UNCHANGED <<polarVars, ticket, licence, checks, user, said>>

Refund ==
  /\ ~withdrawn /\ handed > 0
  /\ withdrawn' = TRUE
  /\ UNCHANGED <<today, slots, handed, ticket, licence, checks, user, said>>

\* Deactivating at Polar needs no authentication; the owner's portal does it too.
FreeSlot(id) ==
  /\ id \in slots
  /\ slots' = slots \ {id}
  /\ UNCHANGED <<today, withdrawn, handed, ticket, licence, checks, user, said>>

-----------------------------------------------------------------------------
(* The check before a gated feature (checkLicence, refreshLicence).         *)

Idle == (\A c \in Checks : checks[c].pc = "idle") /\ user.pc = "idle"

\* finish and refreshLicence: an ended licence is said once, to somebody who is
\* there; the background holds the sentence back.  Nothing changed, nothing is
\* stored.
Store(c, l) ==
  LET owed == Ended(l) /\ ~l.told
      loud == owed /\ c = "run" IN
  /\ licence' = IF loud THEN [l EXCEPT !.told = TRUE]
                ELSE IF owed \/ l # checks[c].seen THEN l ELSE licence
  /\ said' = IF loud THEN said + 1 ELSE IF licence'.told THEN said ELSE 0
  /\ checks' = [checks EXCEPT ![c] = NoCheck]

\* Nothing is asked for a user who owns no key.
BeginCheck(c) ==
  /\ checks[c].pc = "idle" /\ (Overlap \/ Idle)
  /\ IF NextCall(licence) = "none"
     THEN /\ Ended(licence) /\ ~licence.told /\ c = "run"
          /\ licence' = [licence EXCEPT !.told = TRUE]
          /\ said' = said + 1 /\ UNCHANGED checks
     ELSE /\ checks' = [checks EXCEPT ![c] = [pc |-> NextCall(licence), seen |-> licence]]
          /\ UNCHANGED <<licence, said>>
  /\ UNCHANGED <<today, polarVars, ticket, user>>

\* An activation that is gone is asked for again before anything locks.
Validated(c, outcome) ==
  LET seen == checks[c].seen IN
  /\ checks[c].pc = "validate"
  /\ outcome \in ValidateOutcomes(seen.key, seen.activation)
  /\ IF outcome = "unknown-activation"
     THEN checks' = [checks EXCEPT ![c].pc = "reactivate"] /\ UNCHANGED <<licence, said>>
     ELSE Store(c, ApplyOutcome(seen, outcome))
  /\ UNCHANGED <<today, polarVars, ticket, user>>

\* activateOnce.
Activated(c, lost) ==
  LET asked == checks[c].seen
      seen == IF checks[c].pc = "reactivate" THEN ApplyOutcome(asked, "unknown-activation") ELSE asked IN
  /\ checks[c].pc \in {"activate", "reactivate"}
  /\ Activates(seen.key)
  /\ HandOut
  /\ Store(c, IF lost THEN seen ELSE WithActivation(seen, handed + 1))
  /\ UNCHANGED <<today, ticket, user>>

ActivationRefused(c, outcome) ==
  LET asked == checks[c].seen
      seen == IF checks[c].pc = "reactivate" THEN ApplyOutcome(asked, "unknown-activation") ELSE asked IN
  /\ checks[c].pc \in {"activate", "reactivate"}
  /\ outcome \in RefusalsOfActivate(seen.key)
  /\ Store(c, ApplyOutcome(seen, outcome))
  /\ UNCHANGED <<today, polarVars, ticket, user>>

-----------------------------------------------------------------------------
(* The settings tab.                                                        *)

BeginCall(pc, k) ==
  /\ user.pc = "idle" /\ (Overlap \/ Idle)
  /\ user' = [pc |-> pc, seen |-> licence, key |-> k]
  /\ UNCHANGED <<today, polarVars, ticket, licence, checks, said>>

\* The key field is not drawn over a running licence.
Paste(k) == Tier(licence) # "pro" /\ BeginCall("pasting", k)

\* activateKey: the key is kept whatever Polar says.
SaveKey(l) ==
  /\ licence' = IF Ended(l) THEN [l EXCEPT !.told = TRUE] ELSE l
  /\ said' = IF Ended(l) THEN 1 ELSE 0
  /\ user' = NoCall

Pasted(lost) ==
  /\ user.pc = "pasting" /\ Activates(user.key)
  /\ HandOut
  /\ SaveKey(IF lost THEN WithKey(user.seen, user.key)
             ELSE WithActivation(WithKey(user.seen, user.key), handed + 1))
  /\ UNCHANGED <<today, ticket, checks>>

PasteRefused(outcome) ==
  /\ user.pc = "pasting" /\ outcome \in RefusalsOfActivate(user.key)
  /\ SaveKey(WithKey(user.seen, user.key))
  /\ UNCHANGED <<today, polarVars, ticket, checks>>

Deactivate == Tier(licence) = "pro" /\ BeginCall("deactivating", None)

\* Freed at Polar or not, it is forgotten here, in the record as it is by then.
Deactivated(freed) ==
  /\ user.pc = "deactivating"
  /\ slots' = IF freed THEN slots \ {user.seen.activation} ELSE slots
  /\ licence' = WithoutLicence(licence)
  /\ user' = NoCall
  /\ UNCHANGED <<today, withdrawn, handed, ticket, checks, said>>

StartTrial ==
  /\ licence.trial = None /\ Tier(licence) # "pro"
  /\ BeginCall("trial", None)

\* taggedsync.com: the first day it ever gave this vault, again.
TrialStarted(lost) ==
  /\ user.pc = "trial"
  /\ ticket' = IF ticket = None THEN today ELSE ticket
  /\ licence' = IF lost THEN licence ELSE [user.seen EXCEPT !.trial = ticket', !.proven = TRUE]
  /\ user' = NoCall
  /\ UNCHANGED <<today, polarVars, checks, said>>

TrialRefused ==
  /\ user.pc = "trial"
  /\ user' = NoCall
  /\ UNCHANGED <<today, polarVars, ticket, licence, checks, said>>

\* Believing the stored date.
AttestTrialNot(l) == l

\* attestTrial: a date taggedsync.com did not sign for this vault is none.
AttestTrial(l) == IF l.trial # None /\ ~l.proven THEN [l EXCEPT !.trial = None, !.proven = TRUE] ELSE l

\* Obsidian restarts, maybe over a data.json that was edited: the trial taken
\* out of it, or given another day.  Calls under way are forgotten.
Restart ==
  /\ \E trial \in {licence.trial, None, today} :
       licence' = AttestTrial([licence EXCEPT !.trial = trial, !.proven = (trial \in {ticket, None})])
  /\ checks' = [c \in Checks |-> NoCheck] /\ user' = NoCall
  /\ UNCHANGED <<today, polarVars, ticket, said>>

-----------------------------------------------------------------------------
Outcomes == {"valid", "unknown-key", "withdrawn", "unknown-activation", "activation-limit", "unreachable"}

CheckNext(c) ==
  \/ BeginCheck(c)
  \/ \E o \in Outcomes : Validated(c, o) \/ ActivationRefused(c, o)
  \/ \E lost \in BOOLEAN : Activated(c, lost)

LicenceNext ==
  \/ DayPasses \/ Refund \/ (\E id \in slots : FreeSlot(id))
  \/ \E c \in Checks : CheckNext(c)
  \/ \E k \in Keys : Paste(k)
  \/ \E lost \in BOOLEAN : Pasted(lost) \/ Deactivated(lost) \/ TrialStarted(lost)
  \/ \E o \in Outcomes : PasteRefused(o)
  \/ Deactivate \/ StartTrial \/ TrialRefused \/ Restart

LicenceSpec == LicenceInit /\ [][LicenceNext]_licenceVars

LicenceTypeOK ==
  /\ today \in 0 .. MaxDay /\ withdrawn \in BOOLEAN
  /\ slots \subseteq 1 .. handed /\ handed \in 0 .. MaxActivations
  /\ ticket \in 0 .. MaxDay \cup {None}
  /\ licence.key \in Keys \cup {None} /\ licence.activation \in 1 .. handed \cup {None}
  /\ licence.validated \in 0 .. today \cup {None} /\ licence.trial \in 0 .. MaxDay \cup {None}
  /\ \A c \in Checks : checks[c].pc \in {"idle", "activate", "validate", "reactivate"}
  /\ user.pc \in {"idle", "pasting", "deactivating", "trial"}

\* licence-state.ts, "Silence is not revocation": a confirmed licence stops
\* counting only after the purchase was refunded, or because the user
\* deactivates the vault; lost answers, freed and taken slots, days and restarts
\* never lock it.
SilenceKeepsPro ==
  [][Tier(licence) = "pro" /\ Tier(licence') # "pro" => withdrawn \/ user.pc = "deactivating"]_licenceVars

\* trial-ticket.ts: whatever data.json is edited to, a vault has the one trial
\* taggedsync.com gave it.
OneTrial == Tier(licence) = "trial" => ticket # None /\ today < ticket + TRIAL_DAYS

\* licence-check.ts finish, main.ts refreshLicence: between two good verdicts the
\* end of a licence is said to somebody at most once, however often a check in
\* the background finds it first.
EndIsSaidOnce == said <= 1

\* licence-check.ts activateKey: where no key was ever active there is nothing to
\* withdraw, so a typing error does not end a trial that runs.
TypoIsNotRevoked ==
  [][Tier(licence) = "trial" /\ TrialRuns(licence') => ~licence'.revoked \/ handed > 0]_licenceVars
\* Pro is neither taken without a withdrawal nor given without taggedsync.com.
ProIsHonest == SilenceKeepsPro /\ []OneTrial
=============================================================================

------------------------------ MODULE OcrCalls ------------------------------
(***************************************************************************)
(* One call of a backend's recognize: the pages of a unit, each cut into   *)
(* parts at its typed lines, each part of ink a request of its own         *)
(* (llm-transcript.ts, openai-compat-ocr-backend.ts,                       *)
(* anthropic-ocr-backend.ts, local-ocr-backend.ts, ocr-tally.ts).          *)
(*                                                                         *)
(* A remote backend has a few workers over the pages; a request is retried *)
(* while the server says "too many", and its failure fails the page. The   *)
(* engine of a local model reads one page after the other, and once it     *)
(* breaks it is not asked again.                                           *)
(***************************************************************************)
EXTENDS Naturals, Sequences, FiniteSets, FiniteSetsExt, Absent

CONSTANTS
    Scripts,        \* the pages' parts, "ink" and "typed", one sequence of pages per world
    Parallelism,    \* LLM_MAX_PARALLELISM
    MaxAttempts,    \* MAX_ATTEMPTS
    MaxInk          \* MAX_INK_PARTS

ASSUME OcrCallsAssumption == Parallelism \in Nat \ {0} /\ MaxAttempts \in Nat \ {0} /\ MaxInk \in Nat \ {0}

VARIABLES
    script,     \* the pages of this unit
    kind,       \* "remote", "modelless" or "engine"
    page,       \* per page: the part it is at, what was read of it, its attempts, and how it stands
    taken,      \* pages handed to a worker
    flags,      \* what the failures so far were
    refusal,    \* the first refusal's status, or None
    engineBroke,     \* the engine broke in this run
    ticks,      \* how often onPage was called
    answered,   \* parts of pages that were answered in full
    result,     \* None, or what recognize returned
    tally       \* what tallyOcr counted over the calls

callVars == <<script, kind, page, taken, flags, refusal, engineBroke, ticks, answered, result, tally>>

PageNos == DOMAIN script
NoCounts == [read |-> 0, empty |-> 0, failed |-> 0, unavailable |-> 0]
Waiting == [state |-> "waiting", at |-> 1, read |-> <<>>, attempts |-> 0]

\* splitAtTypedText: a page cut into too many pieces of ink is sent whole, its typed lines after it.
Parts(p) ==
    IF Cardinality({i \in DOMAIN script[p] : script[p][i] = "ink"}) <= MaxInk THEN script[p]
    ELSE <<"ink">> \o SelectSeq(script[p], LAMBDA part : part = "typed")

-----------------------------------------------------------------------------
(* A page at its next part. *)

\* What stands on the page once the loop has come to a part that must be asked for, or to its end.
Advance(p, at, read) ==
    LET parts == Parts(p)
        asks == {i \in at..Len(parts) : parts[i] = "ink"}
        stop == IF asks = {} THEN Len(parts) + 1 ELSE Min(asks) IN
    [state |-> IF asks = {} THEN "over" ELSE "asking", at |-> stop,
     read |-> read \o [i \in 1..(stop - at) |-> at + i - 1], attempts |-> IF asks = {} THEN 0 ELSE 1]

\* As if a part that failed were left out and the page went on.
FailedPageGoesOn(p) == Advance(p, page[p].at + 1, page[p].read)

FailedPage(p) == [page[p] EXCEPT !.state = "failed"]

Over(p) == page[p].state \in {"over", "failed"}

\* onPage is called as a page is over, whatever became of it.
Step(p, next) ==
    /\ page' = [page EXCEPT ![p] = next]
    /\ ticks' = IF next.state \in {"over", "failed"} THEN ticks + 1 ELSE ticks

InFlight == {p \in PageNos : page[p].state \in {"asking", "pausing"}}

\* mapWithConcurrency: a free worker takes the next page; the engine has one.
TakePage ==
    /\ result = None /\ ~(kind = "engine" /\ engineBroke)
    /\ taken < Len(script) /\ Cardinality(InFlight) < (IF kind = "engine" THEN 1 ELSE Parallelism)
    /\ taken' = taken + 1
    /\ Step(taken + 1, IF kind = "modelless" /\ "ink" \in {Parts(taken + 1)[i] : i \in DOMAIN Parts(taken + 1)}
                       THEN FailedPage(taken + 1) ELSE Advance(taken + 1, 1, <<>>))
    /\ UNCHANGED <<script, kind, flags, refusal, engineBroke, answered, result, tally>>

\* A 200 with text, or without any; the engine's output.
PartRead(p) ==
    /\ page[p].state = "asking"
    /\ answered' = answered \cup {<<p, page[p].at>>}
    /\ \E words \in BOOLEAN :
        Step(p, Advance(p, page[p].at + 1, IF words THEN Append(page[p].read, page[p].at) ELSE page[p].read))
    /\ UNCHANGED <<script, kind, taken, flags, refusal, engineBroke, result, tally>>

\* transcribePage's other ends: refused, unreachable, unanswered in time, or cut off, declined, garbled.
Causes == {"500", "400", "unreachable", "timedOut", "declined", "cutOff", "garbled"}
FlagOf(cause) == CASE cause = "500" -> {"serverError"} [] cause = "400" -> {"refused"}
                   [] cause = "garbled" -> {} [] OTHER -> {cause}

PartFails(p) ==
    /\ kind = "remote" /\ page[p].state = "asking"
    /\ \E cause \in Causes :
        /\ flags' = flags \cup FlagOf(cause)
        /\ refusal' = IF refusal = None /\ cause \in {"500", "400"} THEN cause ELSE refusal
    /\ Step(p, FailedPage(p))
    /\ UNCHANGED <<script, kind, taken, engineBroke, answered, result, tally>>

\* fetchWithRetry: a 429 is waited out, and the last one is a refusal like any other.
Busy(p) ==
    /\ kind = "remote" /\ page[p].state = "asking"
    /\ IF page[p].attempts < MaxAttempts
       THEN Step(p, [page[p] EXCEPT !.state = "pausing", !.attempts = @ + 1]) /\ UNCHANGED <<flags, refusal>>
       ELSE /\ Step(p, FailedPage(p))
            /\ flags' = flags \cup {"serverError"}
            /\ refusal' = IF refusal = None THEN "429" ELSE refusal
    /\ UNCHANGED <<script, kind, taken, engineBroke, answered, result, tally>>

AskAgain(p) ==
    /\ page[p].state = "pausing"
    /\ Step(p, [page[p] EXCEPT !.state = "asking"])
    /\ UNCHANGED <<script, kind, taken, flags, refusal, engineBroke, answered, result, tally>>

\* The engine gives a page up, with a warning of its own.
EngineFails(p) ==
    /\ kind = "engine" /\ page[p].state = "asking"
    /\ Step(p, FailedPage(p))
    /\ flags' = flags \cup {"pageFailed"}
    /\ UNCHANGED <<script, kind, taken, refusal, engineBroke, answered, result, tally>>

-----------------------------------------------------------------------------
(* What recognize returns. *)

StatusOf(p) == IF page[p].state = "failed" THEN "failed" ELSE IF page[p].read = <<>> THEN "skipped" ELSE "ok"

UnitStatus(statuses) == IF "ok" \in statuses THEN "ok" ELSE IF "failed" \in statuses THEN "failed" ELSE "skipped"

\* As if a refusal were always worth a later try.
PromiseOfAnyRefusal == "unreachable" \in flags \/ refusal # None

\* triedAgain: the one warning of a call says that a later sync tries again.
Promise == "unreachable" \in flags \/ (refusal # None /\ "serverError" \in flags)

AsksForRetry == flags \cap {"unreachable", "serverError"} # {}

\* tallyOcr's count, of the pages or of the whole call.
CountPages(pages) ==
    LET of(status) == Cardinality({p \in DOMAIN pages : pages[p].status = status}) IN
    [tally EXCEPT !.read = @ + of("ok"), !.failed = @ + of("failed"), !.empty = @ + of("skipped")]

Return ==
    /\ result = None /\ taken = Len(script) /\ InFlight = {}
    /\ LET pages == [p \in PageNos |-> [status |-> StatusOf(p), read |-> IF StatusOf(p) = "ok" THEN page[p].read ELSE <<>>]] IN
       /\ result' = [status |-> UnitStatus({pages[p].status : p \in PageNos}), pages |-> pages,
                     promise |-> kind = "remote" /\ (\E p \in PageNos : pages[p].status = "failed") /\ Promise,
                     retryable |-> kind = "remote" /\ AsksForRetry, refused |-> "refused" \in flags]
       /\ tally' = CountPages(pages)
    /\ UNCHANGED <<script, kind, page, taken, flags, refusal, engineBroke, ticks, answered>>

Unavailable == [status |-> "unavailable", pages |-> None, promise |-> FALSE, retryable |-> TRUE, refused |-> FALSE]

\* The engine breaks at a page, or broke at an earlier call: what was read of this call is let go.
EngineBreaks ==
    /\ kind = "engine" /\ result = None
    /\ engineBroke \/ \E p \in PageNos : page[p].state = "asking"
    /\ engineBroke' = TRUE /\ result' = Unavailable
    /\ tally' = [tally EXCEPT !.unavailable = @ + Len(script)]
    /\ UNCHANGED <<script, kind, page, taken, flags, refusal, ticks, answered>>

\* The run goes on with its next unit.
AnotherCall ==
    /\ result # None /\ tally.read + tally.empty + tally.failed + tally.unavailable < 2 * Len(script)
    /\ page' = [p \in PageNos |-> Waiting] /\ taken' = 0 /\ ticks' = 0
    /\ flags' = {} /\ refusal' = None /\ answered' = {} /\ result' = None
    /\ UNCHANGED <<script, kind, engineBroke, tally>>

CallsInit ==
    /\ script \in Scripts /\ kind \in {"remote", "modelless", "engine"}
    /\ page = [p \in PageNos |-> Waiting] /\ taken = 0 /\ ticks = 0
    /\ flags = {} /\ refusal = None /\ engineBroke = FALSE /\ answered = {} /\ result = None
    /\ tally = NoCounts

OnPage(p) == PartRead(p) \/ PartFails(p) \/ Busy(p) \/ AskAgain(p) \/ EngineFails(p)

CallsNext == TakePage \/ (\E p \in PageNos : OnPage(p)) \/ Return \/ EngineBreaks \/ AnotherCall

-----------------------------------------------------------------------------
(* Properties. *)

\* Half a transcript would be stored, and stand, as the page's whole text: a page that is reported read
\* had every one of its parts answered, or typed, and what was answered with words is in its text once
\* and in order; a page that failed or was empty has no text.
WholePagesOnly ==
    result # None /\ result.pages # None =>
        \A p \in PageNos :
            LET parts == Parts(p)
                read == result.pages[p].read IN
            IF result.pages[p].status = "failed" THEN read = <<>>
            ELSE /\ \A i \in DOMAIN parts : parts[i] = "typed" \/ <<p, i>> \in answered
                 /\ \A i \in DOMAIN parts : parts[i] = "typed" => \E k \in DOMAIN read : read[k] = i
                 /\ \A j, k \in DOMAIN read : j < k => read[j] < read[k]

\* The report promises a later try exactly when the result asks for one, whichever of several failures
\* came first; no more pages are ticked off than there are, and all of them when the call was not
\* broken off; and the diagnostics count every page of every call once.
ReportsAreTrue ==
    result # None =>
        /\ result.pages # None => (result.promise <=> result.retryable) /\ ticks = Len(script)
        /\ ticks <= Len(script)
        /\ \A n \in {tally.read + tally.empty + tally.failed + tally.unavailable} : n > 0 /\ n % Len(script) = 0

\* What recognize returns is what was read, and what it says about it is so.
OcrIsHonest == WholePagesOnly /\ ReportsAreTrue

\* However the server answers, recognize returns.
RecognizeEnds == taken > 0 \/ engineBroke ~> result # None
=============================================================================

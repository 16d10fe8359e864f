----------------------------- MODULE MCServices -----------------------------
(***************************************************************************)
(* What the plugin asks of others, one part at a time: its requests, its   *)
(* licence, its local model, the calls of a transcription backend and of   *)
(* Vision, and the second reading of the notes a backend has failed on.    *)
(***************************************************************************)
EXTENDS Requests, Licence, LocalModel, OcrCalls, VisionPages, DigestRetry

CONSTANTS p1, q1, v1, k1, b1, b2

VARIABLE part

AllVars == <<part, requestVars, licenceVars, modelVars, callVars, visionVars, digestVars>>
OnlyRequests == UNCHANGED <<part, licenceVars, modelVars, callVars, visionVars, digestVars>>
OnlyLicence == UNCHANGED <<part, requestVars, modelVars, callVars, visionVars, digestVars>>
OnlyModel == UNCHANGED <<part, requestVars, licenceVars, callVars, visionVars, digestVars>>
OnlyCalls == UNCHANGED <<part, requestVars, licenceVars, modelVars, visionVars, digestVars>>
OnlyVision == UNCHANGED <<part, requestVars, licenceVars, modelVars, callVars, digestVars>>
OnlyDigest == UNCHANGED <<part, requestVars, licenceVars, modelVars, callVars, visionVars>>

TwoModels == <<"big", "small">>
SomeChunks == [engine |-> 1, model |-> 2, mmproj |-> 1]

\* One backend reads all, some or nothing of the notes, or finds no words; the other fails on one.
SomeVerdicts ==
    {[r \in {b1, b2} |-> IF r = b1 THEN f ELSE <<"cut", "read">>] :
        f \in {<<"read", "read">>, <<"read", "cut">>, <<"refused", "refused">>, <<"wordless", "refused">>}}

\* A page with more pieces than are sent, one split by a typed line, one of typed lines only.
SomeScripts ==
    {<<<<"ink", "typed", "ink", "ink", "typed">>, <<"typed">>>>, <<<<"ink", "typed", "ink">>, <<"ink">>>>,
     <<<<"ink">>, <<"ink">>, <<"typed">>>>}

Patch(left, right, bottom, top) == [left |-> left, right |-> right, bottom |-> bottom, top |-> top]
Seen(says, left, right, bottom, top) == [says |-> says, left |-> left, right |-> right, bottom |-> bottom, top |-> top]
Typed(says, y, blank) == [says |-> says, y |-> y, blank |-> blank]

\* Two lines of writing and one beside the second, of which Vision sees none, some out of order, or half of two;
\* one line of writing; typed text alone.
SomeSheaves ==
    {<<[patches |-> <<Patch(0, 40, 80, 90), Patch(0, 40, 50, 60), Patch(50, 90, 50, 60)>>,
        seen |-> {<<>>, <<Seen("a", 0, 40, 80, 90)>>, <<Seen("c", 0, 40, 50, 60), Seen("a", 0, 40, 80, 90)>>,
                  <<Seen("ac", 0, 90, 58, 92)>>},
        typed |-> <<Typed("a", 200, FALSE), Typed("t", 125, FALSE), Typed(" ", 120, TRUE)>>],
       [patches |-> <<Patch(0, 40, 20, 30)>>, seen |-> {<<>>, <<Seen("b", 0, 40, 20, 30)>>}, typed |-> <<>>],
       [patches |-> <<>>, seen |-> {<<>>}, typed |-> <<Typed("t", 30, FALSE), Typed("u", 20, FALSE)>>]>>}
SomeCropWords == {<<>>, <<"A">>, <<"b", "t">>}
SomeAlike == {{"a", "A"}}

\* Only the part that runs has more than one initial state.
MCInit ==
    /\ part \in {"requests", "licence", "model", "calls", "vision", "digest"}
    /\ RequestInit /\ LicenceInit /\ ModelInit /\ CallsInit /\ VisionInit /\ DigestInit
    /\ part # "digest" => reader = OffReader /\ server = "up" /\ drow = None /\ verdict = CHOOSE v \in SomeVerdicts : TRUE
    /\ part # "calls" => kind = "remote" /\ script = CHOOSE s \in SomeScripts : TRUE

MCNext ==
    \/ part = "requests" /\ RequestNext /\ OnlyRequests
    \/ part = "licence" /\ LicenceNext /\ OnlyLicence
    \/ part = "model" /\ ModelNext /\ OnlyModel
    \/ part = "calls" /\ CallsNext /\ OnlyCalls
    \/ part = "vision" /\ VisionNext /\ OnlyVision
    \/ part = "digest" /\ DigestNext /\ OnlyDigest

\* A request is answered in the end, with an error if need be, and a waiter that was woken goes on; a fetcher
\* goes on, or its connection fails; a page that is asked for is answered, refused or given up after ten
\* minutes. Auto-sync goes on running and the clock goes on, while nobody has to press "Sync now".
Fairness ==
    /\ \A c \in Calls : /\ WF_AllVars(part = "requests" /\ (\E a \in Answers : Answer(c, a)) /\ OnlyRequests)
                        /\ WF_AllVars(part = "requests" /\ Wake(c) /\ OnlyRequests)
    /\ \A k \in Fetches : WF_AllVars(part = "model" /\ FetchGoesOn(k) /\ OnlyModel)
    /\ \A p \in 1..3 : WF_AllVars(part = "calls" /\ p \in PageNos /\ OnPage(p) /\ OnlyCalls)
    /\ WF_AllVars(part = "calls" /\ (TakePage \/ Return \/ (engineBroke /\ EngineBreaks)) /\ OnlyCalls)
    /\ WF_AllVars(part = "digest" /\ AutoRead /\ OnlyDigest)
    /\ WF_AllVars(part = "digest" /\ LookBack /\ OnlyDigest)
    /\ WF_AllVars(part = "digest" /\ HourPasses /\ OnlyDigest)

MCSpec == MCInit /\ [][MCNext]_AllVars /\ Fairness

-----------------------------------------------------------------------------

\* What a transcription returns is what stands on the page, whether a model was asked or Vision.
TranscriptionIsHonest == OcrIsHonest /\ VisionReadsThePage

\* Whatever the other side does, what was begun ends: every request with its answer, a transcription that has
\* taken a page or lost its engine with a result, and a started download with a model, a pause or an error.
WhatIsBegunEnds == EveryCallSettles /\ RecognizeEnds /\ DownloadEnds
=============================================================================

------------------------------ MODULE Requests ------------------------------
(***************************************************************************)
(* The one door every request goes through, obsidianFetch with its slots   *)
(* and its retries, under the two things that drive it: the bounded        *)
(* workers of mapWithConcurrency, and calls made one by one, which may     *)
(* honour a Retry-After.                                                   *)
(*                                                                         *)
(* A call is an item of the one job (a document opened by a worker), or a  *)
(* single call.  A slot is held from takeSlot to giveSlot only: a call     *)
(* that waits out an outage or a Retry-After holds none.                   *)
(***************************************************************************)
EXTENDS Naturals, Sequences, SequencesExt, FiniteSets

CONSTANTS MAX_REQUESTS_IN_FLIGHT,  \* the slots
          JobItems,                \* the length of the list the job maps
          JobLimit,                \* the workers it may have
          ReadCalls,               \* single GETs to a reMarkable host
          PoliteCalls,             \* single calls made through retryOnceAfter
          PlainCalls,              \* all others: sends, OCR, the licence server
          OutageRetries            \* how often a reMarkable GET is asked again

Items == 1 .. JobItems
Calls == Items \cup ReadCalls \cup PoliteCalls \cup PlainCalls

ASSUME RequestsAssumption ==
  /\ MAX_REQUESTS_IN_FLIGHT \in Nat /\ JobItems \in Nat /\ JobLimit \in Nat /\ OutageRetries \in Nat
  /\ IsFiniteSet(ReadCalls \cup PoliteCalls \cup PlainCalls)

\* Answers of a server: "outage" is a 502, 503 or 504, "busy" a 429 or a 503
\* that names a Retry-After within bounds; "error" is a request that throws.
Answers == {"ok", "outage", "busy", "error"}

VARIABLES
  phase,     \* of each call: where its request is
  retries,   \* of each call: the retries it has left
  inFlight,  \* the counter of obsidian-fetch.ts
  waiting,   \* the calls queued for a slot, first come first served
  nextItem,  \* the index the next free worker takes
  results,   \* what the job has collected, by index
  job        \* "idle", "running", "done" or "rejected"

requestVars == <<phase, retries, inFlight, waiting, nextItem, results, job>>

Phases == {"unsent", "queued", "open", "pausing"} \cup Answers
Open == {c \in Calls : phase[c] = "open"}
Settled(c) == phase[c] \in Answers

\* A worker is on an item from taking it until its fn settles; one whose fn
\* rejects is over, and its item stays "error".
Workers == {i \in Items : phase[i] \in {"queued", "open", "pausing"}}

RequestInit ==
  /\ phase = [c \in Calls |-> "unsent"]
  /\ retries = [c \in Calls |-> IF c \in Items \cup ReadCalls THEN OutageRetries
                                ELSE IF c \in PoliteCalls THEN 1 ELSE 0]
  /\ inFlight = 0
  /\ waiting = <<>>
  /\ nextItem = 1
  /\ results = [i \in Items |-> "none"]
  /\ job = "idle"

-----------------------------------------------------------------------------
(* takeSlot and giveSlot.  A slot given up is handed to the first call that *)
(* waits, and the counter moves only when nobody does.                      *)

\* Giving every freed slot back to the counter, waiting calls or not.
GiveSlotTwice(p) ==
  /\ waiting' = (IF waiting = <<>> THEN <<>> ELSE Tail(waiting))
  /\ inFlight' = inFlight - 1
  /\ phase' = IF waiting = <<>> THEN p ELSE [p EXCEPT ![Head(waiting)] = "open"]

\* Handing a slot over without waking the call that waits for it.
GiveSlotUnwoken(p) ==
  /\ waiting' = (IF waiting = <<>> THEN <<>> ELSE Tail(waiting))
  /\ inFlight' = IF waiting = <<>> THEN inFlight - 1 ELSE inFlight
  /\ phase' = p

GiveSlot(p) ==
  /\ waiting' = (IF waiting = <<>> THEN <<>> ELSE Tail(waiting))
  /\ inFlight' = IF waiting = <<>> THEN inFlight - 1 ELSE inFlight
  /\ phase' = IF waiting = <<>> THEN p ELSE [p EXCEPT ![Head(waiting)] = "open"]

TakeSlot(c) ==
  IF inFlight < MAX_REQUESTS_IN_FLIGHT
  THEN /\ inFlight' = inFlight + 1
       /\ phase' = [phase EXCEPT ![c] = "open"]
       /\ UNCHANGED waiting
  ELSE /\ waiting' = Append(waiting, c)
       /\ phase' = [phase EXCEPT ![c] = "queued"]
       /\ UNCHANGED inFlight

-----------------------------------------------------------------------------
\* What is asked again: a reMarkable GET after an outage, a polite call told
\* when to come back; a request that throws never is.
AskedAgain(c, a) ==
  /\ retries[c] > 0
  /\ \/ a = "outage" /\ c \in Items \cup ReadCalls
     \/ a = "busy" /\ c \in PoliteCalls

StartJob ==
  /\ job = "idle"
  /\ job' = "running"
  /\ UNCHANGED <<phase, retries, inFlight, waiting, nextItem, results>>

\* A free worker takes the next index.  The workers of a rejected job go on:
\* nothing tells them that Promise.all has given up.  A rejected worker takes
\* none.
TakeItem ==
  /\ job \in {"running", "rejected"}
  /\ nextItem <= JobItems
  /\ Cardinality(Workers) + Cardinality({i \in Items : results[i] = "threw"})
       < (IF JobLimit < JobItems THEN JobLimit ELSE JobItems)
  /\ TakeSlot(nextItem)
  /\ nextItem' = nextItem + 1
  /\ UNCHANGED <<retries, results, job>>

Send(c) ==
  /\ c \in Calls \ Items
  /\ phase[c] = "unsent"
  /\ TakeSlot(c)
  /\ UNCHANGED <<retries, nextItem, results, job>>

CollectedByArrival(c, a) ==
  IF c \notin Items THEN UNCHANGED <<results, job>>
  ELSE LET k == Cardinality({i \in Items : results[i] # "none"}) + 1
           r == [results EXCEPT ![k] = IF a = "error" THEN "threw" ELSE a] IN
       /\ results' = r
       /\ job' = IF a = "error" THEN "rejected"
                 ELSE IF job = "running" /\ \A i \in Items : r[i] # "none" THEN "done" ELSE job

\* A worker moves on to whatever index is next, and the results are put in
\* by the index it took: filed by arrival they would come out of order.
Collected(c, a) ==
  IF c \notin Items THEN UNCHANGED <<results, job>>
  ELSE LET r == [results EXCEPT ![c] = IF a = "error" THEN "threw" ELSE a] IN
       /\ results' = r
       /\ job' = IF a = "error" THEN "rejected"
                 ELSE IF job = "running" /\ \A i \in Items : r[i] # "none" THEN "done" ELSE job

Answer(c, a) ==
  /\ phase[c] = "open"
  /\ IF AskedAgain(c, a)
     THEN /\ GiveSlot([phase EXCEPT ![c] = "pausing"])
          /\ retries' = [retries EXCEPT ![c] = @ - 1]
          /\ UNCHANGED <<results, job>>
     ELSE /\ GiveSlot([phase EXCEPT ![c] = a])
          /\ Collected(c, a)
          /\ UNCHANGED retries
  /\ UNCHANGED nextItem

Wake(c) ==
  /\ phase[c] = "pausing"
  /\ TakeSlot(c)
  /\ UNCHANGED <<retries, nextItem, results, job>>

RequestNext ==
  \/ StartJob
  \/ TakeItem
  \/ \E c \in Calls : Send(c) \/ Wake(c) \/ (\E a \in Answers : Answer(c, a))

RequestSpec == RequestInit /\ [][RequestNext]_requestVars

-----------------------------------------------------------------------------
RequestTypeOK ==
  /\ phase \in [Calls -> Phases]
  /\ retries \in [Calls -> 0 .. OutageRetries + 1]
  /\ inFlight \in 0 .. MAX_REQUESTS_IN_FLIGHT
  /\ waiting \in Seq(Calls) /\ IsInjective(waiting)
  /\ nextItem \in 1 .. JobItems + 1
  /\ results \in [Items -> Answers \cup {"none", "threw"}]
  /\ job \in {"idle", "running", "done", "rejected"}

\* takeSlot, giveSlot: no slot is ever lost or counted twice, whatever
\* answers, throws or retries happen: the counter is the number of requests
\* that are open, the queue holds exactly the calls that wait, and nobody
\* waits while a slot is free.
SlotsExact ==
  /\ inFlight = Cardinality(Open)
  /\ inFlight <= MAX_REQUESTS_IN_FLIGHT
  /\ ToSet(waiting) = {c \in Calls : phase[c] = "queued"}
  /\ waiting # <<>> => inFlight = MAX_REQUESTS_IN_FLIGHT

\* mapWithConcurrency: no index is left out or taken twice, every result lies
\* at the index of its item in whatever order the answers come, and never
\* are more workers at it than the limit; a job is done only with all.
JobInOrder ==
  /\ Cardinality(Workers) <= JobLimit
  /\ \A i \in Items :
       /\ results[i] # "none" <=> Settled(i)
       /\ results[i] \in Answers => results[i] = phase[i]
       /\ phase[i] = "unsent" <=> i >= nextItem
  /\ job = "done" => \A i \in Items : results[i] \in Answers

\* Every request that is made is answered for good in the end: the queue
\* starves nobody, and the retries come to an end.
EveryCallSettles == \A c \in Calls : phase[c] # "unsent" ~> Settled(c)
=============================================================================

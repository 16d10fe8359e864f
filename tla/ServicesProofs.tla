--------------------------- MODULE ServicesProofs ---------------------------
(***************************************************************************)
(* What the one door of all requests, the licence record and the           *)
(* properties of a note guarantee, for all values of their constants.      *)
(***************************************************************************)
EXTENDS NoteProperties, Requests, Licence, Integers, SequenceTheorems, FiniteSetTheorems, TLAPS

-----------------------------------------------------------------------------
(***************************************************************************)
(* What the one door of all requests guarantees for every number of slots, *)
(* of calls, of items and of workers: no slot is lost, and a job's results *)
(* lie where their items do.                                               *)
(***************************************************************************)

LEMMA CallsFinite == IsFiniteSet(Calls) /\ IsFiniteSet(Items)
<1>1. IsFiniteSet(Items)
  BY RequestsAssumption, FS_Interval DEF Items
<1>2. IsFiniteSet(Items \cup (ReadCalls \cup PoliteCalls \cup PlainCalls))
  BY <1>1, RequestsAssumption, FS_Union
<1>3. Calls = Items \cup (ReadCalls \cup PoliteCalls \cup PlainCalls)
  BY DEF Calls
<1> QED BY <1>1, <1>2, <1>3

-----------------------------------------------------------------------------
(* The queue: its first call leaves it, another joins at its end.           *)

LEMMA FirstLeaves == ASSUME NEW S, NEW s \in Seq(S), s # <<>>, IsInjective(s)
                     PROVE  /\ Head(s) \in ToSet(s) /\ Tail(s) \in Seq(S) /\ IsInjective(Tail(s))
                            /\ ToSet(Tail(s)) = ToSet(s) \ {Head(s)}
<1>1. /\ Tail(s) \in Seq(S) /\ Len(Tail(s)) = Len(s) - 1
      /\ \A i \in 1 .. Len(Tail(s)) : Tail(s)[i] = s[i + 1]
  BY HeadTailProperties
<1>2. Len(s) \in Nat \ {0} /\ DOMAIN s = 1 .. Len(s) /\ DOMAIN Tail(s) = 1 .. (Len(s) - 1) /\ Head(s) = s[1]
  BY <1>1, LenProperties, EmptySeq
<1>3. \A i, j \in 1 .. Len(s) : s[i] = s[j] => i = j
  BY <1>2 DEF IsInjective
<1>4. IsInjective(Tail(s))
  BY <1>1, <1>2, <1>3 DEF IsInjective
<1>5. ToSet(s) = {s[i] : i \in 1 .. Len(s)} /\ ToSet(Tail(s)) = {Tail(s)[i] : i \in 1 .. (Len(s) - 1)}
  BY <1>2 DEF ToSet
<1>6. ASSUME NEW x \in ToSet(s), x # Head(s) PROVE x \in ToSet(Tail(s))
  <2>1. PICK i \in 1 .. Len(s) : x = s[i]
    BY <1>5
  <2>2. i # 1 /\ i - 1 \in 1 .. (Len(s) - 1) /\ Tail(s)[i - 1] = s[i]
    BY <1>1, <1>2, <1>6, <2>1
  <2> QED BY <1>5, <2>1, <2>2
<1>7. ASSUME NEW x \in ToSet(Tail(s)) PROVE x \in ToSet(s) /\ x # Head(s)
  <2>1. PICK i \in 1 .. (Len(s) - 1) : x = Tail(s)[i]
    BY <1>5
  <2>2. i + 1 \in 1 .. Len(s) /\ i + 1 # 1 /\ x = s[i + 1] /\ 1 \in 1 .. Len(s)
    BY <1>1, <1>2, <2>1
  <2> QED BY <1>2, <1>3, <1>5, <2>2
<1>8. Head(s) \in ToSet(s)
  BY <1>2, <1>5
<1> QED BY <1>1, <1>4, <1>6, <1>7, <1>8

LEMMA LastJoins == ASSUME NEW S, NEW s \in Seq(S), NEW x \in S, x \notin ToSet(s), IsInjective(s)
                   PROVE  /\ Append(s, x) \in Seq(S) /\ IsInjective(Append(s, x)) /\ Append(s, x) # <<>>
                          /\ ToSet(Append(s, x)) = ToSet(s) \cup {x}
<1> DEFINE t == Append(s, x)
<1>1. /\ t \in Seq(S) /\ t # <<>> /\ Len(t) = Len(s) + 1
      /\ \A i \in 1 .. Len(s) : t[i] = s[i]
      /\ t[Len(s) + 1] = x
  BY AppendProperties
<1>2. Len(s) \in Nat /\ DOMAIN s = 1 .. Len(s) /\ DOMAIN t = 1 .. (Len(s) + 1)
  BY <1>1, LenProperties
<1> HIDE DEF t
<1>3. \A i \in 1 .. Len(s) : s[i] # x
  BY <1>2 DEF ToSet
<1>4. IsInjective(t)
  BY <1>1, <1>2, <1>3 DEF IsInjective
<1>5. ToSet(t) = ToSet(s) \cup {x}
  <2>1. \A y \in ToSet(t) : y \in ToSet(s) \/ y = x
    BY <1>1, <1>2 DEF ToSet
  <2>2. \A y \in ToSet(s) : y \in ToSet(t)
    BY <1>1, <1>2 DEF ToSet
  <2>3. x \in ToSet(t)
    BY <1>1, <1>2 DEF ToSet
  <2> QED BY <2>1, <2>2, <2>3
<1> QED BY <1>1, <1>4, <1>5 DEF t

-----------------------------------------------------------------------------
(* takeSlot and giveSlot.                                                   *)

SlotTypes == /\ phase \in [Calls -> Phases] /\ inFlight \in 0 .. MAX_REQUESTS_IN_FLIGHT
             /\ waiting \in Seq(Calls) /\ IsInjective(waiting)

LEMMA OpenFinite == ASSUME SlotTypes PROVE IsFiniteSet(Open) /\ Cardinality(Open) \in Nat
  BY CallsFinite, FS_Subset, FS_CardinalityType DEF Open

LEMMA SlotTaken == ASSUME SlotTypes, SlotsExact, NEW c \in Calls, phase[c] \in {"unsent", "pausing"}, TakeSlot(c)
                   PROVE  /\ SlotTypes' /\ SlotsExact'
                          /\ phase' = [phase EXCEPT ![c] = phase'[c]] /\ phase'[c] \in {"open", "queued"}
<1>1. MAX_REQUESTS_IN_FLIGHT \in Nat
  BY RequestsAssumption
<1>2. CASE inFlight < MAX_REQUESTS_IN_FLIGHT
  <2>1. inFlight' = inFlight + 1 /\ phase' = [phase EXCEPT ![c] = "open"] /\ waiting' = waiting
    BY <1>2 DEF TakeSlot
  <2>2. c \notin Open /\ Open' = Open \cup {c}
    BY <2>1 DEF Open, SlotTypes
  <2>3. Cardinality(Open') = Cardinality(Open) + 1
    BY <2>2, OpenFinite, FS_AddElement
  <2>4. {d \in Calls : phase'[d] = "queued"} = {d \in Calls : phase[d] = "queued"}
    BY <2>1 DEF SlotTypes
  <2>5. waiting = <<>>
    BY <1>2 DEF SlotsExact, SlotTypes
  <2>6. SlotsExact'
    BY <1>1, <1>2, <2>1, <2>3, <2>4, <2>5 DEF SlotsExact, SlotTypes
  <2>7. SlotTypes'
    BY <1>1, <1>2, <2>1 DEF SlotTypes, Phases
  <2> QED BY <2>1, <2>6, <2>7 DEF SlotTypes
<1>3. CASE ~(inFlight < MAX_REQUESTS_IN_FLIGHT)
  <2>1. inFlight' = inFlight /\ phase' = [phase EXCEPT ![c] = "queued"] /\ waiting' = Append(waiting, c)
    BY <1>3 DEF TakeSlot
  <2>2. Open' = Open
    BY <2>1 DEF Open, SlotTypes
  <2>3. {d \in Calls : phase'[d] = "queued"} = {d \in Calls : phase[d] = "queued"} \cup {c}
    BY <2>1 DEF SlotTypes
  <2>4. c \notin ToSet(waiting)
    BY DEF SlotsExact
  <2>5. waiting' \in Seq(Calls) /\ IsInjective(waiting') /\ ToSet(waiting') = ToSet(waiting) \cup {c}
    BY <2>1, <2>4, LastJoins DEF SlotTypes
  <2>6. inFlight = MAX_REQUESTS_IN_FLIGHT
    BY <1>1, <1>3 DEF SlotTypes
  <2>7. SlotsExact'
    BY <1>1, <2>1, <2>2, <2>3, <2>5, <2>6 DEF SlotsExact, SlotTypes
  <2>8. SlotTypes'
    BY <2>1, <2>5 DEF SlotTypes, Phases
  <2> QED BY <2>1, <2>7, <2>8 DEF SlotTypes
<1> QED BY <1>2, <1>3

\* A freed slot passes to the first call that waits, and only else to the counter.
LEMMA SlotGiven == ASSUME SlotTypes, SlotsExact, NEW c \in Calls, phase[c] = "open",
                          NEW a \in Answers \cup {"pausing"}, GiveSlot([phase EXCEPT ![c] = a])
                   PROVE  /\ SlotTypes' /\ SlotsExact'
                          /\ phase'[c] = a
                          /\ \A d \in Calls \ {c} : phase'[d] = phase[d] \/ (phase[d] = "queued" /\ phase'[d] = "open")
<1>0. a \notin {"open", "queued"} /\ a \in Phases
  BY DEF Answers, Phases
<1>1. MAX_REQUESTS_IN_FLIGHT \in Nat
  BY RequestsAssumption
<1>2. c \in Open /\ IsFiniteSet(Open) /\ Cardinality(Open) \in Nat
  BY OpenFinite DEF Open
<1>3. CASE waiting = <<>>
  <2>1. inFlight' = inFlight - 1 /\ phase' = [phase EXCEPT ![c] = a] /\ waiting' = <<>>
    BY <1>3 DEF GiveSlot
  <2>2. Open' = Open \ {c}
    BY <1>0, <2>1 DEF Open, SlotTypes
  <2>3. Cardinality(Open') = Cardinality(Open) - 1 /\ Cardinality(Open') \in Nat
    BY <1>2, <2>2, FS_RemoveElement, FS_CardinalityType
  <2>4. {d \in Calls : phase'[d] = "queued"} = {d \in Calls : phase[d] = "queued"}
    BY <1>0, <2>1 DEF SlotTypes
  <2>5. SlotsExact'
    BY <1>1, <1>3, <2>1, <2>3, <2>4 DEF SlotsExact, SlotTypes
  <2>6. SlotTypes'
    BY <1>0, <1>1, <1>3, <2>1, <2>3 DEF SlotTypes, SlotsExact
  <2> QED BY <2>1, <2>5, <2>6 DEF SlotTypes
<1>4. CASE waiting # <<>>
  <2> DEFINE h == Head(waiting)
  <2>1. inFlight' = inFlight /\ phase' = [[phase EXCEPT ![c] = a] EXCEPT ![h] = "open"] /\ waiting' = Tail(waiting)
    BY <1>4 DEF GiveSlot
  <2>2. /\ h \in ToSet(waiting) /\ waiting' \in Seq(Calls) /\ IsInjective(waiting')
        /\ ToSet(waiting') = ToSet(waiting) \ {h}
    BY <1>4, <2>1, FirstLeaves DEF SlotTypes
  <2> HIDE DEF h
  <2>3. h \in Calls /\ phase[h] = "queued" /\ h # c
    BY <2>2 DEF SlotsExact
  <2>4. /\ phase' \in [Calls -> Phases] /\ phase'[c] = a /\ phase'[h] = "open"
        /\ \A d \in Calls \ {c, h} : phase'[d] = phase[d]
    BY <1>0, <2>1, <2>3 DEF SlotTypes, Phases
  <2>5. Open' = (Open \ {c}) \cup {h} /\ h \notin Open \ {c}
    BY <1>0, <2>3, <2>4 DEF Open
  <2>6. /\ IsFiniteSet(Open \ {c}) /\ Cardinality(Open \ {c}) = Cardinality(Open) - 1
        /\ Cardinality((Open \ {c}) \cup {h}) = Cardinality(Open \ {c}) + 1
    BY <1>2, <2>5, FS_RemoveElement, FS_AddElement
  <2>7. Cardinality(Open') = Cardinality(Open)
    BY <1>2, <2>5, <2>6
  <2>8. {d \in Calls : phase'[d] = "queued"} = {d \in Calls : phase[d] = "queued"} \ {h}
    BY <1>0, <2>3, <2>4
  <2>9. SlotsExact'
    BY <1>1, <1>4, <2>1, <2>2, <2>7, <2>8 DEF SlotsExact, SlotTypes
  <2>10. SlotTypes'
    BY <2>1, <2>2, <2>4 DEF SlotTypes
  <2> QED BY <2>3, <2>4, <2>9, <2>10
<1> QED BY <1>3, <1>4

-----------------------------------------------------------------------------
(* The invariant: a job that saw a throw is rejected, and stays it.         *)

ThrowsReject == (\E i \in Items : results[i] = "threw") => job = "rejected"

DoorInvariant == RequestTypeOK /\ SlotsExact /\ JobInOrder /\ ThrowsReject

LEMMA DoorSlots == ASSUME RequestTypeOK PROVE SlotTypes
  BY DEF RequestTypeOK, SlotTypes

LEMMA WorkersFinite == IsFiniteSet(Workers) /\ Cardinality(Workers) \in Nat
  BY CallsFinite, FS_Subset, FS_CardinalityType DEF Workers

LEMMA DoorInit == ASSUME RequestInit PROVE DoorInvariant
<1>1. Items \subseteq Calls
  BY DEF Calls
<1>2. Open = {} /\ Workers = {} /\ ToSet(waiting) = {} /\ {c \in Calls : phase[c] = "queued"} = {}
  BY <1>1 DEF RequestInit, Open, Workers, ToSet
<1>3. RequestTypeOK
  BY RequestsAssumption DEF RequestInit, RequestTypeOK, Phases, IsInjective
<1>4. SlotsExact
  BY <1>2, FS_EmptySet, RequestsAssumption DEF RequestInit, SlotsExact
<1>5. JobInOrder
  BY <1>1, <1>2, FS_EmptySet, RequestsAssumption DEF RequestInit, JobInOrder, Settled, Answers, Items
<1>6. ThrowsReject
  BY DEF RequestInit, ThrowsReject
<1> QED BY <1>3, <1>4, <1>5, <1>6 DEF DoorInvariant

\* A call that has not been sent yet, or waits out an answer, asks for a slot.
LEMMA Asks == ASSUME DoorInvariant, NEW c \in Calls, phase[c] \in {"unsent", "pausing"}, TakeSlot(c),
                     UNCHANGED <<retries, results, job>>
              PROVE  /\ nextItem' \in 1 .. JobItems + 1 => RequestTypeOK'
                     /\ SlotsExact' /\ ThrowsReject'
                     /\ phase' = [phase EXCEPT ![c] = phase'[c]] /\ phase'[c] \in {"open", "queued"}
<1>1. SlotTypes' /\ SlotsExact' /\ phase' = [phase EXCEPT ![c] = phase'[c]] /\ phase'[c] \in {"open", "queued"}
  BY DoorSlots, SlotTaken DEF DoorInvariant
<1>2. nextItem' \in 1 .. JobItems + 1 => RequestTypeOK'
  BY <1>1 DEF DoorInvariant, RequestTypeOK, SlotTypes
<1> QED BY <1>1, <1>2 DEF DoorInvariant, ThrowsReject

LEMMA StartKeeps == ASSUME DoorInvariant, StartJob PROVE DoorInvariant'
<1>1. /\ phase' = phase /\ retries' = retries /\ inFlight' = inFlight /\ waiting' = waiting /\ nextItem' = nextItem
      /\ results' = results /\ job = "idle" /\ job' = "running"
  BY DEF StartJob
<1>2. Workers' = Workers /\ Open' = Open
  BY <1>1 DEF Workers, Open
<1> QED BY <1>1, <1>2 DEF DoorInvariant, RequestTypeOK, SlotsExact, JobInOrder, ThrowsReject, Settled

LEMMA TakeKeeps == ASSUME DoorInvariant, TakeItem PROVE DoorInvariant'
<1>1. nextItem \in Items /\ nextItem \in Calls /\ JobItems \in Nat /\ JobLimit \in Nat
  BY RequestsAssumption DEF TakeItem, DoorInvariant, RequestTypeOK, Items, Calls
<1>2. phase[nextItem] = "unsent"
  BY <1>1 DEF DoorInvariant, JobInOrder, Items
<1>3. TakeSlot(nextItem) /\ UNCHANGED <<retries, results, job>> /\ nextItem' = nextItem + 1
  BY DEF TakeItem
<1>4. /\ RequestTypeOK' /\ SlotsExact' /\ ThrowsReject'
      /\ phase' = [phase EXCEPT ![nextItem] = phase'[nextItem]] /\ phase'[nextItem] \in {"open", "queued"}
  <2>1. nextItem' \in 1 .. JobItems + 1
    BY <1>1, <1>3 DEF Items
  <2> QED BY <1>1, <1>2, <1>3, <2>1, Asks
<1>5. \A i \in Items \ {nextItem} : phase'[i] = phase[i]
  BY <1>4 DEF DoorInvariant, RequestTypeOK, Calls
<1>6. Cardinality(Workers') <= JobLimit
  <2>1. Workers' = Workers \cup {nextItem} /\ nextItem \notin Workers
    BY <1>1, <1>2, <1>4, <1>5 DEF Workers
  <2>2. Cardinality(Workers') = Cardinality(Workers) + 1
    BY <2>1, WorkersFinite, FS_AddElement
  <2>3. Cardinality({i \in Items : results[i] = "threw"}) \in Nat
    BY CallsFinite, FS_Subset, FS_CardinalityType
  <2>4. Cardinality(Workers) + Cardinality({i \in Items : results[i] = "threw"}) < JobLimit
    BY <1>1, <2>3, WorkersFinite DEF TakeItem
  <2> QED BY <1>1, <2>2, <2>3, <2>4, WorkersFinite
<1>7. JobInOrder'
  <2>1. ASSUME NEW i \in Items
        PROVE  /\ results'[i] # "none" <=> Settled(i)'
               /\ results'[i] \in Answers => results'[i] = phase'[i]
               /\ phase'[i] = "unsent" <=> i >= nextItem'
    <3>1. CASE i = nextItem
      BY <1>1, <1>2, <1>3, <1>4, <3>1 DEF DoorInvariant, JobInOrder, Settled, Answers, Items
    <3>2. CASE i # nextItem
      BY <1>1, <1>3, <1>5, <3>2, SMTT(30) DEF DoorInvariant, JobInOrder, Settled, Items, RequestTypeOK
    <3> QED BY <3>1, <3>2
  <2> QED BY <1>3, <1>6, <2>1 DEF JobInOrder, DoorInvariant
<1> QED BY <1>4, <1>7 DEF DoorInvariant

\* A step that leaves the job's items alone, or lets one that was asked for be asked again.
LEMMA OrderStays == ASSUME DoorInvariant, UNCHANGED <<nextItem, results, job>>,
                           \A i \in Items : \/ phase'[i] = phase[i]
                                            \/ phase[i] \in {"queued", "open", "pausing"} /\ phase'[i] \in {"queued", "open", "pausing"}
                    PROVE  JobInOrder' /\ ThrowsReject'
<1>1. Workers' = Workers
  BY DEF Workers
<1>2. \A i \in Items : /\ Settled(i)' <=> Settled(i)
                       /\ phase'[i] = "unsent" <=> phase[i] = "unsent"
                       /\ results[i] \in Answers => phase'[i] = phase[i]
  <2> SUFFICES ASSUME NEW i \in Items PROVE /\ Settled(i)' <=> Settled(i)
                                            /\ phase'[i] = "unsent" <=> phase[i] = "unsent"
                                            /\ results[i] \in Answers => phase'[i] = phase[i]
    OBVIOUS
  <2>1. results[i] \in Answers => Settled(i)
    BY DEF DoorInvariant, JobInOrder, Answers
  <2>2. CASE phase'[i] = phase[i]
    BY <2>2 DEF Settled
  <2>3. CASE phase[i] \in {"queued", "open", "pausing"} /\ phase'[i] \in {"queued", "open", "pausing"}
    BY <2>1, <2>3 DEF Settled, Answers
  <2> QED BY <2>2, <2>3
<1>3. JobInOrder'
  <2>1. \A i \in Items : /\ results'[i] # "none" <=> Settled(i)'
                         /\ results'[i] \in Answers => results'[i] = phase'[i]
                         /\ phase'[i] = "unsent" <=> i >= nextItem'
    BY <1>2 DEF DoorInvariant, JobInOrder
  <2> QED BY <1>1, <2>1 DEF DoorInvariant, JobInOrder
<1> QED BY <1>3 DEF DoorInvariant, ThrowsReject

LEMMA SendKeeps == ASSUME DoorInvariant, NEW c \in Calls, Send(c) \/ Wake(c) PROVE DoorInvariant'
<1>1. /\ TakeSlot(c) /\ UNCHANGED <<retries, nextItem, results, job>>
      /\ phase[c] = "pausing" \/ (phase[c] = "unsent" /\ c \notin Items)
  BY DEF Send, Wake
<1>2. /\ nextItem' \in 1 .. JobItems + 1 => RequestTypeOK'
      /\ SlotsExact' /\ phase' = [phase EXCEPT ![c] = phase'[c]] /\ phase'[c] \in {"open", "queued"}
  BY <1>1, Asks
<1>3. RequestTypeOK'
  BY <1>1, <1>2 DEF DoorInvariant, RequestTypeOK
<1>4. \A i \in Items : \/ phase'[i] = phase[i]
                       \/ phase[i] \in {"queued", "open", "pausing"} /\ phase'[i] \in {"queued", "open", "pausing"}
  BY <1>1, <1>2 DEF DoorInvariant, RequestTypeOK, Calls
<1> QED BY <1>1, <1>2, <1>3, <1>4, OrderStays DEF DoorInvariant

LEMMA AnswerKeeps == ASSUME DoorInvariant, NEW c \in Calls, NEW a \in Answers, Answer(c, a) PROVE DoorInvariant'
<1>0. phase[c] = "open" /\ nextItem' = nextItem /\ a \notin {"unsent", "open", "queued", "pausing", "none", "threw"}
  BY DEF Answer, Answers
<1>1. CASE AskedAgain(c, a)
  <2>1. GiveSlot([phase EXCEPT ![c] = "pausing"]) /\ retries' = [retries EXCEPT ![c] = @ - 1] /\ UNCHANGED <<results, job>>
    BY <1>1 DEF Answer
  <2>2. /\ SlotTypes' /\ SlotsExact' /\ phase'[c] = "pausing"
        /\ \A d \in Calls \ {c} : phase'[d] = phase[d] \/ (phase[d] = "queued" /\ phase'[d] = "open")
    BY <1>0, <2>1, SlotGiven, DoorSlots DEF DoorInvariant
  <2>3. retries' \in [Calls -> 0 .. OutageRetries + 1]
    BY <1>1, <2>1, RequestsAssumption DEF AskedAgain, DoorInvariant, RequestTypeOK
  <2>4. RequestTypeOK'
    BY <1>0, <2>1, <2>2, <2>3 DEF DoorInvariant, RequestTypeOK, SlotTypes
  <2>5. \A i \in Items : \/ phase'[i] = phase[i]
                         \/ phase[i] \in {"queued", "open", "pausing"} /\ phase'[i] \in {"queued", "open", "pausing"}
    BY <1>0, <2>2 DEF Calls
  <2> QED BY <1>0, <2>1, <2>2, <2>4, <2>5, OrderStays DEF DoorInvariant
<1>2. CASE ~AskedAgain(c, a)
  <2>1. GiveSlot([phase EXCEPT ![c] = a]) /\ Collected(c, a) /\ retries' = retries
    BY <1>2 DEF Answer
  <2>2. /\ SlotTypes' /\ SlotsExact' /\ phase'[c] = a
        /\ \A d \in Calls \ {c} : phase'[d] = phase[d] \/ (phase[d] = "queued" /\ phase'[d] = "open")
    BY <1>0, <2>1, SlotGiven, DoorSlots DEF DoorInvariant
  <2>3. \A i \in Items \ {c} : \/ phase'[i] = phase[i]
                               \/ phase[i] \in {"queued", "open", "pausing"} /\ phase'[i] \in {"queued", "open", "pausing"}
    BY <2>2 DEF Calls
  <2>4. CASE c \notin Items
    <3>1. UNCHANGED <<results, job>>
      BY <2>1, <2>4 DEF Collected
    <3>2. RequestTypeOK'
      BY <1>0, <2>1, <2>2, <3>1 DEF DoorInvariant, RequestTypeOK, SlotTypes
    <3> QED BY <1>0, <2>2, <2>3, <2>4, <3>1, <3>2, OrderStays DEF DoorInvariant
  <2>5. CASE c \in Items
    <3> DEFINE r == [results EXCEPT ![c] = IF a = "error" THEN "threw" ELSE a]
    <3>1. /\ results' = r
          /\ job' = IF a = "error" THEN "rejected"
                    ELSE IF job = "running" /\ \A i \in Items : r[i] # "none" THEN "done" ELSE job
      BY <2>1, <2>5 DEF Collected
    <3>2. /\ results' \in [Items -> Answers \cup {"none", "threw"}]
          /\ results'[c] = (IF a = "error" THEN "threw" ELSE a)
          /\ \A i \in Items \ {c} : results'[i] = results[i]
      BY <2>5, <3>1 DEF DoorInvariant, RequestTypeOK
    <3>3. /\ a = "error" => job' = "rejected"
          /\ a # "error" => \/ job = "running" /\ (\A i \in Items : results'[i] # "none") /\ job' = "done"
                            \/ job' = job
      <4>1. CASE a = "error"
        BY <3>1, <4>1
      <4>2. CASE a # "error" /\ job = "running" /\ \A i \in Items : r[i] # "none"
        BY <3>1, <4>2
      <4>3. CASE a # "error" /\ ~(job = "running" /\ \A i \in Items : r[i] # "none")
        BY <3>1, <4>3
      <4> QED BY <4>1, <4>2, <4>3
    <3> HIDE DEF r
    <3>4. RequestTypeOK'
      BY <1>0, <2>1, <2>2, <3>2, <3>3 DEF DoorInvariant, RequestTypeOK, SlotTypes
    <3>5. ThrowsReject'
      BY <1>0, <2>5, <3>2, <3>3 DEF DoorInvariant, ThrowsReject
    <3>6. Cardinality(Workers') <= JobLimit
      <4>1. Workers' \subseteq Workers
        BY <1>0, <2>2, <2>3 DEF Workers
      <4>2. Cardinality(Workers') <= Cardinality(Workers) /\ Cardinality(Workers') \in Nat
        BY <4>1, WorkersFinite, FS_Subset, FS_CardinalityType
      <4> QED BY <4>2, WorkersFinite, RequestsAssumption DEF DoorInvariant, JobInOrder
    <3>7. ASSUME NEW i \in Items
          PROVE  /\ results'[i] # "none" <=> Settled(i)'
                 /\ results'[i] \in Answers => results'[i] = phase'[i]
                 /\ phase'[i] = "unsent" <=> i >= nextItem'
      <4>1. CASE i = c
        BY <1>0, <2>2, <3>2, <4>1 DEF Settled, DoorInvariant, JobInOrder, Answers
      <4>2. CASE i # c
        BY <1>0, <2>3, <3>2, <4>2 DEF Settled, DoorInvariant, JobInOrder, Answers
      <4> QED BY <4>1, <4>2
    <3>8. job' = "done" => \A i \in Items : results'[i] \in Answers
      BY <1>0, <3>2, <3>3, <3>5 DEF DoorInvariant, JobInOrder, ThrowsReject
    <3>9. JobInOrder'
      BY <3>6, <3>7, <3>8 DEF JobInOrder
    <3> QED BY <2>2, <3>4, <3>5, <3>9 DEF DoorInvariant
  <2> QED BY <2>4, <2>5
<1> QED BY <1>1, <1>2

\* obsidianFetch, mapWithConcurrency: every caller holds one slot or waits, every job's workers and results match the
\* indices handed out, in every behaviour.
THEOREM DoorInvariance == RequestSpec => []DoorInvariant
<1>1. DoorInvariant /\ [RequestNext]_requestVars => DoorInvariant'
  <2> SUFFICES ASSUME DoorInvariant, [RequestNext]_requestVars PROVE DoorInvariant'
    OBVIOUS
  <2>1. CASE UNCHANGED requestVars
    <3>1. Workers' = Workers /\ Open' = Open
      BY <2>1 DEF requestVars, Workers, Open
    <3> QED BY <2>1, <3>1 DEF requestVars, DoorInvariant, RequestTypeOK, SlotsExact, JobInOrder, ThrowsReject, Settled
  <2> QED BY <2>1, StartKeeps, TakeKeeps, SendKeeps, AnswerKeeps DEF RequestNext
<1> QED BY <1>1, DoorInit, PTL DEF RequestSpec

\* obsidianFetch: for every number of slots, calls and retries, no slot is ever lost or counted twice, and nobody
\* waits while one is free.
THEOREM SlotsAreExact == RequestSpec => []SlotsExact
  BY DoorInvariance, PTL DEF DoorInvariant

\* mapWithConcurrency: for every list and limit, no index is left out or taken twice, each result lies at the
\* index of its item, never are more workers on it than the limit, and a job is done only with every answer.
THEOREM JobsAreInOrder == RequestSpec => []JobInOrder
  BY DoorInvariance, PTL DEF DoorInvariant

-----------------------------------------------------------------------------
(***************************************************************************)
(* What the licence record guarantees for every interval, every number of  *)
(* slots and every day: its types, the one trial of a vault, and that      *)
(* silence never takes a confirmed licence away.                           *)
(***************************************************************************)

\* A record as it may stand in data.json, or in the hands of a call: on some day, after some activations, for a
\* vault with this ticket or with none.
Good(l, day, given, tk) ==
  /\ l \in [key : Keys \cup {None}, activation : (1 .. given) \cup {None}, validated : (0 .. day) \cup {None},
            revoked : BOOLEAN, trial : (0 .. MaxDay) \cup {None}, proven : BOOLEAN, told : BOOLEAN]
  /\ l.trial # None => l.trial = tk
  /\ l.validated # None => l.key = Bought

GoodNow(l) == Good(l, today, handed, ticket)

Polar ==
  /\ today \in 0 .. MaxDay /\ withdrawn \in BOOLEAN
  /\ handed \in 0 .. MaxActivations /\ slots \subseteq 1 .. handed
  /\ ticket \in (0 .. MaxDay) \cup {None}

\* A check is made of a key; a key that is pasted is one.
CallsTyped ==
  /\ checks = [c \in Checks |-> [pc |-> checks[c].pc, seen |-> checks[c].seen]]
  /\ \A c \in Checks : /\ checks[c].pc \in {"idle", "activate", "validate", "reactivate"}
                       /\ checks[c].pc # "idle" => checks[c].seen.key # None
  /\ user = [pc |-> user.pc, seen |-> user.seen, key |-> user.key]
  /\ user.pc \in {"idle", "pasting", "deactivating", "trial"}
  /\ user.pc = "pasting" => user.key \in Keys

AllGood == GoodNow(licence) /\ GoodNow(user.seen) /\ \A c \in Checks : GoodNow(checks[c].seen)

LicenceInvariant == Polar /\ CallsTyped /\ AllGood

-----------------------------------------------------------------------------
(* What each change of the record keeps.                                    *)

LEMMA Bounds == MaxDay \in Nat /\ MaxActivations \in Nat /\ TRIAL_DAYS \in Nat /\ CHECK_INTERVAL_DAYS \in Nat
                /\ Bought # Typo /\ Bought # None /\ Typo # None
  BY LicenceAssumption

LEMMA GoodLater == ASSUME NEW l, NEW day \in Nat, NEW given \in Nat, NEW tk, Good(l, day, given, tk),
                          NEW day2 \in Nat, NEW given2 \in Nat, NEW tk2,
                          day <= day2, given <= given2, tk2 = tk \/ tk = None
                   PROVE  Good(l, day2, given2, tk2)
<1>1. 1 .. given \subseteq 1 .. given2 /\ 0 .. day \subseteq 0 .. day2
  OBVIOUS
<1> QED BY <1>1 DEF Good

LEMMA FreshGood == ASSUME Polar PROVE GoodNow(NO_LICENCE) /\ NO_LICENCE.told = FALSE
  BY LicenceAssumption DEF GoodNow, Good, NO_LICENCE

LEMMA ToldGood == ASSUME NEW l, NEW day, NEW given, NEW tk, Good(l, day, given, tk), NEW b \in BOOLEAN
                  PROVE  Good([l EXCEPT !.told = b], day, given, tk) /\ [l EXCEPT !.told = b].told = b
  BY DEF Good

LEMMA OutcomeGood == ASSUME Polar, NEW l, GoodNow(l), l.key # None, NEW o \in Outcomes, o = "valid" => l.key # Typo
                     PROVE  GoodNow(ApplyOutcome(l, o)) /\ ApplyOutcome(l, o).key = l.key
<1>1. today \in (0 .. today) \cup {None}
  BY Bounds DEF Polar
<1>2. CASE o = "valid"
  <2>1. ApplyOutcome(l, o) = [l EXCEPT !.validated = today, !.revoked = FALSE, !.told = FALSE]
    BY <1>2 DEF ApplyOutcome
  <2>2. l.key = Bought
    BY <1>2 DEF GoodNow, Good, Keys
  <2> QED BY <1>1, <2>1, <2>2 DEF GoodNow, Good
<1>3. CASE o \in {"unknown-key", "withdrawn"}
  <2>1. ApplyOutcome(l, o) = [l EXCEPT !.revoked = TRUE]
    BY <1>3 DEF ApplyOutcome
  <2> QED BY <2>1 DEF GoodNow, Good
<1>4. CASE o = "unknown-activation"
  <2>1. ApplyOutcome(l, o) = [l EXCEPT !.activation = None]
    BY <1>4 DEF ApplyOutcome
  <2> QED BY <2>1 DEF GoodNow, Good
<1>5. CASE o \in {"activation-limit", "unreachable"}
  <2>1. ApplyOutcome(l, o) = l
    BY <1>5 DEF ApplyOutcome
  <2> QED BY <2>1
<1> QED BY <1>2, <1>3, <1>4, <1>5 DEF Outcomes

LEMMA ActivationGood == ASSUME Polar, NEW l, GoodNow(l), l.key = Bought, handed < MaxActivations
                        PROVE  Good(WithActivation(l, handed + 1), today, handed + 1, ticket)
<1>1. today \in (0 .. today) \cup {None} /\ handed + 1 \in 1 .. handed + 1 /\ 1 .. handed \subseteq 1 .. handed + 1
  BY Bounds DEF Polar
<1> DEFINE n == handed + 1
<1> HIDE DEF n
<1>2. WithActivation(l, n) = [l EXCEPT !.activation = n, !.validated = today, !.revoked = FALSE, !.told = FALSE]
  BY DEF WithActivation
<1>3. n \in 1 .. n
  BY <1>1 DEF n
<1>4. Good(WithActivation(l, n), today, n, ticket)
  BY <1>1, <1>2, <1>3 DEF GoodNow, Good
<1> QED BY <1>4 DEF n

LEMMA KeyGood == ASSUME NEW l, GoodNow(l), NEW k \in Keys
                 PROVE  GoodNow(WithKey(l, k)) /\ WithKey(l, k).key = k
  BY DEF GoodNow, Good, WithKey

LEMMA WithoutGood == ASSUME NEW l, GoodNow(l) PROVE GoodNow(WithoutLicence(l))
  BY DEF GoodNow, Good, WithoutLicence

LEMMA AttestedGood == ASSUME Polar, NEW l, GoodNow(l), NEW t \in {l.trial, None, today}
                      PROVE  GoodNow(AttestTrial([l EXCEPT !.trial = t, !.proven = (t \in {ticket, None})]))
<1> DEFINE b == t \in {ticket, None}
           r == [l EXCEPT !.trial = t, !.proven = b]
<1>1. t \in (0 .. MaxDay) \cup {None} /\ b \in BOOLEAN
  BY DEF Polar, GoodNow, Good
<1>2. /\ r \in [key : Keys \cup {None}, activation : (1 .. handed) \cup {None}, validated : (0 .. today) \cup {None},
                revoked : BOOLEAN, trial : (0 .. MaxDay) \cup {None}, proven : BOOLEAN, told : BOOLEAN]
      /\ r.trial = t /\ r.proven = b /\ r.validated = l.validated /\ r.key = l.key
  <2> HIDE DEF b
  <2> QED BY <1>1 DEF GoodNow, Good
<1>3. r.trial # None /\ r.proven => r.trial = ticket
  BY <1>2
<1> HIDE DEF r
<1>4. CASE r.trial # None /\ ~r.proven
  <2>1. AttestTrial(r) = [r EXCEPT !.trial = None, !.proven = TRUE]
    BY <1>4 DEF AttestTrial
  <2> QED BY <1>2, <2>1, ZenonT(40) DEF GoodNow, Good, r
<1>5. CASE ~(r.trial # None /\ ~r.proven)
  <2>1. AttestTrial(r) = r
    BY <1>5 DEF AttestTrial
  <2>2. r.trial # None => r.trial = ticket
    BY <1>2, <1>3, <1>5
  <2>3. GoodNow(r)
    BY <1>2, <2>2 DEF GoodNow, Good
  <2> QED BY <2>1, <2>3 DEF r
<1> QED BY <1>4, <1>5

-----------------------------------------------------------------------------
(* The steps.                                                               *)

LEMMA LicenceStarts == ASSUME LicenceInit PROVE LicenceInvariant
<1>1. Polar
  <2>1. 0 \in 0 .. MaxDay /\ 0 \in 0 .. MaxActivations /\ {} \subseteq 1 .. 0
    BY Bounds
  <2>2. today = 0 /\ withdrawn = FALSE /\ slots = {} /\ handed = 0 /\ ticket = None
    BY Zenon DEF LicenceInit
  <2> QED BY <2>1, <2>2 DEF Polar
<1>2. GoodNow(NO_LICENCE)
  BY <1>1, FreshGood
<1>3. CallsTyped
  BY DEF LicenceInit, CallsTyped, NoCheck, NoCall
<1>4. AllGood
  BY <1>2 DEF LicenceInit, AllGood, NoCheck, NoCall
<1> QED BY <1>1, <1>3, <1>4 DEF LicenceInvariant

\* A record stays good while the days pass, activations are handed out and the vault gets its ticket; a call that
\* begins takes the record, one that ends forgets its own.
LEMMA RecordsMove == ASSUME LicenceInvariant, Polar', CallsTyped',
                            today <= today', handed <= handed', ticket' = ticket \/ ticket = None,
                            licence' = licence \/ Good(licence', today', handed', ticket'),
                            user'.seen \in {user.seen, licence, NO_LICENCE},
                            \A c \in Checks : checks'[c].seen \in {checks[c].seen, licence, NO_LICENCE}
                     PROVE  LicenceInvariant'
<1>1. today \in Nat /\ handed \in Nat /\ today' \in Nat /\ handed' \in Nat
  BY Bounds DEF LicenceInvariant, Polar
<1>2. \A l : GoodNow(l) => Good(l, today', handed', ticket')
  BY <1>1, GoodLater DEF GoodNow
<1>3. GoodNow(NO_LICENCE) /\ GoodNow(licence) /\ GoodNow(user.seen) /\ \A c \in Checks : GoodNow(checks[c].seen)
  BY FreshGood DEF LicenceInvariant, AllGood
<1>4. Good(user'.seen, today', handed', ticket')
  BY <1>2, <1>3
<1>5. \A c \in Checks : Good(checks'[c].seen, today', handed', ticket')
  BY <1>2, <1>3
<1>6. Good(licence', today', handed', ticket')
  BY <1>2, <1>3
<1> QED BY <1>4, <1>5, <1>6 DEF LicenceInvariant, AllGood, GoodNow

LEMMA CheckEnds == ASSUME LicenceInvariant, NEW c \in Checks, checks' = [checks EXCEPT ![c] = NoCheck], user' = user
                   PROVE  CallsTyped' /\ \A d \in Checks : checks'[d].seen \in {checks[d].seen, licence, NO_LICENCE}
<1>1. NoCheck.pc = "idle" /\ NoCheck.seen = NO_LICENCE /\ NoCheck = [pc |-> NoCheck.pc, seen |-> NoCheck.seen]
  BY DEF NoCheck
<1>2. DOMAIN checks = Checks /\ \A d \in Checks : checks[d] = [pc |-> checks[d].pc, seen |-> checks[d].seen]
  BY DEF LicenceInvariant, CallsTyped
<1>3. DOMAIN checks' = Checks /\ \A d \in Checks : checks'[d] = IF d = c THEN NoCheck ELSE checks[d]
  BY <1>2
<1> QED BY <1>1, <1>2, <1>3 DEF LicenceInvariant, CallsTyped

\* What a check ends with is what it made of the record it began with, said or left to be said.
LEMMA StoreKeeps == ASSUME LicenceInvariant, Polar', NEW c \in Checks, NEW l, Good(l, today', handed', ticket'), Store(c, l),
                           today' = today, handed <= handed', ticket' = ticket, user' = user
                    PROVE  LicenceInvariant'
<1>1. CallsTyped' /\ \A d \in Checks : checks'[d].seen \in {checks[d].seen, licence, NO_LICENCE}
  BY CheckEnds DEF Store
<1>2. licence' \in {[l EXCEPT !.told = TRUE], l, licence}
  BY DEF Store
<1>3. Good([l EXCEPT !.told = TRUE], today', handed', ticket')
  BY ToldGood
<1>4. today <= today'
  BY Bounds DEF LicenceInvariant, Polar
<1> QED BY <1>1, <1>2, <1>3, <1>4, RecordsMove

LEMMA PolarStays == ASSUME LicenceInvariant, today' = today, polarVars' = polarVars, ticket' = ticket
                    PROVE  /\ Polar' /\ today <= today' /\ handed <= handed'
                           /\ \A l : GoodNow(l) => Good(l, today', handed', ticket')
  BY Bounds DEF LicenceInvariant, Polar, polarVars, GoodNow

LEMMA PolarHandsOut == ASSUME LicenceInvariant, HandOut, handed < MaxActivations, today' = today, ticket' = ticket
                       PROVE  Polar' /\ today <= today' /\ handed' = handed + 1 /\ handed <= handed'
<1>1. handed' = handed + 1 /\ slots' = slots \cup {handed + 1} /\ withdrawn' = withdrawn
  BY DEF HandOut
<1>2. handed' \in 0 .. MaxActivations /\ today <= today' /\ handed <= handed'
  BY <1>1, Bounds DEF LicenceInvariant, Polar
<1>3. slots' \subseteq 1 .. handed'
  BY <1>1, Bounds DEF LicenceInvariant, Polar
<1> QED BY <1>1, <1>2, <1>3 DEF LicenceInvariant, Polar

LEMMA WorldKeeps == ASSUME LicenceInvariant, DayPasses \/ Refund \/ \E id \in slots : FreeSlot(id) PROVE LicenceInvariant'
<1>1. /\ UNCHANGED <<handed, ticket, licence, checks, user>> /\ slots' \subseteq slots /\ withdrawn' \in BOOLEAN
      /\ today' = today \/ (today < MaxDay /\ today' = today + 1)
  BY DEF DayPasses, Refund, FreeSlot, polarVars, LicenceInvariant, Polar
<1>2. Polar' /\ today <= today' /\ handed <= handed'
  BY <1>1, Bounds DEF LicenceInvariant, Polar
<1>3. CallsTyped'
  BY <1>1 DEF LicenceInvariant, CallsTyped
<1> QED BY <1>1, <1>2, <1>3, RecordsMove

LEMMA NextCallIs == ASSUME NEW l PROVE /\ NextCall(l) \in {"none", "activate", "validate"}
                                       /\ NextCall(l) # "none" => l.key # None
  BY DEF NextCall

LEMMA BeginCheckKeeps == ASSUME LicenceInvariant, NEW c \in Checks, BeginCheck(c) PROVE LicenceInvariant'
<1>1. Polar' /\ today <= today' /\ handed <= handed' /\ ticket' = ticket /\ user' = user
  BY PolarStays DEF BeginCheck
<1>2. CASE NextCall(licence) = "none"
  <2>1. licence' = [licence EXCEPT !.told = TRUE] /\ checks' = checks
    BY <1>2 DEF BeginCheck
  <2>2. Good(licence', today', handed', ticket')
    BY <2>1, ToldGood, PolarStays DEF BeginCheck, LicenceInvariant, AllGood, GoodNow
  <2>3. CallsTyped'
    BY <1>1, <2>1 DEF LicenceInvariant, CallsTyped
  <2> QED BY <1>1, <2>1, <2>2, <2>3, RecordsMove
<1>3. CASE NextCall(licence) # "none"
  <2> DEFINE n == NextCall(licence)
  <2>1. checks' = [checks EXCEPT ![c] = [pc |-> n, seen |-> licence]] /\ licence' = licence
    BY <1>3 DEF BeginCheck
  <2>2. n \in {"activate", "validate"} /\ licence.key # None
    BY <1>3, NextCallIs
  <2> HIDE DEF n
  <2>3. /\ DOMAIN checks' = Checks
        /\ \A d \in Checks : checks'[d] = IF d = c THEN [pc |-> n, seen |-> licence] ELSE checks[d]
    BY <2>1 DEF LicenceInvariant, CallsTyped
  <2>4. CallsTyped'
    BY <1>1, <2>1, <2>2, <2>3 DEF LicenceInvariant, CallsTyped
  <2> QED BY <1>1, <2>1, <2>3, <2>4, RecordsMove
<1> QED BY <1>2, <1>3

LEMMA ValidatedKeeps == ASSUME LicenceInvariant, NEW c \in Checks, NEW o \in Outcomes, Validated(c, o) PROVE LicenceInvariant'
<1>1. /\ Polar' /\ today <= today' /\ handed <= handed' /\ ticket' = ticket /\ user' = user /\ today' = today
      /\ \A l : GoodNow(l) => Good(l, today', handed', ticket')
  BY PolarStays DEF Validated
<1> DEFINE seen == checks[c].seen
<1>2. /\ checks[c].pc = "validate" /\ o \in ValidateOutcomes(seen.key, seen.activation)
      /\ seen.key # None /\ GoodNow(seen)
  BY DEF Validated, LicenceInvariant, CallsTyped, AllGood
<1>3. CASE o = "unknown-activation"
  <2>1. checks' = [checks EXCEPT ![c].pc = "reactivate"] /\ licence' = licence
    BY <1>3 DEF Validated
  <2>2. /\ DOMAIN checks' = Checks
        /\ \A d \in Checks : checks'[d] = IF d = c THEN [pc |-> "reactivate", seen |-> seen] ELSE checks[d]
    BY <2>1 DEF LicenceInvariant, CallsTyped
  <2>3. CallsTyped'
    BY <1>1, <1>2, <2>1, <2>2, SMTT(30) DEF LicenceInvariant, CallsTyped
  <2> QED BY <1>1, <2>1, <2>2, <2>3, RecordsMove
<1>4. CASE o # "unknown-activation"
  <2>1. Store(c, ApplyOutcome(seen, o))
    BY <1>4 DEF Validated
  <2>2. o = "valid" => seen.key # Typo
    BY <1>2 DEF ValidateOutcomes
  <2>3. GoodNow(ApplyOutcome(seen, o))
    BY <1>2, <2>2, OutcomeGood DEF LicenceInvariant
  <2> HIDE DEF seen
  <2> QED BY <1>1, <2>1, <2>3, StoreKeeps
<1> QED BY <1>3, <1>4

\* The record a call for an activation works on: the one it began with, or that one without its dead activation.
Asked(c) == IF checks[c].pc = "reactivate" THEN ApplyOutcome(checks[c].seen, "unknown-activation") ELSE checks[c].seen

LEMMA AskedGood == ASSUME LicenceInvariant, NEW c \in Checks, checks[c].pc \in {"activate", "reactivate"}
                   PROVE  GoodNow(Asked(c)) /\ Asked(c).key = checks[c].seen.key /\ Asked(c).key # None
<1>1. GoodNow(checks[c].seen) /\ checks[c].seen.key # None
  BY DEF LicenceInvariant, AllGood, CallsTyped
<1>2. "unknown-activation" \in Outcomes /\ "unknown-activation" # "valid"
  BY DEF Outcomes
<1> QED BY <1>1, <1>2, OutcomeGood DEF Asked, LicenceInvariant

LEMMA ActivatedKeeps == ASSUME LicenceInvariant, NEW c \in Checks, NEW lost \in BOOLEAN, Activated(c, lost) PROVE LicenceInvariant'
<1>1. /\ checks[c].pc \in {"activate", "reactivate"} /\ Activates(Asked(c).key) /\ HandOut
      /\ Store(c, IF lost THEN Asked(c) ELSE WithActivation(Asked(c), handed + 1))
      /\ today' = today /\ ticket' = ticket /\ user' = user
  BY DEF Activated, Asked
<1>2. handed < MaxActivations /\ Asked(c).key = Bought
  BY <1>1 DEF Activates
<1>3. Polar' /\ today <= today' /\ handed' = handed + 1 /\ handed <= handed'
  BY <1>1, <1>2, PolarHandsOut
<1>4. GoodNow(Asked(c))
  BY <1>1, AskedGood
<1>5. Good(WithActivation(Asked(c), handed + 1), today', handed', ticket')
  BY <1>1, <1>2, <1>3, <1>4, ActivationGood DEF LicenceInvariant
<1>6. Good(Asked(c), today', handed', ticket')
  BY <1>1, <1>3, <1>4, GoodLater, Bounds DEF GoodNow, LicenceInvariant, Polar
<1> DEFINE l == IF lost THEN Asked(c) ELSE WithActivation(Asked(c), handed + 1)
<1>7. Good(l, today', handed', ticket') /\ Store(c, l)
  BY <1>1, <1>5, <1>6
<1> HIDE DEF l
<1> QED BY <1>1, <1>3, <1>7, StoreKeeps

LEMMA RefusedKeeps == ASSUME LicenceInvariant, NEW c \in Checks, NEW o \in Outcomes, ActivationRefused(c, o) PROVE LicenceInvariant'
<1>1. /\ checks[c].pc \in {"activate", "reactivate"} /\ o \in RefusalsOfActivate(Asked(c).key)
      /\ Store(c, ApplyOutcome(Asked(c), o))
  BY DEF ActivationRefused, Asked
<1>2. /\ Polar' /\ handed <= handed' /\ ticket' = ticket /\ user' = user /\ today' = today
      /\ \A l : GoodNow(l) => Good(l, today', handed', ticket')
  BY PolarStays DEF ActivationRefused
<1>3. o # "valid"
  BY <1>1 DEF RefusalsOfActivate
<1>4. GoodNow(ApplyOutcome(Asked(c), o))
  BY <1>1, <1>3, AskedGood, OutcomeGood DEF LicenceInvariant
<1> QED BY <1>1, <1>2, <1>4, StoreKeeps

-----------------------------------------------------------------------------
LEMMA BeginCallKeeps == ASSUME LicenceInvariant, NEW pc \in {"pasting", "deactivating", "trial"}, NEW k,
                               pc = "pasting" => k \in Keys, BeginCall(pc, k)
                        PROVE  LicenceInvariant'
<1>1. Polar' /\ today <= today' /\ handed <= handed' /\ ticket' = ticket
  BY PolarStays DEF BeginCall
<1>2. user' = [pc |-> pc, seen |-> licence, key |-> k] /\ licence' = licence /\ checks' = checks
  BY DEF BeginCall
<1>3. CallsTyped'
  BY <1>2 DEF LicenceInvariant, CallsTyped
<1> QED BY <1>1, <1>2, <1>3, RecordsMove

LEMMA CallEnds == ASSUME LicenceInvariant, user' = NoCall, checks' = checks \/ checks' = [c \in Checks |-> NoCheck]
                  PROVE  /\ CallsTyped' /\ user'.seen = NO_LICENCE
                         /\ \A c \in Checks : checks'[c].seen \in {checks[c].seen, licence, NO_LICENCE}
  BY DEF LicenceInvariant, CallsTyped, NoCall, NoCheck

LEMMA SaveKeyKeeps == ASSUME LicenceInvariant, Polar', NEW l, Good(l, today', handed', ticket'), SaveKey(l),
                             today' = today, handed <= handed', ticket' = ticket, checks' = checks
                      PROVE  LicenceInvariant'
<1>1. licence' \in {[l EXCEPT !.told = TRUE], l} /\ user' = NoCall
  BY DEF SaveKey
<1>2. Good([l EXCEPT !.told = TRUE], today', handed', ticket')
  BY ToldGood
<1>3. today <= today'
  BY Bounds DEF LicenceInvariant, Polar
<1> QED BY <1>1, <1>2, <1>3, CallEnds, RecordsMove

LEMMA PasteKeeps == ASSUME LicenceInvariant,
                           (\E lost \in BOOLEAN : Pasted(lost)) \/ (\E o \in Outcomes : PasteRefused(o))
                    PROVE  LicenceInvariant'
<1>1. GoodNow(user.seen) /\ user.pc = "pasting" /\ user.key \in Keys
  BY DEF Pasted, PasteRefused, LicenceInvariant, AllGood, CallsTyped
<1> DEFINE l == WithKey(user.seen, user.key)
<1>2. GoodNow(l) /\ l.key = user.key
  BY <1>1, KeyGood
<1> HIDE DEF l
<1>3. ASSUME NEW lost \in BOOLEAN, Pasted(lost) PROVE LicenceInvariant'
  <2>1. /\ Activates(user.key) /\ HandOut /\ SaveKey(IF lost THEN l ELSE WithActivation(l, handed + 1))
        /\ today' = today /\ ticket' = ticket /\ checks' = checks
    BY <1>3 DEF Pasted, l
  <2>2. handed < MaxActivations /\ l.key = Bought
    BY <1>2, <2>1 DEF Activates
  <2>3. Polar' /\ handed' = handed + 1 /\ handed <= handed'
    BY <2>1, <2>2, PolarHandsOut
  <2>4. Good(WithActivation(l, handed + 1), today', handed', ticket')
    BY <1>2, <2>1, <2>2, <2>3, ActivationGood DEF LicenceInvariant
  <2>5. Good(l, today', handed', ticket')
    BY <1>2, <2>1, <2>3, GoodLater, Bounds DEF GoodNow, LicenceInvariant, Polar
  <2> DEFINE r == IF lost THEN l ELSE WithActivation(l, handed + 1)
  <2>6. Good(r, today', handed', ticket') /\ SaveKey(r)
    BY <2>1, <2>4, <2>5
  <2> HIDE DEF r
  <2> QED BY <2>1, <2>3, <2>6, SaveKeyKeeps
<1>4. ASSUME NEW o \in Outcomes, PasteRefused(o) PROVE LicenceInvariant'
  <2>1. SaveKey(l) /\ checks' = checks
    BY <1>4 DEF PasteRefused, l
  <2>2. Polar' /\ handed <= handed' /\ ticket' = ticket /\ today' = today /\ Good(l, today', handed', ticket')
    BY <1>2, <1>4, PolarStays DEF PasteRefused
  <2> QED BY <2>1, <2>2, SaveKeyKeeps
<1> QED BY <1>3, <1>4

LEMMA DeactivatedKeeps == ASSUME LicenceInvariant, NEW freed \in BOOLEAN, Deactivated(freed) PROVE LicenceInvariant'
<1>1. /\ slots' \subseteq slots /\ licence' = WithoutLicence(licence) /\ user' = NoCall
      /\ UNCHANGED <<today, withdrawn, handed, ticket, checks>>
  BY DEF Deactivated
<1>2. Polar' /\ today <= today' /\ handed <= handed'
  BY <1>1, Bounds DEF LicenceInvariant, Polar
<1>3. GoodNow(WithoutLicence(licence))
  BY WithoutGood DEF LicenceInvariant, AllGood
<1>4. Good(licence', today', handed', ticket')
  BY <1>1, <1>3 DEF GoodNow
<1> QED BY <1>1, <1>2, <1>4, CallEnds, RecordsMove

\* taggedsync.com gives a vault its first day again and again: nobody ever holds another.
LEMMA TrialKeeps == ASSUME LicenceInvariant, (\E lost \in BOOLEAN : TrialStarted(lost)) \/ TrialRefused PROVE LicenceInvariant'
<1>1. CASE TrialRefused
  <2>1. user' = NoCall /\ licence' = licence /\ checks' = checks
    BY <1>1 DEF TrialRefused
  <2>2. Polar' /\ today <= today' /\ handed <= handed' /\ ticket' = ticket
    BY <1>1, PolarStays DEF TrialRefused
  <2> QED BY <2>1, <2>2, CallEnds, RecordsMove
<1>2. ASSUME NEW lost \in BOOLEAN, TrialStarted(lost) PROVE LicenceInvariant'
  <2>1. /\ ticket' = (IF ticket = None THEN today ELSE ticket)
        /\ licence' = IF lost THEN licence ELSE [user.seen EXCEPT !.trial = ticket', !.proven = TRUE]
        /\ user' = NoCall /\ UNCHANGED <<today, polarVars, checks>>
    BY <1>2 DEF TrialStarted
  <2>2. ticket' \in 0 .. MaxDay /\ (ticket' = ticket \/ ticket = None)
    BY <2>1 DEF LicenceInvariant, Polar
  <2>3. Polar' /\ today <= today' /\ handed <= handed' /\ today \in Nat /\ handed \in Nat
    BY <2>1, <2>2, Bounds DEF LicenceInvariant, Polar, polarVars
  <2>4. Good([user.seen EXCEPT !.trial = ticket', !.proven = TRUE], today', handed', ticket')
    <3>1. GoodNow(user.seen) /\ today' = today /\ handed' = handed
      BY <2>1 DEF LicenceInvariant, AllGood, polarVars
    <3> DEFINE tk == ticket'
    <3>2. tk \in 0 .. MaxDay
      BY <2>2
    <3> HIDE DEF tk
    <3>3. Good([user.seen EXCEPT !.trial = tk, !.proven = TRUE], today, handed, tk)
      BY <3>1, <3>2 DEF GoodNow, Good
    <3> QED BY <3>1, <3>3 DEF tk
  <2> QED BY <2>1, <2>2, <2>3, <2>4, CallEnds, RecordsMove
<1> QED BY <1>1, <1>2

LEMMA RestartKeeps == ASSUME LicenceInvariant, Restart PROVE LicenceInvariant'
<1>1. PICK t \in {licence.trial, None, today} :
         licence' = AttestTrial([licence EXCEPT !.trial = t, !.proven = (t \in {ticket, None})])
  BY DEF Restart
<1>2. checks' = [c \in Checks |-> NoCheck] /\ user' = NoCall /\ UNCHANGED <<today, polarVars, ticket>>
  BY DEF Restart
<1>3. Polar' /\ today <= today' /\ handed <= handed'
  BY <1>2, PolarStays
<1>4. GoodNow(AttestTrial([licence EXCEPT !.trial = t, !.proven = (t \in {ticket, None})]))
  BY AttestedGood DEF LicenceInvariant, AllGood
<1>5. Good(licence', today', handed', ticket')
  BY <1>1, <1>2, <1>4, PolarStays
<1> QED BY <1>2, <1>3, <1>5, CallEnds, RecordsMove

\* main.ts, licence-state.ts: however calls overlap, what is stored or on its way back was given by the server.
THEOREM LicenceInvariance == LicenceSpec => []LicenceInvariant
<1>1. LicenceInvariant /\ [LicenceNext]_licenceVars => LicenceInvariant'
  <2> SUFFICES ASSUME LicenceInvariant, [LicenceNext]_licenceVars PROVE LicenceInvariant'
    OBVIOUS
  <2>1. CASE UNCHANGED licenceVars
    BY <2>1 DEF licenceVars, polarVars, LicenceInvariant, Polar, CallsTyped, AllGood, GoodNow
  <2>2. ASSUME NEW c \in Checks, CheckNext(c) PROVE LicenceInvariant'
    BY <2>2, BeginCheckKeeps, ValidatedKeeps, ActivatedKeeps, RefusedKeeps DEF CheckNext
  <2>3. CASE (\E k \in Keys : Paste(k)) \/ Deactivate \/ StartTrial
    BY <2>3, BeginCallKeeps DEF Paste, Deactivate, StartTrial
  <2> QED BY <2>1, <2>2, <2>3, WorldKeeps, PasteKeeps, DeactivatedKeeps, TrialKeeps, RestartKeeps DEF LicenceNext
<1> QED BY <1>1, LicenceStarts, PTL DEF LicenceSpec

\* Every variable of the licence has its type, however calls overlap.
THEOREM LicenceTypeCorrect == LicenceSpec => []LicenceTypeOK
<1>1. LicenceInvariant => LicenceTypeOK
  BY DEF LicenceInvariant, Polar, CallsTyped, AllGood, GoodNow, Good, LicenceTypeOK
<1> QED BY <1>1, LicenceInvariance, PTL

\* trial-ticket.ts: however calls overlap and whatever data.json is edited to, a vault has the one trial
\* taggedsync.com gave it.
THEOREM OneTrialOnly == LicenceSpec => []OneTrial
<1>1. LicenceInvariant => OneTrial
  <2> SUFFICES ASSUME LicenceInvariant, Tier(licence) = "trial" PROVE ticket # None /\ today < ticket + TRIAL_DAYS
    BY DEF OneTrial
  <2>1. licence.trial # None /\ TrialRuns(licence)
    BY DEF Tier
  <2> QED BY <2>1 DEF LicenceInvariant, AllGood, GoodNow, Good, TrialRuns
<1> QED BY <1>1, LicenceInvariance, PTL

-----------------------------------------------------------------------------
(* Where one call at a time is made, each works on the record as it stands. *)

OneAtATime == Overlap = FALSE

IsPro(l) == ~l.revoked /\ l.key # None /\ l.validated # None

Alone ==
  /\ \A c \in Checks : checks[c].pc # "idle" =>
        checks[c].seen = licence /\ user.pc = "idle" /\ \A d \in Checks \ {c} : checks[d].pc = "idle"
  /\ user.pc # "idle" => user.seen = licence
  /\ user.pc = "pasting" => ~IsPro(user.seen)

LEMMA ProIs == ASSUME NEW l, l.revoked \in BOOLEAN PROVE Tier(l) = "pro" <=> IsPro(l)
<1>1. CASE l.revoked
  BY <1>1 DEF Tier, IsPro
<1>2. CASE ~l.revoked /\ l.key # None /\ l.validated # None
  BY <1>2 DEF Tier, IsPro
<1>3. CASE ~l.revoked /\ ~(l.key # None /\ l.validated # None)
  BY <1>3 DEF Tier, IsPro
<1> QED BY <1>1, <1>2, <1>3

LEMMA StoreLeavesNone == ASSUME LicenceInvariant, Alone, NEW c \in Checks, checks[c].pc # "idle",
                                checks' = [checks EXCEPT ![c] = NoCheck], user' = user
                         PROVE  Alone'
<1>1. user.pc = "idle" /\ \A d \in Checks \ {c} : checks[d].pc = "idle"
  BY DEF Alone
<1>2. NoCheck.pc = "idle" /\ DOMAIN checks = Checks
  BY DEF NoCheck, LicenceInvariant, CallsTyped
<1>3. \A d \in Checks : checks'[d].pc = "idle"
  BY <1>1, <1>2
<1> QED BY <1>1, <1>3 DEF Alone

LEMMA StoreIs == ASSUME NEW c \in Checks, NEW l, Store(c, l)
                 PROVE  /\ checks' = [checks EXCEPT ![c] = NoCheck]
                        /\ licence' \in {l, [l EXCEPT !.told = TRUE]} \/ (licence' = licence /\ l = checks[c].seen)
  BY DEF Store

LEMMA AloneStays == ASSUME OneAtATime, LicenceInvariant, Alone, LicenceNext PROVE Alone'
<1>1. CASE DayPasses \/ Refund \/ \E id \in slots : FreeSlot(id)
  <2>1. UNCHANGED <<licence, checks, user>>
    BY <1>1 DEF DayPasses, Refund, FreeSlot
  <2> QED BY <2>1 DEF Alone, IsPro
<1>2. ASSUME NEW c \in Checks, BeginCheck(c) PROVE Alone'
  <2>1. Idle /\ user' = user
    BY <1>2 DEF BeginCheck, OneAtATime
  <2>2. DOMAIN checks = Checks
    BY DEF LicenceInvariant, CallsTyped
  <2>3. CASE NextCall(licence) = "none"
    BY <1>2, <2>1, <2>3 DEF BeginCheck, Alone, Idle
  <2>4. CASE NextCall(licence) # "none"
    <3>1. checks' = [checks EXCEPT ![c] = [pc |-> NextCall(licence), seen |-> licence]] /\ licence' = licence
      BY <1>2, <2>4 DEF BeginCheck
    <3>2. \A d \in Checks : checks'[d] = IF d = c THEN [pc |-> NextCall(licence), seen |-> licence] ELSE checks[d]
      BY <2>2, <3>1
    <3>3. checks'[c].seen = licence' /\ \A d \in Checks \ {c} : checks'[d].pc = "idle"
      BY <2>1, <3>1, <3>2 DEF Idle
    <3> QED BY <2>1, <3>3 DEF Alone, Idle
  <2> QED BY <2>3, <2>4
<1>3. ASSUME NEW c \in Checks, NEW o \in Outcomes, Validated(c, o) PROVE Alone'
  <2>1. checks[c].pc # "idle" /\ user' = user
    BY <1>3 DEF Validated
  <2>2. CASE o = "unknown-activation"
    <3>1. checks' = [checks EXCEPT ![c].pc = "reactivate"] /\ licence' = licence
      BY <1>3, <2>2 DEF Validated
    <3>2. DOMAIN checks = Checks /\ checks[c] = [pc |-> checks[c].pc, seen |-> checks[c].seen]
      BY DEF LicenceInvariant, CallsTyped
    <3>3. checks'[c].seen = checks[c].seen /\ \A d \in Checks \ {c} : checks'[d] = checks[d]
      BY <3>1, <3>2
    <3> QED BY <2>1, <3>1, <3>3 DEF Alone
  <2>3. CASE o # "unknown-activation"
    BY <1>3, <2>1, <2>3, StoreIs, StoreLeavesNone DEF Validated
  <2> QED BY <2>2, <2>3
<1>4. ASSUME NEW c \in Checks, (\E lost \in BOOLEAN : Activated(c, lost)) \/ (\E o \in Outcomes : ActivationRefused(c, o))
      PROVE  Alone'
  BY <1>4, StoreIs, StoreLeavesNone DEF Activated, ActivationRefused
<1>5. ASSUME NEW pc \in {"pasting", "deactivating", "trial"}, NEW k, BeginCall(pc, k), pc = "pasting" => Tier(licence) # "pro"
      PROVE  Alone'
  <2>1. Idle /\ user' = [pc |-> pc, seen |-> licence, key |-> k] /\ licence' = licence /\ checks' = checks
    BY <1>5 DEF BeginCall, OneAtATime
  <2>2. pc = "pasting" => ~IsPro(licence)
    BY <1>5, ProIs DEF LicenceInvariant, AllGood, GoodNow, Good
  <2> QED BY <2>1, <2>2 DEF Alone, Idle
<1>6. CASE (\E k \in Keys : Paste(k)) \/ Deactivate \/ StartTrial
  BY <1>5, <1>6 DEF Paste, Deactivate, StartTrial
<1>7. ASSUME user' = NoCall, checks' = checks, user.pc # "idle" PROVE Alone'
  BY <1>7 DEF Alone, NoCall
<1>8. CASE \E b \in BOOLEAN : Pasted(b) \/ Deactivated(b) \/ TrialStarted(b)
  BY <1>7, <1>8 DEF Pasted, Deactivated, TrialStarted, SaveKey
<1>9. CASE (\E o \in Outcomes : PasteRefused(o)) \/ TrialRefused
  BY <1>7, <1>9 DEF PasteRefused, TrialRefused, SaveKey
<1>10. CASE Restart
  BY <1>10 DEF Restart, Alone, NoCheck, NoCall
<1> QED BY <1>1, <1>2, <1>3, <1>4, <1>6, <1>8, <1>9, <1>10 DEF LicenceNext, CheckNext

\* No answer but a withdrawal takes a confirmed licence out of a record.
LEMMA OutcomeKeepsPro == ASSUME LicenceInvariant, NEW l, GoodNow(l), IsPro(l), NEW o \in Outcomes,
                                o \in {"unknown-key", "withdrawn"} => withdrawn
                         PROVE  withdrawn \/ (IsPro(ApplyOutcome(l, o)) /\ ApplyOutcome(l, o).key = Bought)
<1>1. l.key = Bought /\ Bought # None
  BY Bounds DEF GoodNow, Good, IsPro
<1>2. CASE o = "valid"
  <2>1. ApplyOutcome(l, o) = [l EXCEPT !.validated = today, !.revoked = FALSE, !.told = FALSE]
    BY <1>2 DEF ApplyOutcome
  <2>2. today # None
    BY LicenceAssumption DEF LicenceInvariant, Polar
  <2> QED BY <1>1, <2>1, <2>2 DEF IsPro, GoodNow, Good
<1>3. CASE o = "unknown-activation"
  <2>1. ApplyOutcome(l, o) = [l EXCEPT !.activation = None]
    BY <1>3 DEF ApplyOutcome
  <2> QED BY <1>1, <2>1 DEF IsPro, GoodNow, Good
<1>4. CASE o \in {"activation-limit", "unreachable"}
  <2>1. ApplyOutcome(l, o) = l
    BY <1>4 DEF ApplyOutcome
  <2> QED BY <1>1, <2>1
<1> QED BY <1>2, <1>3, <1>4 DEF Outcomes

LEMMA ToldPro == ASSUME NEW l, GoodNow(l) \/ Good(l, today', handed', ticket') PROVE IsPro([l EXCEPT !.told = TRUE]) <=> IsPro(l)
  BY DEF GoodNow, Good, IsPro

LEMMA StoreKeepsPro == ASSUME Alone, NEW c \in Checks, checks[c].pc # "idle", NEW l, Store(c, l), IsPro(l),
                              GoodNow(l) \/ Good(l, today', handed', ticket')
                       PROVE  IsPro(licence')
<1>1. licence' \in {l, [l EXCEPT !.told = TRUE]} \/ (licence' = licence /\ l = licence)
  BY StoreIs DEF Alone
<1> QED BY <1>1, ToldPro

LEMMA CheckKeepsPro == ASSUME LicenceInvariant, Alone, IsPro(licence), NEW c \in Checks, CheckNext(c)
                       PROVE  IsPro(licence') \/ withdrawn
<1>1. GoodNow(licence) /\ licence.key = Bought /\ Bought # Typo
  BY Bounds DEF LicenceInvariant, AllGood, GoodNow, Good, IsPro
<1>2. CASE BeginCheck(c)
  <2>1. licence' \in {licence, [licence EXCEPT !.told = TRUE]}
    BY <1>2 DEF BeginCheck
  <2> QED BY <1>1, <2>1, ToldPro
<1>0. CASE checks[c].pc = "idle"
  BY <1>0, <1>2 DEF CheckNext, Validated, Activated, ActivationRefused
<1>3. SUFFICES ASSUME checks[c].pc # "idle", ~withdrawn PROVE IsPro(licence')
  BY <1>0
<1>4. checks[c].seen = licence
  BY <1>3 DEF Alone
<1>5. ASSUME NEW o \in Outcomes, o \notin {"unknown-key", "withdrawn"}, NEW l, GoodNow(l), IsPro(l)
      PROVE  IsPro(ApplyOutcome(l, o)) /\ GoodNow(ApplyOutcome(l, o)) /\ ApplyOutcome(l, o).key = Bought
  <2>1. l.key = Bought /\ l.key # None /\ l.key # Typo
    BY <1>5, Bounds DEF GoodNow, Good, IsPro
  <2>2. GoodNow(ApplyOutcome(l, o))
    BY <1>5, <2>1, OutcomeGood DEF LicenceInvariant
  <2> QED BY <1>3, <1>5, <2>2, OutcomeKeepsPro
<1>6. ASSUME NEW o \in Outcomes, Validated(c, o) PROVE IsPro(licence')
  <2>1. o \in ValidateOutcomes(licence.key, licence.activation)
    BY <1>4, <1>6 DEF Validated
  <2>2. o \notin {"unknown-key", "withdrawn"}
    BY <1>1, <1>3, <2>1 DEF ValidateOutcomes
  <2>3. CASE o = "unknown-activation"
    BY <1>6, <2>3 DEF Validated
  <2>4. CASE o # "unknown-activation"
    <3> DEFINE l == ApplyOutcome(licence, o)
    <3>1. Store(c, l)
      BY <1>4, <1>6, <2>4 DEF Validated
    <3>2. IsPro(l) /\ GoodNow(l)
      BY <1>1, <1>5, <2>2
    <3> HIDE DEF l
    <3> QED BY <1>3, <3>1, <3>2, StoreKeepsPro
  <2> QED BY <2>3, <2>4
<1>7. GoodNow(Asked(c)) /\ IsPro(Asked(c)) /\ Asked(c).key = Bought
  BY <1>1, <1>4, <1>5 DEF Asked, Outcomes
<1>8. ASSUME NEW lost \in BOOLEAN, Activated(c, lost) PROVE IsPro(licence')
  <2> DEFINE w == WithActivation(Asked(c), handed + 1)
             l == IF lost THEN Asked(c) ELSE w
  <2>1. Store(c, l) /\ Activates(Asked(c).key) /\ HandOut /\ today' = today /\ ticket' = ticket
    BY <1>8 DEF Activated, Asked
  <2>2. Good(w, today', handed', ticket')
    BY <1>7, <2>1, ActivationGood DEF LicenceInvariant, Activates, HandOut
  <2>3. w.validated = today /\ w.revoked = FALSE /\ w.key = Bought /\ today # None
    <3>1. today # None
      BY LicenceAssumption DEF LicenceInvariant, Polar
    <3> QED BY <1>7, <3>1 DEF WithActivation, GoodNow, Good
  <2>4. IsPro(w)
    BY <1>1, <2>3, Bounds DEF IsPro
  <2>5. IsPro(l) /\ (GoodNow(l) \/ Good(l, today', handed', ticket'))
    BY <1>7, <2>2, <2>4
  <2> HIDE DEF l
  <2> QED BY <1>3, <2>1, <2>5, StoreKeepsPro
<1>9. ASSUME NEW o \in Outcomes, ActivationRefused(c, o) PROVE IsPro(licence')
  <2> DEFINE l == ApplyOutcome(Asked(c), o)
  <2>1. Store(c, l) /\ o \in RefusalsOfActivate(Asked(c).key)
    BY <1>9 DEF ActivationRefused, Asked
  <2>2. o \notin {"unknown-key", "withdrawn"}
    BY <1>1, <1>3, <1>7, <2>1 DEF RefusalsOfActivate
  <2>3. IsPro(l) /\ GoodNow(l)
    BY <1>5, <1>7, <2>2
  <2> HIDE DEF l
  <2> QED BY <1>3, <2>1, <2>3, StoreKeepsPro
<1> QED BY <1>2, <1>3, <1>6, <1>8, <1>9 DEF CheckNext

LEMMA UserKeepsPro == ASSUME LicenceInvariant, Alone, IsPro(licence), user.pc # "deactivating",
                             \/ \E lost \in BOOLEAN : Pasted(lost) \/ Deactivated(lost) \/ TrialStarted(lost)
                             \/ \E o \in Outcomes : PasteRefused(o)
                      PROVE  IsPro(licence')
<1>1. user.pc # "pasting"
  BY DEF Alone
<1>2. PICK lost \in BOOLEAN : TrialStarted(lost)
  BY <1>1 DEF Pasted, Deactivated, PasteRefused
<1>3. CASE lost
  BY <1>2, <1>3 DEF TrialStarted
<1>4. CASE ~lost
  <2>1. user.seen = licence
    BY <1>2 DEF TrialStarted, Alone
  <2> DEFINE tk == ticket'
  <2>2. licence' = [licence EXCEPT !.trial = tk, !.proven = TRUE]
    BY <1>2, <1>4, <2>1 DEF TrialStarted
  <2> HIDE DEF tk
  <2> QED BY <2>2 DEF IsPro, LicenceInvariant, AllGood, GoodNow, Good
<1> QED BY <1>3, <1>4

LEMMA RestartKeepsPro == ASSUME LicenceInvariant, IsPro(licence), Restart PROVE IsPro(licence')
<1>1. PICK t : licence' = AttestTrial([licence EXCEPT !.trial = t, !.proven = (t \in {ticket, None})])
  BY DEF Restart
<1> DEFINE b == t \in {ticket, None}
           r == [licence EXCEPT !.trial = t, !.proven = b]
<1>2. IsPro(r) /\ IsPro([r EXCEPT !.trial = None, !.proven = TRUE])
  <2> HIDE DEF b
  <2> QED BY DEF IsPro, LicenceInvariant, AllGood, GoodNow, Good
<1>3. licence' \in {r, [r EXCEPT !.trial = None, !.proven = TRUE]}
  BY <1>1 DEF AttestTrial
<1> QED BY <1>2, <1>3

LEMMA ProStays == ASSUME LicenceInvariant, Alone, IsPro(licence), LicenceNext
                  PROVE  IsPro(licence') \/ withdrawn \/ user.pc = "deactivating"
<1>1. CASE DayPasses \/ Refund \/ (\E id \in slots : FreeSlot(id)) \/ TrialRefused
  <2>1. licence' = licence
    BY <1>1 DEF DayPasses, Refund, FreeSlot, TrialRefused
  <2> QED BY <2>1
<1>2. CASE (\E k \in Keys : Paste(k)) \/ Deactivate \/ StartTrial
  <2>1. licence' = licence
    BY <1>2 DEF Paste, Deactivate, StartTrial, BeginCall
  <2> QED BY <2>1
<1> QED BY <1>1, <1>2, CheckKeepsPro, UserKeepsPro, RestartKeepsPro DEF LicenceNext

\* licence-state.ts, "Silence is not revocation": while the plugin makes one licence call at a time, a confirmed
\* licence stops counting only after a refund or because the user deactivates the vault.  Calls that overlap do
\* break it: the record as it was when a call began is stored over a later one.
THEOREM ProIsNeverLost == ASSUME OneAtATime PROVE LicenceSpec => ProIsHonest
<1>1. LicenceInit => Alone
  BY DEF LicenceInit, Alone, NoCheck, NoCall
<1>2. LicenceInvariant /\ LicenceInvariant' /\ Alone /\ [LicenceNext]_licenceVars => Alone'
  <2>1. CASE UNCHANGED licenceVars
    BY <2>1 DEF licenceVars, Alone, IsPro
  <2> QED BY <2>1, AloneStays
<1>3. /\ LicenceInvariant /\ LicenceInvariant' /\ Alone /\ [LicenceNext]_licenceVars
      => [Tier(licence) = "pro" /\ Tier(licence') # "pro" => withdrawn \/ user.pc = "deactivating"]_licenceVars
  <2> SUFFICES ASSUME LicenceInvariant, LicenceInvariant', Alone, LicenceNext, Tier(licence) = "pro", Tier(licence') # "pro"
               PROVE  withdrawn \/ user.pc = "deactivating"
    OBVIOUS
  <2>1. licence.revoked \in BOOLEAN /\ licence'.revoked \in BOOLEAN
    BY DEF LicenceInvariant, AllGood, GoodNow, Good
  <2> QED BY <2>1, ProIs, ProStays
<1> QED BY <1>1, <1>2, <1>3, LicenceInvariance, OneTrialOnly, PTL DEF LicenceSpec, ProIsHonest, SilenceKeepsPro

-----------------------------------------------------------------------------
(***************************************************************************)
(* What a note's properties guarantee: the plugin can take out what it     *)
(* wrote, and the lines of the user and the identity of the note stay.     *)
(***************************************************************************)
NOTE_ID == "remarkable-note-id"
KeyValues == Nat \cup Folders \cup Papers \cup {"mine"}

LEMMA KeyTableIs == ASSUME NEW S \in SUBSET KeyNames, NEW t \in [S -> KeyValues] PROVE t \in KeyTables
  BY DEF KeyTables, KeyValues

LEMMA KeyTableHas == ASSUME NEW t \in KeyTables
                     PROVE  DOMAIN t \in SUBSET KeyNames /\ t \in [DOMAIN t -> KeyValues]
<1>1. PICK S \in SUBSET KeyNames : t \in [S -> KeyValues]
  BY DEF KeyTables, KeyValues
<1> QED BY <1>1

LEMMA KeysTaken == ASSUME NEW t \in KeyTables, NEW gone
                   PROVE  /\ KeysWithout(t, gone) \in KeyTables /\ DOMAIN KeysWithout(t, gone) = DOMAIN t \ gone
                          /\ \A k \in DOMAIN t \ gone : KeysWithout(t, gone)[k] = t[k]
<1>1. DOMAIN t \in SUBSET KeyNames /\ t \in [DOMAIN t -> KeyValues]
  BY KeyTableHas
<1>2. KeysWithout(t, gone) \in [DOMAIN t \ gone -> KeyValues]
  BY <1>1 DEF KeysWithout
<1>3. KeysWithout(t, gone) \in KeyTables
  BY <1>1, <1>2, KeyTableIs
<1> QED BY <1>3 DEF KeysWithout

LEMMA KeyPut == ASSUME NEW t \in KeyTables, NEW key \in KeyNames, NEW v \in KeyValues
                PROVE  /\ KeysWith(t, key, v) \in KeyTables /\ DOMAIN KeysWith(t, key, v) = DOMAIN t \cup {key}
                       /\ KeysWith(t, key, v)[key] = v
                       /\ \A k \in DOMAIN t : k # key => KeysWith(t, key, v)[k] = t[k]
<1>1. DOMAIN t \in SUBSET KeyNames /\ t \in [DOMAIN t -> KeyValues]
  BY KeyTableHas
<1>2. KeysWith(t, key, v) \in [DOMAIN t \cup {key} -> KeyValues]
  BY <1>1 DEF KeysWith
<1>3. KeysWith(t, key, v) \in KeyTables
  BY <1>1, <1>2, KeyTableIs
<1> QED BY <1>3 DEF KeysWith

\* A merged key says what it was told to, and no other key changes.
Merged(m, t, key, v) ==
    /\ m \in KeyTables
    /\ \A k \in DOMAIN t : k # key => k \in DOMAIN m /\ m[k] = t[k]
    /\ v = Unknown => m = t
    /\ v \in KeyValues /\ v # Unknown /\ v # None => key \in DOMAIN m /\ m[key] = v

LEMMA KeyMerged == ASSUME NEW t \in KeyTables, NEW key \in KeyNames, NEW v \in KeyValues \cup {None, Unknown}
                   PROVE  Merged(mergeKey(t, key, v), t, key, v)
<1>1. CASE v = Unknown
  BY <1>1 DEF mergeKey, Merged
<1>2. CASE v # Unknown /\ v = None
  <2> DEFINE m == KeysWithout(t, {key})
  <2>1. mergeKey(t, key, v) = m
    BY <1>2 DEF mergeKey
  <2>2. m \in KeyTables /\ DOMAIN m = DOMAIN t \ {key} /\ \A k \in DOMAIN t \ {key} : m[k] = t[k]
    BY KeysTaken
  <2> HIDE DEF m
  <2>3. Merged(m, t, key, v)
    BY <1>2, <2>2 DEF Merged
  <2> QED BY <2>1, <2>3
<1>3. CASE v # Unknown /\ v # None
  <2> DEFINE m == KeysWith(t, key, v)
  <2>1. mergeKey(t, key, v) = m
    BY <1>3 DEF mergeKey
  <2>2. v \in KeyValues
    BY <1>3
  <2>3. /\ m \in KeyTables /\ DOMAIN m = DOMAIN t \cup {key} /\ m[key] = v
        /\ \A k \in DOMAIN t : k # key => m[k] = t[k]
    BY <2>2, KeyPut, ZenonT(40)
  <2> HIDE DEF m
  <2>4. Merged(m, t, key, v)
    BY <1>3, <2>3 DEF Merged
  <2> QED BY <2>1, <2>4
<1> QED BY <1>1, <1>2, <1>3

\* What a write leaves in the block.
LEMMA BlockWritten ==
    ASSUME NEW front \in NoteFront, NEW w, w.tags \in SUBSET PluginTags, w.folder \in Folders \cup {None}, w.id \in Nat,
           w.paper \in Papers \cup {None, Unknown}, NEW previous
    PROVE  LET after == applyFrontmatter(front, w, previous) IN
           /\ after \in NoteFront /\ after.tags = (front.tags \ (previous \ w.tags)) \cup w.tags
           /\ NOTE_ID \in DOMAIN after.keys /\ after.keys[NOTE_ID] = w.id
           /\ USER_KEY \in DOMAIN front.keys => USER_KEY \in DOMAIN after.keys /\ after.keys[USER_KEY] = front.keys[USER_KEY]
           /\ CITEKEY \in DOMAIN front.keys =>
                 /\ CITEKEY \in DOMAIN after.keys
                 /\ after.keys[CITEKEY] = front.keys[CITEKEY] \/ (w.paper \in Papers /\ after.keys[CITEKEY] = w.paper)
<1> DEFINE a == mergeKey(front.keys, "remarkable-note-id", w.id)
           b == mergeKey(a, "remarkable-folder", w.folder)
           c == mergeKey(b, ZOTERO_KEY, w.paper)
           cite == IF w.paper \in Papers THEN w.paper ELSE Unknown
           e == mergeKey(c, CITEKEY, cite)
           tags == mergeTags(front.tags, w.tags, previous)
<1>1. applyFrontmatter(front, w, previous) = [tags |-> tags, keys |-> e]
  BY DEF applyFrontmatter
<1>2. front.keys \in KeyTables /\ front.tags \in SUBSET (PluginTags \cup {USER_TAG})
  BY DEF NoteFront
<1>3. /\ "remarkable-note-id" \in KeyNames /\ "remarkable-folder" \in KeyNames /\ ZOTERO_KEY \in KeyNames /\ CITEKEY \in KeyNames
      /\ NOTE_ID = "remarkable-note-id" /\ NOTE_ID \notin {"remarkable-folder", ZOTERO_KEY, CITEKEY, USER_KEY}
      /\ USER_KEY \notin {"remarkable-folder", ZOTERO_KEY, CITEKEY} /\ CITEKEY \notin {"remarkable-folder", ZOTERO_KEY}
  BY DEF KeyNames, MANAGED_KEYS, ZOTERO_KEY, CITEKEY, USER_KEY, NOTE_ID
<1>4. /\ w.id \in KeyValues /\ w.folder \in KeyValues \cup {None, Unknown} /\ w.paper \in KeyValues \cup {None, Unknown}
      /\ cite \in KeyValues \cup {None, Unknown} /\ w.id # None /\ w.id # Unknown
      /\ w.paper \in Papers => w.paper \in KeyValues /\ w.paper # None /\ w.paper # Unknown
  BY NotePropertiesAssumption DEF KeyValues
<1>m1. Merged(a, front.keys, "remarkable-note-id", w.id)
  BY <1>2, <1>3, <1>4, KeyMerged
<1>m2. a \in KeyTables
  BY <1>m1 DEF Merged
<1> HIDE DEF a
<1>m3. Merged(b, a, "remarkable-folder", w.folder)
  BY <1>3, <1>4, <1>m2, KeyMerged
<1>m4. b \in KeyTables
  BY <1>m3 DEF Merged
<1> HIDE DEF b
<1>m5. Merged(c, b, ZOTERO_KEY, w.paper)
  BY <1>3, <1>4, <1>m4, KeyMerged
<1>m6. c \in KeyTables
  BY <1>m5 DEF Merged
<1> HIDE DEF c
<1>m7. Merged(e, c, CITEKEY, cite)
  BY <1>3, <1>4, <1>m6, KeyMerged
<1> HIDE DEF e
<1>5. /\ NOTE_ID \in DOMAIN a /\ a[NOTE_ID] = w.id
      /\ \A k \in DOMAIN front.keys : k # NOTE_ID => k \in DOMAIN a /\ a[k] = front.keys[k]
  BY <1>3, <1>4, <1>m1 DEF Merged
<1>6. \A k \in DOMAIN a : k # "remarkable-folder" => k \in DOMAIN b /\ b[k] = a[k]
  BY <1>m3 DEF Merged
<1>7. \A k \in DOMAIN b : k # ZOTERO_KEY => k \in DOMAIN c /\ c[k] = b[k]
  BY <1>m5 DEF Merged
<1>8. /\ e \in KeyTables /\ \A k \in DOMAIN c : k # CITEKEY => k \in DOMAIN e /\ e[k] = c[k]
      /\ w.paper \notin Papers => e = c
      /\ w.paper \in Papers => CITEKEY \in DOMAIN e /\ e[CITEKEY] = w.paper
  BY <1>4, <1>m7 DEF Merged
<1>9. NOTE_ID \in DOMAIN e /\ e[NOTE_ID] = w.id
  BY <1>3, <1>5, <1>6, <1>7, <1>8
<1>10. USER_KEY \in DOMAIN front.keys => USER_KEY \in DOMAIN e /\ e[USER_KEY] = front.keys[USER_KEY]
  BY <1>3, <1>5, <1>6, <1>7, <1>8
<1>11. ASSUME CITEKEY \in DOMAIN front.keys
       PROVE  CITEKEY \in DOMAIN e /\ (e[CITEKEY] = front.keys[CITEKEY] \/ (w.paper \in Papers /\ e[CITEKEY] = w.paper))
  <2>1. CITEKEY \in DOMAIN c /\ c[CITEKEY] = front.keys[CITEKEY]
    BY <1>3, <1>5, <1>6, <1>7, <1>11
  <2> QED BY <1>8, <2>1
<1>12. tags = (front.tags \ (previous \ w.tags)) \cup w.tags /\ tags \in SUBSET (PluginTags \cup {USER_TAG})
  BY <1>2 DEF mergeTags
<1> HIDE DEF tags
<1> QED BY <1>1, <1>8, <1>9, <1>10, <1>11, <1>12 DEF NoteFront

\* What the cleanup leaves in the block.
LEMMA BlockCleaned ==
    ASSUME NEW front \in NoteFront, NEW own
    PROVE  LET after == removeFrontmatter(front, own) IN
           /\ after \in NoteFront /\ after.tags = front.tags \ own /\ DOMAIN after.keys \cap MANAGED_KEYS = {}
           /\ \A k \in {USER_KEY, CITEKEY} \cap DOMAIN front.keys : k \in DOMAIN after.keys /\ after.keys[k] = front.keys[k]
<1> DEFINE tags == mergeTags(front.tags, {}, own)
           keys == KeysWithout(front.keys, MANAGED_KEYS \cup {ZOTERO_KEY})
<1>1. removeFrontmatter(front, own) = [tags |-> tags, keys |-> keys]
  BY DEF removeFrontmatter
<1>2. front.keys \in KeyTables /\ front.tags \in SUBSET (PluginTags \cup {USER_TAG})
  BY DEF NoteFront
<1>3. tags = front.tags \ own
  BY DEF mergeTags
<1>4. /\ keys \in KeyTables /\ DOMAIN keys = DOMAIN front.keys \ (MANAGED_KEYS \cup {ZOTERO_KEY})
      /\ \A k \in DOMAIN keys : keys[k] = front.keys[k]
  <2>1. /\ keys \in KeyTables /\ DOMAIN keys = DOMAIN front.keys \ (MANAGED_KEYS \cup {ZOTERO_KEY})
        /\ \A k \in DOMAIN front.keys \ (MANAGED_KEYS \cup {ZOTERO_KEY}) : keys[k] = front.keys[k]
    BY <1>2, KeysTaken
  <2> HIDE DEF keys
  <2> QED BY <2>1
<1> HIDE DEF tags, keys
<1>5. USER_KEY \notin MANAGED_KEYS \cup {ZOTERO_KEY} /\ CITEKEY \notin MANAGED_KEYS \cup {ZOTERO_KEY}
  BY DEF MANAGED_KEYS, ZOTERO_KEY, CITEKEY, USER_KEY
<1> QED BY <1>1, <1>2, <1>3, <1>4, <1>5 DEF NoteFront

\* Between runs and in the middle of one: the row says which tags of the note are the plugin's and which id the note
\* has; what it does not say is in the hands of the run, or lost sight of and counted.
PropertiesKnown ==
    /\ document \in NoteDocument /\ note \in NoteFront \cup {None} /\ nrow \in NoteRow \cup {None} /\ unsaved \in NoteRow \cup {None}
    /\ switch \in [on : BOOLEAN, pro : BOOLEAN] /\ moves \in 0 .. MaxMoves
    /\ nrow = None /\ unsaved = None => note = None
    /\ nrow # None /\ unsaved # None => unsaved.id = nrow.id
    /\ note # None => /\ note.tags \cap PluginTags \subseteq Own(nrow) \cup Own(unsaved) \cup stranded
                      /\ ~switch.on => DOMAIN note.keys \cap MANAGED_KEYS \subseteq stranded
                      /\ NOTE_ID \in DOMAIN note.keys => note.keys[NOTE_ID] = IF nrow # None THEN nrow.id ELSE unsaved.id

\* What a step keeps of the user's lines and of the note's id.
LinesKept(front, later) ==
    /\ later # None /\ front.tags \ PluginTags \subseteq later.tags
    /\ \A k \in {USER_KEY, CITEKEY} \cap DOMAIN front.keys :
          k \in DOMAIN later.keys /\ later.keys[k] \in {front.keys[k]} \cup (IF k = CITEKEY THEN {document.paper} ELSE {})
UserLinesKept == (moves' = moves \/ switch' # switch) /\ note # None /\ nrow # None => LinesKept(note, note')
IdKept == IdOf(nrow) # None => /\ IdOf(nrow') = IdOf(nrow)
                               /\ note' # None /\ NOTE_ID \in DOMAIN note'.keys => note'.keys[NOTE_ID] = IdOf(nrow)
StepKept == PropertiesKnown' /\ UserLinesKept /\ IdKept

LEMMA NoNote == None \notin NoteFront /\ None \notin NoteRow /\ NoFront \in NoteFront /\ NoFront.tags = {} /\ DOMAIN NoFront.keys = {}
<1>1. <<>> \in [{} -> KeyValues]
  OBVIOUS
<1>2. <<>> \in KeyTables
  BY <1>1, KeyTableIs
<1> QED BY <1>2, NotePropertiesAssumption DEF NoFront, NoteFront

LEMMA OwnIs == /\ Own(None) = {}
               /\ \A row \in NoteRow : /\ row # None /\ Own(row) = (IF row.own = None THEN {} ELSE row.own) /\ Own(row) \subseteq PluginTags
                                       /\ row.own # None => Own(row) = row.own
                                       /\ IdOf(row) = row.id /\ row.id \in Nat /\ row.id # None
<1>1. Own(None) = {}
  BY DEF Own
<1>2. ASSUME NEW row \in NoteRow
      PROVE  /\ row # None /\ Own(row) = (IF row.own = None THEN {} ELSE row.own) /\ Own(row) \subseteq PluginTags
             /\ row.own # None => Own(row) = row.own
             /\ IdOf(row) = row.id /\ row.id \in Nat /\ row.id # None
  <2>1. row # None
    BY NotePropertiesAssumption
  <2>2. row.own \in (SUBSET PluginTags) \cup {None} /\ row.id \in Nat
    BY DEF NoteRow
  <2>3. Own(row) = (IF row.own = None THEN {} ELSE row.own) /\ IdOf(row) = row.id
    BY <2>1 DEF Own, IdOf
  <2>4. row.id # None
    BY <2>2, NotePropertiesAssumption
  <2>5. Own(row) \subseteq PluginTags
    <3>1. CASE row.own = None
      BY <2>3, <3>1
    <3>2. CASE row.own # None
      BY <2>2, <2>3, <3>2
    <3> QED BY <3>1, <3>2
  <2>6. row.own # None => Own(row) = row.own
    BY <2>3
  <2> QED BY <2>1, <2>2, <2>3, <2>4, <2>5, <2>6
<1> QED BY <1>1, <1>2

LEMMA NamesArePlugins == ASSUME NEW S \in SUBSET DeviceTags PROVE namespacedTags(S) \in SUBSET PluginTags /\ namespacedTags(S) # None
<1>1. namespacedTags(S) \in SUBSET PluginTags
  BY DEF namespacedTags, PluginTags
<1> QED BY <1>1, NotePropertiesAssumption

\* A write that knows the note's id keeps what is the user's.
LEMMA WriteKeeps ==
    ASSUME PropertiesKnown, NEW front \in NoteFront, NEW id \in Nat, nrow # None => id = nrow.id,
           NEW paper \in {document.paper, Unknown},
           note' = applyFrontmatter(front, Wanted(id, paper), Own(nrow))
    PROVE  /\ note' \in NoteFront /\ note' # None
           /\ note'.tags = (front.tags \ (Own(nrow) \ namespacedTags(document.tags))) \cup namespacedTags(document.tags)
           /\ NOTE_ID \in DOMAIN note'.keys /\ note'.keys[NOTE_ID] = id
           /\ nrow # None => LinesKept(front, note')
<1> DEFINE w == Wanted(id, paper)
           after == applyFrontmatter(front, w, Own(nrow))
<1>1. /\ w.tags = namespacedTags(document.tags) /\ w.tags \in SUBSET PluginTags /\ w.folder \in Folders \cup {None}
      /\ w.id = id /\ w.id \in Nat /\ w.paper = paper /\ w.paper \in Papers \cup {None, Unknown}
  BY NamesArePlugins DEF PropertiesKnown, NoteDocument, Wanted
<1> HIDE DEF w
<1>2. /\ after \in NoteFront /\ after.tags = (front.tags \ (Own(nrow) \ w.tags)) \cup w.tags
      /\ NOTE_ID \in DOMAIN after.keys /\ after.keys[NOTE_ID] = w.id
      /\ USER_KEY \in DOMAIN front.keys => USER_KEY \in DOMAIN after.keys /\ after.keys[USER_KEY] = front.keys[USER_KEY]
      /\ CITEKEY \in DOMAIN front.keys =>
            /\ CITEKEY \in DOMAIN after.keys
            /\ after.keys[CITEKEY] = front.keys[CITEKEY] \/ (w.paper \in Papers /\ after.keys[CITEKEY] = w.paper)
  BY <1>1, BlockWritten
<1>3. note' = after
  BY DEF w
<1> HIDE DEF after
<1>4. w.paper \in Papers => w.paper = document.paper
  BY <1>1, NotePropertiesAssumption
<1>5. USER_KEY # CITEKEY
  BY DEF USER_KEY, CITEKEY
<1>6. after # None
  BY <1>2, NoNote
<1>7. nrow # None => LinesKept(front, after)
  <2> SUFFICES ASSUME nrow # None PROVE LinesKept(front, after)
    OBVIOUS
  <2>1. Own(nrow) \subseteq PluginTags
    BY OwnIs DEF PropertiesKnown
  <2>2. front.tags \ PluginTags \subseteq after.tags
    BY <1>2, <2>1
  <2>3. ASSUME NEW k \in {USER_KEY, CITEKEY} \cap DOMAIN front.keys
        PROVE  k \in DOMAIN after.keys /\ after.keys[k] \in {front.keys[k]} \cup (IF k = CITEKEY THEN {document.paper} ELSE {})
    <3>1. CASE k = USER_KEY
      BY <1>2, <1>5, <3>1
    <3>2. CASE k = CITEKEY
      BY <1>2, <1>4, <3>2
    <3> QED BY <3>1, <3>2
  <2> QED BY <1>6, <2>2, <2>3 DEF LinesKept
<1> QED BY <1>1, <1>2, <1>3, <1>6, <1>7

LEMMA SameLines == ASSUME NEW front PROVE front # None => LinesKept(front, front)
  BY DEF LinesKept

LEMMA WriteUnitKeeps == ASSUME PropertiesKnown, WriteUnit PROVE StepKept
<1> DEFINE front == IF note = None \/ nrow = None THEN NoFront ELSE note
           id == IF IdOf(nrow) = None THEN FreshId ELSE IdOf(nrow)
           paper == IF switch.pro THEN document.paper ELSE Unknown
           names == namespacedTags(document.tags)
<1>1. /\ unsaved = None /\ moves > 0
      /\ note' = IF frontmatterOn THEN applyFrontmatter(front, Wanted(id, paper), Own(nrow)) ELSE front
      /\ unsaved' = [of |-> document, id |-> id, active |-> TRUE, wasOn |-> switch.on,
                     own |-> IF frontmatterOn THEN names ELSE None, version |-> IF frontmatterOn THEN FRONTMATTER_KEYS_VERSION ELSE 0]
      /\ UNCHANGED <<document, nrow, switch, stranded, moves>>
  BY DEF WriteUnit
<1>2. front \in NoteFront /\ (nrow # None /\ note # None => front = note) /\ (front = note \/ front = NoFront)
  BY NoNote DEF PropertiesKnown
<1>3. id \in Nat /\ (nrow # None => id = nrow.id)
  <2>1. CASE nrow = None
    <3>1. id = MaxMoves - moves + 1
      BY <2>1 DEF IdOf, FreshId
    <3> HIDE DEF id
    <3> QED BY <2>1, <3>1, NotePropertiesAssumption DEF PropertiesKnown
  <2>2. CASE nrow # None
    BY <2>2, OwnIs DEF PropertiesKnown
  <2> QED BY <2>1, <2>2
<1>4. paper \in {document.paper, Unknown} /\ names \in SUBSET PluginTags /\ names # None
  BY NamesArePlugins DEF PropertiesKnown, NoteDocument
<1> HIDE DEF front, id, paper, names
<1>5. /\ unsaved' \in NoteRow /\ unsaved'.id = id /\ Own(unsaved') = IF frontmatterOn THEN names ELSE {}
  <2>1. unsaved' \in NoteRow
    <3> DEFINE mine == IF frontmatterOn THEN names ELSE None
               ver == IF frontmatterOn THEN FRONTMATTER_KEYS_VERSION ELSE 0
    <3>1. mine \in (SUBSET PluginTags) \cup {None} /\ ver \in Nat
      <4>1. CASE frontmatterOn
        BY <1>4, <4>1 DEF FRONTMATTER_KEYS_VERSION
      <4>2. CASE ~frontmatterOn
        BY <4>2
      <4> QED BY <4>1, <4>2
    <3>2. document \in NoteDocument /\ switch.on \in BOOLEAN
      BY DEF PropertiesKnown
    <3>3. unsaved' = [of |-> document, id |-> id, active |-> TRUE, wasOn |-> switch.on, own |-> mine, version |-> ver]
      BY <1>1
    <3> HIDE DEF mine, ver
    <3> QED BY <1>3, <3>1, <3>2, <3>3 DEF NoteRow
  <2> QED BY <1>1, <1>4, <2>1, OwnIs
<1>6. /\ note' \in NoteFront /\ note' # None /\ (nrow # None /\ note # None => LinesKept(note, note'))
      /\ note'.tags \cap PluginTags \subseteq Own(nrow) \cup Own(unsaved') \cup stranded
      /\ ~switch.on => DOMAIN note'.keys \cap MANAGED_KEYS \subseteq stranded
      /\ NOTE_ID \in DOMAIN note'.keys => note'.keys[NOTE_ID] = id
  <2>1. front.tags \cap PluginTags \subseteq Own(nrow) \cup stranded
    <3>1. note # None => note.tags \cap PluginTags \subseteq Own(nrow) \cup stranded
      BY <1>1, OwnIs DEF PropertiesKnown
    <3> QED BY <1>2, <3>1, NoNote
  <2>2. CASE frontmatterOn
    <3>1. /\ note' \in NoteFront /\ note' # None
          /\ note'.tags = (front.tags \ (Own(nrow) \ names)) \cup names
          /\ NOTE_ID \in DOMAIN note'.keys /\ note'.keys[NOTE_ID] = id
          /\ nrow # None => LinesKept(front, note')
      <4>1. note' = applyFrontmatter(front, Wanted(id, paper), Own(nrow))
        BY <1>1, <2>2
      <4> QED BY <1>2, <1>3, <1>4, <4>1, WriteKeeps DEF names
    <3>2. switch.on
      BY <2>2 DEF frontmatterOn
    <3>3. note'.tags \cap PluginTags \subseteq Own(nrow) \cup Own(unsaved') \cup stranded
      BY <1>5, <2>1, <2>2, <3>1
    <3> QED BY <1>2, <3>1, <3>2, <3>3
  <2>3. CASE ~frontmatterOn
    <3>1. note' = front
      BY <1>1, <2>3
    <3>2. ~switch.on => DOMAIN front.keys \cap MANAGED_KEYS \subseteq stranded
      <4>1. front # NoFront => front = note /\ note # None
        BY <1>2, NoNote
      <4> QED BY <4>1, NoNote DEF PropertiesKnown
    <3>3. NOTE_ID \in DOMAIN front.keys => front.keys[NOTE_ID] = id
      <4>1. CASE front = NoFront
        BY <4>1, NoNote
      <4>2. CASE front # NoFront
        <5>1. front = note /\ note # None /\ nrow # None
          BY <1>1, <1>2, <4>2, NoNote DEF PropertiesKnown
        <5> QED BY <1>3, <5>1 DEF PropertiesKnown
      <4> QED BY <4>1, <4>2
    <3> QED BY <1>2, <2>1, <3>1, <3>2, <3>3, NoNote, SameLines
  <2> QED BY <2>2, <2>3
<1>7. PropertiesKnown'
  <2>1. Own(nrow)' = Own(nrow) /\ Own(unsaved)' = Own(unsaved')
    BY <1>1 DEF Own
  <2> QED BY <1>1, <1>3, <1>5, <1>6, <2>1, OwnIs DEF PropertiesKnown
<1>8. IdKept
  <2>1. IdOf(nrow) # None => nrow # None /\ IdOf(nrow) = nrow.id
    BY DEF IdOf
  <2> QED BY <1>1, <1>3, <1>6, <2>1 DEF IdKept
<1> QED BY <1>6, <1>7, <1>8 DEF StepKept, UserLinesKept

LEMMA BackfillKeeps == ASSUME PropertiesKnown, unsaved = None, nrow # None, Backfill, UNCHANGED <<document, nrow, stranded>>,
                              switch' \in [on : BOOLEAN, pro : BOOLEAN], switch'.on, moves' \in 0 .. MaxMoves
                       PROVE  StepKept
<1> DEFINE id == IF nrow.id = None THEN FreshId ELSE nrow.id
           names == namespacedTags(document.tags)
<1>1. /\ note # None /\ note' = applyFrontmatter(note, Wanted(id, Unknown), Own(nrow))
      /\ unsaved' = [nrow EXCEPT !.own = names, !.id = id, !.version = FRONTMATTER_KEYS_VERSION, !.wasOn = switch.on]
  BY DEF Backfill
<1>2. nrow \in NoteRow /\ note \in NoteFront /\ nrow.id \in Nat /\ nrow.id # None /\ IdOf(nrow) = nrow.id
  BY <1>1, OwnIs DEF PropertiesKnown
<1>3. id = nrow.id /\ id \in Nat
  BY <1>2
<1>4. names \in SUBSET PluginTags /\ names # None
  BY NamesArePlugins DEF PropertiesKnown, NoteDocument
<1> HIDE DEF id
<1>5. /\ note' \in NoteFront /\ note' # None
      /\ note'.tags = (note.tags \ (Own(nrow) \ names)) \cup names
      /\ NOTE_ID \in DOMAIN note'.keys /\ note'.keys[NOTE_ID] = id
      /\ nrow # None => LinesKept(note, note')
  BY <1>1, <1>2, <1>3, WriteKeeps
<1> HIDE DEF names
<1>6. unsaved' \in NoteRow /\ unsaved'.id = nrow.id /\ Own(unsaved') = names
  <2>1. switch.on \in BOOLEAN /\ FRONTMATTER_KEYS_VERSION \in Nat
    BY DEF PropertiesKnown, FRONTMATTER_KEYS_VERSION
  <2>2. unsaved' = [of |-> nrow.of, id |-> id, active |-> nrow.active, wasOn |-> switch.on, own |-> names,
                    version |-> FRONTMATTER_KEYS_VERSION]
    BY <1>1, <1>2 DEF NoteRow
  <2>3. nrow.of \in NoteDocument /\ nrow.active \in BOOLEAN
    BY <1>2 DEF NoteRow
  <2>4. unsaved' \in NoteRow
    BY <1>3, <1>4, <2>1, <2>2, <2>3 DEF NoteRow
  <2> QED BY <1>3, <1>4, <2>2, <2>4, OwnIs
<1>7. note'.tags \cap PluginTags \subseteq Own(nrow) \cup Own(unsaved') \cup stranded
  <2>1. note.tags \cap PluginTags \subseteq Own(nrow) \cup stranded
    BY <1>1, OwnIs DEF PropertiesKnown
  <2> QED BY <1>5, <1>6, <2>1
<1>8. PropertiesKnown'
  <2>1. Own(nrow)' = Own(nrow) /\ Own(unsaved)' = Own(unsaved')
    BY DEF Own
  <2> QED BY <1>3, <1>5, <1>6, <1>7, <2>1, OwnIs DEF PropertiesKnown
<1> QED BY <1>2, <1>3, <1>5, <1>8 DEF StepKept, UserLinesKept, IdKept

LEMMA SaveKeeps == ASSUME PropertiesKnown, SaveRow PROVE StepKept
<1>1. /\ unsaved # None /\ nrow' = [unsaved EXCEPT !.wasOn = TRUE] /\ unsaved' = None
      /\ stranded' = IF note = None THEN {} ELSE Strand(note, unsaved, {})
      /\ UNCHANGED <<document, note, switch, moves>>
  BY DEF SaveRow
<1>2. unsaved \in NoteRow
  BY <1>1 DEF PropertiesKnown
<1>3. nrow' \in NoteRow /\ nrow'.own = unsaved.own /\ nrow'.id = unsaved.id
  BY <1>1, <1>2 DEF NoteRow
<1>4. Own(nrow') = Own(unsaved) /\ Own(unsaved') = {}
  BY <1>1, <1>2, <1>3, OwnIs
<1>5. note # None => /\ note.tags \cap PluginTags \subseteq Own(nrow') \cup stranded'
                     /\ ~switch.on => DOMAIN note.keys \cap MANAGED_KEYS \subseteq stranded'
                     /\ NOTE_ID \in DOMAIN note.keys => note.keys[NOTE_ID] = unsaved.id
  <2> SUFFICES ASSUME note # None
               PROVE  /\ note.tags \cap PluginTags \subseteq Own(nrow') \cup stranded'
                      /\ ~switch.on => DOMAIN note.keys \cap MANAGED_KEYS \subseteq stranded'
                      /\ NOTE_ID \in DOMAIN note.keys => note.keys[NOTE_ID] = unsaved.id
    OBVIOUS
  <2>1. stranded' = (stranded \cup Own(nrow) \cup Own(unsaved)) \cap ((note.tags \ Own(unsaved)) \cup DOMAIN note.keys)
    BY <1>1 DEF Strand
  <2>2. note.tags \cap PluginTags \subseteq Own(nrow) \cup Own(unsaved) \cup stranded
    BY DEF PropertiesKnown
  <2>3. ~switch.on => DOMAIN note.keys \cap MANAGED_KEYS \subseteq stranded
    BY DEF PropertiesKnown
  <2>4. NOTE_ID \in DOMAIN note.keys => note.keys[NOTE_ID] = unsaved.id
    BY <1>1 DEF PropertiesKnown
  <2> QED BY <1>4, <2>1, <2>2, <2>3, <2>4
<1>6. PropertiesKnown'
  <2>1. Own(nrow)' = Own(nrow') /\ Own(unsaved)' = Own(unsaved')
    BY DEF Own
  <2>2. nrow' # None
    BY <1>3, NoNote
  <2> QED BY <1>1, <1>3, <1>4, <1>5, <2>1, <2>2 DEF PropertiesKnown
<1>7. IdKept
  <2>1. IdOf(nrow) # None => nrow # None /\ IdOf(nrow) = nrow.id
    BY DEF IdOf
  <2>2. IdOf(nrow') = unsaved.id
    BY <1>3, OwnIs
  <2> QED BY <1>1, <1>5, <2>1, <2>2 DEF IdKept, PropertiesKnown
<1> QED BY <1>1, <1>6, <1>7, SameLines DEF StepKept, UserLinesKept

LEMMA CrashKeeps == ASSUME PropertiesKnown, Crash PROVE StepKept
<1>1. /\ unsaved # None /\ unsaved' = None /\ note' = (IF nrow = None THEN None ELSE note)
      /\ switch' = [switch EXCEPT !.on = unsaved.wasOn]
      /\ stranded' = IF note' = None THEN {} ELSE Strand(note, nrow, IF unsaved.wasOn THEN {} ELSE MANAGED_KEYS)
      /\ UNCHANGED <<document, nrow, moves>>
  BY DEF Crash
<1>2. unsaved \in NoteRow /\ unsaved.wasOn \in BOOLEAN
  BY <1>1 DEF PropertiesKnown, NoteRow
<1>3. switch' \in [on : BOOLEAN, pro : BOOLEAN] /\ switch'.on = unsaved.wasOn
  BY <1>1, <1>2 DEF PropertiesKnown
<1>4. note' # None => /\ note' = note /\ nrow # None
                      /\ note.tags \cap PluginTags \subseteq Own(nrow) \cup stranded'
                      /\ ~switch'.on => DOMAIN note.keys \cap MANAGED_KEYS \subseteq stranded'
                      /\ NOTE_ID \in DOMAIN note.keys => note.keys[NOTE_ID] = nrow.id
  <2> SUFFICES ASSUME note' # None
               PROVE  /\ note' = note /\ nrow # None
                      /\ note.tags \cap PluginTags \subseteq Own(nrow) \cup stranded'
                      /\ ~switch'.on => DOMAIN note.keys \cap MANAGED_KEYS \subseteq stranded'
                      /\ NOTE_ID \in DOMAIN note.keys => note.keys[NOTE_ID] = nrow.id
    OBVIOUS
  <2>1. note' = note /\ nrow # None /\ note # None
    BY <1>1
  <2>2. stranded' = (stranded \cup Own(nrow) \cup Own(unsaved) \cup (IF unsaved.wasOn THEN {} ELSE MANAGED_KEYS))
                       \cap ((note.tags \ Own(nrow)) \cup DOMAIN note.keys)
    BY <1>1, <2>1 DEF Strand
  <2>3. note.tags \cap PluginTags \subseteq Own(nrow) \cup Own(unsaved) \cup stranded
    BY <2>1 DEF PropertiesKnown
  <2>4. NOTE_ID \in DOMAIN note.keys => note.keys[NOTE_ID] = nrow.id
    BY <2>1 DEF PropertiesKnown
  <2> QED BY <1>3, <2>1, <2>2, <2>3, <2>4
<1>5. PropertiesKnown'
  <2>1. Own(nrow)' = Own(nrow) /\ Own(unsaved)' = {}
    BY <1>1, OwnIs DEF Own
  <2> QED BY <1>1, <1>3, <1>4, <2>1 DEF PropertiesKnown
<1>6. IdKept
  <2>1. IdOf(nrow) # None => nrow # None /\ IdOf(nrow) = nrow.id
    BY DEF IdOf
  <2> QED BY <1>1, <1>4, <2>1 DEF IdKept
<1> QED BY <1>1, <1>5, <1>6, SameLines DEF StepKept, UserLinesKept

LEMMA OrphanKeeps == ASSUME PropertiesKnown, Orphan PROVE StepKept
<1>1. /\ unsaved = None /\ nrow # None /\ nrow' = [nrow EXCEPT !.active = FALSE]
      /\ UNCHANGED <<document, note, unsaved, switch, stranded, moves>>
  BY DEF Orphan
<1>2. nrow \in NoteRow
  BY <1>1 DEF PropertiesKnown
<1>3. nrow' \in NoteRow /\ nrow'.own = nrow.own /\ nrow'.id = nrow.id
  BY <1>1, <1>2 DEF NoteRow
<1>4. Own(nrow)' = Own(nrow) /\ Own(unsaved)' = Own(unsaved) /\ IdOf(nrow') = IdOf(nrow) /\ IdOf(nrow) = nrow.id /\ nrow' # None
  <2>1. Own(nrow') = Own(nrow) /\ IdOf(nrow') = IdOf(nrow) /\ IdOf(nrow) = nrow.id /\ nrow' # None
    BY <1>2, <1>3, OwnIs
  <2> QED BY <1>1, <2>1 DEF Own
<1>5. PropertiesKnown'
  BY <1>1, <1>3, <1>4 DEF PropertiesKnown
<1>6. IdKept
  BY <1>1, <1>4 DEF IdKept, PropertiesKnown
<1> QED BY <1>1, <1>5, <1>6, SameLines DEF StepKept, UserLinesKept

LEMMA SwitchOnKeeps == ASSUME PropertiesKnown, SwitchOn PROVE StepKept
<1>1. /\ unsaved = None /\ moves > 0 /\ switch' = [switch EXCEPT !.on = TRUE] /\ moves' = moves - 1
      /\ \/ nrow # None /\ Backfill
         \/ UNCHANGED <<note, unsaved>>
      /\ UNCHANGED <<document, nrow, stranded>>
  BY DEF SwitchOn
<1>2. switch' \in [on : BOOLEAN, pro : BOOLEAN] /\ switch'.on /\ moves' \in 0 .. MaxMoves
  <2>1. switch' \in [on : BOOLEAN, pro : BOOLEAN] /\ switch'.on
    BY <1>1 DEF PropertiesKnown
  <2>2. moves' \in 0 .. MaxMoves
    BY <1>1, NotePropertiesAssumption DEF PropertiesKnown
  <2> QED BY <2>1, <2>2
<1>3. CASE nrow # None /\ Backfill
  BY <1>1, <1>2, <1>3, BackfillKeeps
<1>4. CASE UNCHANGED <<note, unsaved>>
  <2>1. Own(nrow)' = Own(nrow) /\ Own(unsaved)' = Own(unsaved)
    BY <1>1, <1>4 DEF Own
  <2>2. PropertiesKnown'
    BY <1>1, <1>2, <1>4, <2>1 DEF PropertiesKnown
  <2>3. IdKept
    BY <1>1, <1>4 DEF IdKept, IdOf, PropertiesKnown
  <2> QED BY <1>4, <2>2, <2>3, SameLines DEF StepKept, UserLinesKept
<1> QED BY <1>1, <1>3, <1>4

LEMMA BackfillStaleKeeps == ASSUME PropertiesKnown, BackfillStale PROVE StepKept
<1>1. unsaved = None /\ nrow # None /\ Backfill /\ switch.on /\ UNCHANGED <<document, nrow, switch, stranded, moves>>
  BY DEF BackfillStale, frontmatterOn
<1>2. switch' \in [on : BOOLEAN, pro : BOOLEAN] /\ switch'.on /\ moves' \in 0 .. MaxMoves
  BY <1>1 DEF PropertiesKnown
<1> QED BY <1>1, <1>2, BackfillKeeps

LEMMA SwitchOffKeeps == ASSUME PropertiesKnown, SwitchOff PROVE StepKept
<1>1. /\ unsaved = None /\ moves > 0 /\ switch' = [switch EXCEPT !.on = FALSE] /\ moves' = moves - 1
      /\ note' = (IF note = None \/ nrow = None THEN note ELSE removeFrontmatter(note, Own(nrow)))
      /\ nrow' = (IF nrow = None THEN nrow ELSE Cleaned(nrow))
      /\ stranded' = (IF note' = None THEN {} ELSE stranded \cap note'.tags)
      /\ UNCHANGED <<document, unsaved>>
  BY DEF SwitchOff
<1>2. switch' \in [on : BOOLEAN, pro : BOOLEAN]
  BY <1>1 DEF PropertiesKnown
<1>3. moves' \in 0 .. MaxMoves
  BY <1>1, NotePropertiesAssumption DEF PropertiesKnown
<1>4. CASE nrow = None
  <2>1. note = None /\ note' = None /\ nrow' = None /\ unsaved' = None
    BY <1>1, <1>4 DEF PropertiesKnown
  <2>2. PropertiesKnown'
    BY <1>1, <1>2, <1>3, <2>1 DEF PropertiesKnown
  <2> QED BY <1>4, <2>1, <2>2 DEF StepKept, UserLinesKept, IdKept, IdOf
<1>5. CASE nrow # None
  <2>1. nrow \in NoteRow
    BY <1>5 DEF PropertiesKnown
  <2>2. nrow' = [nrow EXCEPT !.own = None, !.version = 0]
    BY <1>1, <1>5 DEF Cleaned
  <2>3. nrow' \in NoteRow /\ nrow'.own = None /\ nrow'.id = nrow.id
    <3>1. nrow' = [of |-> nrow.of, id |-> nrow.id, active |-> nrow.active, wasOn |-> nrow.wasOn, own |-> None, version |-> 0]
      BY <2>1, <2>2 DEF NoteRow
    <3>2. nrow.of \in NoteDocument /\ nrow.id \in Nat /\ nrow.active \in BOOLEAN /\ nrow.wasOn \in BOOLEAN
      BY <2>1 DEF NoteRow
    <3> QED BY <3>1, <3>2 DEF NoteRow
  <2>4. Own(nrow') = {} /\ nrow' # None /\ IdOf(nrow') = nrow.id /\ IdOf(nrow) = nrow.id
    BY <2>1, <2>3, OwnIs
  <2>5. note # None => /\ note \in NoteFront /\ note' \in NoteFront /\ note' # None /\ note'.tags = note.tags \ Own(nrow)
                       /\ DOMAIN note'.keys \cap MANAGED_KEYS = {}
                       /\ \A k \in {USER_KEY, CITEKEY} \cap DOMAIN note.keys : k \in DOMAIN note'.keys /\ note'.keys[k] = note.keys[k]
    <3> SUFFICES ASSUME note # None
                 PROVE  /\ note \in NoteFront /\ note' \in NoteFront /\ note' # None /\ note'.tags = note.tags \ Own(nrow)
                        /\ DOMAIN note'.keys \cap MANAGED_KEYS = {}
                        /\ \A k \in {USER_KEY, CITEKEY} \cap DOMAIN note.keys : k \in DOMAIN note'.keys /\ note'.keys[k] = note.keys[k]
      OBVIOUS
    <3>1. note \in NoteFront /\ note' = removeFrontmatter(note, Own(nrow))
      BY <1>1, <1>5 DEF PropertiesKnown
    <3> DEFINE after == removeFrontmatter(note, Own(nrow))
    <3>2. /\ after \in NoteFront /\ after.tags = note.tags \ Own(nrow) /\ DOMAIN after.keys \cap MANAGED_KEYS = {}
          /\ \A k \in {USER_KEY, CITEKEY} \cap DOMAIN note.keys : k \in DOMAIN after.keys /\ after.keys[k] = note.keys[k]
      BY <3>1, BlockCleaned
    <3>3. note' = after
      BY <3>1
    <3> HIDE DEF after
    <3> QED BY <3>1, <3>2, <3>3, NoNote
  <2>6. note # None => note'.tags \cap PluginTags \subseteq stranded'
    <3>1. note # None => note.tags \cap PluginTags \subseteq Own(nrow) \cup stranded
      BY <1>1, OwnIs DEF PropertiesKnown
    <3> QED BY <1>1, <2>5, <3>1
  <2>7. NOTE_ID \in MANAGED_KEYS
    BY DEF NOTE_ID, MANAGED_KEYS
  <2>8. note = None => note' = None
    BY <1>1
  <2>9. PropertiesKnown'
    <3>1. Own(nrow)' = {} /\ Own(unsaved)' = {}
      BY <1>1, <2>4, OwnIs DEF Own
    <3> QED BY <1>1, <1>2, <1>3, <2>3, <2>4, <2>5, <2>6, <2>7, <2>8, <3>1 DEF PropertiesKnown
  <2>10. note # None => LinesKept(note, note')
    <3>1. Own(nrow) \subseteq PluginTags
      BY <2>1, OwnIs
    <3> QED BY <2>5, <3>1 DEF LinesKept
  <2>11. IdKept
    BY <2>4, <2>5, <2>7, <2>8 DEF IdKept
  <2> QED BY <2>9, <2>10, <2>11 DEF StepKept, UserLinesKept
<1> QED BY <1>4, <1>5

\* The world changes: only what the user does to the note touches it.
LEMMA WorldMovesKeeps == ASSUME PropertiesKnown, TabletChanges \/ UserChanges \/ LicenceChanges PROVE StepKept
<1>1. moves' \in 0 .. MaxMoves /\ moves' # moves
  <2>1. moves > 0 /\ moves' = moves - 1
    BY DEF TabletChanges, UserChanges, LicenceChanges, WorldMoves
  <2> QED BY <2>1, NotePropertiesAssumption DEF PropertiesKnown
<1>2. CASE TabletChanges \/ LicenceChanges
  <2>1. UNCHANGED <<note, nrow, unsaved, stranded>> /\ switch'.on = switch.on
    BY <1>2 DEF TabletChanges, LicenceChanges, PropertiesKnown
  <2>2. switch' \in [on : BOOLEAN, pro : BOOLEAN]
    BY <1>2 DEF TabletChanges, LicenceChanges, PropertiesKnown
  <2>3. document' \in NoteDocument
    <3>1. CASE LicenceChanges
      BY <3>1 DEF LicenceChanges, PropertiesKnown
    <3>2. CASE TabletChanges
      <4>1. document \in NoteDocument
        BY DEF PropertiesKnown
      <4>2. ASSUME NEW t \in DeviceTags, document' = [document EXCEPT !.tags = IF t \in @ THEN @ \ {t} ELSE @ \cup {t}]
            PROVE  document' \in NoteDocument
        <5>1. (IF t \in document.tags THEN document.tags \ {t} ELSE document.tags \cup {t}) \in SUBSET DeviceTags
          BY <4>1 DEF NoteDocument
        <5> QED BY <4>1, <4>2, <5>1, Zenon DEF NoteDocument
      <4>3. ASSUME NEW f \in Folders \cup {None}, document' = [document EXCEPT !.folder = f] PROVE document' \in NoteDocument
        BY <4>1, <4>3, Zenon DEF NoteDocument
      <4>4. ASSUME NEW p \in Papers \cup {None}, document' = [document EXCEPT !.paper = p] PROVE document' \in NoteDocument
        BY <4>1, <4>4, Zenon DEF NoteDocument
      <4>5. ASSUME document' = [document EXCEPT !.here = FALSE] PROVE document' \in NoteDocument
        BY <4>1, <4>5, Zenon DEF NoteDocument
      <4> QED BY <3>2, <4>2, <4>3, <4>4, <4>5 DEF TabletChanges
    <3> QED BY <1>2, <3>1, <3>2
  <2>4. Own(nrow)' = Own(nrow) /\ Own(unsaved)' = Own(unsaved)
    BY <2>1 DEF Own
  <2>5. PropertiesKnown'
    BY <1>1, <2>1, <2>2, <2>3, <2>4 DEF PropertiesKnown
  <2>6. IdKept
    BY <2>1 DEF IdKept, IdOf, PropertiesKnown
  <2> QED BY <2>1, <2>5, <2>6, SameLines DEF StepKept, UserLinesKept
<1>3. CASE UserChanges
  <2>1. note # None /\ note \in NoteFront /\ UNCHANGED <<document, nrow, unsaved, switch, stranded>>
    BY <1>3 DEF UserChanges, PropertiesKnown
  <2>2. note.tags \in SUBSET (PluginTags \cup {USER_TAG}) /\ note.keys \in KeyTables
    BY <2>1 DEF NoteFront
  <2>3. note' = None \/ (/\ note' \in NoteFront /\ note'.tags \cap PluginTags = note.tags \cap PluginTags
                         /\ DOMAIN note'.keys \cap MANAGED_KEYS = DOMAIN note.keys \cap MANAGED_KEYS
                         /\ NOTE_ID \in DOMAIN note'.keys => NOTE_ID \in DOMAIN note.keys /\ note'.keys[NOTE_ID] = note.keys[NOTE_ID])
    <3>1. CASE note' = [note EXCEPT !.tags = @ \cup {USER_TAG}]
      <4>1. note.tags \cup {USER_TAG} \in SUBSET (PluginTags \cup {USER_TAG})
        BY <2>2
      <4>2. note' \in NoteFront
        BY <2>1, <3>1, <4>1, Zenon DEF NoteFront
      <4>3. note'.tags = note.tags \cup {USER_TAG} /\ note'.keys = note.keys
        BY <2>1, <3>1 DEF NoteFront
      <4>4. (note.tags \cup {USER_TAG}) \cap PluginTags = note.tags \cap PluginTags
        BY NotePropertiesAssumption
      <4> QED BY <4>2, <4>3, <4>4
    <3>2. ASSUME NEW k \in {USER_KEY, CITEKEY}, note' = [note EXCEPT !.keys = KeysWith(@, k, "mine")]
          PROVE  /\ note' \in NoteFront /\ note'.tags \cap PluginTags = note.tags \cap PluginTags
                 /\ DOMAIN note'.keys \cap MANAGED_KEYS = DOMAIN note.keys \cap MANAGED_KEYS
                 /\ NOTE_ID \in DOMAIN note'.keys => NOTE_ID \in DOMAIN note.keys /\ note'.keys[NOTE_ID] = note.keys[NOTE_ID]
      <4> DEFINE keys == KeysWith(note.keys, k, "mine")
      <4>1. k \in KeyNames /\ k \notin MANAGED_KEYS /\ k # NOTE_ID
        BY DEF KeyNames, MANAGED_KEYS, USER_KEY, CITEKEY, NOTE_ID
      <4>2. "mine" \in KeyValues
        BY DEF KeyValues
      <4>3. keys \in KeyTables /\ DOMAIN keys = DOMAIN note.keys \cup {k} /\ \A x \in DOMAIN note.keys : x # k => keys[x] = note.keys[x]
        <5>1. note.keys \in KeyTables /\ k \in KeyNames
          BY <2>2, <4>1
        <5> HIDE DEF keys
        <5>2. keys = KeysWith(note.keys, k, "mine")
          BY DEF keys
        <5>3. /\ KeysWith(note.keys, k, "mine") \in KeyTables
              /\ DOMAIN KeysWith(note.keys, k, "mine") = DOMAIN note.keys \cup {k}
              /\ \A x \in DOMAIN note.keys : x # k => KeysWith(note.keys, k, "mine")[x] = note.keys[x]
          BY <5>1, <4>2, KeyPut, ZenonT(40)
        <5> QED BY <5>2, <5>3
      <4>4. note' = [note EXCEPT !.keys = keys]
        BY <3>2
      <4> HIDE DEF keys
      <4>5. note' \in NoteFront
        BY <2>1, <4>3, <4>4, Zenon DEF NoteFront
      <4>6. note'.tags = note.tags /\ note'.keys = keys
        BY <2>1, <4>4 DEF NoteFront
      <4> QED BY <4>1, <4>3, <4>5, <4>6
    <3> QED BY <1>3, <3>1, <3>2 DEF UserChanges
  <2>4. Own(nrow)' = Own(nrow) /\ Own(unsaved)' = Own(unsaved)
    BY <2>1 DEF Own
  <2>5. PropertiesKnown'
    <3>1. CASE note' = None
      BY <1>1, <2>1, <2>4, <3>1 DEF PropertiesKnown
    <3>2. CASE note' # None
      BY <1>1, <2>1, <2>3, <2>4, <3>2 DEF PropertiesKnown
    <3> QED BY <3>1, <3>2
  <2>6. IdKept
    <3>1. IdOf(nrow) # None => nrow # None /\ IdOf(nrow) = nrow.id
      BY DEF IdOf
    <3>2. nrow # None /\ note' # None /\ NOTE_ID \in DOMAIN note'.keys => note'.keys[NOTE_ID] = nrow.id
      BY <2>1, <2>3 DEF PropertiesKnown
    <3> QED BY <2>1, <3>1, <3>2 DEF IdKept
  <2> QED BY <1>1, <2>1, <2>5, <2>6 DEF StepKept, UserLinesKept
<1> QED BY <1>2, <1>3

\* frontmatter.ts and frontmatter-pass.ts, applyFrontmatter, removeFrontmatter, backfillFrontmatter, cleanupFrontmatter:
\* however runs, crashes, the switch, the licence, the tablet and the user's own edits follow each other, no line of the
\* user's leaves the properties, the note keeps its id, and whatever the plugin wrote under tags is named by the row, so
\* that it can be taken out again, but for what a run that died or went without a licence had in hand.
THEOREM PropertiesStayTheUsers == PropertiesSpec => PropertiesAreTheUsers
<1>1. PropertiesInit => PropertiesKnown
  <2> SUFFICES ASSUME PropertiesInit PROVE PropertiesKnown
    OBVIOUS
  <2>1. document \in NoteDocument
    BY DEF PropertiesInit, NoteDocument
  <2>2. MaxMoves \in 0 .. MaxMoves
    BY NotePropertiesAssumption
  <2> QED BY <2>1, <2>2 DEF PropertiesInit, PropertiesKnown
<1>2. PropertiesKnown /\ [PropertiesNext]_propertyVars => PropertiesKnown' /\ [UserLinesKept /\ IdKept]_propertyVars
  <2> SUFFICES ASSUME PropertiesKnown, [PropertiesNext]_propertyVars
               PROVE  PropertiesKnown' /\ [UserLinesKept /\ IdKept]_propertyVars
    OBVIOUS
  <2>1. CASE PropertiesNext
    <3>1. StepKept
      BY <2>1, WriteUnitKeeps, SaveKeeps, CrashKeeps, OrphanKeeps, BackfillStaleKeeps, SwitchOnKeeps, SwitchOffKeeps, WorldMovesKeeps
         DEF PropertiesNext
    <3> QED BY <3>1 DEF StepKept
  <2>2. CASE UNCHANGED propertyVars
    <3>1. UNCHANGED <<document, note, nrow, unsaved, switch, stranded, moves>>
      BY <2>2 DEF propertyVars
    <3>2. Own(nrow)' = Own(nrow) /\ Own(unsaved)' = Own(unsaved)
      BY <3>1 DEF Own
    <3>3. PropertiesKnown'
      BY <3>1, <3>2 DEF PropertiesKnown
    <3> QED BY <2>2, <3>3
  <2> QED BY <2>1, <2>2
<1>3. PropertiesKnown => NothingLeftBehind
  <2> SUFFICES ASSUME PropertiesKnown, unsaved = None, note # None
               PROVE  /\ note.tags \cap PluginTags \subseteq Own(nrow) \cup stranded
                      /\ ~switch.on => DOMAIN note.keys \cap MANAGED_KEYS \subseteq stranded
    BY DEF NothingLeftBehind
  <2> QED BY OwnIs DEF PropertiesKnown
<1>4. [UserLinesKept /\ IdKept]_propertyVars =>
        [\A front \in {note} : \A later \in {note'} :
            moves' = moves \/ switch' # switch =>
                (front # None /\ nrow # None => later # None
                    /\ front.tags \ PluginTags \subseteq later.tags
                    /\ \A k \in {USER_KEY, CITEKEY} \cap DOMAIN front.keys :
                        k \in DOMAIN later.keys /\ later.keys[k] \in {front.keys[k]} \cup (IF k = CITEKEY THEN {document.paper} ELSE {}))]_propertyVars
  BY DEF UserLinesKept, LinesKept
<1>5. [UserLinesKept /\ IdKept]_propertyVars =>
        [IdOf(nrow) # None => IdOf(nrow') = IdOf(nrow)
            /\ (note' # None /\ "remarkable-note-id" \in DOMAIN note'.keys => note'.keys["remarkable-note-id"] = IdOf(nrow))]_propertyVars
  BY DEF IdKept, NOTE_ID
<1> QED BY <1>1, <1>2, <1>3, <1>4, <1>5, PTL DEF PropertiesSpec, PropertiesAreTheUsers, UserLinesStay, IdentityStays

=============================================================================

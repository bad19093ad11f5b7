------------------------ MODULE ReadDebouncerProofs ------------------------
(***************************************************************************)
(* What ReadDebouncer guarantees for every set of callers and addresses,   *)
(* every window and every number of flushes, fetches and device changes.   *)
(***************************************************************************)
EXTENDS ReadDebouncer, PlanProofs, FiniteSetTheorems, TLAPS

-----------------------------------------------------------------------------
(* The window.                                                             *)

\* WindowIsFixed, with the types of the ticks.
Ticking ==
    /\ window \in Nat
    /\ scope = "open" =>
          \/ timer = NoTimer /\ age = Undefined
          \/ timer \in Nat /\ age \in Nat /\ timer + age = window

LEMMA TickingStep == Ticking /\ [Next]_vars => Ticking'
<1> SUFFICES ASSUME Ticking, [Next]_vars PROVE Ticking'
  OBVIOUS
<1> USE DEF Ticking, NoTimer, Undefined
<1>1. ASSUME NEW c \in Callers, NEW g \in Groups, readAll(c, g)
      PROVE  Ticking'
  BY <1>1 DEF readAll, startTimer
<1>2. ASSUME NEW c \in Callers, NEW g \in Groups, readAllNow(c, g) \/ issueDirectly(c, g)
      PROVE  Ticking'
  BY <1>2 DEF readAllNow, issueDirectly
<1>3. ASSUME NEW c \in Callers, RejectClosed(c) \/ ReaderInterrupted(c) \/ Return(c)
      PROVE  Ticking'
  BY <1>3 DEF RejectClosed, ReaderInterrupted, Return
<1>4. CASE flush \/ DeviceChanges
  BY <1>4 DEF flush, DeviceChanges
<1>5. CASE Tick
  BY <1>5 DEF Tick
<1>6. CASE TimerFires \/ FlushStarts
  BY <1>6 DEF TimerFires, FlushStarts, TakeBatch
<1>7. ASSUME NEW f \in flights, FetchSteps(f) \/ CloseInterruptsFetch(f)
      PROVE  Ticking'
  BY <1>7 DEF FetchSteps, SpanRead, ReadsEnd, FetchFails, CloseInterruptsFetch
<1>8. CASE Close \/ CloseInterruptsTimer \/ CloseInterruptsFlush \/ Finalize
  BY <1>8 DEF Close, CloseInterruptsTimer, CloseInterruptsFlush, Finalize
<1>9. CASE UNCHANGED vars
  BY <1>9 DEF vars
<1> QED
  BY <1>1, <1>2, <1>3, <1>4, <1>5, <1>6, <1>7, <1>8, <1>9 DEF Next, Arrive

\* WindowIsFixed: no arrival restarts the window of the batch it joins, and no flush
\* (flushPending of debouncer.ts) leaves a timer behind that would end the next one early.
THEOREM WindowIsKept == Spec => []WindowIsFixed
<1>1. Init => Ticking
  BY TimingAssumption DEF Init, Ticking
<1>2. Ticking => WindowIsFixed
  BY DEF Ticking, WindowIsFixed, NoTimer, Undefined
<1> QED
  BY <1>1, <1>2, TickingStep, PTL DEF Spec

-----------------------------------------------------------------------------
(* The answers.                                                            *)

\* What the proof takes from the planner.
LEMMA PlanFinds == \A S \in SUBSET Addresses : FindsAll(S, MaxPerRead, MaxGap)
<1> SUFFICES ASSUME NEW S \in SUBSET Addresses PROVE FindsAll(S, MaxPerRead, MaxGap)
  OBVIOUS
<1>1. S \subseteq Nat /\ IsFiniteSet(S)
  BY RequestAssumption, FS_Subset
<1> QED
  BY <1>1, TimingAssumption, ReadsAreFound

Entries == [Addresses -> SUBSET Slots]
Responses == Seq([version : Nat, length : Int])
Plans == {buildReadPlan(S, MaxPerRead, MaxGap) : S \in SUBSET Addresses}
Flights == [owner : Callers \cup {Nobody}, entries : Entries, spans : Plans, responses : Responses]

Calling(st, gr, as) ==
    /\ st \in [Callers -> {"idle", "waiting", "answered", "failed", "interrupted"}]
    /\ gr \in [Callers -> Groups \cup {<<>>}]
    /\ as \in [Callers -> Nat]

\* A caller of a batch is there with all of its group, and is not taken for a new one.
Whole(b, st, gr) ==
    /\ b \in Entries
    /\ \A c \in CallersIn(b) : /\ st[c] # "idle"
                               /\ \A i \in DOMAIN gr[c] : <<c, i>> \in b[gr[c][i]]

\* Every response is younger than the callers that wait for it.
Timely(f, as) ==
    \A i \in DOMAIN f.responses : \A c \in CallersIn(f.entries) : f.responses[i].version >= as[c]

FlightOK(f, st, gr, as) ==
    /\ f \in Flights
    /\ f.spans = buildReadPlan(CollectedIn(f.entries), MaxPerRead, MaxGap)
    /\ Whole(f.entries, st, gr) /\ Timely(f, as)

Answered == AnswersAreWhole /\ AnswersAreFresh

ReadInv ==
    /\ Calling(status, group, asOf) /\ DOMAIN answer = Callers
    /\ version \in Nat /\ \A c \in Callers : asOf[c] <= version
    /\ Whole(collected, status, group)
    /\ \A f \in flights : FlightOK(f, status, group, asOf)
    /\ Answered

LEMMA CallerFacts ==
    ASSUME NEW b \in Entries
    PROVE  /\ CallersIn(b) \subseteq Callers
           /\ \A a \in Addresses : \A s \in b[a] : s \in Slots /\ s[1] \in CallersIn(b)
           /\ \A c \in CallersIn(b) : \E a \in Addresses : \E s \in b[a] : s[1] = c
<1>1. WaitersIn(b) \subseteq Slots
  BY DEF Entries, WaitersIn
<1>2. \A s \in Slots : s[1] \in Callers
  BY DEF Slots
<1> QED
  BY <1>1, <1>2 DEF CallersIn, WaitersIn, Entries

LEMMA NothingWhole ==
    ASSUME NEW st, NEW gr
    PROVE  /\ Nothing \in Entries /\ CallersIn(Nothing) = {} /\ Whole(Nothing, st, gr)
<1>1. Nothing \in Entries /\ CallersIn(Nothing) = {}
  BY DEF Nothing, Entries, CallersIn, WaitersIn
<1> QED
  BY <1>1 DEF Whole

LEMMA GroupFacts ==
    ASSUME NEW g \in Groups
    PROVE  DOMAIN g \subseteq 1..MaxGroup /\ \A i \in DOMAIN g : g[i] \in Addresses
BY RequestAssumption, TimingAssumption

LEMMA GroupSequence ==
    ASSUME NEW g \in Groups \cup {<<>>}
    PROVE  g \in Seq(Addresses) /\ DOMAIN g = 1..Len(g) /\ Len(g) \in Nat
<1>1. CASE g \in Groups
  BY <1>1, RequestAssumption
<1>2. CASE g = <<>>
  BY <1>2
<1> QED
  BY <1>1, <1>2

\* The waiters of a call are its own, one per address of its group.
LEMMA WaiterFacts ==
    ASSUME NEW c \in Callers, NEW g \in Groups
    PROVE  /\ Waiters(c, g) \in Entries /\ CallersIn(Waiters(c, g)) \subseteq {c}
           /\ \A i \in DOMAIN g : <<c, i>> \in Waiters(c, g)[g[i]]
<1> DEFINE w == Waiters(c, g)
<1>1. \A a \in Addresses : w[a] = {<<c, i>> : i \in {j \in DOMAIN g : g[j] = a}}
  BY DEF Waiters
<1>2. \A a \in Addresses : \A s \in w[a] : s \in Slots /\ s[1] = c
  BY <1>1, GroupFacts DEF Slots
<1>3. w \in Entries
  BY <1>2 DEF Entries, Waiters
<1>4. \A i \in DOMAIN g : g[i] \in Addresses /\ <<c, i>> \in w[g[i]]
  BY <1>1, GroupFacts
<1> HIDE DEF w
<1>5. CallersIn(w) \subseteq {c}
  BY <1>2, <1>3, CallerFacts
<1> QED
  BY <1>3, <1>4, <1>5 DEF w

\* A new call joins a batch with all of its group, and takes nobody's place.
LEMMA AskFacts ==
    ASSUME ReadInv, NEW c \in Callers, NEW g \in Groups, Asks(c, g), version' = version
    PROVE  /\ Calling(status', group', asOf') /\ DOMAIN answer' = Callers
           /\ version' \in Nat /\ \A d \in Callers : asOf'[d] <= version'
           /\ \A f \in flights : FlightOK(f, status', group', asOf')
           /\ Whole(collected, status', group')
           /\ Whole(Waiters(c, g), status', group')
           /\ Whole(Collect(collected, Waiters(c, g)), status', group')
           /\ Answered'
<1>1. /\ status[c] = "idle" /\ status' = [status EXCEPT ![c] = "waiting"]
      /\ group' = [group EXCEPT ![c] = g] /\ asOf' = [asOf EXCEPT ![c] = version]
      /\ answer' = answer
  BY DEF Asks
<1>2. /\ Calling(status', group', asOf') /\ DOMAIN answer' = Callers
      /\ version' \in Nat /\ \A d \in Callers : asOf'[d] <= version'
  BY <1>1 DEF ReadInv, Calling
<1>3. \A d \in Callers \ {c} : status'[d] = status[d] /\ group'[d] = group[d] /\ asOf'[d] = asOf[d]
  BY <1>1 DEF ReadInv, Calling
<1>4. status'[c] = "waiting" /\ group'[c] = g
  BY <1>1 DEF ReadInv, Calling
<1>5. ASSUME NEW b, Whole(b, status, group)
      PROVE  c \notin CallersIn(b) /\ CallersIn(b) \subseteq Callers /\ Whole(b, status', group')
  <2>1. c \notin CallersIn(b) /\ CallersIn(b) \subseteq Callers
    BY <1>1, <1>5, CallerFacts DEF Whole
  <2> QED
    BY <1>3, <1>5, <2>1 DEF Whole
<1>6. ASSUME NEW f \in flights PROVE FlightOK(f, status', group', asOf')
  <2>1. FlightOK(f, status, group, asOf)
    BY DEF ReadInv
  <2>2. /\ c \notin CallersIn(f.entries) /\ CallersIn(f.entries) \subseteq Callers
        /\ Whole(f.entries, status', group')
    BY <1>5, <2>1 DEF FlightOK
  <2>3. Timely(f, asOf')
    BY <1>3, <2>1, <2>2 DEF FlightOK, Timely
  <2> QED
    BY <2>1, <2>2, <2>3 DEF FlightOK
<1>7. /\ Whole(collected, status, group) /\ Whole(collected, status', group')
      /\ CallersIn(collected) \subseteq Callers \ {c}
  BY <1>5 DEF ReadInv
<1>8. Whole(Waiters(c, g), status', group')
  <2> DEFINE w == Waiters(c, g)
  <2>1. w \in Entries /\ CallersIn(w) \subseteq {c} /\ \A i \in DOMAIN g : <<c, i>> \in w[g[i]]
    BY WaiterFacts
  <2> HIDE DEF w
  <2>2. Whole(w, status', group')
    BY <1>4, <2>1 DEF Whole
  <2> QED
    BY <2>2 DEF w
<1>9. Whole(Collect(collected, Waiters(c, g)), status', group')
  <2> DEFINE w == Waiters(c, g)
             u == Collect(collected, w)
  <2>1. /\ w \in Entries /\ CallersIn(w) \subseteq {c}
        /\ \A i \in DOMAIN g : g[i] \in Addresses /\ <<c, i>> \in w[g[i]]
    BY WaiterFacts, GroupFacts
  <2>2. collected \in Entries
    BY <1>7 DEF Whole
  <2> HIDE DEF w
  <2>3. u \in Entries /\ \A a \in Addresses : u[a] = collected[a] \cup w[a]
    BY <2>1, <2>2 DEF Collect, Entries
  <2> HIDE DEF u
  <2>4. CallersIn(u) \subseteq CallersIn(collected) \cup {c}
    BY <2>1, <2>2, <2>3, CallerFacts
  <2>5. ASSUME NEW d \in CallersIn(u), NEW i \in DOMAIN group'[d]
        PROVE  <<d, i>> \in u[group'[d][i]]
    <3>1. CASE d = c
      BY <1>4, <2>1, <2>3, <2>5, <3>1
    <3>2. CASE d # c
      <4>1. d \in CallersIn(collected) /\ group'[d] = group[d] /\ d \in Callers
        BY <1>3, <1>7, <2>4, <3>2
      <4>2. group[d][i] \in Addresses
        <5>1. group[d] \in Groups
          BY <2>5, <4>1 DEF ReadInv, Calling
        <5> QED
          BY <2>5, <4>1, <5>1, GroupFacts
      <4> QED
        BY <1>7, <2>3, <2>5, <4>1, <4>2 DEF Whole
    <3> QED
      BY <3>1, <3>2
  <2>6. \A d \in CallersIn(u) : status'[d] # "idle"
    BY <1>4, <1>7, <2>4 DEF Whole
  <2>7. Whole(u, status', group')
    BY <2>3, <2>5, <2>6 DEF Whole
  <2> QED
    BY <2>7 DEF u, w
<1>10. Answered'
  <2>1. \A d \in Callers : status'[d] = "answered" =>
           /\ status[d] = "answered" /\ group'[d] = group[d] /\ asOf'[d] = asOf[d]
    BY <1>3, <1>4
  <2> QED
    BY <1>1, <2>1 DEF ReadInv, Answered, AnswersAreWhole, AnswersAreFresh
<1> QED
  BY <1>2, <1>6, <1>7, <1>8, <1>9, <1>10

\* A batch that is taken is whole, and has no response yet.
LEMMA FlightStarts ==
    ASSUME NEW owner \in Callers \cup {Nobody}, NEW b, NEW st, NEW gr, NEW as, Whole(b, st, gr)
    PROVE  FlightOK(Flight(owner, b), st, gr, as)
<1> DEFINE f == Flight(owner, b)
<1>1. /\ f.owner = owner /\ f.entries = b /\ f.responses = <<>>
      /\ f.spans = buildReadPlan(CollectedIn(b), MaxPerRead, MaxGap)
      /\ f = [owner |-> f.owner, entries |-> f.entries, spans |-> f.spans, responses |-> f.responses]
  BY DEF Flight
<1>2. b \in Entries /\ CollectedIn(b) \in SUBSET Addresses
  BY DEF Whole, CollectedIn
<1>3. f.spans \in Plans
  BY <1>1, <1>2 DEF Plans
<1>4. <<>> \in Responses
  BY DEF Responses
<1> HIDE DEF f
<1>5. f \in Flights
  BY <1>1, <1>2, <1>3, <1>4 DEF Flights
<1>6. FlightOK(f, st, gr, as)
  BY <1>1, <1>5 DEF FlightOK, Timely
<1> QED
  BY <1>6 DEF f

LEMMA TakeKeeps ==
    ASSUME ReadInv, TakeBatch, UNCHANGED <<calls, version>>
    PROVE  ReadInv'
<1>1. UNCHANGED <<status, group, answer, asOf, version>> /\ collected' = Nothing
  BY DEF TakeBatch, calls
<1>2. ASSUME NEW f \in flights' PROVE FlightOK(f, status, group, asOf)
  <2>1. CASE f \in flights
    BY <2>1 DEF ReadInv
  <2>2. CASE f = Flight(Nobody, collected)
    BY <2>2, FlightStarts DEF ReadInv
  <2> QED
    BY <2>1, <2>2 DEF TakeBatch
<1>3. Answered'
  BY <1>1 DEF ReadInv, Answered, AnswersAreWhole, AnswersAreFresh
<1> QED
  BY <1>1, <1>2, <1>3, NothingWhole DEF ReadInv

\* A response is as young as the device is when it is read.
LEMMA ReadKeeps ==
    ASSUME ReadInv, NEW f \in flights, SpanRead(f)
    PROVE  ReadInv'
<1>1. UNCHANGED <<collected, status, group, answer, asOf, version>>
  BY DEF SpanRead, calls
<1>2. FlightOK(f, status, group, asOf) /\ f \in Flights /\ f.responses \in Responses
  BY DEF ReadInv, FlightOK, Flights
<1>3. CollectedIn(f.entries) \in SUBSET Addresses
  BY DEF CollectedIn
<1>4. /\ f.spans \in Seq(SUBSET Nat)
      /\ \A k \in 1..Len(f.spans) : IsFiniteSet(f.spans[k])
  BY <1>2, <1>3, PlanFinds DEF FindsAll, FlightOK
<1>5. Len(f.responses) + 1 \in 1..Len(f.spans)
  BY <1>2, <1>4 DEF SpanRead, Responses
<1>6. Cardinality(f.spans[Len(f.responses) + 1]) \in Nat
  BY <1>4, <1>5, FS_CardinalityType
<1>q. PICK quantity : quantity = Cardinality(f.spans[Len(f.responses) + 1])
  OBVIOUS
<1>7. PICK length \in {quantity - 1, quantity} :
         flights' = (flights \ {f}) \cup
            {[f EXCEPT !.responses = Append(@, [version |-> version, length |-> length])]}
  BY <1>q DEF SpanRead
<1>r. PICK r : r = [version |-> version, length |-> length]
  OBVIOUS
<1>8. /\ r \in [version : Nat, length : Int] /\ r.version = version
      /\ flights' = (flights \ {f}) \cup {[f EXCEPT !.responses = Append(@, r)]}
  <2>1. length \in Int
    BY <1>6, <1>q
  <2>2. version \in Nat
    BY DEF ReadInv
  <2> QED
    BY <1>7, <1>r, <2>1, <2>2
<1> DEFINE g == [f EXCEPT !.responses = Append(@, r)]
<1>9. Append(f.responses, r) \in Responses
  BY <1>2, <1>8 DEF Responses
<1>10. /\ g \in Flights /\ g.entries = f.entries /\ g.spans = f.spans
       /\ g.responses = Append(f.responses, r)
  BY <1>2, <1>9 DEF Flights
<1>11. Timely(g, asOf)
  <2>1. \A i \in DOMAIN g.responses : \/ i \in DOMAIN f.responses /\ g.responses[i] = f.responses[i]
                                    \/ g.responses[i] = r
    BY <1>2, <1>10 DEF Responses
  <2>2. \A c \in CallersIn(f.entries) : version >= asOf[c]
    BY <1>2, CallerFacts DEF ReadInv, Calling, Flights
  <2> HIDE DEF g
  <2> QED
    BY <1>2, <1>8, <1>10, <2>1, <2>2 DEF FlightOK, Timely
<1> HIDE DEF g
<1>12. FlightOK(g, status, group, asOf)
  BY <1>2, <1>10, <1>11 DEF FlightOK
<1>13. \A h \in flights' : FlightOK(h, status, group, asOf)
  BY <1>8, <1>12 DEF ReadInv, g
<1>14. Answered'
  BY <1>1 DEF ReadInv, Answered, AnswersAreWhole, AnswersAreFresh
<1> QED
  BY <1>1, <1>13, <1>14 DEF ReadInv

\* Callers may be answered, and flights may end: nobody starts to be idle.
LEMMA AnswersKeep ==
    ASSUME ReadInv, UNCHANGED <<collected, group, asOf, version>>, flights' \subseteq flights,
           status' \in [Callers -> {"idle", "waiting", "answered", "failed", "interrupted"}],
           \A c \in Callers : status[c] # "idle" => status'[c] # "idle",
           DOMAIN answer' = Callers, Answered'
    PROVE  ReadInv'
<1>1. ASSUME NEW b, Whole(b, status, group) PROVE Whole(b, status', group)
  BY <1>1, CallerFacts DEF Whole
<1>2. Whole(collected, status', group)
  BY <1>1 DEF ReadInv
<1>3. ASSUME NEW f \in flights PROVE FlightOK(f, status', group, asOf)
  BY <1>1 DEF ReadInv, FlightOK
<1> QED
  BY <1>2, <1>3 DEF ReadInv, Calling

\* Each value that is handed out is of its address, and from a response.
LEMMA ValueFacts ==
    ASSUME NEW f, NEW st, NEW gr, NEW as, FlightOK(f, st, gr, as), WellFormed(f),
           NEW a \in CollectedIn(f.entries)
    PROVE  /\ valueOf(f, a).address = a
           /\ \E i \in DOMAIN f.responses : valueOf(f, a).version = f.responses[i].version
<1>1. CollectedIn(f.entries) \in SUBSET Addresses
  BY DEF CollectedIn
<1>2. /\ f.spans \in Seq(SUBSET Nat) /\ f.responses \in Responses
      /\ f.spans = buildReadPlan(CollectedIn(f.entries), MaxPerRead, MaxGap)
  BY <1>1, PlanFinds DEF FlightOK, Flights, FindsAll
<1>3. PICK location : location = locate(f.spans, a)
  OBVIOUS
<1>4. /\ location.span \in 1..Len(f.spans) /\ IsFiniteSet(f.spans[location.span])
      /\ location.offset \in 1..Cardinality(f.spans[location.span])
      /\ Lowest(f.spans[location.span]) + location.offset - 1 = a
  BY <1>1, <1>2, <1>3, PlanFinds DEF FindsAll
<1>5. location # NotFound
  BY <1>4 DEF NotFound
<1>6. DOMAIN f.responses = 1..Len(f.spans)
  BY <1>2 DEF WellFormed, Responses
<1>7. f.responses[location.span].length = Cardinality(f.spans[location.span])
  BY <1>4, <1>6 DEF WellFormed
<1>8. ~(location.offset > f.responses[location.span].length)
  BY <1>4, <1>7, FS_CardinalityType
<1>9. valueOf(f, a) = [address |-> Lowest(f.spans[location.span]) + location.offset - 1,
                       version |-> f.responses[location.span].version]
  BY <1>3, <1>5, <1>8 DEF valueOf
<1> QED
  BY <1>4, <1>6, <1>9

\* settle: a batch tells its callers the values of their groups, or a failure.
LEMMA SettleKeeps ==
    ASSUME ReadInv, NEW f \in flights, NEW success \in BOOLEAN,
           success => WellFormed(f), Settle(f, success), UNCHANGED <<collected, version>>
    PROVE  ReadInv'
<1> DEFINE told == {c \in CallersIn(f.entries) : status[c] = "waiting"}
<1>1. /\ status' = [c \in Callers |->
                       IF c \notin told THEN status[c]
                       ELSE IF success THEN "answered" ELSE "failed"]
      /\ answer' = [c \in Callers |->
                       IF c \in told /\ success
                       THEN [i \in DOMAIN group[c] |-> valueOf(f, group[c][i])]
                       ELSE answer[c]]
      /\ flights' \subseteq flights /\ UNCHANGED <<group, asOf>>
  BY DEF Settle
<1>2. FlightOK(f, status, group, asOf)
  BY DEF ReadInv
<1>3. ASSUME NEW c \in told, success
      PROVE  /\ c \in Callers /\ Len(answer'[c]) = Len(group[c])
             /\ DOMAIN answer'[c] = DOMAIN group[c]
             /\ \A i \in DOMAIN group[c] : /\ answer'[c][i].address = group[c][i]
                                           /\ answer'[c][i].version >= asOf[c]
  <2>1. f.entries \in Entries /\ c \in CallersIn(f.entries) /\ c \in Callers
    BY <1>2, CallerFacts DEF FlightOK, Whole
  <2>2. answer'[c] = [i \in DOMAIN group[c] |-> valueOf(f, group[c][i])]
    BY <1>1, <1>3, <2>1
  <2>3. group[c] \in Seq(Addresses) /\ DOMAIN group[c] = 1..Len(group[c]) /\ Len(group[c]) \in Nat
    <3>1. group[c] \in Groups \cup {<<>>}
      BY <2>1 DEF ReadInv, Calling
    <3> QED
      BY <3>1, GroupSequence
  <2>4. Len(answer'[c]) = Len(group[c]) /\ DOMAIN answer'[c] = DOMAIN group[c]
    BY <2>2, <2>3
  <2>5. ASSUME NEW i \in DOMAIN group[c]
        PROVE  /\ valueOf(f, group[c][i]).address = group[c][i]
               /\ valueOf(f, group[c][i]).version >= asOf[c]
    <3>1. PICK a \in Addresses : a = group[c][i]
      BY <2>3
    <3>2. <<c, i>> \in f.entries[a]
      BY <1>2, <2>1, <3>1 DEF FlightOK, Whole
    <3>3. a \in CollectedIn(f.entries)
      BY <3>1, <3>2 DEF CollectedIn
    <3>4. /\ valueOf(f, a).address = a
          /\ \E j \in DOMAIN f.responses : valueOf(f, a).version = f.responses[j].version
      BY <1>2, <1>3, <3>3, ValueFacts
    <3>5. \A j \in DOMAIN f.responses : f.responses[j].version >= asOf[c]
      BY <1>2, <2>1 DEF FlightOK, Timely
    <3> QED
      BY <3>1, <3>4, <3>5
  <2> QED
    BY <2>1, <2>2, <2>4, <2>5
<1> HIDE DEF told
<1>4. \A c \in Callers : status'[c] = "answered" =>
         \/ c \in told /\ success
         \/ status[c] = "answered" /\ answer'[c] = answer[c]
  BY <1>1 DEF told
<1>5. Answered'
  <2>1. AnswersAreWhole'
    <3> SUFFICES ASSUME NEW c \in Callers, status'[c] = "answered"
                 PROVE  /\ Len(answer'[c]) = Len(group[c])
                        /\ \A i \in DOMAIN group[c] : answer'[c][i].address = group[c][i]
      BY <1>1 DEF AnswersAreWhole
    <3> QED
      BY <1>3, <1>4 DEF ReadInv, Answered, AnswersAreWhole
  <2>2. AnswersAreFresh'
    <3> SUFFICES ASSUME NEW c \in Callers, status'[c] = "answered", NEW i \in DOMAIN answer'[c]
                 PROVE  answer'[c][i].version >= asOf[c]
      BY <1>1 DEF AnswersAreFresh
    <3> QED
      BY <1>3, <1>4 DEF ReadInv, Answered, AnswersAreFresh
  <2> QED
    BY <2>1, <2>2 DEF Answered
<1>6. /\ status' \in [Callers -> {"idle", "waiting", "answered", "failed", "interrupted"}]
      /\ \A c \in Callers : status[c] # "idle" => status'[c] # "idle"
      /\ DOMAIN answer' = Callers
  BY <1>1 DEF ReadInv, Calling
<1> QED
  BY <1>1, <1>5, <1>6, AnswersKeep

\* A call slot is used again only when no batch has a waiter of its last call.
LEMMA ReturnKeeps ==
    ASSUME ReadInv, NEW c \in Callers, Return(c)
    PROVE  ReadInv'
<1>1. /\ status' = [status EXCEPT ![c] = "idle"] /\ group' = [group EXCEPT ![c] = <<>>]
      /\ answer' = [answer EXCEPT ![c] = <<>>] /\ asOf' = [asOf EXCEPT ![c] = 0]
      /\ c \notin CallersIn(collected) /\ \A f \in flights : c \notin CallersIn(f.entries)
      /\ UNCHANGED <<collected, flights, version>>
  BY DEF Return
<1>2. \A d \in Callers \ {c} : /\ status'[d] = status[d] /\ group'[d] = group[d]
                               /\ asOf'[d] = asOf[d] /\ answer'[d] = answer[d]
  BY <1>1 DEF ReadInv, Calling
<1>3. status'[c] = "idle" /\ asOf'[c] = 0
  BY <1>1 DEF ReadInv, Calling
<1>4. Calling(status', group', asOf') /\ DOMAIN answer' = Callers
  BY <1>1 DEF ReadInv, Calling
<1>5. \A d \in Callers : asOf'[d] <= version
  BY <1>2, <1>3 DEF ReadInv
<1>6. ASSUME NEW b, Whole(b, status, group), c \notin CallersIn(b)
      PROVE  CallersIn(b) \subseteq Callers \ {c} /\ Whole(b, status', group')
  <2>1. CallersIn(b) \subseteq Callers \ {c}
    BY <1>6, CallerFacts DEF Whole
  <2> QED
    BY <1>2, <1>6, <2>1 DEF Whole
<1>7. ASSUME NEW f \in flights PROVE FlightOK(f, status', group', asOf')
  <2>1. FlightOK(f, status, group, asOf) /\ c \notin CallersIn(f.entries)
    BY <1>1 DEF ReadInv
  <2>2. Whole(f.entries, status', group') /\ CallersIn(f.entries) \subseteq Callers \ {c}
    BY <1>6, <2>1 DEF FlightOK
  <2>3. Timely(f, asOf')
    BY <1>2, <2>1, <2>2 DEF FlightOK, Timely
  <2> QED
    BY <2>1, <2>2, <2>3 DEF FlightOK
<1>8. Whole(collected, status', group')
  BY <1>1, <1>6 DEF ReadInv
<1>9. Answered'
  <2>1. \A d \in Callers : status'[d] = "answered" => d # c
    BY <1>3
  <2> QED
    BY <1>2, <2>1 DEF ReadInv, Answered, AnswersAreWhole, AnswersAreFresh
<1> QED
  BY <1>1, <1>4, <1>5, <1>7, <1>8, <1>9 DEF ReadInv

\* Steps that change nothing but the clock, the line of flushes and the scope.
LEMMA StillKeeps ==
    ASSUME ReadInv, UNCHANGED <<collected, flights, calls>>, version' \in Nat, version' >= version
    PROVE  ReadInv'
<1>1. UNCHANGED <<status, group, answer, asOf>>
  BY DEF calls
<1>2. \A c \in Callers : asOf[c] <= version'
  BY DEF ReadInv, Calling
<1>3. Answered'
  BY <1>1 DEF ReadInv, Answered, AnswersAreWhole, AnswersAreFresh
<1> QED
  BY <1>1, <1>2, <1>3 DEF ReadInv

LEMMA ReadStep == ASSUME ReadInv, [Next]_vars PROVE ReadInv'
<1>1. ASSUME NEW c \in Callers, NEW g \in Groups, readAll(c, g) \/ readAllNow(c, g)
      PROVE  ReadInv'
  <2>1. /\ Asks(c, g) /\ collected' = Collect(collected, Waiters(c, g))
        /\ UNCHANGED <<flights, version>>
    BY <1>1 DEF readAll, readAllNow
  <2> QED
    BY <2>1, AskFacts DEF ReadInv
<1>2. ASSUME NEW c \in Callers, NEW g \in Groups, issueDirectly(c, g)
      PROVE  ReadInv'
  <2>1. /\ Asks(c, g) /\ flights' = flights \cup {Flight(c, Waiters(c, g))}
        /\ UNCHANGED <<collected, version>>
    BY <1>2 DEF issueDirectly
  <2>2. FlightOK(Flight(c, Waiters(c, g)), status', group', asOf')
    BY <2>1, AskFacts, FlightStarts
  <2> QED
    BY <2>1, <2>2, AskFacts DEF ReadInv
<1>3. ASSUME NEW c \in Callers, RejectClosed(c) \/ ReaderInterrupted(c)
      PROVE  ReadInv'
  <2>1. PICK st \in {"failed", "interrupted"} :
           /\ status' = [status EXCEPT ![c] = st] /\ flights' \subseteq flights
           /\ UNCHANGED <<collected, group, answer, asOf, version>>
    BY <1>3 DEF RejectClosed, ReaderInterrupted
  <2>2. /\ status' \in [Callers -> {"idle", "waiting", "answered", "failed", "interrupted"}]
        /\ \A d \in Callers : status[d] # "idle" => status'[d] # "idle"
        /\ \A d \in Callers : status'[d] = "answered" => status[d] = "answered"
    BY <2>1 DEF ReadInv, Calling
  <2>3. Answered'
    BY <2>1, <2>2 DEF ReadInv, Answered, AnswersAreWhole, AnswersAreFresh
  <2>4. DOMAIN answer' = Callers
    BY <2>1 DEF ReadInv
  <2> QED
    BY <2>1, <2>2, <2>3, <2>4, AnswersKeep
<1>4. ASSUME NEW c \in Callers, Return(c)
      PROVE  ReadInv'
  BY <1>4, ReturnKeeps
<1>5. CASE flush \/ Tick \/ Close \/ CloseInterruptsTimer \/ CloseInterruptsFlush
  BY <1>5, StillKeeps
     DEF flush, Tick, Close, CloseInterruptsTimer, CloseInterruptsFlush, ReadInv
<1>6. CASE DeviceChanges
  BY <1>6, StillKeeps DEF DeviceChanges, ReadInv
<1>7. CASE TimerFires \/ FlushStarts
  BY <1>7, TakeKeeps DEF TimerFires, FlushStarts
<1>8. ASSUME NEW f \in flights, FetchSteps(f) \/ CloseInterruptsFetch(f)
      PROVE  ReadInv'
  <2>1. CASE SpanRead(f)
    BY <2>1, ReadKeeps
  <2>2. CASE ReadsEnd(f)
    <3>1. PICK success \in BOOLEAN : success = WellFormed(f)
      BY DEF WellFormed
    <3>2. Settle(f, success) /\ UNCHANGED <<collected, version>>
      BY <2>2, <3>1 DEF ReadsEnd
    <3> QED
      BY <3>1, <3>2, SettleKeeps
  <2>3. CASE FetchFails(f) \/ CloseInterruptsFetch(f)
    <3>1. Settle(f, FALSE) /\ UNCHANGED <<collected, version>>
      BY <2>3 DEF FetchFails, CloseInterruptsFetch
    <3> QED
      BY <3>1, SettleKeeps
  <2> QED
    BY <1>8, <2>1, <2>2, <2>3 DEF FetchSteps
<1>9. CASE Finalize
  <2>1. /\ status' = [c \in Callers |->
                         IF status[c] = "waiting" /\ c \in CallersIn(collected)
                         THEN "failed" ELSE status[c]]
        /\ collected' = Nothing /\ UNCHANGED <<flights, group, answer, asOf, version>>
    BY <1>9 DEF Finalize
  <2>2. /\ status' \in [Callers -> {"idle", "waiting", "answered", "failed", "interrupted"}]
        /\ \A d \in Callers : status[d] # "idle" => status'[d] # "idle"
        /\ \A d \in Callers : status'[d] = "answered" => status[d] = "answered"
    BY <2>1 DEF ReadInv, Calling
  <2>3. Answered'
    BY <2>1, <2>2 DEF ReadInv, Answered, AnswersAreWhole, AnswersAreFresh
  <2>4. ASSUME NEW f \in flights PROVE FlightOK(f, status', group, asOf)
    <3>1. FlightOK(f, status, group, asOf)
      BY DEF ReadInv
    <3>2. Whole(f.entries, status', group)
      BY <2>2, <3>1, CallerFacts DEF FlightOK, Whole
    <3> QED
      BY <3>1, <3>2 DEF FlightOK
  <2> QED
    BY <2>1, <2>2, <2>3, <2>4, NothingWhole DEF ReadInv, Calling
<1>10. CASE UNCHANGED vars
  BY <1>10, StillKeeps DEF vars, ReadInv
<1> QED
  BY <1>1, <1>2, <1>3, <1>4, <1>5, <1>6, <1>7, <1>8, <1>9, <1>10 DEF Next, Arrive

LEMMA ReadStart == Init => ReadInv
<1> SUFFICES ASSUME Init PROVE ReadInv
  OBVIOUS
<1>1. Calling(status, group, asOf) /\ DOMAIN answer = Callers
  BY DEF Init, Calling
<1>2. Answered
  BY DEF Init, Answered, AnswersAreWhole, AnswersAreFresh
<1> QED
  BY <1>1, <1>2, NothingWhole DEF Init, ReadInv

LEMMA Reads == Spec => []ReadInv
<1>1. ReadInv /\ [Next]_vars => ReadInv'
  BY ReadStep
<1> QED
  BY <1>1, ReadStart, PTL DEF Spec

\* However many batches, spans and gaps lie between, a caller that is answered has the
\* value of each of its addresses in its order: no short response reaches it as a value.
THEOREM AnswersStayWhole == Spec => []AnswersAreWhole
<1>1. ReadInv => AnswersAreWhole
  BY DEF ReadInv, Answered
<1> QED
  BY <1>1, Reads, PTL

\* Nobody is served by a fetch that was on its way before it asked, whatever flushes,
\* interruptions and calls lie between.
THEOREM AnswersStayFresh == Spec => []AnswersAreFresh
<1>1. ReadInv => AnswersAreFresh
  BY DEF ReadInv, Answered
<1> QED
  BY <1>1, Reads, PTL

=============================================================================

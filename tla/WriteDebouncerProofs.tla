------------------------ MODULE WriteDebouncerProofs ------------------------
(***************************************************************************)
(* What WriteDebouncer guarantees for every set of calls and addresses and *)
(* every window, hold limit, run limit and mode.                           *)
(***************************************************************************)
EXTENDS WriteDebouncer, TLAPS, FiniteSetTheorems, WellFoundedInduction

-----------------------------------------------------------------------------
(* Lemmas about the operators of the model.                                *)

LEMMA DelayType ==
    \A age \in 0..MaxHold : AtLeastZero(Smaller(Window, MaxHold - age)) \in 0..Window
BY TimingAssumption DEF AtLeastZero, Smaller

LEMMA CancelledType ==
    ASSUME queue \in Seq(Jobs)
    PROVE  /\ Cancelled(queue) \in Seq(Jobs)
           /\ DOMAIN Cancelled(queue) = DOMAIN queue
           /\ Len(Cancelled(queue)) = Len(queue)
<1>1. Job("dead") \in Jobs
  BY DEF Job, Jobs, Kinds
<1>2. QED
  BY <1>1 DEF Cancelled

\* A place in the line is given to a fiber that does nothing.
LEMMA DeadPlaceType ==
    ASSUME NEW q \in Seq(Jobs), NEW i \in DOMAIN q
    PROVE  [q EXCEPT ![i] = Job("dead")] \in Seq(Jobs)
<1>1. Job("dead") \in Jobs
  BY DEF Job, Jobs, Kinds
<1>2. QED
  BY <1>1

LEMMA JobTypes ==
    /\ \A kind \in Kinds \ {"direct"} : Job(kind) \in Jobs
    /\ \A i \in 0..3 : TimerJob(i) \in Jobs
    /\ \A c \in Calls : DirectJob(c) \in Jobs
    /\ NoJob \in Jobs
BY DEF Job, Jobs, Kinds, TimerJob, DirectJob, NoJob

\* There is always a timer id that no fiber carries.
LEMMA NewTimerType ==
    ASSUME timer \in Timers, running \in Jobs, scope \in {"open", "closing", "closed"},
           NEW delay \in 0..Window
    PROVE  /\ NewTimer(delay) \in Timers
           /\ NewTimer(delay).id \in TimerIds
           /\ NewTimer(delay).id # timer.id /\ NewTimer(delay).id # running.id
           /\ NewTimer(delay).left = delay
           /\ NewTimer(delay).asleep = (scope = "open")
<1> DEFINE id == CHOOSE i \in TimerIds : i # timer.id /\ i # running.id
<1>1. \E i \in TimerIds : i # timer.id /\ i # running.id
  BY DEF TimerIds, Timers, Jobs
<1>2. id \in TimerIds /\ id # timer.id /\ id # running.id
  BY <1>1
<1>3. QED
  BY <1>2 DEF NewTimer, Timers, TimerIds

\* A set of naturals with an upper bound has a greatest element.
LEMMA GreatestNatural ==
    ASSUME NEW bound \in Nat, NEW S, S \subseteq 0..bound, S # {}
    PROVE  \E x \in S : \A y \in S : y <= x
<1> DEFINE R == OpToRel(<, Nat)
           T == {bound - x : x \in S}
<1>1. IsWellFoundedOn(R, Nat)
  BY NatLessThanWellFounded
<1>2. T \subseteq Nat /\ T # {}
  <2>1. \A x \in S : x \in Nat /\ bound - x \in Nat
    OBVIOUS
  <2>2. T \subseteq Nat
    BY <2>1
  <2>3. PICK x \in S : TRUE
    OBVIOUS
  <2>4. bound - x \in T
    BY <2>3
  <2>5. QED
    BY <2>2, <2>4
<1> HIDE DEF R, T
<1>3. PICK m \in T : \A y \in T : ~(<<y, m>> \in R)
  BY <1>1, <1>2, WFMin
<1>4. \A y \in T : ~(y < m)
  BY <1>2, <1>3 DEF R, OpToRel
<1>5. PICK x \in S : m = bound - x
  BY DEF T
<1>6. ASSUME NEW y \in S PROVE y <= x
  <2>1. bound - y \in T
    BY DEF T
  <2>2. ~(bound - y < bound - x)
    BY <2>1, <1>4, <1>5
  <2>3. x \in Nat /\ y \in Nat
    OBVIOUS
  <2>4. QED
    BY <2>2, <2>3
<1>7. QED
  BY <1>6

LEMMA OldestAgeType ==
    ASSUME NEW h \in Batches, HeldIn(h) # {}
    PROVE  /\ OldestAge(h) \in 0..MaxHold
           /\ \E a \in HeldIn(h) : h[a].age = OldestAge(h)
           /\ \A a \in HeldIn(h) : h[a].age <= OldestAge(h)
<1> DEFINE S == {h[a].age : a \in HeldIn(h)}
<1>1. \A a \in HeldIn(h) : h[a].age \in 0..MaxHold
  BY DEF Batches, HeldIn, Entry
<1>2. S \subseteq 0..MaxHold /\ S # {}
  BY <1>1
<1>3. PICK x \in S : \A y \in S : y <= x
  <2> HIDE DEF S
  <2>1. QED
    BY <1>2, TimingAssumption, GreatestNatural
<1>4. \E x_1 \in 0..MaxHold :
          /\ \E a \in HeldIn(h) : h[a].age = x_1
          /\ \A a \in HeldIn(h) : h[a].age <= x_1
  BY <1>2, <1>3
<1>5. QED
  BY <1>4 DEF OldestAge

LEMMA SlotsAtType ==
    ASSUME NEW c \in Calls, NEW g \in Groups \cup {<<>>}, NEW a
    PROVE  SlotsAt(c, g, a) \subseteq Slots
<1>1. DOMAIN g \subseteq 1..MaxGroup
  BY RequestAssumption, TimingAssumption
<1>2. QED
  BY <1>1 DEF SlotsAt, Slots

LEMMA SupersedeType ==
    ASSUME NEW c \in Calls, NEW bypass \in BOOLEAN, NEW slots \in SUBSET Slots,
           NEW old \in Entry \cup {NoEntry}
    PROVE  supersede(old, c, bypass, slots) \in Entry
BY TimingAssumption DEF supersede, Entry

-----------------------------------------------------------------------------
(* Types.                                                                  *)

LEMMA RescheduleType ==
    ASSUME TypeOK, NEW h \in Batches, rescheduleRemaining(h)
    PROVE  /\ timer' \in Timers /\ queue' \in Seq(Jobs)
           /\ openedAge' \in {Undefined} \cup 0..MaxHold
           /\ lastAge' \in {Undefined} \cup 0..Window
<1>1. queue' \in Seq(Jobs)
  BY CancelledType DEF rescheduleRemaining, TypeOK
<1>2. CASE HeldIn(h) = {}
  <2>1. timer' = NoTimer /\ openedAge' = Undefined /\ lastAge' = lastAge
    BY <1>2 DEF rescheduleRemaining
  <2>2. NoTimer \in Timers
    BY TimingAssumption DEF NoTimer, Timers
  <2>3. QED
    BY <1>1, <2>1, <2>2 DEF TypeOK
<1>3. CASE HeldIn(h) # {}
  <2> DEFINE oldest == OldestAge(h)
             ofWindow == IF lastAge = Undefined THEN Window ELSE Window - lastAge
             delay == AtLeastZero(Smaller(ofWindow, MaxHold - oldest))
  <2>1. oldest \in 0..MaxHold
    BY <1>3, OldestAgeType
  <2>2. delay \in 0..Window
    BY <2>1, TimingAssumption DEF TypeOK, AtLeastZero, Smaller, Undefined
  <2>3. timer' = NewTimer(delay) /\ openedAge' = oldest /\ lastAge' = lastAge
    BY <1>3 DEF rescheduleRemaining
  <2>4. NewTimer(delay) \in Timers
    BY <2>2, NewTimerType DEF TypeOK
  <2>5. QED
    BY <1>1, <2>1, <2>3, <2>4 DEF TypeOK
<1>4. QED
  BY <1>2, <1>3

LEMMA HoldType ==
    ASSUME TypeOK, NEW c \in Calls, NEW g \in Groups, NEW bypass \in BOOLEAN,
           Begin(c, g, bypass), Hold(c, g, bypass)
    PROVE  /\ held' \in Batches /\ openedAge' \in 0..MaxHold
           /\ status' \in [Calls -> {"idle", "waiting", "succeeded", "failed"}]
           /\ remaining' \in [Calls -> Int]
           /\ group' \in [Calls -> Groups \cup {<<>>}]
           /\ forced' \in [Calls -> BOOLEAN]
           /\ newest' \in [Addresses -> Calls \cup {NoCall}]
<1>1. Len(g) \in Int
  BY RequestAssumption
<1>2. \A a \in Addresses : supersede(held[a], c, bypass, SlotsAt(c, g, a)) \in Entry
  BY SlotsAtType, SupersedeType DEF TypeOK, Batches
<1>3. held' \in Batches
  BY <1>2 DEF TypeOK, Hold, Batches
<1>4. openedAge' \in 0..MaxHold
  BY TimingAssumption DEF TypeOK, Hold, Undefined
<1>5. QED
  BY <1>1, <1>3, <1>4 DEF TypeOK, Begin, Hold

\* The slots of one call, and any selection of them, are finite.
LEMMA SlotsFinite ==
    ASSUME NEW c, NEW S, S \subseteq {c} \X (1..MaxGroup)
    PROVE  IsFiniteSet(S) /\ Cardinality(S) \in Nat
<1>1. IsFiniteSet({c}) /\ IsFiniteSet(1..MaxGroup)
  BY FS_Singleton, FS_Interval, TimingAssumption
<1>2. IsFiniteSet({c} \X (1..MaxGroup))
  BY <1>1, FS_Product
<1>3. IsFiniteSet(S)
  BY <1>2, FS_Subset
<1>4. QED
  BY <1>3, FS_CardinalityType

LEMMA WaitersType ==
    ASSUME NEW b \in Batches
    PROVE  WaitersIn(b) \subseteq Slots
BY DEF Batches, WaitersIn, HeldIn, Entry

LEMMA ListedFinite ==
    ASSUME batch \in Batches, NEW c
    PROVE  Cardinality(Listed(c)) \in Nat /\ IsFiniteSet(Listed(c))
<1>1. Listed(c) \subseteq {c} \X (1..MaxGroup)
  BY WaitersType DEF Listed, Slots
<1>2. QED
  BY <1>1, SlotsFinite

LEMMA NothingType == Nothing \in Batches /\ HeldIn(Nothing) = {}
BY DEF Nothing, Batches, HeldIn

LEMMA FlushType ==
    ASSUME TypeOK, NEW success \in BOOLEAN, Settle(success)
    PROVE  /\ remaining' \in [Calls -> Int]
           /\ status' \in [Calls -> {"idle", "waiting", "succeeded", "failed"}]
           /\ batch' \in Batches /\ running' \in Jobs
<1>1. \A c \in Calls : remaining[c] - Cardinality(Listed(c)) \in Int
  BY ListedFinite DEF TypeOK
<1>2. remaining' \in [Calls -> Int]
  BY <1>1 DEF Settle
<1>3. status' \in [Calls -> {"idle", "waiting", "succeeded", "failed"}]
  BY DEF Settle, TypeOK
<1>4. QED
  BY <1>2, <1>3, NothingType, JobTypes DEF Settle

LEMMA DroppedType ==
    ASSUME held \in Batches, NEW failed
    PROVE  dropFailed(failed) \in Batches
<1>1. ASSUME NEW e \in Entry, NEW w \in SUBSET e.waiters
      PROVE  [e EXCEPT !.waiters = w] \in Entry
  BY DEF Entry
<1>2. \A a \in Addresses : held[a] # NoEntry => held[a] \in Entry
  BY DEF Batches
<1>3. QED
  BY <1>1, <1>2 DEF dropFailed, Batches

LEMMA InitType == Init => TypeOK
<1> SUFFICES ASSUME Init PROVE TypeOK
  OBVIOUS
<1>1. timer \in Timers /\ running \in Jobs /\ queue \in Seq(Jobs)
  BY JobTypes, TimingAssumption DEF Init, NoTimer, Timers
<1>2. held \in Batches /\ batch \in Batches
  BY NothingType DEF Init
<1>3. QED
  BY <1>1, <1>2 DEF Init, TypeOK

LEMMA StepType == TypeOK /\ [Next]_vars => TypeOK'
<1> SUFFICES ASSUME TypeOK, [Next]_vars PROVE TypeOK'
  OBVIOUS
<1> USE DEF calls, timing
<1>1. ASSUME NEW c \in Calls, NEW g \in Groups, NEW bypass \in BOOLEAN,
             writeAll(c, g, bypass)
      PROVE  TypeOK'
  <2>1. /\ held' \in Batches /\ openedAge' \in 0..MaxHold
        /\ status' \in [Calls -> {"idle", "waiting", "succeeded", "failed"}]
        /\ remaining' \in [Calls -> Int]
        /\ group' \in [Calls -> Groups \cup {<<>>}]
        /\ forced' \in [Calls -> BOOLEAN]
        /\ newest' \in [Addresses -> Calls \cup {NoCall}]
    BY <1>1, HoldType DEF writeAll
  <2> DEFINE delay == AtLeastZero(Smaller(Window, MaxHold - openedAge'))
  <2>2. delay \in 0..Window
    <3>1. openedAge' \in 0..MaxHold
      BY <2>1
    <3>2. QED
      BY <3>1, DelayType
  <2>3. timer' \in Timers
    BY <1>1, <2>2, NewTimerType DEF writeAll, TypeOK
  <2>4. queue' \in Seq(Jobs)
    BY <1>1, CancelledType, JobTypes DEF writeAll, TypeOK, Kinds
  <2>5. lastAge' \in 0..Window
    BY <1>1, TimingAssumption DEF writeAll
  <2>6. QED
    BY <1>1, <2>1, <2>3, <2>4, <2>5 DEF writeAll, TypeOK
<1>2. ASSUME NEW c \in Calls, NEW g \in Groups, NEW bypass \in BOOLEAN,
             writeAllNow(c, g, bypass)
      PROVE  TypeOK'
  <2>1. /\ held' \in Batches /\ openedAge' \in 0..MaxHold
        /\ status' \in [Calls -> {"idle", "waiting", "succeeded", "failed"}]
        /\ remaining' \in [Calls -> Int]
        /\ group' \in [Calls -> Groups \cup {<<>>}]
        /\ forced' \in [Calls -> BOOLEAN]
        /\ newest' \in [Addresses -> Calls \cup {NoCall}]
    BY <1>2, HoldType DEF writeAllNow
  <2>2. queue' \in Seq(Jobs)
    BY <1>2, JobTypes DEF writeAllNow, TypeOK, Kinds
  <2>3. QED
    BY <1>2, <2>1, <2>2 DEF writeAllNow, TypeOK
<1>3. ASSUME NEW c \in Calls, NEW g \in Groups, NEW bypass \in BOOLEAN,
             issueDirectly(c, g, bypass)
      PROVE  TypeOK'
  <2>1. queue' \in Seq(Jobs)
    BY <1>3, JobTypes DEF issueDirectly, TypeOK
  <2>2. /\ status' \in [Calls -> {"idle", "waiting", "succeeded", "failed"}]
        /\ group' \in [Calls -> Groups \cup {<<>>}]
        /\ forced' \in [Calls -> BOOLEAN]
        /\ newest' \in [Addresses -> Calls \cup {NoCall}]
    BY <1>3 DEF issueDirectly, Begin, TypeOK
  <2>3. QED
    BY <1>3, <2>1, <2>2 DEF issueDirectly, TypeOK
<1>4. ASSUME NEW c \in Calls, RejectClosed(c) \/ Return(c)
      PROVE  TypeOK'
  <2>1. CASE RejectClosed(c)
    BY <2>1 DEF RejectClosed, TypeOK
  <2>2. CASE Return(c)
    <3>1. group' \in [Calls -> Groups \cup {<<>>}]
      BY <2>2 DEF Return, TypeOK
    <3>2. /\ status' \in [Calls -> {"idle", "waiting", "succeeded", "failed"}]
          /\ remaining' \in [Calls -> Int]
          /\ forced' \in [Calls -> BOOLEAN]
          /\ newest' \in [Addresses -> Calls \cup {NoCall}]
          /\ device' \in [Addresses -> Calls \cup {NoCall}]
      BY <2>2 DEF Return, TypeOK
    <3>3. QED
      BY <2>2, <3>1, <3>2 DEF Return, TypeOK
  <2>3. QED
    BY <1>4, <2>1, <2>2
<1>5. ASSUME NEW c \in Calls, InterruptDirect(c)
      PROVE  TypeOK'
  <2>1. queue' \in Seq(Jobs)
    BY <1>5, DeadPlaceType DEF InterruptDirect, TypeOK
  <2>2. QED
    BY <1>5, <2>1 DEF InterruptDirect, TypeOK
<1>6. CASE flush
  BY <1>6, JobTypes DEF flush, TypeOK, Kinds
<1>7. CASE TimerFires
  <2>1. timer' \in Timers
    BY <1>7 DEF TimerFires, TypeOK, Timers
  <2> timer.id \in 0..3
    BY DEF TypeOK, Timers
  <2>3. queue' \in Seq(Jobs)
    BY <1>7, JobTypes DEF TimerFires, TypeOK
  <2>2. QED
    BY <1>7, <2>1, <2>3 DEF TimerFires, TypeOK
<1>8. CASE Tick
  <2>1. held' \in Batches
    <3>1. ASSUME NEW e \in Entry
          PROVE  [e EXCEPT !.age = Smaller(@ + 1, MaxHold)] \in Entry
      BY TimingAssumption DEF Entry, Smaller
    <3>2. \A a \in Addresses : held[a] # NoEntry => held[a] \in Entry
      BY DEF TypeOK, Batches
    <3>3. QED
      BY <1>8, <3>1, <3>2 DEF Tick, Batches
  <2>2. timer' \in Timers
    <3>1. timer.asleep => timer.left \in 1..Window
      BY <1>8, TimingAssumption DEF Tick, TypeOK, Timers
    <3>2. timer.left \in 0..Window /\ timer \in Timers
      BY DEF TypeOK, Timers
    <3>3. timer' = [timer EXCEPT !.left = IF timer.asleep THEN timer.left - 1 ELSE timer.left]
      BY <1>8 DEF Tick
    <3>4. (IF timer.asleep THEN timer.left - 1 ELSE timer.left) \in 0..Window
      BY <3>1, <3>2, TimingAssumption
    <3>5. QED
      BY <3>2, <3>3, <3>4 DEF Timers
  <2>3. /\ openedAge' \in {Undefined} \cup 0..MaxHold
        /\ lastAge' \in {Undefined} \cup 0..Window
    BY <1>8, TimingAssumption DEF Tick, TypeOK, Older, Smaller, Undefined
  <2>4. QED
    BY <1>8, <2>1, <2>2, <2>3 DEF Tick, TypeOK
<1>9. CASE GrantFlushLock
  <2>1. queue' \in Seq(Jobs) /\ running' \in Jobs
    BY <1>9, JobTypes DEF GrantFlushLock, TypeOK
  <2>2. QED
    BY <1>9, <2>1 DEF GrantFlushLock, TypeOK
<1>10. CASE TakeBatch
  <2>1. CASE takeAll
    <3>1. timer' \in Timers
      BY <2>1, TimingAssumption DEF takeAll, NoTimer, Timers
    <3>2. queue' \in Seq(Jobs) /\ running' \in Jobs
      BY <2>1, CancelledType, JobTypes DEF takeAll, TypeOK
    <3>3. QED
      BY <1>10, <2>1, <3>1, <3>2, NothingType DEF TakeBatch, takeAll, TypeOK
  <2>2. CASE takeFullRuns
    <3> DEFINE full == fullRunAddresses(HeldIn(held))
               rest == [a \in Addresses |-> IF a \in full THEN NoEntry ELSE held[a]]
    <3>1. rest \in Batches
      BY DEF TypeOK, Batches
    <3>2. CASE full = {}
      BY <1>10, <2>2, <3>2, JobTypes DEF TakeBatch, takeFullRuns, TypeOK
    <3>3. CASE full # {}
      <4>1. held' = rest /\ rescheduleRemaining(rest) /\ UNCHANGED running
        BY <2>2, <3>3 DEF takeFullRuns
      <4>2. batch' \in Batches
        BY <2>2, <3>3 DEF takeFullRuns, TypeOK, Batches
      <4>3. QED
        BY <1>10, <3>1, <4>1, <4>2, RescheduleType DEF TakeBatch, TypeOK
    <3>4. QED
      BY <3>2, <3>3
  <2>3. CASE running' = NoJob /\ UNCHANGED <<held, batch, timing, queue>>
    BY <1>10, <2>3, JobTypes DEF TakeBatch, TypeOK
  <2>4. QED
    BY <1>10, <2>1, <2>2, <2>3 DEF TakeBatch
<1>11. CASE TakeDirect
  <2> DEFINE c == running.call
  <2>1. c \in Calls
    BY <1>11 DEF TakeDirect, TypeOK, Jobs
  <2>2. forced[c] \in BOOLEAN /\ group[c] \in Groups \cup {<<>>}
    BY <2>1 DEF TypeOK
  <2>3. \A a \in Addresses :
           supersede(NoEntry, c, forced[c], SlotsAt(c, group[c], a)) \in Entry
    BY <2>1, <2>2, SlotsAtType, SupersedeType
  <2>4. batch' \in Batches
    BY <1>11, <2>3 DEF TakeDirect, Batches
  <2>5. Len(group[c]) \in Int
    BY <2>2, RequestAssumption
  <2>6. remaining' \in [Calls -> Int]
    BY <1>11, <2>5 DEF TakeDirect, TypeOK
  <2>7. QED
    BY <1>11, <2>4, <2>6 DEF TakeDirect, TypeOK
<1>12. CASE FlushSucceeds
  <2>1. \A a \in Addresses : batch[a] # NoEntry => batch[a].writer \in Calls
    BY DEF TypeOK, Batches, Entry
  <2>2. device' \in [Addresses -> Calls \cup {NoCall}]
    BY <1>12, <2>1 DEF FlushSucceeds, TypeOK
  <2>3. Settle(TRUE)
    BY <1>12 DEF FlushSucceeds
  <2>4. QED
    BY <1>12, <2>2, <2>3, FlushType DEF FlushSucceeds, TypeOK
<1>13. CASE FlushFails
  <2>1. \A a \in HeldIn(batch) : batch[a].writer \in Calls
    BY DEF TypeOK, Batches, HeldIn, Entry
  <2>2. device' \in [Addresses -> Calls \cup {NoCall}]
    BY <1>13, <2>1 DEF FlushFails, TypeOK
  <2>3. Settle(FALSE)
    BY <1>13 DEF FlushFails
  <2>4. dropFailed(BatchCalls) \in Batches
    BY DroppedType DEF TypeOK
  <2>5. CASE UNCHANGED <<timing, queue>>
    BY <1>13, <2>2, <2>3, <2>4, <2>5, FlushType DEF FlushFails, TypeOK
  <2>6. CASE rescheduleRemaining(dropFailed(BatchCalls))
    BY <1>13, <2>2, <2>3, <2>4, <2>6, FlushType, RescheduleType DEF FlushFails, TypeOK
  <2>7. QED
    BY <1>13, <2>5, <2>6 DEF FlushFails
<1>14. CASE Close \/ CloseInterruptsTimer
  BY <1>14 DEF Close, CloseInterruptsTimer, TypeOK, Timers
<1>15. CASE CloseInterruptsWaiting
  <2>1. queue' \in Seq(Jobs)
    BY <1>15, DeadPlaceType DEF CloseInterruptsWaiting, TypeOK
  <2>2. QED
    BY <1>15, <2>1 DEF CloseInterruptsWaiting, TypeOK
<1>16. CASE Finalize
  BY <1>16, NothingType DEF Finalize, TypeOK
<1>17. CASE UNCHANGED vars
  BY <1>17 DEF vars, TypeOK
<1>18. QED
  BY <1>1, <1>2, <1>3, <1>4, <1>5, <1>6, <1>7, <1>8, <1>9, <1>10, <1>11,
     <1>12, <1>13, <1>14, <1>15, <1>16, <1>17 DEF Next, Arrive

\* Every variable keeps the shape that the code gives it: ages stay within the
\* hold limit and the window, a delay is never negative or longer than the
\* window, and a timer always gets an id that no live fiber carries.
THEOREM TypeCorrect == Spec => []TypeOK
<1>1. QED
  BY InitType, StepType, PTL DEF Spec

-----------------------------------------------------------------------------
(* The bounded hold.  HoldIsBounded is not inductive: that the delay of a   *)
(* new timer is short enough for every held write rests on openedAge being *)
(* no younger than any of them, and a fiber that gets flushLock must find  *)
(* no batch in flight.                                                     *)

LockIsFree == running = NoJob => batch = Nothing
OpenedIsOldest == \A a \in HeldIn(held) : held[a].age <= openedAge
HoldInv == TypeOK /\ LockIsFree /\ OpenedIsOldest /\ HoldIsBounded

LEMMA HeldEntry ==
    ASSUME NEW b \in Batches, NEW a \in HeldIn(b)
    PROVE  a \in Addresses /\ b[a] \in Entry /\ b[a].age \in 0..MaxHold
BY DEF Batches, HeldIn, Entry

\* What rescheduleRemaining leaves behind is due in time.
LEMMA RescheduleInTime ==
    ASSUME TypeOK, NEW h \in Batches, rescheduleRemaining(h)
    PROVE  /\ \A a \in HeldIn(h) : h[a].age <= openedAge'
           /\ scope = "open" =>
                \A a \in HeldIn(h) : timer'.asleep /\ h[a].age + timer'.left <= MaxHold
<1>1. CASE HeldIn(h) = {}
  BY <1>1
<1>2. CASE HeldIn(h) # {}
  <2> DEFINE oldest == OldestAge(h)
             ofWindow == IF lastAge = Undefined THEN Window ELSE Window - lastAge
             delay == AtLeastZero(Smaller(ofWindow, MaxHold - oldest))
  <2>1. oldest \in 0..MaxHold /\ \A a \in HeldIn(h) : h[a].age <= oldest
    BY <1>2, OldestAgeType
  <2>2. delay \in 0..Window /\ oldest + delay <= MaxHold
    BY <2>1, TimingAssumption DEF TypeOK, AtLeastZero, Smaller, Undefined
  <2>3. timer' = NewTimer(delay) /\ openedAge' = oldest
    BY <1>2 DEF rescheduleRemaining
  <2>4. timer'.left = delay /\ (scope = "open" => timer'.asleep)
    BY <2>2, <2>3, NewTimerType DEF TypeOK
  <2> HIDE DEF oldest, delay
  <2>5. ASSUME NEW a \in HeldIn(h) PROVE h[a].age + delay <= MaxHold
    BY <2>1, <2>2, HeldEntry, TimingAssumption
  <2>6. QED
    BY <2>1, <2>3, <2>4, <2>5
<1>3. QED
  BY <1>1, <1>2

\* A place in the line that takes everything keeps doing so.
LEMMA PlaceKept ==
    ASSUME queue \in Seq(Jobs), queue' \in Seq(Jobs), timer' = timer,
           \A i \in DOMAIN queue :
              i \in DOMAIN queue' /\ (TakesEverything(queue[i]) => queue'[i] = queue[i])
    PROVE  (\E i \in DOMAIN queue : TakesEverything(queue[i]))
              => (\E i \in DOMAIN queue : TakesEverything(queue[i]))'
BY DEF TakesEverything

\* An arrival leaves openedAge no younger than any held write.
LEMMA ArrivalOpens ==
    ASSUME TypeOK, TypeOK', OpenedIsOldest,
           NEW c \in Calls, NEW g \in Groups, NEW bypass \in BOOLEAN, Hold(c, g, bypass)
    PROVE  openedAge' \in 0..MaxHold /\ OpenedIsOldest'
<1>1. openedAge' \in 0..MaxHold /\ openedAge' >= openedAge /\ openedAge \in Int
  BY TimingAssumption DEF Hold, TypeOK, Undefined
<1>2. ASSUME NEW a \in HeldIn(held)' PROVE held'[a].age <= openedAge'
  <2>1. CASE held[a] = NoEntry
    <3>1. held'[a].age = 0
      BY <2>1 DEF Hold, supersede, HeldIn
    <3>2. QED
      BY <1>1, <3>1
  <2>2. CASE held[a] # NoEntry
    <3>1. held'[a].age = held[a].age /\ a \in HeldIn(held)
      BY <2>2 DEF Hold, supersede, HeldIn
    <3>2. held[a].age <= openedAge /\ held[a].age \in 0..MaxHold
      BY <3>1, HeldEntry DEF OpenedIsOldest, TypeOK
    <3>3. QED
      BY <1>1, <3>1, <3>2
  <2>3. QED
    BY <2>1, <2>2
<1>3. QED
  BY <1>1, <1>2 DEF OpenedIsOldest

LEMMA HoldStep == HoldInv /\ TypeOK' /\ [Next]_vars => HoldInv'
<1> SUFFICES ASSUME HoldInv, TypeOK', [Next]_vars
             PROVE  LockIsFree' /\ OpenedIsOldest' /\ HoldIsBounded'
  BY DEF HoldInv
<1> USE DEF calls, timing
<1>0. TypeOK /\ LockIsFree /\ OpenedIsOldest /\ HoldIsBounded
  BY DEF HoldInv
<1>1. ASSUME NEW c \in Calls, NEW g \in Groups, NEW bypass \in BOOLEAN,
             writeAll(c, g, bypass)
      PROVE  LockIsFree' /\ OpenedIsOldest' /\ HoldIsBounded'
  <2>1. openedAge' \in 0..MaxHold /\ OpenedIsOldest'
    BY <1>0, <1>1, ArrivalOpens DEF writeAll
  <2> DEFINE delay == AtLeastZero(Smaller(Window, MaxHold - openedAge'))
  <2>2. delay \in 0..Window /\ openedAge' + delay <= MaxHold
    <3>1. \A age \in 0..MaxHold :
             LET d == AtLeastZero(Smaller(Window, MaxHold - age))
             IN  d \in 0..Window /\ age + d <= MaxHold
      BY TimingAssumption DEF AtLeastZero, Smaller
    <3>2. QED
      BY <2>1, <3>1
  <2>3. timer' = NewTimer(delay)
    BY <1>1 DEF writeAll
  <2>4. timer'.left = delay /\ (scope = "open" => timer'.asleep)
    BY <2>2, <2>3, <1>0, NewTimerType DEF TypeOK
  <2> HIDE DEF delay
  <2>5. HoldIsBounded'
    <3> SUFFICES ASSUME scope' = "open", NEW a \in HeldIn(held)'
                 PROVE  timer'.asleep /\ held'[a].age + timer'.left <= MaxHold
      BY DEF HoldIsBounded
    <3>1. held'[a].age <= openedAge'
      BY <2>1 DEF OpenedIsOldest
    <3>2. held'[a].age \in 0..MaxHold
      BY HeldEntry DEF TypeOK
    <3>3. scope = "open"
      BY <1>1 DEF writeAll
    <3>4. QED
      BY <2>1, <2>2, <2>4, <3>1, <3>2, <3>3, TimingAssumption
  <2>6. QED
    BY <1>0, <1>1, <2>1, <2>5 DEF writeAll, LockIsFree, Nothing
<1>2. ASSUME NEW c \in Calls, NEW g \in Groups, NEW bypass \in BOOLEAN,
             writeAllNow(c, g, bypass)
      PROVE  LockIsFree' /\ OpenedIsOldest' /\ HoldIsBounded'
  <2>1. OpenedIsOldest'
    BY <1>0, <1>2, ArrivalOpens DEF writeAllNow
  <2>2. HoldIsBounded'
    <3> SUFFICES ASSUME scope = "open"
                 PROVE  (\E i \in DOMAIN queue : TakesEverything(queue[i]))'
      BY <1>2 DEF HoldIsBounded, writeAllNow
    <3>1. queue' = Append(queue, Job("all"))
      BY <1>2 DEF writeAllNow
    <3>2. Len(queue) + 1 \in DOMAIN queue' /\ queue'[Len(queue) + 1] = Job("all")
      BY <1>0, <3>1, JobTypes DEF TypeOK, Kinds
    <3>3. QED
      BY <3>2 DEF TakesEverything, Job
  <2>3. QED
    BY <1>0, <1>2, <2>1, <2>2 DEF writeAllNow, LockIsFree, Nothing
\* The steps that only add to the line, or change nothing that matters here.
<1>3. ASSUME UNCHANGED <<held, batch, timer, openedAge, running, scope>>,
             \A i \in DOMAIN queue :
                i \in DOMAIN queue' /\ (TakesEverything(queue[i]) => queue'[i] = queue[i])
      PROVE  LockIsFree' /\ OpenedIsOldest' /\ HoldIsBounded'
  <2>1. (\E i \in DOMAIN queue : TakesEverything(queue[i]))
           => (\E i \in DOMAIN queue : TakesEverything(queue[i]))'
    BY <1>0, <1>3, PlaceKept DEF TypeOK
  <2>2. HoldIsBounded'
    BY <1>0, <1>3, <2>1 DEF HoldIsBounded, TakesEverything, HeldIn, Nothing
  <2>3. QED
    BY <1>0, <1>3, <2>2 DEF LockIsFree, OpenedIsOldest, HeldIn, Nothing
<1>4. ASSUME NEW c \in Calls, NEW g \in Groups, NEW bypass \in BOOLEAN,
             issueDirectly(c, g, bypass)
      PROVE  LockIsFree' /\ OpenedIsOldest' /\ HoldIsBounded'
  <2>1. \A i \in DOMAIN queue : i \in DOMAIN queue' /\ queue'[i] = queue[i]
    BY <1>0, <1>4, JobTypes DEF issueDirectly, TypeOK
  <2>2. QED
    BY <1>3, <1>4, <2>1 DEF issueDirectly
<1>5. ASSUME NEW c \in Calls, RejectClosed(c) \/ Return(c)
      PROVE  LockIsFree' /\ OpenedIsOldest' /\ HoldIsBounded'
  BY <1>3, <1>5 DEF RejectClosed, Return
<1>6. ASSUME NEW c \in Calls, InterruptDirect(c)
      PROVE  LockIsFree' /\ OpenedIsOldest' /\ HoldIsBounded'
  <2>1. \A i \in DOMAIN queue :
           i \in DOMAIN queue' /\ (TakesEverything(queue[i]) => queue'[i] = queue[i])
    BY <1>0, <1>6 DEF InterruptDirect, TypeOK, TakesEverything, DirectJob
  <2>2. QED
    BY <1>3, <1>6, <2>1 DEF InterruptDirect
<1>7. CASE flush
  <2>1. \A i \in DOMAIN queue : i \in DOMAIN queue' /\ queue'[i] = queue[i]
    BY <1>0, <1>7, JobTypes DEF flush, TypeOK, Kinds
  <2>2. QED
    BY <1>3, <1>7, <2>1 DEF flush
<1>8. CASE TimerFires
  <2>1. timer.id \in 0..3 /\ timer'.id = timer.id
    BY <1>0, <1>8 DEF TimerFires, TypeOK, Timers
  <2>2. queue' = Append(queue, TimerJob(timer.id)) /\ TimerJob(timer.id) \in Jobs
    BY <1>8, <2>1, JobTypes DEF TimerFires
  <2>3. Len(queue) + 1 \in DOMAIN queue' /\ queue'[Len(queue) + 1] = TimerJob(timer.id)
    BY <1>0, <2>2 DEF TypeOK
  <2>4. (\E i \in DOMAIN queue : TakesEverything(queue[i]))'
    BY <2>1, <2>3 DEF TakesEverything, TimerJob
  <2>5. QED
    BY <1>0, <1>8, <2>4 DEF TimerFires, HoldIsBounded, LockIsFree, OpenedIsOldest,
                             HeldIn, Nothing
<1>9. CASE Tick
  <2>1. ASSUME NEW a \in HeldIn(held)'
        PROVE  /\ a \in HeldIn(held) /\ held[a].age \in 0..MaxHold
               /\ held'[a].age = Smaller(held[a].age + 1, MaxHold)
    <3>1. a \in HeldIn(held)
      BY <1>9 DEF Tick, HeldIn
    <3>2. held[a] \in Entry /\ held[a].age \in 0..MaxHold
      BY <1>0, <3>1, HeldEntry DEF TypeOK
    <3>3. QED
      BY <1>9, <3>1, <3>2 DEF Tick, HeldIn, Entry
  <2>2. OpenedIsOldest'
    <3> SUFFICES ASSUME NEW a \in HeldIn(held)' PROVE held'[a].age <= openedAge'
      BY DEF OpenedIsOldest
    <3>1. held[a].age <= openedAge /\ openedAge \in 0..MaxHold
      BY <1>0, <2>1, TimingAssumption DEF OpenedIsOldest, TypeOK, Undefined
    <3>2. openedAge' = Smaller(openedAge + 1, MaxHold)
      BY <1>9, <3>1 DEF Tick, Older, Undefined
    <3>3. QED
      BY <2>1, <3>1, <3>2, TimingAssumption DEF Smaller
  <2>3. ~(batch = Nothing /\ TakesEverything(running))
    BY <1>9 DEF Tick, TakesEverything, NoJob, Job
  <2>4. timer'.id = timer.id /\ timer'.asleep = timer.asleep
    BY <1>0, <1>9 DEF Tick, TypeOK, Timers
  <2>5. timer.asleep => timer'.left = timer.left - 1 /\ timer.left \in 1..Window
    BY <1>0, <1>9, TimingAssumption DEF Tick, TypeOK, Timers
  <2>6. HoldIsBounded'
    <3> SUFFICES ASSUME scope' = "open", NEW a \in HeldIn(held)'
                 PROVE  \/ timer'.asleep /\ held'[a].age + timer'.left <= MaxHold
                        \/ (\E i \in DOMAIN queue : TakesEverything(queue[i]))'
      BY DEF HoldIsBounded
    <3>1. scope = "open" /\ queue' = queue
      BY <1>9 DEF Tick
    <3>2. CASE timer.asleep /\ held[a].age + timer.left <= MaxHold
      BY <2>1, <2>4, <2>5, <3>2, TimingAssumption DEF Smaller
    <3>3. CASE \E i \in DOMAIN queue : TakesEverything(queue[i])
      BY <2>4, <3>1, <3>3 DEF TakesEverything
    <3>4. QED
      BY <1>0, <2>1, <2>3, <3>1, <3>2, <3>3 DEF HoldIsBounded
  <2>7. QED
    BY <1>0, <1>9, <2>2, <2>6 DEF Tick, LockIsFree, Nothing
<1>10. CASE GrantFlushLock
  <2>1. batch = Nothing /\ batch' = Nothing' /\ UNCHANGED <<held, timer, openedAge, scope>>
    BY <1>0, <1>10 DEF GrantFlushLock, LockIsFree, Nothing
  <2>2. ASSUME NEW i \in DOMAIN queue, TakesEverything(queue[i])
        PROVE  \/ TakesEverything(running)'
               \/ (\E j \in DOMAIN queue : TakesEverything(queue[j]))'
    <3>1. CASE i = 1
      BY <1>0, <1>10, <2>1, <2>2, <3>1 DEF GrantFlushLock, TypeOK, TakesEverything
    <3>2. CASE i # 1
      <4>1. i - 1 \in DOMAIN queue' /\ queue'[i - 1] = queue[i]
        BY <1>0, <1>10, <3>2 DEF GrantFlushLock, TypeOK
      <4>2. QED
        BY <2>1, <2>2, <4>1 DEF TakesEverything
    <3>3. QED
      BY <3>1, <3>2
  <2>3. ~TakesEverything(running)
    BY <1>10 DEF GrantFlushLock, TakesEverything, NoJob, Job
  <2>4. HoldIsBounded'
    BY <1>0, <2>1, <2>2, <2>3 DEF HoldIsBounded, HeldIn
  <2>5. QED
    BY <1>0, <2>1, <2>4 DEF LockIsFree, OpenedIsOldest, HeldIn
<1>11. CASE TakeBatch
  <2>1. CASE /\ running.kind = "timer" /\ running.id # timer.id
             /\ running' = NoJob /\ UNCHANGED <<held, batch, timing, queue>>
    <3>1. ~TakesEverything(running)
      BY <2>1 DEF TakesEverything
    <3>2. QED
      BY <1>0, <1>11, <2>1, <3>1
         DEF TakeBatch, HoldIsBounded, LockIsFree, OpenedIsOldest, HeldIn, Nothing,
             TakesEverything
  <2>2. CASE takeAll
    <3>1. HeldIn(held)' = {}
      BY <2>2, NothingType DEF takeAll, HeldIn
    <3>2. HeldIn(held) = {} => held = Nothing
      BY <1>0 DEF TypeOK, Batches, HeldIn, Nothing
    <3>3. LockIsFree'
      BY <1>11, <2>2, <3>2 DEF TakeBatch, takeAll, LockIsFree, NoJob, Job, InScope, Nothing
    <3>4. QED
      BY <3>1, <3>3 DEF HoldIsBounded, OpenedIsOldest
  <2>3. CASE running.kind = "full" /\ takeFullRuns
    <3> DEFINE full == fullRunAddresses(HeldIn(held))
               rest == [a \in Addresses |-> IF a \in full THEN NoEntry ELSE held[a]]
    <3>1. ~TakesEverything(running)
      BY <2>3 DEF TakesEverything
    <3>2. CASE full = {}
      BY <1>0, <1>11, <2>3, <3>1, <3>2
         DEF TakeBatch, takeFullRuns, HoldIsBounded, LockIsFree, OpenedIsOldest, HeldIn,
             Nothing, TakesEverything
    <3>3. CASE full # {}
      <4>1. held' = rest /\ rescheduleRemaining(rest) /\ running' = running
        BY <2>3, <3>3 DEF takeFullRuns
      <4>2. rest \in Batches /\ scope' = scope
        BY <1>0, <1>11 DEF TypeOK, Batches, TakeBatch
      <4> HIDE DEF rest
      <4>3. OpenedIsOldest' /\ HoldIsBounded'
        BY <1>0, <4>1, <4>2, RescheduleInTime DEF HoldIsBounded, OpenedIsOldest, HeldIn
      <4>4. LockIsFree'
        BY <2>3, <4>1 DEF LockIsFree, NoJob, Job
      <4>5. QED
        BY <4>3, <4>4
    <3>4. QED
      BY <3>2, <3>3
  <2>4. QED
    BY <1>11, <2>1, <2>2, <2>3 DEF TakeBatch
<1>12. CASE TakeDirect \/ FlushSucceeds
  <2>1. ~(batch = Nothing /\ TakesEverything(running))
    BY <1>12 DEF TakeDirect, FlushSucceeds, TakesEverything
  <2>2. LockIsFree'
    BY <1>12 DEF TakeDirect, FlushSucceeds, Settle, LockIsFree, NoJob, Job, Nothing
  <2>3. UNCHANGED <<held, timer, openedAge, queue, scope>>
    BY <1>12 DEF TakeDirect, FlushSucceeds
  <2>4. HoldIsBounded' /\ OpenedIsOldest'
    BY <1>0, <2>1, <2>3 DEF HoldIsBounded, OpenedIsOldest, HeldIn, TakesEverything
  <2>5. QED
    BY <2>2, <2>4
<1>13. CASE FlushFails
  <2> DEFINE rest == dropFailed(BatchCalls)
  <2>1. rest \in Batches /\ held' = rest /\ scope' = scope
    BY <1>0, <1>13, DroppedType DEF FlushFails, TypeOK
  <2>2. LockIsFree'
    BY <1>13 DEF FlushFails, Settle, LockIsFree, Nothing
  <2>3. CASE rescheduleRemaining(rest)
    <3> HIDE DEF rest
    <3>1. QED
      BY <1>0, <2>1, <2>2, <2>3, RescheduleInTime DEF HoldIsBounded, OpenedIsOldest, HeldIn
  <2>4. CASE UNCHANGED <<timing, queue>>
    <3>1. ~(batch = Nothing /\ TakesEverything(running))
      BY <1>13 DEF FlushFails
    <3>2. ASSUME NEW a \in HeldIn(held)'
          PROVE  a \in HeldIn(held) /\ held'[a].age = held[a].age
      <4>1. a \in HeldIn(held) /\ held[a] \in Entry
        BY <1>0, <2>1, HeldEntry DEF dropFailed, HeldIn, TypeOK, Batches
      <4>2. QED
        BY <2>1, <4>1 DEF dropFailed, HeldIn, Entry
    <3>3. HoldIsBounded' /\ OpenedIsOldest'
      <4> HIDE DEF rest
      <4>1. QED
        BY <1>0, <2>1, <2>4, <3>1, <3>2 DEF HoldIsBounded, OpenedIsOldest, TakesEverything
    <3>4. QED
      BY <2>2, <3>3
  <2>5. QED
    BY <1>13, <2>3, <2>4 DEF FlushFails
<1>14. CASE Close \/ CloseInterruptsTimer \/ CloseInterruptsWaiting
  BY <1>0, <1>14 DEF Close, CloseInterruptsTimer, CloseInterruptsWaiting,
                     HoldIsBounded, LockIsFree, OpenedIsOldest, HeldIn, Nothing
<1>15. CASE Finalize
  <2>1. HeldIn(held)' = {}
    BY <1>15, NothingType DEF Finalize, HeldIn
  <2>2. QED
    BY <1>0, <1>15, <2>1 DEF Finalize, HoldIsBounded, LockIsFree, OpenedIsOldest, Nothing
<1>16. CASE UNCHANGED vars
  BY <1>3, <1>16 DEF vars
<1>17. QED
  BY <1>1, <1>2, <1>4, <1>5, <1>6, <1>7, <1>8, <1>9, <1>10, <1>11, <1>12,
     <1>13, <1>14, <1>15, <1>16 DEF Next, Arrive

LEMMA HoldInit == Init => LockIsFree /\ OpenedIsOldest /\ HoldIsBounded
BY NothingType DEF Init, LockIsFree, OpenedIsOldest, HoldIsBounded

\* While the scope is open every held write has a timer that expires before its
\* hold limit, or a fiber in line that will take the whole batch, whatever part
\* of the batch full-run flushes and failures took.
THEOREM BoundedHold == Spec => []HoldIsBounded
<1>1. Init => HoldInv
  BY InitType, HoldInit DEF HoldInv
<1>2. HoldInv /\ [Next]_vars => HoldInv'
  BY StepType, HoldStep DEF HoldInv
<1>3. HoldInv => HoldIsBounded
  BY DEF HoldInv
<1>4. QED
  BY <1>1, <1>2, <1>3, PTL DEF Spec

-----------------------------------------------------------------------------
(* Timers take the batch when they are due.  The step that takes it knows   *)
(* only that the timer is the current one, so what is due is carried from  *)
(* the arrival that set it: while it sleeps, the rest of its delay ends no *)
(* earlier than the window or the hold limit, and no other timer waits.    *)

Due(x) ==
    \/ lastAge # Undefined /\ lastAge >= Window - x
    \/ HasAged(held, MaxHold - x)
    \/ lastAge = Undefined /\ HasAged(held, Window - x)

IsTimer(job) == job.kind = "timer"
NoTimerWaits == \A i \in DOMAIN queue : ~IsTimer(queue[i])

OpenedIsHeld == openedAge # Undefined => HasAged(held, openedAge)

SleeperIsDue == timer.asleep => timer.id \in TimerIds /\ Due(timer.left)

WaitingTimerIsDue ==
    /\ \A i \in DOMAIN queue : IsTimer(queue[i]) =>
          queue[i].id = timer.id /\ timer.id \in TimerIds /\ ~timer.asleep /\ Due(0)
    /\ \A i, j \in DOMAIN queue : IsTimer(queue[i]) /\ IsTimer(queue[j]) => i = j

RunningTimerIsDue ==
    IsTimer(running) =>
        /\ running.id \in TimerIds
        /\ running.id = timer.id => ~timer.asleep /\ Due(0) /\ NoTimerWaits

TimerIsDue == SleeperIsDue /\ WaitingTimerIsDue /\ RunningTimerIsDue
DueInv == TypeOK /\ OpenedIsHeld /\ TimerIsDue

\* A due timer stays due while writes keep their age and nothing arrives late.
LEMMA DueKept ==
    ASSUME UNCHANGED lastAge,
           \A a \in HeldIn(held) : a \in HeldIn(held)' /\ held'[a].age = held[a].age
    PROVE  /\ \A x : Due(x) => Due(x)'
           /\ \A age : HasAged(held, age) => HasAged(held, age)'
<1>1. \A age : HasAged(held, age) => HasAged(held, age)'
  BY DEF HasAged
<1> QED
  BY <1>1 DEF Due

\* Steps that bring no timer, take none, and keep what is due.
LEMMA TimersKept ==
    ASSUME TimerIsDue, UNCHANGED timer, running' \in {running, NoJob},
           \A x : Due(x) => Due(x)',
           \A i \in DOMAIN queue' : IsTimer(queue'[i]) =>
              i \in DOMAIN queue /\ queue[i] = queue'[i]
    PROVE  TimerIsDue'
<1>1. SleeperIsDue'
  BY DEF TimerIsDue, SleeperIsDue
<1>2. WaitingTimerIsDue'
  BY DEF TimerIsDue, WaitingTimerIsDue
<1>3. RunningTimerIsDue'
  BY DEF TimerIsDue, RunningTimerIsDue, NoTimerWaits, IsTimer, NoJob, Job
<1> QED
  BY <1>1, <1>2, <1>3 DEF TimerIsDue

\* The steps that set a new timer, and those that leave none.
LEMMA TimerSet ==
    ASSUME TimerIsDue, TypeOK, NEW delay \in 0..Window, timer' = NewTimer(delay), Due(delay)',
           running' = running \/ running' = NoJob, NoTimerWaits'
    PROVE  TimerIsDue'
<1>1. /\ timer'.id \in TimerIds /\ timer'.left = delay
      /\ IsTimer(running') => running' = running /\ timer'.id # running'.id
  BY NewTimerType DEF TypeOK, IsTimer, NoJob, Job
<1>2. IsTimer(running') => running'.id \in TimerIds
  BY <1>1 DEF TimerIsDue, RunningTimerIsDue
<1> QED
  BY <1>1, <1>2
  DEF TimerIsDue, SleeperIsDue, WaitingTimerIsDue, RunningTimerIsDue, NoTimerWaits

LEMMA TimerCleared ==
    ASSUME TimerIsDue, timer' = NoTimer, running' = running \/ running' = NoJob, NoTimerWaits'
    PROVE  TimerIsDue'
<1>1. ~timer'.asleep /\ timer'.id \notin TimerIds
  BY DEF NoTimer, TimerIds
<1>2. IsTimer(running') => running'.id \in TimerIds
  BY DEF TimerIsDue, RunningTimerIsDue, IsTimer, NoJob, Job
<1> QED
  BY <1>1, <1>2
  DEF TimerIsDue, SleeperIsDue, WaitingTimerIsDue, RunningTimerIsDue, NoTimerWaits

\* interruptUnsafe takes the only timer out of the line.
LEMMA TimerCancelled ==
    ASSUME TypeOK, TimerIsDue
    PROVE  \A i \in DOMAIN Cancelled(queue) : ~IsTimer(Cancelled(queue)[i])
<1> SUFFICES ASSUME NEW i \in DOMAIN Cancelled(queue) PROVE ~IsTimer(Cancelled(queue)[i])
  OBVIOUS
<1>1. i \in DOMAIN queue
  BY CancelledType DEF TypeOK
<1>2. IsTimer(queue[i]) => queue[i].id = timer.id
  BY <1>1 DEF TimerIsDue, WaitingTimerIsDue
<1> QED
  BY <1>1, <1>2 DEF Cancelled, IsTimer, Job

\* The timer that rescheduleRemaining sets is due for what it leaves.
LEMMA RescheduleIsDue ==
    ASSUME DueInv, NEW h \in Batches, rescheduleRemaining(h), held' = h,
           running' = running \/ running' = NoJob
    PROVE  OpenedIsHeld' /\ TimerIsDue'
<1>0. TypeOK /\ TimerIsDue
  BY DEF DueInv
<1>1. NoTimerWaits'
  BY <1>0, TimerCancelled DEF rescheduleRemaining, NoTimerWaits
<1>2. CASE HeldIn(h) = {}
  <2>1. timer' = NoTimer /\ openedAge' = Undefined
    BY <1>2 DEF rescheduleRemaining
  <2> QED
    BY <1>0, <1>1, <2>1, TimerCleared DEF OpenedIsHeld
<1>3. CASE HeldIn(h) # {}
  <2>1. PICK oldest \in 0..MaxHold :
           /\ oldest = OldestAge(h) /\ \E a \in HeldIn(h) : h[a].age = oldest
    BY <1>3, OldestAgeType
  <2>2. \E d \in 0..Window :
           /\ d = AtLeastZero(Smaller(IF lastAge = Undefined THEN Window ELSE Window - lastAge,
                                     MaxHold - oldest))
           /\ \/ d = MaxHold - oldest
              \/ lastAge # Undefined /\ d = Window - lastAge
              \/ lastAge = Undefined /\ d = Window
    <3> DEFINE ofWindow == IF lastAge = Undefined THEN Window ELSE Window - lastAge
    <3>1. ofWindow \in 0..Window /\ MaxHold - oldest \in Nat /\ Window \in Nat
      BY <1>0, <2>1, TimingAssumption DEF TypeOK, Undefined
    <3>2. \A w \in 0..Window, r \in Nat :
             /\ AtLeastZero(Smaller(w, r)) \in 0..Window
             /\ AtLeastZero(Smaller(w, r)) \in {w, r}
      BY TimingAssumption DEF AtLeastZero, Smaller
    <3>3. /\ AtLeastZero(Smaller(ofWindow, MaxHold - oldest)) \in 0..Window
          /\ AtLeastZero(Smaller(ofWindow, MaxHold - oldest)) \in {ofWindow, MaxHold - oldest}
      <4> HIDE DEF ofWindow
      <4> QED
        BY <3>1, <3>2
    <3> QED
      BY <3>3
  <2>3. PICK delay \in 0..Window :
           /\ timer' = NewTimer(delay) /\ openedAge' = oldest /\ lastAge' = lastAge
           /\ \/ delay = MaxHold - oldest
              \/ lastAge # Undefined /\ delay = Window - lastAge
              \/ lastAge = Undefined /\ delay = Window
    BY <1>3, <2>1, <2>2 DEF rescheduleRemaining
  <2>4. PICK a \in HeldIn(h) : h[a].age = oldest
    BY <2>1
  <2>5. HeldIn(held') = HeldIn(h) /\ \A x \in Int : oldest >= x => HasAged(held', x)
    BY <2>4 DEF HasAged
  <2>6. OpenedIsHeld'
    BY <2>1, <2>3, <2>5, TimingAssumption DEF OpenedIsHeld, HasAged, HeldIn
  <2>7. Due(delay)'
    <3>1. CASE delay = MaxHold - oldest
      <4>1. MaxHold - delay = oldest /\ oldest \in Int
        BY <2>1, <2>3, <3>1, TimingAssumption
      <4> QED
        BY <2>5, <4>1 DEF Due, HasAged, HeldIn
    <3>2. CASE lastAge # Undefined /\ delay = Window - lastAge
      <4>1. lastAge' >= Window - delay
        BY <1>0, <2>3, <3>2, TimingAssumption DEF TypeOK, Undefined
      <4> QED
        BY <2>3, <3>2, <4>1 DEF Due
    <3>3. CASE lastAge = Undefined /\ delay = Window
      <4>1. Window - delay = 0 /\ oldest >= 0
        BY <2>1, <3>3, TimingAssumption
      <4>2. HasAged(held', Window - delay)
        BY <2>5, <4>1
      <4> QED
        BY <2>3, <3>3, <4>2 DEF Due, HasAged, HeldIn
    <3> QED
      BY <2>3, <3>1, <3>2, <3>3
  <2>8. TimerIsDue'
    BY <1>0, <1>1, <2>3, <2>7, TimerSet
  <2> QED
    BY <2>6, <2>8
<1> QED
  BY <1>2, <1>3

\* An arrival keeps the ages, and openedAge is that of a held write.
LEMMA ArrivalIsHeld ==
    ASSUME TypeOK, OpenedIsHeld, NEW c \in Calls, NEW g \in Groups, NEW bypass \in BOOLEAN,
           Hold(c, g, bypass)
    PROVE  /\ \A a \in HeldIn(held) : a \in HeldIn(held)' /\ held'[a].age = held[a].age
           /\ OpenedIsHeld' /\ openedAge' \in 0..MaxHold
<1>1. ASSUME NEW a \in HeldIn(held)
      PROVE  a \in HeldIn(held)' /\ held'[a].age = held[a].age
  <2>1. a \in Addresses /\ held[a] \in Entry /\ held[a] # NoEntry
    BY HeldEntry DEF HeldIn, TypeOK
  <2>2. CASE \E i \in DOMAIN g : g[i] = a
    <3>1. held'[a] = supersede(held[a], c, bypass, SlotsAt(c, g, a))
      BY <2>1, <2>2 DEF Hold
    <3>2. SlotsAt(c, g, a) \in SUBSET Slots
      BY SlotsAtType
    <3>3. held'[a] \in Entry
      BY <2>1, <3>1, <3>2, SupersedeType
    <3>4. held'[a].age = held[a].age
      BY <2>1, <3>1 DEF supersede
    <3> QED
      BY <2>1, <3>3, <3>4, NoEntryAssumption DEF HeldIn
  <2>3. CASE ~\E i \in DOMAIN g : g[i] = a
    BY <2>1, <2>3 DEF Hold, HeldIn
  <2> QED
    BY <2>2, <2>3
<1>2. openedAge' \in 0..MaxHold
  BY TimingAssumption DEF Hold, TypeOK
<1>3. OpenedIsHeld'
  <2>1. CASE openedAge # Undefined
    BY <1>1, <2>1 DEF Hold, OpenedIsHeld, HasAged
  <2>2. CASE openedAge = Undefined
    <3>1. 1 \in DOMAIN g /\ g[1] \in Addresses /\ openedAge' = 0
      BY <2>2, RequestAssumption DEF Hold
    <3>2. held'[g[1]] = supersede(held[g[1]], c, bypass, SlotsAt(c, g, g[1]))
      BY <3>1 DEF Hold
    <3>3. SlotsAt(c, g, g[1]) \in SUBSET Slots /\ held[g[1]] \in Entry \cup {NoEntry}
      BY <3>1, SlotsAtType DEF TypeOK, Batches
    <3>4. held'[g[1]] \in Entry
      BY <3>2, <3>3, SupersedeType
    <3>5. g[1] \in HeldIn(held)' /\ held'[g[1]].age >= 0
      BY <3>1, <3>4, NoEntryAssumption DEF HeldIn, Entry
    <3> QED
      BY <3>1, <3>5 DEF OpenedIsHeld, HasAged
  <2> QED
    BY <2>1, <2>2
<1> QED
  BY <1>1, <1>2, <1>3

LEMMA ArrivalIsDue ==
    ASSUME DueInv, NEW c \in Calls, NEW g \in Groups, NEW bypass \in BOOLEAN,
           writeAll(c, g, bypass)
    PROVE  OpenedIsHeld' /\ TimerIsDue'
<1>0. TypeOK /\ OpenedIsHeld /\ TimerIsDue
  BY DEF DueInv
<1>1. OpenedIsHeld' /\ openedAge' \in 0..MaxHold
  BY <1>0, ArrivalIsHeld DEF writeAll
<1>2. \A age \in 0..MaxHold : \E d \in 0..Window :
         d = AtLeastZero(Smaller(Window, MaxHold - age)) /\ (d = Window \/ d = MaxHold - age)
  BY TimingAssumption DEF AtLeastZero, Smaller
<1>3. PICK delay \in 0..Window :
         /\ timer' = NewTimer(delay) /\ lastAge' = 0 /\ running' = running
         /\ delay = Window \/ delay = MaxHold - openedAge'
  BY <1>1, <1>2 DEF writeAll
<1>4. Due(delay)'
  <2>1. CASE delay = Window
    BY <1>3, <2>1, TimingAssumption DEF Due, Undefined
  <2>2. CASE delay = MaxHold - openedAge'
    <3>1. \A age \in 0..MaxHold : delay = MaxHold - age => MaxHold - delay = age /\ age # Undefined
      BY TimingAssumption DEF Undefined
    <3>2. MaxHold - delay = openedAge' /\ openedAge' # Undefined
      BY <1>1, <2>2, <3>1
    <3> QED
      BY <1>1, <3>2 DEF OpenedIsHeld, Due
  <2> QED
    BY <1>3, <2>1, <2>2
<1>5. NoTimerWaits'
  <2>1. queue' = Cancelled(queue) \/ queue' = Append(Cancelled(queue), Job("full"))
    BY DEF writeAll
  <2>2. Cancelled(queue) \in Seq(Jobs) /\ \A i \in DOMAIN Cancelled(queue) : ~IsTimer(Cancelled(queue)[i])
    BY <1>0, CancelledType, TimerCancelled DEF TypeOK
  <2>3. ~IsTimer(Job("full"))
    BY DEF IsTimer, Job
  <2> QED
    BY <2>1, <2>2, <2>3 DEF NoTimerWaits
<1> QED
  BY <1>0, <1>1, <1>3, <1>4, <1>5, TimerSet

LEMMA FireIsDue == ASSUME DueInv, TimerFires PROVE TimerIsDue'
<1>0. TypeOK /\ SleeperIsDue /\ WaitingTimerIsDue /\ RunningTimerIsDue
  BY DEF DueInv, TimerIsDue
<1>1. timer.asleep /\ timer.left = 0 /\ timer.id \in TimerIds /\ Due(0)
  BY <1>0 DEF TimerFires, SleeperIsDue
<1>2. timer'.id = timer.id /\ ~timer'.asleep /\ Due(0)'
  BY <1>0, <1>1 DEF TimerFires, TypeOK, Timers, Due, HasAged, HeldIn
<1>3. NoTimerWaits /\ ~(IsTimer(running) /\ running.id = timer.id) /\ running' = running
  BY <1>0, <1>1 DEF TimerFires, WaitingTimerIsDue, RunningTimerIsDue, NoTimerWaits
<1>4. queue' = Append(queue, TimerJob(timer.id)) /\ queue \in Seq(Jobs)
  BY <1>0 DEF TimerFires, TypeOK
<1>5. \A i \in DOMAIN queue' : IsTimer(queue'[i]) => i = Len(queue) + 1 /\ queue'[i].id = timer.id
  BY <1>3, <1>4 DEF NoTimerWaits, TimerJob
<1>6. WaitingTimerIsDue'
  BY <1>1, <1>2, <1>5 DEF WaitingTimerIsDue
<1> QED
  BY <1>0, <1>2, <1>3, <1>6 DEF TimerIsDue, SleeperIsDue, RunningTimerIsDue

\* A tick brings a sleeping timer one nearer to its end, and every age with it.
LEMMA TickIsDue == ASSUME DueInv, TypeOK', Tick PROVE OpenedIsHeld' /\ TimerIsDue'
<1>0. TypeOK /\ OpenedIsHeld /\ SleeperIsDue /\ WaitingTimerIsDue /\ RunningTimerIsDue
  BY DEF DueInv, TimerIsDue
<1>1. ASSUME NEW a \in HeldIn(held)
      PROVE  /\ a \in HeldIn(held)' /\ held[a].age \in 0..MaxHold
             /\ held'[a].age = Smaller(held[a].age + 1, MaxHold)
  <2>1. a \in Addresses /\ held[a] \in Entry /\ held[a] # NoEntry /\ held[a].age \in 0..MaxHold
    BY <1>0, <1>1, HeldEntry DEF TypeOK, HeldIn
  <2>2. held'[a] = [held[a] EXCEPT !.age = Smaller(@ + 1, MaxHold)]
    BY <2>1 DEF Tick
  <2>3. held'[a] \in Entry /\ held'[a].age = Smaller(held[a].age + 1, MaxHold)
    BY <2>1, <2>2, TimingAssumption DEF Entry, Smaller
  <2> QED
    BY <2>1, <2>3, NoEntryAssumption DEF HeldIn
\* Whoever was of an age is a tick older, unless it is of the greatest age.
<1>2. ASSUME NEW x \in Int, HasAged(held, x)
      PROVE  HasAged(held, x)' /\ (HasAged(held, x + 1)' \/ HasAged(held, MaxHold)')
  <2>1. PICK a \in HeldIn(held) : held[a].age >= x
    BY <1>2 DEF HasAged
  <2>2. /\ a \in HeldIn(held)' /\ held'[a].age >= x
        /\ held'[a].age >= x + 1 \/ held'[a].age >= MaxHold
    BY <1>1, <2>1, TimingAssumption DEF Smaller
  <2> QED
    BY <2>2 DEF HasAged
<1>3. ASSUME NEW x \in Int, NEW y \in Int, HasAged(held, x)', y <= x PROVE HasAged(held, y)'
  <2>1. PICK a \in HeldIn(held)' : held'[a].age >= x
    BY <1>3 DEF HasAged
  <2>2. held'[a].age \in Int
    BY <2>1, HeldEntry, TimingAssumption DEF TypeOK
  <2>3. held'[a].age >= y
    BY <1>3, <2>1, <2>2
  <2> QED
    BY <2>1, <2>3 DEF HasAged
<1>4. ASSUME NEW x \in 1..Window, Due(x) PROVE Due(x - 1)'
  <2>0. /\ Window - x \in Int /\ MaxHold - x \in Int /\ MaxHold \in Int
        /\ Window - (x - 1) = (Window - x) + 1 /\ MaxHold - (x - 1) = (MaxHold - x) + 1
        /\ MaxHold - (x - 1) <= MaxHold
    BY TimingAssumption
  <2>1. CASE lastAge # Undefined /\ lastAge >= Window - x
    <3>1. lastAge' = Smaller(lastAge + 1, Window) /\ lastAge \in 0..Window
      BY <1>0, <2>1 DEF Tick, Older, TypeOK
    <3>2. lastAge' # Undefined /\ lastAge' >= Window - (x - 1)
      BY <2>1, <3>1, TimingAssumption DEF Smaller, Undefined
    <3> QED
      BY <3>2 DEF Due
  <2>2. CASE HasAged(held, MaxHold - x)
    <3>1. HasAged(held, MaxHold - (x - 1))'
      BY <1>2, <1>3, <2>0, <2>2
    <3> QED
      BY <3>1 DEF Due
  <2>3. CASE lastAge = Undefined /\ HasAged(held, Window - x)
    <3>1. lastAge' = Undefined
      BY <2>3 DEF Tick, Older
    <3>2. HasAged(held, Window - (x - 1))' \/ HasAged(held, MaxHold - (x - 1))'
      BY <1>2, <1>3, <2>0, <2>3
    <3> QED
      BY <3>1, <3>2 DEF Due
  <2> QED
    BY <1>4, <2>1, <2>2, <2>3 DEF Due
<1>5. ASSUME Due(0) PROVE Due(0)'
  <2>0. Window \in Int /\ MaxHold \in Int /\ Window - 0 = Window /\ MaxHold - 0 = MaxHold
    BY TimingAssumption
  <2>1. CASE lastAge # Undefined /\ lastAge >= Window
    <3>1. lastAge' = Smaller(lastAge + 1, Window) /\ lastAge \in 0..Window
      BY <1>0, <2>1 DEF Tick, Older, TypeOK
    <3>2. lastAge' # Undefined /\ lastAge' >= Window
      BY <2>1, <3>1, TimingAssumption DEF Smaller, Undefined
    <3> QED
      BY <2>0, <3>2 DEF Due
  <2>2. CASE HasAged(held, MaxHold)
    BY <1>2, <2>0, <2>2 DEF Due
  <2>3. CASE lastAge = Undefined /\ HasAged(held, Window)
    <3>1. lastAge' = Undefined
      BY <2>3 DEF Tick, Older
    <3> QED
      BY <1>2, <2>0, <2>3, <3>1 DEF Due
  <2> QED
    BY <1>5, <2>0, <2>1, <2>2, <2>3 DEF Due
<1>6. OpenedIsHeld'
  <2> SUFFICES ASSUME openedAge' # Undefined PROVE HasAged(held, openedAge)'
    BY DEF OpenedIsHeld
  <2>1. openedAge \in 0..MaxHold /\ openedAge' = Smaller(openedAge + 1, MaxHold)
    BY <1>0 DEF Tick, Older, TypeOK
  <2>2. HasAged(held, openedAge)
    BY <1>0, <2>1, TimingAssumption DEF OpenedIsHeld, Undefined
  <2>3. openedAge' \in Int /\ openedAge' <= openedAge + 1 /\ openedAge' <= MaxHold
    BY <2>1, TimingAssumption DEF Smaller
  <2> QED
    BY <1>2, <1>3, <2>1, <2>2, <2>3, TimingAssumption
<1>7. /\ timer'.id = timer.id /\ timer'.asleep = timer.asleep /\ queue' = queue
      /\ running' = running
      /\ timer.asleep => timer.left \in 1..Window /\ timer'.left = timer.left - 1
  BY <1>0, TimingAssumption DEF Tick, TypeOK, Timers
<1>8. SleeperIsDue'
  BY <1>0, <1>4, <1>7 DEF SleeperIsDue
<1>9. WaitingTimerIsDue' /\ RunningTimerIsDue'
  BY <1>0, <1>5, <1>7 DEF WaitingTimerIsDue, RunningTimerIsDue, NoTimerWaits
<1> QED
  BY <1>6, <1>8, <1>9 DEF TimerIsDue

\* A timer that gets flushLock leaves no other timer in the line.
LEMMA GrantIsDue == ASSUME DueInv, GrantFlushLock PROVE TimerIsDue'
<1>0. TypeOK /\ SleeperIsDue /\ WaitingTimerIsDue /\ RunningTimerIsDue
  BY DEF DueInv, TimerIsDue
<1>1. /\ 1 \in DOMAIN queue /\ Head(queue) = queue[1]
      /\ \A i \in DOMAIN queue' : i + 1 \in DOMAIN queue /\ i + 1 # 1 /\ queue'[i] = queue[i + 1]
  BY <1>0 DEF GrantFlushLock, TypeOK
<1>2. \A x : Due(x)' <=> Due(x)
  BY DEF GrantFlushLock, timing, Due, HasAged, HeldIn
<1>3. timer' = timer /\ (running' = NoJob \/ running' = queue[1])
  BY <1>1 DEF GrantFlushLock, timing
<1>4. SleeperIsDue'
  BY <1>0, <1>2, <1>3 DEF SleeperIsDue
<1>5. WaitingTimerIsDue'
  <2>1. ASSUME NEW i \in DOMAIN queue', IsTimer(queue'[i])
        PROVE  queue'[i].id = timer'.id /\ timer'.id \in TimerIds /\ ~timer'.asleep /\ Due(0)'
    BY <1>0, <1>1, <1>2, <1>3, <2>1 DEF WaitingTimerIsDue
  <2>2. ASSUME NEW i \in DOMAIN queue', NEW j \in DOMAIN queue',
               IsTimer(queue'[i]), IsTimer(queue'[j])
        PROVE  i = j
    <3>1. i + 1 = j + 1 /\ i \in Int /\ j \in Int
      BY <1>0, <1>1, <2>2 DEF WaitingTimerIsDue, GrantFlushLock, TypeOK
    <3> QED
      BY <3>1
  <2> QED
    BY <2>1, <2>2 DEF WaitingTimerIsDue
<1>6. RunningTimerIsDue'
  <2>1. CASE IsTimer(queue[1]) /\ running' = queue[1]
    <3>1. queue[1].id = timer.id /\ timer.id \in TimerIds /\ ~timer.asleep /\ Due(0)
      BY <1>0, <1>1, <2>1 DEF WaitingTimerIsDue
    <3>2. NoTimerWaits'
      BY <1>0, <1>1, <2>1 DEF WaitingTimerIsDue, NoTimerWaits
    <3> QED
      BY <1>2, <1>3, <2>1, <3>1, <3>2 DEF RunningTimerIsDue
  <2>2. CASE ~IsTimer(running')
    BY <2>2 DEF RunningTimerIsDue
  <2> QED
    BY <1>3, <2>1, <2>2 DEF IsTimer, NoJob, Job
<1> QED
  BY <1>4, <1>5, <1>6 DEF TimerIsDue

LEMMA TakeIsDue == ASSUME DueInv, TypeOK', TakeBatch PROVE OpenedIsHeld' /\ TimerIsDue'
<1>0. TypeOK /\ OpenedIsHeld /\ TimerIsDue
  BY DEF DueInv
<1>1. ASSUME UNCHANGED <<held, timing, queue>>, running' \in {running, NoJob}
      PROVE  OpenedIsHeld' /\ TimerIsDue'
  <2>1. TimerIsDue'
    BY <1>0, <1>1, DueKept, TimersKept DEF timing
  <2> QED
    BY <1>0, <1>1, <2>1 DEF OpenedIsHeld, HasAged, HeldIn, timing
<1>2. CASE (running.kind = "timer" => running.id = timer.id) /\ takeAll
  <2>1. NoTimerWaits'
    <3>1. CASE running.kind = "timer"
      BY <1>0, <1>2, <3>1 DEF takeAll, TimerIsDue, RunningTimerIsDue, IsTimer, NoTimerWaits
    <3>2. CASE running.kind # "timer"
      BY <1>0, <1>2, <3>2, TimerCancelled DEF takeAll, NoTimerWaits
    <3> QED
      BY <3>1, <3>2
  <2>2. TimerIsDue'
    BY <1>0, <1>2, <2>1, TimerCleared DEF takeAll
  <2> QED
    BY <1>2, <2>2 DEF takeAll, OpenedIsHeld
<1>3. CASE running.kind = "full" /\ takeFullRuns
  <2> DEFINE full == fullRunAddresses(HeldIn(held))
             rest == [a \in Addresses |-> IF a \in full THEN NoEntry ELSE held[a]]
  <2>1. CASE full = {}
    BY <1>1, <1>3, <2>1 DEF takeFullRuns
  <2>2. CASE full # {}
    <3>1. held' = rest /\ rescheduleRemaining(rest) /\ running' = running
      BY <1>3, <2>2 DEF takeFullRuns
    <3>2. rest \in Batches
      BY <1>0 DEF TypeOK, Batches
    <3> HIDE DEF rest
    <3> QED
      BY <3>1, <3>2, RescheduleIsDue
  <2> QED
    BY <2>1, <2>2
<1>4. CASE running' = NoJob /\ UNCHANGED <<held, batch, timing, queue>>
  BY <1>1, <1>4
<1> QED
  BY <1>2, <1>3, <1>4 DEF TakeBatch

LEMMA FailureIsDue == ASSUME DueInv, TypeOK', FlushFails PROVE OpenedIsHeld' /\ TimerIsDue'
<1>0. TypeOK /\ OpenedIsHeld /\ TimerIsDue
  BY DEF DueInv
<1> DEFINE rest == dropFailed(BatchCalls)
<1>1. rest \in Batches /\ held' = rest /\ running' = NoJob
  BY <1>0, DroppedType DEF FlushFails, TypeOK, Settle
<1>2. CASE rescheduleRemaining(rest)
  <2> HIDE DEF rest
  <2> QED
    BY <1>1, <1>2, RescheduleIsDue
<1>3. CASE HeldIn(rest) = HeldIn(held) /\ UNCHANGED <<timing, queue>>
  <2>1. ASSUME NEW a \in HeldIn(held)
        PROVE  a \in HeldIn(held)' /\ held'[a].age = held[a].age
    <3>1. a \in HeldIn(rest) /\ a \in Addresses /\ held[a] \in Entry /\ held[a] # NoEntry
      BY <1>0, <1>3, HeldEntry DEF TypeOK, HeldIn
    <3>2. rest[a].age = held[a].age
      BY <3>1 DEF dropFailed, HeldIn, Entry
    <3> QED
      BY <1>1, <3>1, <3>2 DEF HeldIn
  <2>2. /\ \A x : Due(x) => Due(x)'
        /\ \A age : HasAged(held, age) => HasAged(held, age)'
    BY <1>3, <2>1, DueKept DEF timing
  <2>3. TimerIsDue'
    BY <1>0, <1>1, <1>3, <2>2, TimersKept DEF timing
  <2> QED
    BY <1>0, <1>3, <2>2, <2>3 DEF OpenedIsHeld, timing
<1> QED
  BY <1>2, <1>3 DEF FlushFails

LEMMA DueStep == DueInv /\ TypeOK' /\ [Next]_vars => OpenedIsHeld' /\ TimerIsDue'
<1> SUFFICES ASSUME DueInv, TypeOK', [Next]_vars PROVE OpenedIsHeld' /\ TimerIsDue'
  OBVIOUS
<1>0. TypeOK /\ OpenedIsHeld /\ TimerIsDue /\ queue \in Seq(Jobs)
  BY DEF DueInv, TypeOK
\* The steps that only move fibers that no timer started.
<1>1. ASSUME UNCHANGED <<held, timing>>, running' \in {running, NoJob},
             \A i \in DOMAIN queue' : IsTimer(queue'[i]) =>
                i \in DOMAIN queue /\ queue[i] = queue'[i]
      PROVE  OpenedIsHeld' /\ TimerIsDue'
  <2>1. TimerIsDue'
    BY <1>0, <1>1, DueKept, TimersKept DEF timing
  <2> QED
    BY <1>0, <1>1, <2>1 DEF OpenedIsHeld, HasAged, HeldIn, timing
<1>2. ASSUME NEW job \in Jobs, ~IsTimer(job), queue' = Append(queue, job)
      PROVE  \A i \in DOMAIN queue' : IsTimer(queue'[i]) =>
                i \in DOMAIN queue /\ queue[i] = queue'[i]
  BY <1>0, <1>2
<1>3. ASSUME NEW c \in Calls, NEW g \in Groups, NEW bypass \in BOOLEAN,
             writeAll(c, g, bypass) \/ writeAllNow(c, g, bypass) \/ issueDirectly(c, g, bypass)
      PROVE  OpenedIsHeld' /\ TimerIsDue'
  <2>1. CASE writeAll(c, g, bypass)
    BY <2>1, ArrivalIsDue
  <2>2. CASE writeAllNow(c, g, bypass)
    <3>1. /\ \A a \in HeldIn(held) : a \in HeldIn(held)' /\ held'[a].age = held[a].age
          /\ OpenedIsHeld'
      BY <1>0, <2>2, ArrivalIsHeld DEF writeAllNow
    <3>2. \A x : Due(x) => Due(x)'
      BY <2>2, <3>1, DueKept DEF writeAllNow
    <3>3. \A i \in DOMAIN queue' : IsTimer(queue'[i]) => i \in DOMAIN queue /\ queue[i] = queue'[i]
      <4>1. queue' = queue \/ (queue' = Append(queue, Job("all")) /\ Job("all") \in Jobs)
        BY <2>2, JobTypes DEF writeAllNow, Kinds
      <4> QED
        BY <1>2, <4>1 DEF IsTimer, Job
    <3> QED
      BY <1>0, <2>2, <3>1, <3>2, <3>3, TimersKept DEF writeAllNow
  <2>3. CASE issueDirectly(c, g, bypass)
    <3>1. queue' = Append(queue, DirectJob(c)) /\ DirectJob(c) \in Jobs /\ ~IsTimer(DirectJob(c))
      BY <2>3, JobTypes DEF issueDirectly, IsTimer, DirectJob
    <3> QED
      BY <1>1, <1>2, <2>3, <3>1 DEF issueDirectly
  <2> QED
    BY <1>3, <2>1, <2>2, <2>3
<1>4. ASSUME NEW c \in Calls, RejectClosed(c) \/ Return(c) \/ InterruptDirect(c)
      PROVE  OpenedIsHeld' /\ TimerIsDue'
  <2>1. CASE RejectClosed(c) \/ Return(c)
    BY <1>1, <2>1 DEF RejectClosed, Return
  <2>2. CASE InterruptDirect(c)
    BY <1>0, <1>1, <2>2 DEF InterruptDirect, IsTimer, Job
  <2> QED
    BY <1>4, <2>1, <2>2
<1>5. CASE flush
  <2>1. queue' = Append(queue, Job("all")) /\ Job("all") \in Jobs /\ ~IsTimer(Job("all"))
    BY <1>5, JobTypes DEF flush, Kinds, IsTimer, Job
  <2> QED
    BY <1>1, <1>2, <1>5, <2>1 DEF flush
<1>6. CASE TimerFires
  BY <1>0, <1>6, FireIsDue DEF TimerFires, OpenedIsHeld, HasAged, HeldIn
<1>7. CASE GrantFlushLock
  BY <1>0, <1>7, GrantIsDue DEF GrantFlushLock, timing, OpenedIsHeld, HasAged, HeldIn
<1>8. CASE TakeDirect \/ FlushSucceeds
  BY <1>1, <1>8 DEF TakeDirect, FlushSucceeds, Settle
<1>9. CASE Close \/ CloseInterruptsWaiting
  BY <1>0, <1>1, <1>9 DEF Close, CloseInterruptsWaiting, IsTimer, Job
<1>10. CASE CloseInterruptsTimer
  <2>1. timer.asleep /\ ~timer'.asleep /\ timer'.id = timer.id /\ UNCHANGED <<queue, running>>
    BY <1>0, <1>10 DEF CloseInterruptsTimer, TypeOK, Timers
  <2>2. NoTimerWaits /\ ~(IsTimer(running) /\ running.id = timer.id)
    BY <1>0, <2>1 DEF TimerIsDue, WaitingTimerIsDue, RunningTimerIsDue, NoTimerWaits
  <2>3. TimerIsDue'
    BY <1>0, <2>1, <2>2
    DEF TimerIsDue, SleeperIsDue, WaitingTimerIsDue, RunningTimerIsDue, NoTimerWaits
  <2> QED
    BY <1>0, <1>10, <2>3 DEF CloseInterruptsTimer, OpenedIsHeld, HasAged, HeldIn
<1>11. CASE Finalize
  <2>1. ~timer.asleep /\ UNCHANGED <<timer, queue, running>> /\ ~IsTimer(running) /\ NoTimerWaits
    BY <1>11 DEF Finalize, InScope, IsTimer, NoTimerWaits
  <2> QED
    BY <1>11, <2>1
    DEF Finalize, OpenedIsHeld, TimerIsDue, SleeperIsDue, WaitingTimerIsDue, RunningTimerIsDue,
        NoTimerWaits
<1>12. CASE UNCHANGED vars
  BY <1>1, <1>12 DEF vars, timing
<1> QED
  BY <1>3, <1>4, <1>5, <1>6, <1>7, <1>8, <1>9, <1>10, <1>11, <1>12, TickIsDue, TakeIsDue,
     FailureIsDue DEF Next, Arrive

\* TimerTakesWhenDue: flushPending of a timer takes the batch when the window after the
\* last arrival or the hold limit of a write is over, whatever arrivals, partial flushes
\* and failures set the timer anew, also when it had fired and waited for flushLock.
THEOREM TimersTakeWhenDue == Spec => TimerTakesWhenDue
<1>1. Init => DueInv
  <2> SUFFICES ASSUME Init PROVE OpenedIsHeld /\ TimerIsDue
    BY InitType DEF DueInv
  <2> QED
    BY DEF Init, NoTimer, NoJob, Job, IsTimer, OpenedIsHeld, TimerIsDue, SleeperIsDue,
           WaitingTimerIsDue, RunningTimerIsDue
<1>2. DueInv /\ [Next]_vars => DueInv'
  BY StepType, DueStep DEF DueInv
<1> DEFINE WhenDue == running.kind = "timer" /\ batch' # batch /\ batch' # Nothing =>
                         \/ lastAge = Window \/ HasAged(held, MaxHold)
                         \/ lastAge = Undefined /\ HasAged(held, Window)
<1>3. DueInv /\ [Next]_vars => [WhenDue]_vars
  <2> SUFFICES ASSUME DueInv, Next, running.kind = "timer", batch' # batch, batch' # Nothing
               PROVE  \/ lastAge = Window \/ HasAged(held, MaxHold)
                      \/ lastAge = Undefined /\ HasAged(held, Window)
    OBVIOUS
  <2>1. TakeBatch
    <3>1. ~TakeDirect
      BY DEF TakeDirect
    <3>2. ~FlushSucceeds /\ ~FlushFails
      BY DEF FlushSucceeds, FlushFails, Settle
    <3> QED
      BY <3>1, <3>2
      DEF Next, Arrive, writeAll, writeAllNow, issueDirectly, RejectClosed, Return,
          InterruptDirect, flush, TimerFires, Tick, GrantFlushLock, Close,
          CloseInterruptsTimer, CloseInterruptsWaiting, Finalize
  <2>2. running.id = timer.id
    BY <2>1 DEF TakeBatch
  <2>3. Due(0) /\ TypeOK
    BY <2>2 DEF DueInv, TimerIsDue, RunningTimerIsDue, IsTimer
  <2>4. Window - 0 = Window /\ MaxHold - 0 = MaxHold
    BY TimingAssumption
  <2>5. lastAge # Undefined /\ lastAge >= Window => lastAge = Window
    BY <2>3, TimingAssumption DEF TypeOK
  <2> QED
    BY <2>3, <2>4, <2>5 DEF Due
<1> QED
  BY <1>1, <1>2, <1>3, PTL DEF Spec, TimerTakesWhenDue

-----------------------------------------------------------------------------
(* The accounting of the waiters.  RemainingIsExact needs that no slot is  *)
(* held and in flight at once and that a slot names the address it is for, *)
(* which keeps a partial flush from counting a slot twice;                 *)
(* NobodyStranded and SettledHasNothingLeft then follow each other through *)
(* every settle.                                                           *)

FlushHasFiber == batch # Nothing => InScope(running) \/ running.kind = "direct"

EntriesMatch ==
    \A b \in {held, batch} : \A a \in HeldIn(b) :
        /\ b[a].waiters # {}
        /\ \A s \in b[a].waiters : s[2] \in DOMAIN group[s[1]] /\ group[s[1]][s[2]] = a

SlotsApart == WaitersIn(held) \cap WaitersIn(batch) = {}

IdleAtZero == \A c \in Calls : status[c] = "idle" => remaining[c] = 0

\* A call of issueDirectly is in line once, and nothing is held for it.
DirectAlone ==
    /\ \A c \in Calls : running = DirectJob(c) =>
          /\ status[c] = "waiting"
          /\ \A s \in WaitersIn(held) : s[1] # c
          /\ \A s \in WaitersIn(batch) : s[1] = c
          /\ \A i \in DOMAIN queue : queue[i] # DirectJob(c)
    /\ \A c \in Calls : \A i \in DOMAIN queue : queue[i] = DirectJob(c) =>
          /\ status[c] = "waiting" /\ OpenSlots(c) = {}
          /\ \A j \in DOMAIN queue : queue[j] = DirectJob(c) => i = j

Accounts ==
    /\ FlushHasFiber /\ EntriesMatch /\ SlotsApart /\ IdleAtZero /\ DirectAlone
    /\ RemainingIsExact /\ SettledHasNothingLeft /\ NobodyStranded /\ BypassSticks

AccountInv == TypeOK /\ LockIsFree /\ Accounts

(* Which slots each operation moves.                                       *)

LEMMA CallSlots ==
    ASSUME NEW c, NEW g \in Groups \cup {<<>>}
    PROVE  /\ IsFiniteSet({c} \X DOMAIN g)
           /\ Cardinality({c} \X DOMAIN g) = Len(g) /\ Len(g) \in Nat
           /\ {c} \X DOMAIN g \subseteq {c} \X (1..MaxGroup)
<1>1. Len(g) \in Nat /\ DOMAIN g = 1..Len(g) /\ Len(g) <= MaxGroup
  BY RequestAssumption, TimingAssumption
<1>2. IsFiniteSet({c}) /\ Cardinality({c}) = 1
  BY FS_Singleton
<1>3. IsFiniteSet(1..Len(g)) /\ Cardinality(1..Len(g)) = Len(g)
  BY <1>1, FS_Interval
<1>4. IsFiniteSet({c} \X (1..Len(g))) /\ Cardinality({c} \X (1..Len(g))) = 1 * Len(g)
  BY <1>2, <1>3, FS_Product
<1>5. {c} \X DOMAIN g = {c} \X (1..Len(g))
  BY <1>1, Zenon
<1>6. {c} \X (1..Len(g)) \subseteq {c} \X (1..MaxGroup)
  BY <1>1, TimingAssumption
<1>7. QED
  <2>1. \A n \in Nat : 1 * n = n
    OBVIOUS
  <2>2. Cardinality({c} \X DOMAIN g) = Len(g)
    BY <1>1, <1>4, <1>5, <2>1
  <2>3. QED
    BY <1>1, <1>4, <1>5, <1>6, <2>2

LEMMA HoldSlots ==
    ASSUME TypeOK, NEW c \in Calls, NEW g \in Groups, NEW bypass \in BOOLEAN,
           Hold(c, g, bypass)
    PROVE  WaitersIn(held)' = WaitersIn(held) \cup ({c} \X DOMAIN g)
<1>1. ASSUME NEW s \in WaitersIn(held)'
      PROVE  s \in WaitersIn(held) \cup ({c} \X DOMAIN g)
  BY <1>1 DEF WaitersIn, HeldIn, Hold, supersede, SlotsAt
<1>2. ASSUME NEW s \in WaitersIn(held)
      PROVE  s \in WaitersIn(held)'
  <2>1. PICK a \in HeldIn(held) : s \in held[a].waiters
    BY DEF WaitersIn
  <2>2. a \in Addresses /\ held[a] \in Entry /\ held[a] # NoEntry
    BY <2>1, HeldEntry DEF TypeOK, HeldIn
  <2> DEFINE newer == supersede(held[a], c, bypass, SlotsAt(c, g, a))
  <2>3. newer \in Entry /\ s \in newer.waiters
    <3>1. newer \in Entry
      BY <2>2, SlotsAtType, SupersedeType
    <3>2. QED
      BY <2>1, <2>2, <3>1 DEF supersede
  <2>4. held'[a] = newer \/ held'[a] = held[a]
    BY <2>2 DEF Hold
  <2>5. a \in HeldIn(held)' /\ s \in held'[a].waiters
    BY <2>1, <2>2, <2>3, <2>4, NoEntryAssumption DEF HeldIn
  <2>6. QED
    BY <2>5 DEF WaitersIn
<1>3. ASSUME NEW i \in DOMAIN g
      PROVE  <<c, i>> \in WaitersIn(held)'
  <2>1. g[i] \in Addresses /\ <<c, i>> \in SlotsAt(c, g, g[i])
    BY RequestAssumption DEF SlotsAt
  <2>2. held'[g[i]] = supersede(held[g[i]], c, bypass, SlotsAt(c, g, g[i]))
    BY <2>1 DEF Hold
  <2>3. held'[g[i]] \in Entry /\ <<c, i>> \in held'[g[i]].waiters
    <3>1. held[g[i]] \in Entry \cup {NoEntry}
      BY <2>1 DEF TypeOK, Batches
    <3>2. held'[g[i]] \in Entry
      BY <2>2, <3>1, SlotsAtType, SupersedeType
    <3>3. QED
      BY <2>1, <2>2, <3>2 DEF supersede
  <2>4. QED
    BY <2>1, <2>3, NoEntryAssumption DEF WaitersIn, HeldIn
<1>4. QED
  BY <1>1, <1>2, <1>3

LEMMA DroppedSlots ==
    ASSUME held \in Batches, NEW failed
    PROVE  /\ WaitersIn(dropFailed(failed)) = {s \in WaitersIn(held) : s[1] \notin failed}
           /\ \A a \in HeldIn(dropFailed(failed)) :
                 /\ a \in HeldIn(held)
                 /\ dropFailed(failed)[a].waiters
                       = {s \in held[a].waiters : s[1] \notin failed}
                 /\ dropFailed(failed)[a].waiters # {}
                 /\ dropFailed(failed)[a].bypass = held[a].bypass
<1> DEFINE rest == dropFailed(failed)
           kept(a) == {s \in held[a].waiters : s[1] \notin failed}
<1>1. ASSUME NEW a \in HeldIn(rest)
      PROVE  /\ a \in HeldIn(held) /\ rest[a].waiters = kept(a) /\ kept(a) # {}
             /\ rest[a].bypass = held[a].bypass
  <2>1. a \in HeldIn(held) /\ held[a] \in Entry /\ kept(a) # {}
    BY HeldEntry DEF dropFailed, HeldIn, Batches
  <2>2. rest[a] = [held[a] EXCEPT !.waiters = kept(a)]
    BY <2>1 DEF dropFailed, HeldIn
  <2>3. QED
    BY <2>1, <2>2 DEF Entry
<1>2. ASSUME NEW a \in HeldIn(held), kept(a) # {}
      PROVE  a \in HeldIn(rest)
  <2>1. a \in Addresses /\ held[a] \in Entry
    BY HeldEntry
  <2>2. rest[a] = [held[a] EXCEPT !.waiters = kept(a)]
    BY <1>2, <2>1 DEF dropFailed, HeldIn
  <2>3. rest[a] \in Entry
    BY <2>1, <2>2 DEF Entry
  <2>4. QED
    BY <2>1, <2>3, NoEntryAssumption DEF HeldIn
<1> HIDE DEF rest
<1>3. WaitersIn(rest) = {s \in WaitersIn(held) : s[1] \notin failed}
  BY <1>1, <1>2 DEF WaitersIn
<1>4. QED
  BY <1>1, <1>3 DEF rest

\* The calls of issueDirectly keep their places in the line.
SamePlaces ==
    \A c \in Calls : \A i \in Nat :
        (i \in DOMAIN queue /\ queue[i] = DirectJob(c))
            <=> (i \in DOMAIN queue' /\ queue'[i] = DirectJob(c))

LEMMA QueueDomain == ASSUME TypeOK PROVE DOMAIN queue = 1..Len(queue) /\ Len(queue) \in Nat
BY DEF TypeOK

LEMMA PlacesCancelled ==
    ASSUME TypeOK, queue' = Cancelled(queue)
    PROVE  SamePlaces
BY CancelledType DEF SamePlaces, Cancelled, DirectJob, Job

LEMMA PlacesAppended ==
    ASSUME TypeOK, NEW q \in Seq(Jobs), NEW job \in Jobs, job.kind # "direct",
           q = queue \/ q = Cancelled(queue), queue' = Append(q, job)
    PROVE  SamePlaces
<1>1. Len(q) = Len(queue) /\ DOMAIN q = 1..Len(queue) /\ Len(queue) \in Nat
  <2>1. CASE q = queue
    BY <2>1, QueueDomain
  <2>2. CASE q = Cancelled(queue)
    BY <2>2, CancelledType, QueueDomain DEF TypeOK
  <2>3. QED
    BY <2>1, <2>2
<1>2. DOMAIN queue' = 1..(Len(queue) + 1) /\ DOMAIN queue = 1..Len(queue)
  BY <1>1, QueueDomain
<1>3. \A i \in 1..Len(queue) : queue'[i] = q[i]
  BY <1>1
<1>4. queue'[Len(queue) + 1] = job
  BY <1>1
<1>5. \A c \in Calls : \A i \in 1..Len(queue) :
         queue[i] = DirectJob(c) <=> q[i] = DirectJob(c)
  BY <1>2 DEF Cancelled, DirectJob, Job
<1>6. \A c \in Calls : job # DirectJob(c)
  BY DEF DirectJob
<1>7. QED
  BY <1>1, <1>2, <1>3, <1>4, <1>5, <1>6 DEF SamePlaces

\* A place that is given up was not one of a direct call.
LEMMA PlacesDead ==
    ASSUME TypeOK, NEW i \in DOMAIN queue, queue[i].kind # "direct",
           queue' = [queue EXCEPT ![i] = Job("dead")]
    PROVE  SamePlaces
BY QueueDomain DEF SamePlaces, DirectJob, Job

LEMMA PendingKept ==
    ASSUME TypeOK, TypeOK', SamePlaces, running' = running, NEW c \in Calls
    PROVE  DirectPending(c)' <=> DirectPending(c)
<1>1. DOMAIN queue \subseteq Nat /\ DOMAIN queue' \subseteq Nat
  BY DEF TypeOK
<1>2. (\E i \in DOMAIN queue : queue[i] = DirectJob(c))
         <=> (\E i \in DOMAIN queue' : queue'[i] = DirectJob(c))
  BY <1>1 DEF SamePlaces
<1>3. DirectJob(c)' = DirectJob(c)
  BY DEF DirectJob
<1>4. QED
  BY <1>2, <1>3 DEF DirectPending

\* Steps that move no slot and answer nobody.
LEMMA NothingMoves ==
    ASSUME AccountInv, TypeOK', SamePlaces,
           UNCHANGED <<batch, status, remaining, group, forced, running>>,
           HeldIn(held)' = HeldIn(held),
           \A a \in HeldIn(held) : /\ held'[a].waiters = held[a].waiters
                                    /\ held'[a].bypass = held[a].bypass
    PROVE  Accounts'
<1>1. WaitersIn(held)' = WaitersIn(held) /\ WaitersIn(batch)' = WaitersIn(batch)
      /\ HeldIn(batch)' = HeldIn(batch)
  BY DEF WaitersIn, HeldIn
<1>2. \A c \in Calls : OpenSlots(c)' = OpenSlots(c)
  BY <1>1 DEF OpenSlots
<1>3. \A c \in Calls : DirectPending(c)' <=> DirectPending(c)
  BY PendingKept DEF AccountInv
<1>4. FlushHasFiber' /\ SlotsApart' /\ IdleAtZero'
  BY <1>1 DEF AccountInv, Accounts, FlushHasFiber, SlotsApart, IdleAtZero
<1>5. EntriesMatch' /\ BypassSticks'
  <2>1. ASSUME NEW b \in {held, batch}', NEW a \in HeldIn(b)
        PROVE  \E old \in {held, batch} : /\ a \in HeldIn(old)
                                          /\ b[a].waiters = old[a].waiters
                                          /\ b[a].bypass = old[a].bypass
    BY <1>1, <2>1 DEF HeldIn
  <2>2. EntriesMatch'
    BY <2>1 DEF AccountInv, Accounts, EntriesMatch
  <2>3. BypassSticks'
    BY <2>1 DEF AccountInv, Accounts, BypassSticks
  <2>4. QED
    BY <2>2, <2>3
<1>6. DirectAlone'
  BY <1>1, <1>2, QueueDomain DEF AccountInv, Accounts, DirectAlone, SamePlaces, TypeOK
<1>7. RemainingIsExact' /\ SettledHasNothingLeft' /\ NobodyStranded'
  BY <1>2, <1>3 DEF AccountInv, Accounts, RemainingIsExact, SettledHasNothingLeft,
                    NobodyStranded
<1>8. QED
  BY <1>4, <1>5, <1>6, <1>7 DEF Accounts

\* enqueue: the slots of the new call are added, and it had none before.
LEMMA ArrivalAccounts ==
    ASSUME AccountInv, TypeOK', SamePlaces,
           NEW c \in Calls, NEW g \in Groups, NEW bypass \in BOOLEAN,
           Begin(c, g, bypass), Hold(c, g, bypass), UNCHANGED <<batch, running>>
    PROVE  Accounts'
<1> DEFINE added == {c} \X DOMAIN g
<1>0. TypeOK /\ Accounts
  BY DEF AccountInv
<1>1. /\ WaitersIn(held)' = WaitersIn(held) \cup added
      /\ WaitersIn(batch)' = WaitersIn(batch)
  <2>1. WaitersIn(held)' = WaitersIn(held) \cup added
    BY <1>0, HoldSlots
  <2>2. WaitersIn(batch)' = WaitersIn(batch)
    BY DEF WaitersIn, HeldIn
  <2>3. QED
    BY <2>1, <2>2
<1>2. status[c] = "idle" /\ OpenSlots(c) = {}
  BY <1>0 DEF Begin, Accounts, SettledHasNothingLeft
<1>3. OpenSlots(c)' = added
  BY <1>1, <1>2 DEF OpenSlots
<1>4. \A d \in Calls \ {c} : OpenSlots(d)' = OpenSlots(d)
  BY <1>1 DEF OpenSlots
<1>5. IsFiniteSet(added) /\ Cardinality(added) = Len(g) /\ added # {}
  <2>1. 1 \in DOMAIN g
    BY RequestAssumption
  <2>2. <<c, 1>> \in added
    BY <2>1
  <2>3. QED
    BY <2>2, CallSlots
<1>6. /\ \A d \in Calls \ {c} : status'[d] = status[d] /\ remaining'[d] = remaining[d]
      /\ status'[c] = "waiting" /\ remaining'[c] = Len(g)
      /\ \A d \in Calls \ {c} : group'[d] = group[d] /\ forced'[d] = forced[d]
      /\ group'[c] = g /\ forced'[c] = bypass
  BY <1>0 DEF Begin, Hold, TypeOK
<1>7. \A d \in Calls : DirectPending(d)' <=> DirectPending(d)
  BY <1>0, PendingKept
<1> HIDE DEF added
<1>8. /\ FlushHasFiber' /\ IdleAtZero' /\ RemainingIsExact' /\ SettledHasNothingLeft'
      /\ NobodyStranded'
  <2>1. FlushHasFiber' /\ IdleAtZero'
    BY <1>0, <1>6 DEF Accounts, FlushHasFiber, IdleAtZero
  <2>2. RemainingIsExact'
    BY <1>0, <1>3, <1>4, <1>5, <1>6 DEF Accounts, RemainingIsExact
  <2>3. SettledHasNothingLeft'
    BY <1>0, <1>4, <1>6 DEF Accounts, SettledHasNothingLeft
  <2>4. NobodyStranded'
    BY <1>0, <1>3, <1>4, <1>5, <1>6, <1>7 DEF Accounts, NobodyStranded
  <2>5. QED
    BY <2>1, <2>2, <2>3, <2>4
<1>9. SlotsApart'
  BY <1>0, <1>1, <1>2 DEF Accounts, SlotsApart, OpenSlots, added
<1>10. DirectAlone'
  <2>1. ~DirectPending(c)
    BY <1>0, <1>2 DEF Accounts, DirectAlone, DirectPending
  <2>2. QED
    BY <1>0, <1>1, <1>4, <1>6, <2>1, QueueDomain
       DEF Accounts, DirectAlone, DirectPending, SamePlaces, TypeOK, added
<1>11. EntriesMatch' /\ BypassSticks'
  <2>1. ASSUME NEW a \in HeldIn(batch)'
        PROVE  /\ batch'[a].waiters # {}
               /\ \A s \in batch'[a].waiters :
                     /\ s[2] \in DOMAIN group'[s[1]] /\ group'[s[1]][s[2]] = a
                     /\ forced'[s[1]] => batch'[a].bypass
    <3>1. a \in HeldIn(batch) /\ batch'[a] = batch[a]
      BY DEF HeldIn
    <3>2. \A s \in batch[a].waiters : s[1] \in Calls /\ s[1] # c
      BY <1>0, <1>2, <3>1, HeldEntry DEF TypeOK, Entry, Slots, OpenSlots, WaitersIn
    <3>3. QED
      BY <1>0, <1>6, <3>1, <3>2 DEF Accounts, EntriesMatch, BypassSticks
  <2>2. ASSUME NEW a \in HeldIn(held)'
        PROVE  /\ held'[a].waiters # {}
               /\ \A s \in held'[a].waiters :
                     /\ s[2] \in DOMAIN group'[s[1]] /\ group'[s[1]][s[2]] = a
                     /\ forced'[s[1]] => held'[a].bypass
    <3>1. a \in Addresses
      BY DEF HeldIn
    <3>2. held[a] # NoEntry =>
             \A s \in held[a].waiters : s[1] \in Calls /\ s[1] # c
      BY <1>0, <1>2, <3>1, HeldEntry DEF TypeOK, Entry, Slots, OpenSlots, WaitersIn, HeldIn
    <3>3. held[a] # NoEntry =>
             /\ held[a].waiters # {}
             /\ \A s \in held[a].waiters :
                   /\ s[2] \in DOMAIN group'[s[1]] /\ group'[s[1]][s[2]] = a
                   /\ forced'[s[1]] => held[a].bypass
      BY <1>0, <1>6, <3>1, <3>2 DEF Accounts, EntriesMatch, BypassSticks, HeldIn
    <3>4. \A s \in SlotsAt(c, g, a) : s[1] = c /\ s[2] \in DOMAIN g /\ g[s[2]] = a
      BY DEF SlotsAt
    <3>5. CASE \E i \in DOMAIN g : g[i] = a
      <4>1. SlotsAt(c, g, a) # {}
        BY <3>5 DEF SlotsAt
      <4>2. held'[a] = supersede(held[a], c, bypass, SlotsAt(c, g, a))
        BY <3>1, <3>5 DEF Hold
      <4>3. CASE held[a] = NoEntry
        <5>1. held'[a].waiters = SlotsAt(c, g, a) /\ held'[a].bypass = bypass
          BY <4>2, <4>3 DEF supersede
        <5>2. QED
          BY <1>6, <3>4, <4>1, <5>1
      <4>4. CASE held[a] # NoEntry
        <5>1. /\ held'[a].waiters = held[a].waiters \cup SlotsAt(c, g, a)
              /\ held'[a].bypass = (bypass \/ held[a].bypass)
          BY <4>2, <4>4 DEF supersede
        <5>2. QED
          BY <1>6, <3>3, <3>4, <4>1, <4>4, <5>1
      <4>5. QED
        BY <4>3, <4>4
    <3>6. CASE ~ \E i \in DOMAIN g : g[i] = a
      <4>1. held'[a] = held[a]
        BY <3>1, <3>6 DEF Hold
      <4>2. QED
        BY <3>3, <4>1 DEF HeldIn
    <3>7. QED
      BY <3>5, <3>6
  <2>3. QED
    BY <2>1, <2>2 DEF EntriesMatch, BypassSticks
<1>12. QED
  BY <1>8, <1>9, <1>10, <1>11 DEF Accounts

\* A flush takes entries out of the batch and loses none of their waiters.
LEMMA TakeAccounts ==
    ASSUME AccountInv, TypeOK', SamePlaces, batch = Nothing, InScope(running),
           NEW taken, taken \subseteq Addresses,
           held' = [a \in Addresses |-> IF a \in taken THEN NoEntry ELSE held[a]],
           batch' = [a \in Addresses |-> IF a \in taken THEN held[a] ELSE NoEntry],
           running' = running \/ running' = NoJob, LockIsFree',
           UNCHANGED <<status, remaining, group, forced>>
    PROVE  Accounts'
<1>0. TypeOK /\ Accounts
  BY DEF AccountInv
<1>1. WaitersIn(batch) = {}
  BY NothingType DEF WaitersIn
<1>2. /\ HeldIn(held)' = HeldIn(held) \ taken
      /\ HeldIn(batch)' = HeldIn(held) \cap taken
  BY DEF HeldIn
<1>3. ASSUME NEW a \in HeldIn(held)
      PROVE  IF a \in taken THEN batch'[a] = held[a] ELSE held'[a] = held[a]
  BY DEF HeldIn
<1>4. WaitersIn(held) = WaitersIn(held)' \cup WaitersIn(batch)'
  <2>1. ASSUME NEW s \in WaitersIn(held)
        PROVE  s \in WaitersIn(held)' \cup WaitersIn(batch)'
    <3>1. PICK a \in HeldIn(held) : s \in held[a].waiters
      BY <2>1 DEF WaitersIn
    <3>2. CASE a \in taken
      BY <1>2, <1>3, <3>1, <3>2 DEF WaitersIn
    <3>3. CASE a \notin taken
      BY <1>2, <1>3, <3>1, <3>3 DEF WaitersIn
    <3>4. QED
      BY <3>2, <3>3
  <2>2. WaitersIn(held)' \subseteq WaitersIn(held)
    BY <1>2, <1>3 DEF WaitersIn
  <2>3. WaitersIn(batch)' \subseteq WaitersIn(held)
    BY <1>2, <1>3 DEF WaitersIn
  <2>4. QED
    BY <2>1, <2>2, <2>3
<1>5. EntriesMatch' /\ BypassSticks'
  <2>1. ASSUME NEW b \in {held, batch}', NEW a \in HeldIn(b)
        PROVE  a \in HeldIn(held) /\ b[a] = held[a]
    BY <1>2, <1>3, <2>1 DEF HeldIn
  <2>2. EntriesMatch'
    BY <1>0, <2>1 DEF Accounts, EntriesMatch
  <2>3. BypassSticks'
    BY <1>0, <2>1 DEF Accounts, BypassSticks
  <2>4. QED
    BY <2>2, <2>3
<1>6. SlotsApart'
  <2>1. ASSUME NEW s \in WaitersIn(held)', s \in WaitersIn(batch)' PROVE FALSE
    <3>1. PICK a \in HeldIn(held) \ taken : s \in held[a].waiters
      BY <1>2, <1>3, <2>1 DEF WaitersIn
    <3>2. PICK b \in HeldIn(held) \cap taken : s \in held[b].waiters
      BY <1>2, <1>3, <2>1 DEF WaitersIn
    <3>3. group[s[1]][s[2]] = a /\ group[s[1]][s[2]] = b
      BY <1>0, <3>1, <3>2 DEF Accounts, EntriesMatch
    <3>4. QED
      BY <3>1, <3>2, <3>3
  <2>2. QED
    BY <2>1 DEF SlotsApart
<1>7. \A c \in Calls : OpenSlots(c)' = OpenSlots(c)
  BY <1>1, <1>4 DEF OpenSlots
<1>8. \A c \in Calls : running # DirectJob(c) /\ running' # DirectJob(c)
  BY DEF InScope, DirectJob, NoJob, Job
<1>9. \A c \in Calls : DirectPending(c)' <=> DirectPending(c)
  <2>1. DOMAIN queue \subseteq Nat /\ DOMAIN queue' \subseteq Nat
    BY <1>0 DEF TypeOK
  <2>2. \A c \in Calls : DirectJob(c)' = DirectJob(c)
    BY DEF DirectJob
  <2>3. QED
    BY <1>8, <2>1, <2>2 DEF DirectPending, SamePlaces
<1>10. DirectAlone'
  <2>1. DOMAIN queue \subseteq Nat /\ DOMAIN queue' \subseteq Nat
    BY <1>0 DEF TypeOK
  <2>2. QED
    BY <1>0, <1>7, <1>8, <2>1 DEF Accounts, DirectAlone, SamePlaces
<1>11. FlushHasFiber' /\ IdleAtZero'
  BY <1>0 DEF Accounts, FlushHasFiber, LockIsFree, IdleAtZero, InScope, Nothing
<1>12. RemainingIsExact' /\ SettledHasNothingLeft' /\ NobodyStranded'
  BY <1>0, <1>7, <1>9 DEF Accounts, RemainingIsExact, SettledHasNothingLeft, NobodyStranded
<1>13. QED
  BY <1>5, <1>6, <1>10, <1>11, <1>12 DEF Accounts

\* issueDirectly issues the group of its call, for which nothing else is held.
LEMMA DirectAccounts ==
    ASSUME AccountInv, TypeOK', TakeDirect
    PROVE  Accounts'
<1>0. TypeOK /\ Accounts
  BY DEF AccountInv
<1>1. PICK c \in Calls : running = DirectJob(c) /\ running.call = c
  BY <1>0 DEF TakeDirect, TypeOK, Jobs, DirectJob
<1>g. PICK g : g = group[c]
  OBVIOUS
<1> DEFINE added == {c} \X DOMAIN g
<1>2. g \in Groups \cup {<<>>} /\ forced[c] \in BOOLEAN
  BY <1>0, <1>g DEF TypeOK
<1>3. WaitersIn(batch) = {} /\ OpenSlots(c) = {}
  BY <1>0, <1>1, NothingType DEF TakeDirect, WaitersIn, OpenSlots, Accounts, DirectAlone
<1>4. ASSUME NEW a \in Addresses
      PROVE  batch'[a] = IF \E i \in DOMAIN g : g[i] = a
                         THEN [writer |-> c, bypass |-> forced[c], age |-> 0,
                               waiters |-> SlotsAt(c, g, a)]
                         ELSE NoEntry
  BY <1>1, <1>g DEF TakeDirect, supersede
<1>5. ASSUME NEW a \in HeldIn(batch)'
      PROVE  /\ a \in Addresses /\ batch'[a].waiters = SlotsAt(c, g, a)
             /\ batch'[a].bypass = forced[c] /\ SlotsAt(c, g, a) # {}
  <2>1. a \in Addresses /\ batch'[a] # NoEntry
    BY DEF HeldIn
  <2>2. PICK i \in DOMAIN g : g[i] = a
    BY <1>4, <2>1
  <2>3. batch'[a] = [writer |-> c, bypass |-> forced[c], age |-> 0,
                     waiters |-> SlotsAt(c, g, a)]
    BY <1>4, <2>1, <2>2
  <2>4. <<c, i>> \in SlotsAt(c, g, a)
    BY <2>2 DEF SlotsAt
  <2>5. QED
    BY <2>1, <2>3, <2>4
<1>6. ASSUME NEW i \in DOMAIN g
      PROVE  g[i] \in HeldIn(batch)' /\ <<c, i>> \in SlotsAt(c, g, g[i])
  <2>1. g[i] \in Addresses
    BY <1>2, RequestAssumption
  <2>2. batch'[g[i]] # NoEntry
    <3>1. SlotsAt(c, g, g[i]) \in SUBSET Slots
      BY <1>1, <1>2, SlotsAtType
    <3>2. batch'[g[i]] = [writer |-> c, bypass |-> forced[c], age |-> 0,
                          waiters |-> SlotsAt(c, g, g[i])]
      BY <1>4, <2>1
    <3>4. batch'[g[i]] \in Entry
      BY <1>1, <1>2, <3>1, <3>2, TimingAssumption DEF Entry
    <3>3. QED
      BY <3>4, NoEntryAssumption
  <2>3. QED
    BY <2>1, <2>2 DEF HeldIn, SlotsAt
<1>7. WaitersIn(batch)' = added
  <2>1. ASSUME NEW s \in WaitersIn(batch)' PROVE s \in added
    BY <1>5, <2>1 DEF WaitersIn, SlotsAt
  <2>2. ASSUME NEW i \in DOMAIN g PROVE <<c, i>> \in WaitersIn(batch)'
    BY <1>5, <1>6 DEF WaitersIn
  <2>3. QED
    BY <2>1, <2>2
<1>8. WaitersIn(held)' = WaitersIn(held) /\ HeldIn(held)' = HeldIn(held)
  BY DEF TakeDirect, WaitersIn, HeldIn
<1>9. /\ OpenSlots(c)' = added
      /\ \A d \in Calls \ {c} : OpenSlots(d)' = OpenSlots(d)
  BY <1>3, <1>7, <1>8 DEF OpenSlots
<1>10. UNCHANGED <<held, queue, running, status, group, forced>>
       /\ remaining' = [remaining EXCEPT ![c] = Len(g)]
  BY <1>1, <1>g DEF TakeDirect, timing
<1>11. Cardinality(added) = Len(g)
  BY <1>2, CallSlots
<1>12. status[c] = "waiting"
  BY <1>0, <1>1 DEF Accounts, DirectAlone
<1> HIDE DEF added
<1>13. RemainingIsExact' /\ SettledHasNothingLeft' /\ NobodyStranded'
  <2>1. RemainingIsExact'
    BY <1>0, <1>1, <1>9, <1>10, <1>11 DEF Accounts, RemainingIsExact, TypeOK
  <2>2. SettledHasNothingLeft'
    BY <1>0, <1>9, <1>10, <1>12 DEF Accounts, SettledHasNothingLeft
  <2>3. NobodyStranded'
    BY <1>0, <1>1, <1>9, <1>10 DEF Accounts, NobodyStranded, DirectPending, DirectJob
  <2>4. QED
    BY <2>1, <2>2, <2>3
<1>14. FlushHasFiber' /\ IdleAtZero'
  <2>1. FlushHasFiber'
    BY <1>1, <1>10 DEF FlushHasFiber, DirectJob
  <2>2. IdleAtZero'
    BY <1>0, <1>10, <1>12 DEF Accounts, IdleAtZero, TypeOK
  <2>3. QED
    BY <2>1, <2>2
<1>15. SlotsApart'
  BY <1>3, <1>7, <1>8 DEF SlotsApart, OpenSlots, added
<1>16. DirectAlone'
  <2>1. \A d \in Calls : running = DirectJob(d) => d = c
    BY <1>1 DEF DirectJob
  <2>2. \A s \in WaitersIn(batch)' : s[1] = c
    BY <1>7 DEF added
  <2>3. QED
    BY <1>0, <1>1, <1>8, <1>9, <1>10, <2>1, <2>2 DEF Accounts, DirectAlone
<1>17. EntriesMatch' /\ BypassSticks'
  <2>1. \A a : \A s \in SlotsAt(c, g, a) : s[1] = c /\ s[2] \in DOMAIN g /\ g[s[2]] = a
    BY DEF SlotsAt
  <2>2. EntriesMatch'
    BY <1>0, <1>g, <1>5, <1>8, <1>10, <2>1 DEF Accounts, EntriesMatch
  <2>3. BypassSticks'
    BY <1>0, <1>5, <1>8, <1>10, <2>1 DEF Accounts, BypassSticks
  <2>4. QED
    BY <2>2, <2>3
<1>18. QED
  BY <1>13, <1>14, <1>15, <1>16, <1>17 DEF Accounts

\* settle: a caller with entries left goes on waiting for exactly those, and a
\* failure takes away what the failed callers still hold.
LEMMA SettleAccounts ==
    ASSUME AccountInv, TypeOK', SamePlaces, batch # Nothing,
           NEW success \in BOOLEAN, Settle(success), UNCHANGED <<group, forced>>,
           WaitersIn(held)' = {s \in WaitersIn(held) : success \/ s[1] \notin BatchCalls},
           \A a \in HeldIn(held)' :
              /\ a \in HeldIn(held) /\ held'[a].bypass = held[a].bypass
              /\ held'[a].waiters # {} /\ held'[a].waiters \subseteq held[a].waiters
    PROVE  Accounts'
<1> DEFINE H(c) == {s \in WaitersIn(held) : s[1] = c}
<1>0. TypeOK /\ Accounts
  BY DEF AccountInv
<1>1. /\ WaitersIn(batch)' = {} /\ HeldIn(batch)' = {}
      /\ batch' = Nothing /\ running' = NoJob
  BY NothingType DEF Settle, WaitersIn, HeldIn, Nothing
<1>2. PICK a0 \in HeldIn(batch) : batch[a0].waiters # {}
  <2>1. HeldIn(batch) # {}
    BY <1>0 DEF TypeOK, Batches, HeldIn, Nothing
  <2>2. QED
    BY <1>0, <2>1 DEF Accounts, EntriesMatch
<1>3. BatchCalls # {} /\ BatchCalls \subseteq Calls
  <2>1. WaitersIn(batch) # {} /\ WaitersIn(batch) \subseteq Slots
    BY <1>0, <1>2, WaitersType DEF WaitersIn, TypeOK
  <2>2. QED
    BY <2>1 DEF BatchCalls, Slots
<1>4. \A c \in Calls : c \in BatchCalls <=> Listed(c) # {}
  BY DEF BatchCalls, Listed
<1>5. \A c \in Calls : OpenSlots(c) = H(c) \cup Listed(c) /\ H(c) \cap Listed(c) = {}
  BY <1>0 DEF OpenSlots, Listed, Accounts, SlotsApart
<1>6. ASSUME NEW c \in Calls
      PROVE  /\ IsFiniteSet(H(c)) /\ Cardinality(H(c)) \in Nat
             /\ Cardinality(OpenSlots(c)) - Cardinality(Listed(c)) = Cardinality(H(c))
             /\ Cardinality(H(c)) > 0 <=> H(c) # {}
  <2>1. H(c) \subseteq {c} \X (1..MaxGroup)
    BY <1>0, WaitersType DEF TypeOK, Slots
  <2>2. IsFiniteSet(H(c)) /\ Cardinality(H(c)) \in Nat
    BY <2>1, SlotsFinite
  <2>3. IsFiniteSet(Listed(c)) /\ Cardinality(Listed(c)) \in Nat
    BY <1>0, ListedFinite DEF TypeOK
  <2> HIDE DEF H
  <2>4. Cardinality(OpenSlots(c))
           = Cardinality(H(c)) + Cardinality(Listed(c)) - Cardinality({})
    BY <1>5, <2>2, <2>3, FS_Union
  <2>5. Cardinality({}) = 0 /\ (Cardinality(H(c)) = 0 <=> H(c) = {})
    BY <2>2, FS_EmptySet
  <2>6. QED
    BY <2>2, <2>3, <2>4, <2>5
<1>7. \A c \in BatchCalls : status[c] = "waiting"
  BY <1>0, <1>3, <1>4, <1>5 DEF Accounts, SettledHasNothingLeft
<1>8. ASSUME NEW c \in Calls, c \notin BatchCalls
      PROVE  /\ status'[c] = status[c] /\ remaining'[c] = remaining[c]
             /\ OpenSlots(c)' = OpenSlots(c)
  <2>1. Cardinality(Listed(c)) = 0
    BY <1>4, <1>8, FS_EmptySet
  <2>2. status'[c] = status[c] /\ remaining'[c] = remaining[c] - 0
    BY <1>8, <2>1 DEF Settle
  <2>3. OpenSlots(c)' = H(c)
    BY <1>1, <1>8 DEF OpenSlots
  <2>4. OpenSlots(c) = H(c)
    BY <1>4, <1>5, <1>8
  <2>5. remaining[c] \in Int
    BY <1>0 DEF TypeOK
  <2>6. QED
    BY <2>2, <2>3, <2>4, <2>5
<1>9. ASSUME NEW c \in BatchCalls
      PROVE  IF success /\ H(c) # {}
             THEN /\ status'[c] = "waiting" /\ OpenSlots(c)' = H(c)
                  /\ remaining'[c] = Cardinality(H(c))
             ELSE status'[c] \in {"succeeded", "failed"} /\ OpenSlots(c)' = {}
  <2>1. c \in Calls /\ status[c] = "waiting"
    BY <1>3, <1>7
  <2>2. remaining'[c] = Cardinality(H(c))
    <3>1. remaining[c] = Cardinality(OpenSlots(c))
      BY <1>0, <2>1 DEF Accounts, RemainingIsExact
    <3>2. remaining'[c] = remaining[c] - Cardinality(Listed(c))
      BY <2>1 DEF Settle
    <3>3. QED
      BY <1>6, <2>1, <3>1, <3>2
  <2>3. status'[c] = IF ~success THEN "failed"
                     ELSE IF remaining'[c] > 0 THEN "waiting" ELSE "succeeded"
    BY <2>1 DEF Settle
  <2>4. OpenSlots(c)' = IF success THEN H(c) ELSE {}
    BY <1>1 DEF OpenSlots
  <2> HIDE DEF H
  <2>5. QED
    BY <1>6, <2>1, <2>2, <2>3, <2>4
<1> HIDE DEF H
<1>10. RemainingIsExact' /\ SettledHasNothingLeft' /\ IdleAtZero'
  <2>1. RemainingIsExact'
    <3> SUFFICES ASSUME NEW c \in Calls, status'[c] = "waiting"
                 PROVE  remaining'[c] = Cardinality(OpenSlots(c)')
      BY DEF RemainingIsExact
    <3>1. QED
      BY <1>0, <1>8, <1>9 DEF Accounts, RemainingIsExact
  <2>2. SettledHasNothingLeft'
    <3> SUFFICES ASSUME NEW c \in Calls, status'[c] # "waiting"
                 PROVE  OpenSlots(c)' = {}
      BY DEF SettledHasNothingLeft
    <3>1. QED
      BY <1>0, <1>8, <1>9 DEF Accounts, SettledHasNothingLeft
  <2>3. IdleAtZero'
    BY <1>0, <1>8, <1>9 DEF Accounts, IdleAtZero
  <2>4. QED
    BY <2>1, <2>2, <2>3
<1>11. ASSUME NEW c \in Calls, running = DirectJob(c)
       PROVE  BatchCalls = {c}
  BY <1>0, <1>3, <1>11 DEF Accounts, DirectAlone, BatchCalls
<1>12. DOMAIN queue \subseteq Nat /\ DOMAIN queue' \subseteq Nat
  BY <1>0 DEF TypeOK
<1>13. NobodyStranded'
  <2> SUFFICES ASSUME NEW c \in Calls, status'[c] = "waiting", OpenSlots(c)' = {}
               PROVE  DirectPending(c)'
    BY DEF NobodyStranded
  <2>1. c \notin BatchCalls
    BY <1>9
  <2>2. DirectPending(c)
    BY <1>0, <1>8, <2>1 DEF Accounts, NobodyStranded
  <2>3. PICK i \in DOMAIN queue : queue[i] = DirectJob(c)
    BY <1>11, <2>1, <2>2 DEF DirectPending
  <2>4. i \in DOMAIN queue' /\ queue'[i] = DirectJob(c)
    BY <1>12, <2>3 DEF SamePlaces
  <2>5. QED
    BY <2>4 DEF DirectPending, DirectJob
<1>14. DirectAlone'
  <2>1. ASSUME NEW c \in Calls, NEW i \in DOMAIN queue', queue'[i] = DirectJob(c)
        PROVE  /\ status'[c] = "waiting" /\ OpenSlots(c)' = {}
               /\ \A j \in DOMAIN queue' : queue'[j] = DirectJob(c) => i = j
    <3>1. i \in DOMAIN queue /\ queue[i] = DirectJob(c)
      BY <1>12, <2>1 DEF SamePlaces
    <3>2. status[c] = "waiting" /\ OpenSlots(c) = {}
      BY <1>0, <3>1 DEF Accounts, DirectAlone
    <3>3. c \notin BatchCalls
      BY <1>4, <1>5, <3>2
    <3>4. \A j \in DOMAIN queue' : queue'[j] = DirectJob(c)
              => j \in DOMAIN queue /\ queue[j] = DirectJob(c)
      BY <1>12 DEF SamePlaces
    <3>5. QED
      BY <1>0, <1>8, <3>1, <3>2, <3>3, <3>4 DEF Accounts, DirectAlone
  <2>2. \A c \in Calls : running' # DirectJob(c)
    BY <1>1 DEF NoJob, Job, DirectJob
  <2>3. QED
    BY <2>1, <2>2 DEF DirectAlone, DirectJob
<1>15. FlushHasFiber' /\ SlotsApart'
  BY <1>1 DEF FlushHasFiber, SlotsApart
<1>16. EntriesMatch' /\ BypassSticks'
  <2>1. EntriesMatch'
    BY <1>0, <1>1 DEF Accounts, EntriesMatch
  <2>2. BypassSticks'
    BY <1>0, <1>1 DEF Accounts, BypassSticks
  <2>3. QED
    BY <2>1, <2>2
<1>17. QED
  BY <1>10, <1>13, <1>14, <1>15, <1>16 DEF Accounts

LEMMA DirectArrives ==
    ASSUME AccountInv, TypeOK', NEW c \in Calls, NEW g \in Groups, NEW bypass \in BOOLEAN,
           issueDirectly(c, g, bypass)
    PROVE  Accounts'
<1>0. TypeOK /\ Accounts
  BY DEF AccountInv
<1>1. UNCHANGED <<held, batch, running, remaining>> /\ queue' = Append(queue, DirectJob(c))
  BY DEF issueDirectly
<1>2. status[c] = "idle" /\ OpenSlots(c) = {} /\ remaining[c] = 0
  BY <1>0 DEF issueDirectly, Begin, Accounts, SettledHasNothingLeft, IdleAtZero
<1>3. /\ WaitersIn(held)' = WaitersIn(held) /\ WaitersIn(batch)' = WaitersIn(batch)
      /\ HeldIn(held)' = HeldIn(held) /\ HeldIn(batch)' = HeldIn(batch)
  BY <1>1 DEF WaitersIn, HeldIn
<1>4. \A d \in Calls : OpenSlots(d)' = OpenSlots(d)
  BY <1>3 DEF OpenSlots
<1>5. /\ status'[c] = "waiting"
      /\ \A d \in Calls \ {c} : /\ status'[d] = status[d] /\ group'[d] = group[d]
                                /\ forced'[d] = forced[d]
  BY <1>0 DEF issueDirectly, Begin, TypeOK
<1>6. /\ Len(queue) \in Nat /\ DOMAIN queue = 1..Len(queue)
      /\ DOMAIN queue' = 1..(Len(queue) + 1) /\ queue'[Len(queue) + 1] = DirectJob(c)
      /\ \A i \in DOMAIN queue : queue'[i] = queue[i]
  <2>1. DirectJob(c) \in Jobs
    BY JobTypes
  <2>2. QED
    BY <1>0, <1>1, <2>1 DEF TypeOK
<1>7. running # DirectJob(c) /\ \A i \in DOMAIN queue : queue[i] # DirectJob(c)
  BY <1>0, <1>2 DEF Accounts, DirectAlone
<1>8. DirectAlone'
  <2>1. ASSUME NEW d \in Calls, running = DirectJob(d)
        PROVE  /\ status'[d] = "waiting"
               /\ \A s \in WaitersIn(held)' : s[1] # d
               /\ \A s \in WaitersIn(batch)' : s[1] = d
               /\ \A i \in DOMAIN queue' : queue'[i] # DirectJob(d)
    <3>1. d # c /\ DirectJob(d) # DirectJob(c)
      BY <1>7, <2>1 DEF DirectJob
    <3>2. QED
      BY <1>0, <1>3, <1>5, <1>6, <2>1, <3>1 DEF Accounts, DirectAlone
  <2>2. ASSUME NEW d \in Calls, NEW i \in DOMAIN queue', queue'[i] = DirectJob(d)
        PROVE  /\ status'[d] = "waiting" /\ OpenSlots(d)' = {}
               /\ \A j \in DOMAIN queue' : queue'[j] = DirectJob(d) => i = j
    <3>1. CASE d = c
      BY <1>2, <1>4, <1>5, <1>6, <1>7, <2>2, <3>1
    <3>2. CASE d # c
      <4>1. DirectJob(d) # DirectJob(c)
        BY <3>2 DEF DirectJob
      <4>2. QED
        BY <1>0, <1>4, <1>5, <1>6, <2>2, <3>2, <4>1 DEF Accounts, DirectAlone
    <3>3. QED
      BY <3>1, <3>2
  <2>3. QED
    BY <1>1, <2>1, <2>2 DEF DirectAlone, DirectJob
<1>9. RemainingIsExact' /\ IdleAtZero' /\ SettledHasNothingLeft'
  BY <1>0, <1>1, <1>2, <1>4, <1>5, FS_EmptySet
     DEF Accounts, RemainingIsExact, IdleAtZero, SettledHasNothingLeft
<1>10. NobodyStranded'
  <2> SUFFICES ASSUME NEW d \in Calls, status'[d] = "waiting", OpenSlots(d)' = {}
               PROVE  DirectPending(d)'
    BY DEF NobodyStranded
  <2>1. CASE d = c
    BY <1>6, <2>1 DEF DirectPending, DirectJob
  <2>2. CASE d # c
    <3>1. DirectPending(d)
      BY <1>0, <1>4, <1>5, <2>2 DEF Accounts, NobodyStranded
    <3>2. QED
      BY <1>1, <1>6, <3>1 DEF DirectPending, DirectJob
  <2>3. QED
    BY <2>1, <2>2
<1>11. EntriesMatch' /\ BypassSticks' /\ SlotsApart' /\ FlushHasFiber'
  <2>1. ASSUME NEW b \in {held, batch}, NEW a \in HeldIn(b), NEW s \in b[a].waiters
        PROVE  s[1] \in Calls \ {c}
    <3>1. b[a] \in Entry
      BY <1>0, HeldEntry DEF TypeOK
    <3>2. s \in Slots /\ s \in WaitersIn(held) \cup WaitersIn(batch)
      BY <3>1 DEF Entry, WaitersIn
    <3>3. QED
      BY <1>2, <3>2 DEF OpenSlots, Slots
  <2>2. EntriesMatch'
    BY <1>0, <1>1, <1>3, <1>5, <2>1 DEF Accounts, EntriesMatch
  <2>3. BypassSticks'
    BY <1>0, <1>1, <1>3, <1>5, <2>1 DEF Accounts, BypassSticks
  <2>4. SlotsApart' /\ FlushHasFiber'
    BY <1>0, <1>1, <1>3 DEF Accounts, SlotsApart, FlushHasFiber
  <2>5. QED
    BY <2>2, <2>3, <2>4
<1>12. QED
  BY <1>8, <1>9, <1>10, <1>11 DEF Accounts

\* Steps that only change what is known of a call for which nothing is on its way.
LEMMA CallForgotten ==
    ASSUME AccountInv, TypeOK', NEW c \in Calls, status[c] # "waiting",
           status'[c] # "waiting", status'[c] = "idle" => remaining'[c] = 0,
           \A d \in Calls \ {c} :
              /\ status'[d] = status[d] /\ group'[d] = group[d]
              /\ forced'[d] = forced[d] /\ remaining'[d] = remaining[d],
           UNCHANGED <<held, batch, running, queue>>
    PROVE  Accounts'
<1>0. TypeOK /\ Accounts
  BY DEF AccountInv
<1>1. /\ WaitersIn(held)' = WaitersIn(held) /\ WaitersIn(batch)' = WaitersIn(batch)
      /\ HeldIn(held)' = HeldIn(held) /\ HeldIn(batch)' = HeldIn(batch)
  BY DEF WaitersIn, HeldIn
<1>2. \A d \in Calls : OpenSlots(d)' = OpenSlots(d)
  BY <1>1 DEF OpenSlots
<1>3. OpenSlots(c) = {}
  BY <1>0 DEF Accounts, SettledHasNothingLeft
<1>4. running # DirectJob(c) /\ \A i \in DOMAIN queue : queue[i] # DirectJob(c)
  BY <1>0 DEF Accounts, DirectAlone
<1>5. DirectAlone'
  <2>1. \A d \in Calls : running = DirectJob(d) => d # c
    BY <1>4
  <2>2. \A d \in Calls : \A i \in DOMAIN queue : queue[i] = DirectJob(d) => d # c
    BY <1>4
  <2>3. QED
    BY <1>0, <1>1, <1>2, <2>1, <2>2 DEF Accounts, DirectAlone, DirectJob
<1>6. RemainingIsExact' /\ IdleAtZero' /\ SettledHasNothingLeft'
  BY <1>0, <1>2, <1>3 DEF Accounts, RemainingIsExact, IdleAtZero, SettledHasNothingLeft
<1>7. NobodyStranded'
  BY <1>0, <1>2 DEF Accounts, NobodyStranded, DirectPending, DirectJob
<1>8. EntriesMatch' /\ BypassSticks' /\ SlotsApart' /\ FlushHasFiber'
  <2>1. ASSUME NEW b \in {held, batch}, NEW a \in HeldIn(b), NEW s \in b[a].waiters
        PROVE  s[1] \in Calls \ {c}
    <3>1. b[a] \in Entry
      BY <1>0, HeldEntry DEF TypeOK
    <3>2. s \in Slots /\ s \in WaitersIn(held) \cup WaitersIn(batch)
      BY <3>1 DEF Entry, WaitersIn
    <3>3. QED
      BY <1>3, <3>2 DEF OpenSlots, Slots
  <2>2. EntriesMatch'
    BY <1>0, <1>1, <2>1 DEF Accounts, EntriesMatch
  <2>3. BypassSticks'
    BY <1>0, <1>1, <2>1 DEF Accounts, BypassSticks
  <2>4. SlotsApart' /\ FlushHasFiber'
    BY <1>0, <1>1 DEF Accounts, SlotsApart, FlushHasFiber
  <2>5. QED
    BY <2>2, <2>3, <2>4
<1>9. QED
  BY <1>5, <1>6, <1>7, <1>8 DEF Accounts

LEMMA GrantAccounts ==
    ASSUME AccountInv, TypeOK', GrantFlushLock
    PROVE  Accounts'
<1>0. TypeOK /\ LockIsFree /\ Accounts
  BY DEF AccountInv
<1>1. /\ running = NoJob /\ batch = Nothing /\ queue # <<>> /\ queue' = Tail(queue)
      /\ running' = IF Head(queue).kind = "dead" THEN NoJob ELSE Head(queue)
      /\ UNCHANGED <<held, batch, status, remaining, group, forced>>
  BY <1>0 DEF GrantFlushLock, LockIsFree, calls
<1>2. /\ WaitersIn(held)' = WaitersIn(held) /\ HeldIn(held)' = HeldIn(held)
      /\ WaitersIn(batch)' = {} /\ WaitersIn(batch) = {} /\ HeldIn(batch)' = HeldIn(batch)
  BY <1>1, NothingType DEF WaitersIn, HeldIn, Nothing
<1>3. \A c \in Calls : OpenSlots(c)' = OpenSlots(c)
  BY <1>2 DEF OpenSlots
<1>4. /\ 1 \in DOMAIN queue /\ Head(queue) = queue[1]
      /\ DOMAIN queue' = 1..(Len(queue) - 1) /\ Len(queue) \in Nat
      /\ DOMAIN queue = 1..Len(queue)
      /\ \A i \in DOMAIN queue' : i + 1 \in DOMAIN queue /\ queue'[i] = queue[i + 1]
  BY <1>0, <1>1 DEF TypeOK
<1>5. \A c \in Calls : running' = DirectJob(c) => queue[1] = DirectJob(c)
  BY <1>1, <1>4 DEF NoJob, Job, DirectJob
<1>6. DirectAlone'
  <2>1. ASSUME NEW c \in Calls, running' = DirectJob(c)
        PROVE  /\ status'[c] = "waiting"
               /\ \A s \in WaitersIn(held)' : s[1] # c
               /\ \A s \in WaitersIn(batch)' : s[1] = c
               /\ \A i \in DOMAIN queue' : queue'[i] # DirectJob(c)
    <3>1. queue[1] = DirectJob(c)
      BY <1>5, <2>1
    <3>2. /\ status[c] = "waiting" /\ OpenSlots(c) = {}
          /\ \A j \in DOMAIN queue : queue[j] = DirectJob(c) => j = 1
      BY <1>0, <1>4, <3>1 DEF Accounts, DirectAlone
    <3>3. \A i \in DOMAIN queue' : i + 1 # 1
      BY <1>4
    <3>4. QED
      BY <1>1, <1>2, <1>4, <3>2, <3>3 DEF OpenSlots
  <2>2. ASSUME NEW c \in Calls, NEW i \in DOMAIN queue', queue'[i] = DirectJob(c)
        PROVE  /\ status'[c] = "waiting" /\ OpenSlots(c)' = {}
               /\ \A j \in DOMAIN queue' : queue'[j] = DirectJob(c) => i = j
    <3>1. i + 1 \in DOMAIN queue /\ queue[i + 1] = DirectJob(c)
      BY <1>4, <2>2
    <3>2. /\ status[c] = "waiting" /\ OpenSlots(c) = {}
          /\ \A j \in DOMAIN queue : queue[j] = DirectJob(c) => i + 1 = j
      BY <1>0, <3>1 DEF Accounts, DirectAlone
    <3>3. \A j \in DOMAIN queue' : queue'[j] = DirectJob(c) => i + 1 = j + 1
      BY <1>4, <3>2
    <3>4. QED
      BY <1>1, <1>3, <1>4, <3>2, <3>3
  <2>3. QED
    BY <2>1, <2>2 DEF DirectAlone, DirectJob
<1>7. NobodyStranded'
  <2> SUFFICES ASSUME NEW c \in Calls, status'[c] = "waiting", OpenSlots(c)' = {}
               PROVE  DirectPending(c)'
    BY DEF NobodyStranded
  <2>1. DirectPending(c)
    BY <1>0, <1>1, <1>3 DEF Accounts, NobodyStranded
  <2>2. PICK i \in DOMAIN queue : queue[i] = DirectJob(c)
    BY <1>1, <2>1 DEF DirectPending, NoJob, Job, DirectJob
  <2>3. CASE i = 1
    BY <1>1, <1>4, <2>2, <2>3 DEF DirectPending, DirectJob
  <2>4. CASE i # 1
    <3>1. i - 1 \in DOMAIN queue' /\ queue'[i - 1] = queue[i]
      BY <1>4, <2>4
    <3>2. QED
      BY <2>2, <3>1 DEF DirectPending, DirectJob
  <2>5. QED
    BY <2>3, <2>4
<1>8. RemainingIsExact' /\ IdleAtZero' /\ SettledHasNothingLeft'
  BY <1>0, <1>1, <1>3 DEF Accounts, RemainingIsExact, IdleAtZero, SettledHasNothingLeft
<1>9. EntriesMatch' /\ BypassSticks' /\ SlotsApart' /\ FlushHasFiber'
  <2>1. EntriesMatch'
    BY <1>0, <1>1, <1>2 DEF Accounts, EntriesMatch
  <2>2. BypassSticks'
    BY <1>0, <1>1, <1>2 DEF Accounts, BypassSticks
  <2>3. SlotsApart' /\ FlushHasFiber'
    BY <1>1, <1>2 DEF SlotsApart, FlushHasFiber, Nothing
  <2>4. QED
    BY <2>1, <2>2, <2>3
<1>10. QED
  BY <1>6, <1>7, <1>8, <1>9 DEF Accounts

LEMMA InterruptAccounts ==
    ASSUME AccountInv, TypeOK', NEW c \in Calls, InterruptDirect(c)
    PROVE  Accounts'
<1>0. TypeOK /\ Accounts
  BY DEF AccountInv
<1>1. PICK i \in DOMAIN queue :
         queue[i] = DirectJob(c) /\ queue' = [queue EXCEPT ![i] = Job("dead")]
  BY DEF InterruptDirect
<1>2. /\ UNCHANGED <<held, batch, running, remaining, group, forced>>
      /\ status' = [status EXCEPT ![c] = "failed"]
  BY DEF InterruptDirect
<1>3. /\ WaitersIn(held)' = WaitersIn(held) /\ WaitersIn(batch)' = WaitersIn(batch)
      /\ HeldIn(held)' = HeldIn(held) /\ HeldIn(batch)' = HeldIn(batch)
  BY <1>2 DEF WaitersIn, HeldIn
<1>4. \A d \in Calls : OpenSlots(d)' = OpenSlots(d)
  BY <1>3 DEF OpenSlots
<1>5. /\ status[c] = "waiting" /\ OpenSlots(c) = {} /\ running # DirectJob(c)
      /\ \A j \in DOMAIN queue : queue[j] = DirectJob(c) => i = j
  BY <1>0, <1>1 DEF Accounts, DirectAlone
<1>6. /\ status'[c] = "failed" /\ \A d \in Calls \ {c} : status'[d] = status[d]
      /\ DOMAIN queue' = DOMAIN queue
      /\ \A j \in DOMAIN queue : j # i => queue'[j] = queue[j]
      /\ \A d \in Calls : queue'[i] # DirectJob(d)
  BY <1>0, <1>1, <1>2 DEF TypeOK, Job, DirectJob
<1>7. DirectAlone'
  <2>1. \A d \in Calls : running = DirectJob(d) => d # c
    BY <1>5
  <2>2. \A d \in Calls : \A j \in DOMAIN queue : queue'[j] = DirectJob(d) =>
           j # i /\ queue[j] = DirectJob(d) /\ d # c
    BY <1>5, <1>6 DEF DirectJob
  <2>3. QED
    BY <1>0, <1>2, <1>3, <1>4, <1>6, <2>1, <2>2 DEF Accounts, DirectAlone, DirectJob
<1>8. RemainingIsExact' /\ IdleAtZero' /\ SettledHasNothingLeft'
  BY <1>0, <1>2, <1>4, <1>5, <1>6
     DEF Accounts, RemainingIsExact, IdleAtZero, SettledHasNothingLeft
<1>9. NobodyStranded'
  <2> SUFFICES ASSUME NEW d \in Calls, status'[d] = "waiting", OpenSlots(d)' = {}
               PROVE  DirectPending(d)'
    BY DEF NobodyStranded
  <2>1. d # c /\ DirectJob(d) # DirectJob(c)
    BY <1>6 DEF DirectJob
  <2>2. DirectPending(d)
    BY <1>0, <1>4, <1>6, <2>1 DEF Accounts, NobodyStranded
  <2>3. QED
    BY <1>1, <1>2, <1>6, <2>1, <2>2 DEF DirectPending, DirectJob
<1>10. EntriesMatch' /\ BypassSticks' /\ SlotsApart' /\ FlushHasFiber'
  BY <1>0, <1>2, <1>3
     DEF Accounts, EntriesMatch, BypassSticks, SlotsApart, FlushHasFiber, Nothing
<1>11. QED
  BY <1>7, <1>8, <1>9, <1>10 DEF Accounts

\* The finalizer fails the callers whose writes it drops.  A batch that is still
\* in flight then belongs to a direct call, for which nothing is held.
LEMMA FinalizeAccounts ==
    ASSUME AccountInv, TypeOK', Finalize
    PROVE  Accounts'
<1>0. TypeOK /\ Accounts
  BY DEF AccountInv
<1>1. /\ UNCHANGED <<batch, queue, running, remaining, group, forced>>
      /\ held' = Nothing /\ ~InScope(running)
      /\ status' = [c \in Calls |->
                      IF status[c] = "waiting" /\ \E s \in WaitersIn(held) : s[1] = c
                      THEN "failed" ELSE status[c]]
  BY DEF Finalize
<1>2. /\ WaitersIn(held)' = {} /\ HeldIn(held)' = {}
      /\ WaitersIn(batch)' = WaitersIn(batch) /\ HeldIn(batch)' = HeldIn(batch)
  BY <1>1, NothingType DEF WaitersIn, HeldIn
<1>3. \A c \in Calls : OpenSlots(c)' = {s \in WaitersIn(batch) : s[1] = c}
  BY <1>2 DEF OpenSlots
<1>4. ASSUME NEW c \in Calls, NEW s \in WaitersIn(held), s[1] = c
      PROVE  OpenSlots(c)' = {} /\ ~DirectPending(c)
  <2>1. SUFFICES ASSUME NEW r \in WaitersIn(batch), r[1] = c
                 PROVE  FALSE
    <3>1. running # DirectJob(c)
      BY <1>0, <1>4 DEF Accounts, DirectAlone
    <3>2. \A i \in DOMAIN queue : queue[i] # DirectJob(c)
      BY <1>0, <1>4 DEF Accounts, DirectAlone, OpenSlots
    <3>3. QED
      BY <1>3, <3>1, <3>2 DEF DirectPending
  <2>2. batch # Nothing
    BY <2>1, NothingType DEF WaitersIn
  <2>3. running.kind = "direct"
    BY <1>0, <1>1, <2>2 DEF Accounts, FlushHasFiber
  <2>4. PICK d \in Calls : running = DirectJob(d)
    BY <1>0, <2>3 DEF TypeOK, Jobs, DirectJob
  <2>5. c = d
    BY <1>0, <2>1, <2>4 DEF Accounts, DirectAlone
  <2>6. QED
    BY <1>0, <1>4, <2>4, <2>5 DEF Accounts, DirectAlone
<1>5. ASSUME NEW c \in Calls, ~\E s \in WaitersIn(held) : s[1] = c
      PROVE  OpenSlots(c)' = OpenSlots(c) /\ status'[c] = status[c]
  BY <1>1, <1>3, <1>5 DEF OpenSlots
<1>6. \A c \in Calls : DirectPending(c)' <=> DirectPending(c)
  BY <1>1 DEF DirectPending, DirectJob
<1>7. \A c \in Calls : status'[c] = "waiting" =>
         /\ status[c] = "waiting" /\ ~\E s \in WaitersIn(held) : s[1] = c
  BY <1>1
<1>8. RemainingIsExact' /\ NobodyStranded'
  BY <1>0, <1>1, <1>5, <1>6, <1>7 DEF Accounts, RemainingIsExact, NobodyStranded
<1>9. SettledHasNothingLeft'
  <2> SUFFICES ASSUME NEW c \in Calls, status'[c] # "waiting"
               PROVE  OpenSlots(c)' = {}
    BY DEF SettledHasNothingLeft
  <2>1. QED
    BY <1>0, <1>4, <1>5 DEF Accounts, SettledHasNothingLeft
<1>10. IdleAtZero' /\ FlushHasFiber' /\ SlotsApart'
  BY <1>0, <1>1, <1>2 DEF Accounts, IdleAtZero, FlushHasFiber, SlotsApart, Nothing
<1>11. EntriesMatch' /\ BypassSticks'
  BY <1>0, <1>1, <1>2 DEF Accounts, EntriesMatch, BypassSticks, HeldIn
<1>12. DirectAlone'
  <2>1. ASSUME NEW c \in Calls, DirectPending(c)
        PROVE  status'[c] = status[c]
    BY <1>4, <1>5, <2>1
  <2>2. ASSUME NEW c \in Calls, OpenSlots(c) = {}
        PROVE  OpenSlots(c)' = {}
    BY <1>3, <2>2 DEF OpenSlots
  <2>3. \A c \in Calls : DirectJob(c)' = DirectJob(c)
    BY DEF DirectJob
  <2>4. QED
    BY <1>0, <1>1, <1>2, <2>1, <2>2, <2>3 DEF Accounts, DirectAlone, DirectPending
<1>13. QED
  BY <1>8, <1>9, <1>10, <1>11, <1>12 DEF Accounts

LEMMA AccountInit == Init => LockIsFree /\ Accounts
<1> SUFFICES ASSUME Init PROVE LockIsFree /\ Accounts
  OBVIOUS
<1>1. held = Nothing /\ batch = Nothing /\ running = NoJob /\ DOMAIN queue = {}
  BY DEF Init
<1>2. WaitersIn(held) = {} /\ WaitersIn(batch) = {} /\ HeldIn(held) = {} /\ HeldIn(batch) = {}
  BY <1>1, NothingType DEF WaitersIn
<1>3. \A c \in Calls : OpenSlots(c) = {} /\ status[c] = "idle" /\ remaining[c] = 0
  BY <1>2 DEF OpenSlots, Init
<1>4. DirectAlone
  BY <1>1 DEF DirectAlone, NoJob, Job, DirectJob
<1>5. QED
  BY <1>1, <1>2, <1>3, <1>4
     DEF Accounts, LockIsFree, FlushHasFiber, EntriesMatch, SlotsApart, IdleAtZero,
         RemainingIsExact, SettledHasNothingLeft, NobodyStranded, BypassSticks

LEMMA AccountStep ==
    AccountInv /\ TypeOK' /\ LockIsFree' /\ [Next]_vars => Accounts'
<1> SUFFICES ASSUME AccountInv, TypeOK', LockIsFree', [Next]_vars
             PROVE  Accounts'
  OBVIOUS
<1>0. TypeOK /\ LockIsFree /\ Accounts
  BY DEF AccountInv
<1>p. queue \in Seq(Jobs) /\ Cancelled(queue) \in Seq(Jobs)
  BY <1>0, CancelledType DEF TypeOK
<1>1. ASSUME NEW c \in Calls, NEW g \in Groups, NEW bypass \in BOOLEAN,
             writeAll(c, g, bypass) \/ writeAllNow(c, g, bypass)
      PROVE  Accounts'
  <2>1. SamePlaces
    <3>1. CASE queue' = Cancelled(queue)
      BY <1>0, <3>1, PlacesCancelled
    <3>2. CASE queue' = queue
      BY <3>2 DEF SamePlaces
    <3>3. CASE queue' = Append(Cancelled(queue), Job("full"))
      BY <1>0, <1>p, <3>3, JobTypes, PlacesAppended DEF Job, Kinds
    <3>4. CASE queue' = Append(queue, Job("all"))
      BY <1>0, <1>p, <3>4, JobTypes, PlacesAppended DEF Job, Kinds
    <3>5. QED
      BY <1>1, <3>1, <3>2, <3>3, <3>4 DEF writeAll, writeAllNow
  <2>2. QED
    BY <1>1, <2>1, ArrivalAccounts DEF writeAll, writeAllNow
<1>2. ASSUME NEW c \in Calls, NEW g \in Groups, NEW bypass \in BOOLEAN,
             issueDirectly(c, g, bypass)
      PROVE  Accounts'
  BY <1>2, DirectArrives
<1>3. ASSUME NEW c \in Calls, RejectClosed(c) \/ Return(c)
      PROVE  Accounts'
  <2>1. CASE RejectClosed(c)
    <3>1. status[c] = "idle" /\ status' = [status EXCEPT ![c] = "failed"]
          /\ UNCHANGED <<held, batch, running, queue, remaining, group, forced>>
      BY <2>1 DEF RejectClosed
    <3>2. QED
      BY <1>0, <3>1, CallForgotten DEF TypeOK
  <2>2. CASE Return(c)
    <3>1. /\ status[c] # "waiting"
          /\ status' = [status EXCEPT ![c] = "idle"]
          /\ remaining' = [remaining EXCEPT ![c] = 0]
          /\ group' = [group EXCEPT ![c] = <<>>]
          /\ forced' = [forced EXCEPT ![c] = FALSE]
          /\ UNCHANGED <<held, batch, running, queue>>
      BY <2>2 DEF Return
    <3>2. QED
      BY <1>0, <3>1, CallForgotten DEF TypeOK
  <2>3. QED
    BY <1>3, <2>1, <2>2
<1>4. ASSUME NEW c \in Calls, InterruptDirect(c)
      PROVE  Accounts'
  BY <1>4, InterruptAccounts
<1>5. CASE flush
  <2>1. SamePlaces
    BY <1>0, <1>5, <1>p, JobTypes, PlacesAppended DEF flush, Job, Kinds
  <2>2. QED
    BY <1>5, <2>1, NothingMoves DEF flush, calls, HeldIn
<1>6. CASE TimerFires
  <2>1. timer.id \in 0..3
    BY <1>0 DEF TypeOK, Timers
  <2>2. SamePlaces
    BY <1>0, <1>6, <1>p, <2>1, JobTypes, PlacesAppended DEF TimerFires, TimerJob
  <2>3. QED
    BY <1>6, <2>2, NothingMoves DEF TimerFires, calls, HeldIn
<1>7. CASE Tick
  <2>1. SamePlaces
    BY <1>7 DEF Tick, SamePlaces
  <2>2. ASSUME NEW a \in Addresses
        PROVE  /\ held'[a] = NoEntry <=> held[a] = NoEntry
               /\ held[a] # NoEntry => /\ held'[a].waiters = held[a].waiters
                                       /\ held'[a].bypass = held[a].bypass
    <3>1. held[a] \in Entry \cup {NoEntry} /\ held'[a] \in Entry \cup {NoEntry}
      BY <1>0 DEF TypeOK, Batches
    <3>2. held'[a] = IF held[a] = NoEntry THEN NoEntry
                     ELSE [held[a] EXCEPT !.age = Smaller(@ + 1, MaxHold)]
      BY <1>7 DEF Tick
    <3>3. CASE held[a] = NoEntry
      BY <3>2, <3>3
    <3>4. CASE held[a] # NoEntry
      <4>1. held[a] \in Entry
        BY <3>1, <3>4
      <4>2. held'[a] = [held[a] EXCEPT !.age = Smaller(held[a].age + 1, MaxHold)]
        BY <3>2, <3>4
      <4>3. held[a].age \in 0..MaxHold
        BY <4>1 DEF Entry
      <4>4. Smaller(held[a].age + 1, MaxHold) \in 0..MaxHold
        BY <4>3, TimingAssumption DEF Smaller
      <4>5. held'[a] \in Entry
        BY <4>1, <4>2, <4>4 DEF Entry
      <4>6. held'[a].waiters = held[a].waiters /\ held'[a].bypass = held[a].bypass
        BY <4>1, <4>2 DEF Entry
      <4>7. QED
        BY <3>4, <4>5, <4>6, NoEntryAssumption
    <3>5. QED
      BY <3>3, <3>4
  <2>3. HeldIn(held)' = HeldIn(held)
    BY <2>2 DEF HeldIn
  <2>4. QED
    BY <1>7, <2>1, <2>2, <2>3, NothingMoves DEF Tick, calls, HeldIn
<1>8. CASE GrantFlushLock
  BY <1>8, GrantAccounts
<1>9. CASE TakeBatch
  <2>0. /\ InScope(running) /\ batch = Nothing
        /\ UNCHANGED <<status, remaining, group, forced>>
    BY <1>9 DEF TakeBatch, calls
  <2>1. CASE running' = NoJob /\ UNCHANGED <<held, batch, queue>>
    <3>1. SamePlaces
      BY <2>1 DEF SamePlaces
    <3>2. PICK taken \in SUBSET Addresses : taken = {}
      OBVIOUS
    <3>3. /\ held' = [a \in Addresses |-> IF a \in taken THEN NoEntry ELSE held[a]]
          /\ batch' = [a \in Addresses |-> IF a \in taken THEN held[a] ELSE NoEntry]
      BY <1>0, <2>0, <2>1, <3>2 DEF TypeOK, Batches, Nothing
    <3>4. QED
      BY <2>0, <2>1, <3>1, <3>3, TakeAccounts
  <2>2. CASE takeAll
    <3>1. SamePlaces
      BY <1>0, <2>2, PlacesCancelled DEF takeAll, SamePlaces
    <3>2. /\ held' = [a \in Addresses |-> IF a \in Addresses THEN NoEntry ELSE held[a]]
          /\ batch' = [a \in Addresses |-> IF a \in Addresses THEN held[a] ELSE NoEntry]
      BY <1>0, <2>2 DEF takeAll, TypeOK, Batches, Nothing
    <3>3. running' = running \/ running' = NoJob
      BY <2>2 DEF takeAll
    <3>4. QED
      BY <2>0, <3>1, <3>2, <3>3, TakeAccounts
  <2>3. CASE takeFullRuns /\ fullRunAddresses(HeldIn(held)) # {}
    <3> DEFINE rest == [a \in Addresses |->
                          IF a \in fullRunAddresses(HeldIn(held)) THEN NoEntry ELSE held[a]]
    <3>1. PICK full : full = fullRunAddresses(HeldIn(held)) /\ full \subseteq Addresses
      BY DEF fullRunAddresses, HeldIn
    <3>2. /\ held' = [a \in Addresses |-> IF a \in full THEN NoEntry ELSE held[a]]
          /\ batch' = [a \in Addresses |-> IF a \in full THEN held[a] ELSE NoEntry]
          /\ rescheduleRemaining(rest) /\ running' = running
      BY <2>3, <3>1 DEF takeFullRuns
    <3>3. SamePlaces
      BY <1>0, <3>2, PlacesCancelled DEF rescheduleRemaining
    <3>4. QED
      BY <2>0, <3>1, <3>2, <3>3, TakeAccounts
  <2>4. QED
    BY <1>9, <2>1, <2>2, <2>3 DEF TakeBatch, takeFullRuns
<1>10. CASE TakeDirect
  BY <1>10, DirectAccounts
<1>11. CASE FlushSucceeds
  <2>1. SamePlaces
    BY <1>11 DEF FlushSucceeds, SamePlaces
  <2>2. batch # Nothing /\ Settle(TRUE) /\ UNCHANGED <<held, group, forced>>
    BY <1>11 DEF FlushSucceeds
  <2>3. \A a \in HeldIn(held)' :
           /\ a \in HeldIn(held) /\ held'[a].bypass = held[a].bypass
           /\ held'[a].waiters # {} /\ held'[a].waiters \subseteq held[a].waiters
    BY <1>0, <2>2 DEF Accounts, EntriesMatch, HeldIn
  <2>4. WaitersIn(held)' = {s \in WaitersIn(held) : TRUE \/ s[1] \notin BatchCalls}
    BY <2>2 DEF WaitersIn, HeldIn
  <2>5. QED
    BY <2>1, <2>2, <2>3, <2>4, SettleAccounts
<1>12. CASE FlushFails
  <2> DEFINE rest == dropFailed(BatchCalls)
  <2>1. /\ batch # Nothing /\ Settle(FALSE) /\ held' = rest
        /\ rescheduleRemaining(rest) \/ queue' = queue
        /\ UNCHANGED <<group, forced>>
    BY <1>12 DEF FlushFails, timing
  <2>2. SamePlaces
    BY <1>0, <2>1, PlacesCancelled DEF rescheduleRemaining, SamePlaces
  <2>3. PICK failed : failed = BatchCalls
    OBVIOUS
  <2>4. held' = dropFailed(failed)
    BY <2>1, <2>3
  <2>5. /\ WaitersIn(held') = {s \in WaitersIn(held) : s[1] \notin failed}
        /\ \A a \in HeldIn(held') :
              /\ a \in HeldIn(held)
              /\ held'[a].waiters = {s \in held[a].waiters : s[1] \notin failed}
              /\ held'[a].waiters # {}
              /\ held'[a].bypass = held[a].bypass
    BY <1>0, <2>4, DroppedSlots DEF TypeOK
  <2>6. WaitersIn(held)' = WaitersIn(held') /\ HeldIn(held)' = HeldIn(held')
    BY DEF WaitersIn, HeldIn
  <2>7. WaitersIn(held)' = {s \in WaitersIn(held) : FALSE \/ s[1] \notin BatchCalls}
    BY <2>3, <2>5, <2>6
  <2>8. \A a \in HeldIn(held)' :
           /\ a \in HeldIn(held) /\ held'[a].bypass = held[a].bypass
           /\ held'[a].waiters # {} /\ held'[a].waiters \subseteq held[a].waiters
    BY <2>5, <2>6
  <2>9. QED
    BY <2>1, <2>2, <2>7, <2>8, SettleAccounts
<1>13. CASE Close \/ CloseInterruptsTimer
  <2>1. SamePlaces
    BY <1>13 DEF Close, CloseInterruptsTimer, SamePlaces
  <2>2. QED
    BY <1>13, <2>1, NothingMoves DEF Close, CloseInterruptsTimer, calls, HeldIn
<1>14. CASE CloseInterruptsWaiting
  <2>1. SamePlaces
    BY <1>0, <1>14, PlacesDead DEF CloseInterruptsWaiting, InScope
  <2>2. QED
    BY <1>14, <2>1, NothingMoves DEF CloseInterruptsWaiting, calls, HeldIn
<1>15. CASE Finalize
  BY <1>15, FinalizeAccounts
<1>16. CASE UNCHANGED vars
  <2>1. SamePlaces
    BY <1>16 DEF vars, SamePlaces
  <2>2. QED
    BY <1>16, <2>1, NothingMoves DEF vars, calls, HeldIn
<1>17. QED
  BY <1>1, <1>2, <1>3, <1>4, <1>5, <1>6, <1>7, <1>8, <1>9, <1>10, <1>11, <1>12, <1>13,
     <1>14, <1>15, <1>16 DEF Next, Arrive

\* The accounting holds in every state of every behaviour.
THEOREM WaitersAccounted == Spec => []AccountInv
<1>1. Init => HoldInv /\ AccountInv
  BY InitType, HoldInit, AccountInit DEF HoldInv, AccountInv
<1>2. HoldInv /\ AccountInv /\ [Next]_vars => (HoldInv /\ AccountInv)'
  BY StepType, HoldStep, AccountStep DEF HoldInv, AccountInv
<1>3. QED
  BY <1>1, <1>2, PTL DEF Spec

\* A caller that waits has an entry held or in flight, or a place in the line:
\* no interleaving of flushes, failures and the close leaves it without one.
THEOREM NobodyIsStranded == Spec => []NobodyStranded
<1>1. AccountInv => NobodyStranded
  BY DEF AccountInv, Accounts
<1>2. QED
  BY <1>1, WaitersAccounted, PTL

\* Waiter.remaining counts the entries that list the waiter, however they are
\* split over the flushes.
THEOREM RemainingCounts == Spec => []RemainingIsExact
<1>1. AccountInv => RemainingIsExact
  BY DEF AccountInv, Accounts
<1>2. QED
  BY <1>1, WaitersAccounted, PTL

\* After settle has answered a caller, nothing of it is held or in flight.
THEOREM SettledCallersLeave == Spec => []SettledHasNothingLeft
<1>1. AccountInv => SettledHasNothingLeft
  BY DEF AccountInv, Accounts
<1>2. QED
  BY <1>1, WaitersAccounted, PTL

\* supersede and dropFailed keep the bypass of every caller that still waits.
THEOREM BypassIsKept == Spec => []BypassSticks
<1>1. AccountInv => BypassSticks
  BY DEF AccountInv, Accounts
<1>2. QED
  BY <1>1, WaitersAccounted, PTL

=============================================================================

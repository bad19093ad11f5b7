---------------------- MODULE WriteDebouncerOrderProofs ----------------------
(***************************************************************************)
(* The write debouncer implements OrderedWrites for every set of calls and *)
(* addresses, every window, hold limit, run limit and mode.  A call slot   *)
(* is used once (Repeat is FALSE): there may be any number of them.        *)
(***************************************************************************)
EXTENDS WriteDebouncerOrder, WriteDebouncerProofs

-----------------------------------------------------------------------------
(* The inductive invariant.                                                *)

Age(c) == Ordered!Age(c)
Carries(c) == Ordered!AddressesOf(c)

\* Calls are numbered as they ask, and only calls that asked are on the device.
Positioned ==
    /\ asked \in Nat /\ position \in [Calls -> Nat]
    /\ \A c \in Calls : /\ position[c] <= asked
                        /\ status[c] = "idle" => position[c] = 0
                        /\ status[c] = "waiting" => position[c] > 0
    /\ \A a \in Addresses : device[a] # NoCall => position[device[a]] > 0

\* An entry carries a value that its call asked for, newer than what the register
\* holds and no older than what any of its waiters asked for.
Newer(b) ==
    \A a \in HeldIn(b) :
        /\ a \in Carries(b[a].writer)
        /\ position[b[a].writer] > Age(device[a])
        /\ \A s \in b[a].waiters : position[s[1]] <= position[b[a].writer]

\* What is held was asked for after what is in flight.
HeldAfterBatch ==
    \A a \in HeldIn(held) \cap HeldIn(batch) :
        position[held[a].writer] > position[batch[a].writer]

\* A window of zero holds nothing, and only then do callers stand in line themselves.
OneMode ==
    /\ Window = 0 => held = Nothing
    /\ Window # 0 => \A c \in Calls : /\ running # DirectJob(c)
                                      /\ \A i \in DOMAIN queue : queue[i] # DirectJob(c)

\* A caller that stands in line came after everything that went before it.
LineOrdered ==
    \A c \in Calls : \A i \in DOMAIN queue : queue[i] = DirectJob(c) =>
        /\ \A a \in Addresses : position[c] > Age(device[a])
        /\ \A a \in HeldIn(batch) : position[c] > position[batch[a].writer]
        /\ \A d \in Calls : running = DirectJob(d) => position[c] > position[d]
        /\ \A d \in Calls : \A j \in DOMAIN queue :
              j > i /\ queue[j] = DirectJob(d) => position[d] > position[c]

FirstInLine ==
    \A c \in Calls : running = DirectJob(c) /\ batch = Nothing =>
        \A a \in Addresses : position[c] > Age(device[a])

InLine(c) ==
    \/ running = DirectJob(c) /\ batch = Nothing
    \/ \E i \in DOMAIN queue : queue[i] = DirectJob(c)

\* Each register of a caller that waits is on its way or has reached its value.
Covered ==
    \A c \in Calls : status[c] = "waiting" => \A i \in DOMAIN group[c] :
        \/ <<c, i>> \in WaitersIn(held) \cup WaitersIn(batch)
        \/ InLine(c)
        \/ Age(device[group[c][i]]) >= position[c]

OrderInv ==
    /\ Positioned /\ Newer(held) /\ Newer(batch) /\ HeldAfterBatch
    /\ OneMode /\ LineOrdered /\ FirstInLine /\ Covered

-----------------------------------------------------------------------------
(* Ages, entries and places.                                               *)

LEMMA AgeFacts ==
    ASSUME TypeOK, Positioned
    PROVE  /\ \A c \in Calls : Age(c) = position[c] /\ position[c] \in Nat
           /\ \A a \in Addresses : Age(device[a]) \in Nat /\ Age(device[a]) <= asked
BY NoCallAssumption DEF TypeOK, Positioned, Age, Ordered!Age

LEMMA EntryFacts ==
    ASSUME NEW b \in Batches, NEW a \in HeldIn(b)
    PROVE  /\ a \in Addresses /\ b[a].writer \in Calls
           /\ \A s \in b[a].waiters : s \in Slots /\ s[1] \in Calls /\ s \in WaitersIn(b)
<1>1. a \in Addresses /\ b[a] \in Entry
  BY HeldEntry
<1>2. b[a].writer \in Calls /\ b[a].waiters \subseteq Slots
  BY <1>1 DEF Entry
<1>3. \A s \in Slots : s[1] \in Calls
  BY DEF Slots
<1> QED
  BY <1>1, <1>2, <1>3 DEF WaitersIn

\* Writers asked for their values.
LEMMA WritersAsked ==
    ASSUME TypeOK, Positioned, NEW b \in Batches, Newer(b), NEW a \in HeldIn(b)
    PROVE  position[b[a].writer] > 0
<1>1. a \in Addresses /\ b[a].writer \in Calls
  BY EntryFacts
<1>2. Age(device[a]) \in Nat /\ position[b[a].writer] \in Nat
  BY <1>1, AgeFacts
<1> QED
  BY <1>2 DEF Newer

LEMMA NothingHeld == ASSUME NEW b \in Batches PROVE b = Nothing <=> HeldIn(b) = {}
BY DEF Batches, HeldIn, Nothing

LEMMA GroupAddresses ==
    ASSUME TypeOK, NEW c \in Calls, NEW i \in DOMAIN group[c]
    PROVE  group[c][i] \in Addresses
<1>1. group[c] \in Groups \cup {<<>>}
  BY DEF TypeOK
<1>2. group[c] \in Seq(Addresses)
  BY <1>1, RequestAssumption
<1> QED
  BY <1>2

LEMMA QueueIndices == ASSUME TypeOK PROVE DOMAIN queue \subseteq Nat
BY DEF TypeOK

-----------------------------------------------------------------------------
(* Every step preserves the invariant.                                     *)

\* Steps that send nothing and ask for nothing: calls may be answered, lose their place
\* in the line, or what is held for them.
LEMMA NothingSent ==
    ASSUME TypeOK, TypeOK', OrderInv,
           UNCHANGED <<batch, device, group, asked, position>>,
           \A c \in Calls : status'[c] \in {"idle", "waiting"} => status'[c] = status[c],
           \A c \in Calls : running' = DirectJob(c) => running = DirectJob(c),
           \A c \in Calls : \A i \in DOMAIN queue' : queue'[i] = DirectJob(c) =>
              i \in DOMAIN queue /\ queue[i] = DirectJob(c),
           HeldIn(held)' \subseteq HeldIn(held),
           \A a \in HeldIn(held)' : /\ held'[a].writer = held[a].writer
                                    /\ held'[a].waiters \subseteq held[a].waiters,
           \A c \in Calls : status'[c] = "waiting" =>
              /\ InLine(c) => InLine(c)'
              /\ \A s \in WaitersIn(held) : s[1] = c => s \in WaitersIn(held)'
    PROVE  OrderInv'
<1>1. \A c : Age(c)' = Age(c) /\ Carries(c)' = Carries(c)
  BY DEF Age, Carries, Ordered!Age, Ordered!AddressesOf
<1>2. Positioned'
  BY DEF OrderInv, Positioned
<1>3. Newer(held)'
  BY <1>1 DEF OrderInv, Newer
<1>4. HeldIn(batch)' = HeldIn(batch) /\ WaitersIn(batch)' = WaitersIn(batch)
  BY DEF HeldIn, WaitersIn
<1>5. Newer(batch)' /\ HeldAfterBatch'
  BY <1>1, <1>4 DEF OrderInv, Newer, HeldAfterBatch
<1>6. \A c \in Calls : DirectJob(c)' = DirectJob(c)
  BY DEF DirectJob
<1>7. OneMode'
  <2>1. held = Nothing => held' = Nothing
    <3>1. held \in Batches /\ held' \in Batches /\ HeldIn(held)' = HeldIn(held')
      BY DEF TypeOK, HeldIn
    <3> QED
      BY <3>1, NothingHeld
  <2> QED
    BY <2>1, <1>6 DEF OrderInv, OneMode, Nothing
<1>8. LineOrdered' /\ FirstInLine'
  BY <1>1, <1>4, <1>6 DEF OrderInv, LineOrdered, FirstInLine, Nothing
<1>9. Covered'
  BY <1>1, <1>4 DEF OrderInv, Covered, TypeOK, Slots
<1> QED
  BY <1>2, <1>3, <1>5, <1>7, <1>8, <1>9 DEF OrderInv

\* A call that asks is newer than every other, and nothing of it was anywhere before.
Asks(c, g) ==
    /\ status[c] = "idle"
    /\ asked' = asked + 1
    /\ position' = [d \in Calls |-> IF d = c THEN asked + 1 ELSE position[d]]
    /\ status' = [status EXCEPT ![c] = "waiting"]
    /\ group' = [group EXCEPT ![c] = g]
    /\ device' = device

LEMMA AskFacts ==
    ASSUME AccountInv, OrderInv, NEW c \in Calls, NEW g \in Groups, Asks(c, g)
    PROVE  /\ position[c] = 0 /\ position'[c] = asked + 1
           /\ status'[c] = "waiting" /\ Carries(c)' = {g[i] : i \in DOMAIN g}
           /\ \A d \in Calls \ {c} : /\ position'[d] = position[d] /\ status'[d] = status[d]
                                     /\ group'[d] = group[d] /\ Carries(d)' = Carries(d)
           /\ \A d \in Calls : position'[d] \in Nat /\ position'[d] <= asked + 1
           /\ \A a \in Addresses : Age(device[a])' = Age(device[a])
           /\ Positioned'
<1>0. TypeOK /\ Positioned
  BY DEF AccountInv, OrderInv
<1>1. position[c] = 0 /\ position'[c] = asked + 1
  BY <1>0 DEF Asks, Positioned
<1>2. status'[c] = "waiting" /\ group'[c] = g
  BY <1>0 DEF Asks, TypeOK
<1>3. Carries(c)' = {g[i] : i \in DOMAIN g}
  BY <1>2 DEF Carries, Ordered!AddressesOf
<1>4. ASSUME NEW d \in Calls \ {c}
      PROVE  /\ position'[d] = position[d] /\ status'[d] = status[d]
             /\ group'[d] = group[d] /\ Carries(d)' = Carries(d)
  BY <1>0 DEF Asks, TypeOK, Carries, Ordered!AddressesOf
<1>5. \A d \in Calls : position'[d] \in Nat /\ position'[d] <= asked + 1
  BY <1>0, <1>1, <1>4 DEF Positioned
<1>6. ASSUME NEW a \in Addresses
      PROVE  Age(device[a])' = Age(device[a])
  <2>1. device'[a] = device[a] /\ device[a] \in Calls \cup {NoCall} /\ device[a] # c
    BY <1>0, <1>1, NoCallAssumption DEF Asks, TypeOK, Positioned
  <2> QED
    BY <1>4, <2>1 DEF Age, Ordered!Age
<1>7. Positioned'
  <2>1. asked' \in Nat /\ position' \in [Calls -> Nat]
    BY <1>0, <1>5 DEF Asks, Positioned
  <2>2. ASSUME NEW d \in Calls
        PROVE  /\ position'[d] <= asked'
               /\ status'[d] = "idle" => position'[d] = 0
               /\ status'[d] = "waiting" => position'[d] > 0
    BY <1>0, <1>1, <1>2, <1>4, <1>5 DEF Asks, Positioned
  <2>3. ASSUME NEW a \in Addresses, device'[a] # NoCall
        PROVE  position'[device'[a]] > 0
    <3>1. device'[a] = device[a] /\ position[device[a]] > 0 /\ device[a] \in Calls
      BY <1>0, <2>3 DEF Asks, Positioned, TypeOK
    <3> QED
      BY <1>1, <1>4, <3>1
  <2> QED
    BY <2>1, <2>2, <2>3 DEF Positioned
<1> QED
  BY <1>1, <1>2, <1>3, <1>4, <1>5, <1>6, <1>7

\* Entries that stay as they are stay newer.
LEMMA NewerStays ==
    ASSUME AccountInv, OrderInv, NEW c \in Calls, NEW g \in Groups, Asks(c, g),
           NEW b \in {held, batch}, NEW a \in HeldIn(b)
    PROVE  /\ b[a].writer # c /\ \A s \in b[a].waiters : s[1] # c
           /\ a \in Carries(b[a].writer)'
           /\ position'[b[a].writer] = position[b[a].writer]
           /\ position'[b[a].writer] > Age(device[a])'
           /\ \A s \in b[a].waiters : position'[s[1]] <= position'[b[a].writer]
<1>0. TypeOK /\ Positioned /\ b \in Batches /\ Newer(b)
  BY DEF AccountInv, OrderInv, TypeOK
<1>1. /\ a \in Addresses /\ b[a].writer \in Calls
      /\ \A s \in b[a].waiters : s \in Slots /\ s[1] \in Calls /\ s \in WaitersIn(b)
  BY <1>0, EntryFacts
<1>2. OpenSlots(c) = {}
  BY DEF AccountInv, Accounts, SettledHasNothingLeft, Asks
<1>3. \A s \in b[a].waiters : s[1] # c
  BY <1>1, <1>2 DEF OpenSlots
<1>4. position[b[a].writer] > 0
  BY <1>0, WritersAsked
<1>5. b[a].writer # c
  BY <1>4, AskFacts
<1>6. /\ a \in Carries(b[a].writer) /\ position[b[a].writer] > Age(device[a])
      /\ \A s \in b[a].waiters : position[s[1]] <= position[b[a].writer]
  BY <1>0 DEF Newer
<1> HIDE DEF Asks
<1>7. /\ a \in Carries(b[a].writer)' /\ position'[b[a].writer] = position[b[a].writer]
      /\ position'[b[a].writer] > Age(device[a])'
  BY <1>1, <1>5, <1>6, AskFacts
<1>8. \A s \in b[a].waiters : position'[s[1]] = position[s[1]]
  BY <1>1, <1>3, AskFacts
<1> QED
  BY <1>3, <1>5, <1>6, <1>7, <1>8

\* enqueue: the new call is the writer of its addresses.
LEMMA ArrivalOrder ==
    ASSUME AccountInv, TypeOK', OrderInv, SamePlaces, Window # 0,
           NEW c \in Calls, NEW g \in Groups, NEW bypass \in BOOLEAN,
           Asks(c, g), Hold(c, g, bypass), UNCHANGED <<batch, running>>
    PROVE  OrderInv'
<1>0. TypeOK /\ Positioned /\ asked \in Nat
  BY DEF AccountInv, OrderInv, Positioned
<1>1. /\ held' = [a \in Addresses |->
                    IF \E i \in DOMAIN g : g[i] = a
                    THEN supersede(held[a], c, bypass, SlotsAt(c, g, a)) ELSE held[a]]
  BY DEF Hold
<1>2. \A a \in Addresses :
         /\ Age(device[a])' = Age(device[a])
         /\ Age(device[a]) \in Nat /\ Age(device[a]) < asked + 1
  BY <1>0, AskFacts, AgeFacts
<1>3. Newer(batch)' /\ HeldIn(batch)' = HeldIn(batch)
  <2>1. HeldIn(batch)' = HeldIn(batch) /\ batch' = batch
    BY DEF HeldIn
  <2>2. ASSUME NEW a \in HeldIn(batch)
        PROVE  /\ a \in Carries(batch[a].writer)'
               /\ position'[batch[a].writer] > Age(device[a])'
               /\ \A s \in batch[a].waiters : position'[s[1]] <= position'[batch[a].writer]
    BY NewerStays
  <2> QED
    BY <2>1, <2>2 DEF Newer, Carries, Ordered!AddressesOf
<1>4. ASSUME NEW a \in HeldIn(held)'
      PROVE  /\ a \in Addresses
             /\ \/ /\ held'[a].writer = c /\ a \in {g[i] : i \in DOMAIN g}
                   /\ \A s \in held'[a].waiters : s[1] \in Calls
                \/ a \in HeldIn(held) /\ held'[a] = held[a]
  <2>1. a \in Addresses /\ held'[a] # NoEntry /\ HeldIn(held)' = HeldIn(held')
    BY DEF HeldIn
  <2>2. CASE \E i \in DOMAIN g : g[i] = a
    <3>1. held'[a].writer = c
      BY <1>1, <2>1, <2>2 DEF supersede
    <3>2. \A s \in held'[a].waiters : s[1] \in Calls
      BY <2>1, EntryFacts DEF TypeOK
    <3> QED
      BY <2>1, <2>2, <3>1, <3>2
  <2>3. CASE ~\E i \in DOMAIN g : g[i] = a
    BY <1>1, <2>1, <2>3 DEF HeldIn
  <2> QED
    BY <2>2, <2>3
<1> HIDE DEF Asks
<1>5. Newer(held)'
  <2>1. ASSUME NEW a \in HeldIn(held)'
        PROVE  /\ a \in Carries(held[a].writer)'
               /\ position'[held'[a].writer] > Age(device[a])'
               /\ \A s \in held'[a].waiters : position'[s[1]] <= position'[held'[a].writer]
    <3>1. CASE /\ held'[a].writer = c /\ a \in {g[i] : i \in DOMAIN g}
               /\ \A s \in held'[a].waiters : s[1] \in Calls
      <4>1. a \in Carries(held[a].writer)'
        BY <3>1, AskFacts DEF Carries, Ordered!AddressesOf
      <4>2. position'[held'[a].writer] > Age(device[a])'
        BY <1>0, <1>2, <1>4, <2>1, <3>1, AskFacts
      <4>3. \A s \in held'[a].waiters : position'[s[1]] <= position'[held'[a].writer]
        BY <3>1, AskFacts
      <4> QED
        BY <4>1, <4>2, <4>3
    <3>2. CASE a \in HeldIn(held) /\ held'[a] = held[a]
      <4>1. /\ a \in Carries(held[a].writer)'
            /\ position'[held[a].writer] > Age(device[a])'
            /\ \A s \in held[a].waiters : position'[s[1]] <= position'[held[a].writer]
        BY <3>2, NewerStays
      <4> QED
        BY <3>2, <4>1 DEF Carries, Ordered!AddressesOf
    <3> QED
      BY <1>4, <2>1, <3>1, <3>2
  <2> QED
    BY <2>1 DEF Newer
<1>6. HeldAfterBatch'
  <2>1. ASSUME NEW a \in HeldIn(held)', a \in HeldIn(batch)
        PROVE  position'[held'[a].writer] > position'[batch[a].writer]
    <3>1. /\ position'[batch[a].writer] = position[batch[a].writer]
          /\ batch[a].writer \in Calls
      BY <1>0, <2>1, NewerStays, EntryFacts DEF TypeOK
    <3>2. position[batch[a].writer] \in Nat /\ position[batch[a].writer] <= asked
      BY <1>0, <3>1 DEF Positioned
    <3>3. CASE held'[a].writer = c
      BY <1>0, <3>1, <3>2, <3>3, AskFacts
    <3>4. CASE a \in HeldIn(held) /\ held'[a] = held[a]
      <4>1. position'[held[a].writer] = position[held[a].writer]
        BY <3>4, NewerStays
      <4>2. position[held[a].writer] > position[batch[a].writer]
        BY <2>1, <3>4 DEF OrderInv, HeldAfterBatch
      <4> QED
        BY <3>1, <3>4, <4>1, <4>2
    <3> QED
      BY <1>4, <2>1, <3>3, <3>4
  <2> QED
    BY <1>3, <2>1 DEF HeldAfterBatch
<1>7. /\ \A d \in Calls : running # DirectJob(d) /\ \A i \in DOMAIN queue : queue[i] # DirectJob(d)
      /\ \A d \in Calls : \A i \in DOMAIN queue' : queue'[i] # DirectJob(d)
  <2>1. \A d \in Calls : /\ running # DirectJob(d)
                         /\ \A i \in DOMAIN queue : queue[i] # DirectJob(d)
    BY DEF OrderInv, OneMode
  <2>2. DOMAIN queue' \subseteq Nat
    BY DEF TypeOK
  <2> QED
    BY <2>1, <2>2 DEF SamePlaces
<1>8. OneMode' /\ LineOrdered' /\ FirstInLine'
  BY <1>7 DEF OneMode, LineOrdered, FirstInLine, DirectJob
<1>9. Covered'
  <2>1. WaitersIn(held)' = WaitersIn(held) \cup ({c} \X DOMAIN g)
    BY <1>0, HoldSlots
  <2>2. WaitersIn(batch)' = WaitersIn(batch)
    BY <1>3 DEF WaitersIn
  <2>3. ASSUME NEW d \in Calls, status'[d] = "waiting", NEW i \in DOMAIN group'[d]
        PROVE  \/ <<d, i>> \in WaitersIn(held)' \cup WaitersIn(batch)'
               \/ Age(device[group[d][i]])' >= position'[d]
    <3>1. CASE d = c
      <4>1. group'[c] = g
        BY <1>0 DEF Asks, TypeOK
      <4> QED
        BY <2>1, <2>3, <3>1, <4>1
    <3>2. CASE d # c
      <4>1. status[d] = "waiting" /\ group'[d] = group[d] /\ position'[d] = position[d]
        BY <2>3, <3>2, AskFacts
      <4>2. ~InLine(d)
        BY <1>7 DEF InLine
      <4>3. \/ <<d, i>> \in WaitersIn(held) \cup WaitersIn(batch)
            \/ Age(device[group[d][i]]) >= position[d]
        BY <2>3, <4>1, <4>2 DEF OrderInv, Covered
      <4>4. group[d][i] \in Addresses
        BY <1>0, <2>3, <4>1, GroupAddresses
      <4>5. Age(device[group[d][i]])' = Age(device[group[d][i]])
        <5>1. PICK a \in Addresses : a = group[d][i] /\ a = group'[d][i]
          BY <4>1, <4>4
        <5>2. Age(device[a])' = Age(device[a])
          BY <1>2
        <5> QED
          BY <5>1, <5>2 DEF Age, Ordered!Age
      <4> QED
        BY <2>1, <2>2, <4>1, <4>3, <4>5
    <3> QED
      BY <3>1, <3>2
  <2> QED
    BY <2>3 DEF Covered
<1> QED
  BY <1>3, <1>5, <1>6, <1>8, <1>9, AskFacts DEF OrderInv

\* issueDirectly: the new call stands in line behind all that came before it.
LEMMA DirectArrivalOrder ==
    ASSUME AccountInv, TypeOK', OrderInv, Window = 0,
           NEW c \in Calls, NEW g \in Groups, Asks(c, g),
           queue' = Append(queue, DirectJob(c)), UNCHANGED <<held, batch, running>>
    PROVE  OrderInv'
<1>0. TypeOK /\ Positioned /\ asked \in Nat /\ Accounts
  BY DEF AccountInv, OrderInv, Positioned
<1>1. held = Nothing /\ HeldIn(held)' = {} /\ HeldIn(batch)' = HeldIn(batch)
  BY NothingType DEF OrderInv, OneMode, HeldIn
<1>2. /\ DOMAIN queue = 1..Len(queue) /\ Len(queue) \in Nat
      /\ DOMAIN queue' = 1..(Len(queue) + 1)
      /\ \A i \in DOMAIN queue : queue'[i] = queue[i]
      /\ queue'[Len(queue) + 1] = DirectJob(c)
  BY <1>0, JobTypes DEF TypeOK
<1>3. \A d, e \in Calls : DirectJob(d) = DirectJob(e) => d = e
  BY DEF DirectJob
<1>4. /\ \A d \in Calls : running = DirectJob(d) => d # c
      /\ \A d \in Calls : \A i \in DOMAIN queue : queue[i] = DirectJob(d) => d # c
  BY <1>0 DEF Accounts, DirectAlone, Asks
<1>5. ASSUME NEW a \in HeldIn(batch)
      PROVE  /\ a \in Addresses /\ a \in Carries(batch[a].writer)'
             /\ position'[batch[a].writer] = position[batch[a].writer]
             /\ position'[batch[a].writer] > Age(device[a])'
             /\ \A s \in batch[a].waiters : position'[s[1]] <= position'[batch[a].writer]
             /\ position[batch[a].writer] \in Nat /\ position[batch[a].writer] <= asked
  <2>1. a \in Addresses /\ batch[a].writer \in Calls
    BY <1>0, EntryFacts DEF TypeOK
  <2> QED
    BY <1>0, <2>1, NewerStays DEF Positioned
<1>6. Newer(held)' /\ HeldAfterBatch'
  BY <1>1 DEF Newer, HeldAfterBatch
<1>7. Newer(batch)'
  BY <1>1, <1>5 DEF Newer, Carries, Ordered!AddressesOf
<1>8. OneMode'
  BY <1>1 DEF OneMode, Nothing
<1>9. \A a \in Addresses :
         /\ Age(device[a])' = Age(device[a])
         /\ Age(device[a]) \in Nat /\ Age(device[a]) <= asked
  BY <1>0, AskFacts, AgeFacts
<1>10. /\ position'[c] = asked + 1
       /\ \A d \in Calls \ {c} : position'[d] = position[d]
       /\ \A d \in Calls : position[d] \in Nat /\ position[d] <= asked
  BY <1>0, AskFacts DEF Positioned
<1>11. LineOrdered'
  <2> SUFFICES ASSUME NEW d \in Calls, NEW i \in DOMAIN queue', queue'[i] = DirectJob(d)
               PROVE  /\ \A a \in Addresses : position'[d] > Age(device[a])'
                      /\ \A a \in HeldIn(batch) : position'[d] > position'[batch[a].writer]
                      /\ \A e \in Calls : running = DirectJob(e) => position'[d] > position'[e]
                      /\ \A e \in Calls : \A j \in DOMAIN queue' :
                            j > i /\ queue'[j] = DirectJob(e) => position'[e] > position'[d]
    BY <1>1 DEF LineOrdered, DirectJob
  <2>1. CASE i = Len(queue) + 1
    <3>1. d = c
      BY <1>2, <1>3, <2>1
    <3> QED
      BY <1>0, <1>2, <1>4, <1>5, <1>9, <1>10, <2>1, <3>1
  <2>2. CASE i \in DOMAIN queue
    <3>1. queue[i] = DirectJob(d) /\ d # c
      BY <1>2, <1>4, <2>2
    <3>2. /\ \A a \in Addresses : position[d] > Age(device[a])
          /\ \A a \in HeldIn(batch) : position[d] > position[batch[a].writer]
          /\ \A e \in Calls : running = DirectJob(e) => position[d] > position[e]
          /\ \A e \in Calls : \A j \in DOMAIN queue :
                j > i /\ queue[j] = DirectJob(e) => position[e] > position[d]
      BY <2>2, <3>1 DEF OrderInv, LineOrdered
    <3>3. ASSUME NEW e \in Calls, NEW j \in DOMAIN queue', j > i, queue'[j] = DirectJob(e)
          PROVE  position'[e] > position'[d]
      <4>1. CASE j = Len(queue) + 1
        <5>1. e = c
          BY <1>2, <1>3, <3>3, <4>1
        <5> QED
          BY <1>0, <1>10, <3>1, <5>1
      <4>2. CASE j \in DOMAIN queue
        BY <1>2, <1>4, <1>10, <3>1, <3>2, <3>3, <4>2
      <4> QED
        BY <1>2, <3>3, <4>1, <4>2
    <3> QED
      BY <1>4, <1>5, <1>9, <1>10, <3>1, <3>2, <3>3
  <2> QED
    BY <1>2, <2>1, <2>2
<1>12. FirstInLine'
  <2>1. \A d \in Calls : running = DirectJob(d) /\ batch = Nothing =>
           \A a \in Addresses : position'[d] > Age(device[a])'
    BY <1>4, <1>9, <1>10 DEF OrderInv, FirstInLine
  <2> QED
    BY <2>1 DEF FirstInLine, DirectJob, Nothing
<1>13. Covered'
  <2> SUFFICES ASSUME NEW d \in Calls, status'[d] = "waiting", NEW i \in DOMAIN group'[d]
               PROVE  \/ <<d, i>> \in WaitersIn(held) \cup WaitersIn(batch)
                      \/ InLine(d)'
                      \/ Age(device[group[d][i]])' >= position'[d]
    BY DEF Covered, WaitersIn, HeldIn
  <2>1. CASE d = c
    BY <1>2, <2>1 DEF InLine, DirectJob
  <2>2. CASE d # c
    <3>1. status[d] = "waiting" /\ group'[d] = group[d] /\ position'[d] = position[d]
      BY <2>2, AskFacts
    <3>2. InLine(d) => InLine(d)'
      BY <1>2 DEF InLine, DirectJob, Nothing
    <3>3. \/ <<d, i>> \in WaitersIn(held) \cup WaitersIn(batch) \/ InLine(d)
          \/ Age(device[group[d][i]]) >= position[d]
      BY <3>1 DEF OrderInv, Covered
    <3>4. PICK a \in Addresses : a = group[d][i] /\ a = group'[d][i]
      BY <1>0, <3>1, GroupAddresses
    <3>5. Age(device[a])' = Age(device[a])
      BY <1>9
    <3> QED
      BY <3>1, <3>2, <3>3, <3>4, <3>5 DEF Age, Ordered!Age
  <2> QED
    BY <2>1, <2>2
<1> QED
  BY <1>6, <1>7, <1>8, <1>11, <1>12, <1>13, AskFacts DEF OrderInv

\* A flush takes entries out of the batch: there is nobody in line to overtake.
LEMMA TakeOrder ==
    ASSUME AccountInv, TypeOK', OrderInv, SamePlaces, batch = Nothing, InScope(running),
           NEW taken, taken \subseteq Addresses,
           held' = [a \in Addresses |-> IF a \in taken THEN NoEntry ELSE held[a]],
           batch' = [a \in Addresses |-> IF a \in taken THEN held[a] ELSE NoEntry],
           running' = running \/ running' = NoJob,
           UNCHANGED <<status, group, device, asked, position>>
    PROVE  OrderInv'
<1>0. TypeOK
  BY DEF AccountInv
<1>1. \A c : Age(c)' = Age(c) /\ Carries(c)' = Carries(c)
  BY DEF Age, Carries, Ordered!Age, Ordered!AddressesOf
<1>2. /\ HeldIn(held)' = HeldIn(held) \ taken
      /\ HeldIn(batch)' = HeldIn(held) \cap taken
      /\ \A a \in HeldIn(held)' : held'[a] = held[a]
      /\ \A a \in HeldIn(batch)' : batch'[a] = held[a]
  BY DEF HeldIn
<1>3. Newer(held)' /\ Newer(batch)' /\ HeldAfterBatch'
  BY <1>1, <1>2 DEF OrderInv, Newer, HeldAfterBatch
<1>4. WaitersIn(held) \subseteq WaitersIn(held)' \cup WaitersIn(batch)' /\ WaitersIn(batch) = {}
  <2>1. ASSUME NEW a \in HeldIn(held), NEW s \in held[a].waiters
        PROVE  s \in WaitersIn(held)' \cup WaitersIn(batch)'
    <3>1. CASE a \in taken
      BY <1>2, <3>1 DEF WaitersIn
    <3>2. CASE a \notin taken
      BY <1>2, <3>2 DEF WaitersIn
    <3> QED
      BY <3>1, <3>2
  <2> QED
    BY <2>1, NothingType DEF WaitersIn
<1>5. \A c \in Calls : /\ running # DirectJob(c) /\ running' # DirectJob(c)
                       /\ DirectJob(c)' = DirectJob(c)
  BY DEF InScope, DirectJob, NoJob, Job
<1>6. \A c \in Calls : /\ \A i \in DOMAIN queue' : queue'[i] = DirectJob(c) =>
                             i \in DOMAIN queue /\ queue[i] = DirectJob(c)
                       /\ \A i \in DOMAIN queue : queue[i] = DirectJob(c) =>
                             i \in DOMAIN queue' /\ queue'[i] = DirectJob(c)
  <2>1. DOMAIN queue \subseteq Nat /\ DOMAIN queue' \subseteq Nat
    BY <1>0 DEF TypeOK
  <2> QED
    BY <2>1 DEF SamePlaces
<1>7. held = Nothing => held' = Nothing /\ HeldIn(batch)' = {}
  BY <1>2, NothingType DEF Nothing
<1>8. OneMode'
  BY <1>5, <1>6, <1>7 DEF OrderInv, OneMode, Nothing
<1>9. LineOrdered'
  <2> SUFFICES ASSUME NEW c \in Calls, NEW i \in DOMAIN queue', queue'[i] = DirectJob(c)
               PROVE  /\ \A a \in Addresses : position[c] > Age(device[a])
                      /\ HeldIn(batch)' = {}
                      /\ \A d \in Calls : \A j \in DOMAIN queue' :
                            j > i /\ queue'[j] = DirectJob(d) => position[d] > position[c]
    BY <1>1, <1>5 DEF LineOrdered
  <2>1. i \in DOMAIN queue /\ queue[i] = DirectJob(c)
    BY <1>6
  <2>2. held = Nothing
    BY <2>1 DEF OrderInv, OneMode
  <2> QED
    BY <1>6, <1>7, <2>1, <2>2 DEF OrderInv, LineOrdered
<1>10. FirstInLine'
  BY <1>5 DEF FirstInLine
<1>11. Covered'
  BY <1>1, <1>4, <1>5, <1>6 DEF OrderInv, Covered, InLine
<1> QED
  BY <1>3, <1>8, <1>9, <1>10, <1>11 DEF OrderInv, Positioned

\* A caller at the head of the line sends its group, and is older than those behind it.
LEMMA TakeDirectOrder ==
    ASSUME AccountInv, TypeOK', OrderInv, TakeDirect, UNCHANGED <<asked, position>>
    PROVE  OrderInv'
<1>0. TypeOK /\ Positioned
  BY DEF AccountInv, OrderInv
<1>1. PICK c \in Calls : running = DirectJob(c) /\ running.call = c
  BY <1>0 DEF TakeDirect, TypeOK, Jobs, DirectJob
<1>g. PICK g : g = group[c]
  OBVIOUS
<1>2. /\ UNCHANGED <<held, queue, running, status, group, device>> /\ batch = Nothing
      /\ g \in Groups \cup {<<>>}
  BY <1>0, <1>g DEF TakeDirect, TypeOK
<1>3. \A d : Age(d)' = Age(d) /\ Carries(d)' = Carries(d) /\ DirectJob(d)' = DirectJob(d)
  BY <1>2 DEF Age, Carries, Ordered!Age, Ordered!AddressesOf, DirectJob
<1>4. ASSUME NEW a \in Addresses
      PROVE  batch'[a] = IF \E i \in DOMAIN g : g[i] = a
                         THEN [writer |-> c, bypass |-> forced[c], age |-> 0,
                               waiters |-> SlotsAt(c, g, a)]
                         ELSE NoEntry
  BY <1>1, <1>g DEF TakeDirect, supersede
<1>5. ASSUME NEW a \in HeldIn(batch)'
      PROVE  /\ a \in Addresses /\ batch'[a].writer = c /\ a \in Carries(c)
             /\ batch'[a].waiters = SlotsAt(c, g, a)
  <2>1. a \in Addresses /\ batch'[a] # NoEntry
    BY DEF HeldIn
  <2>2. PICK i \in DOMAIN g : g[i] = a
    BY <1>4, <2>1
  <2>3. batch'[a] = [writer |-> c, bypass |-> forced[c], age |-> 0,
                     waiters |-> SlotsAt(c, g, a)]
    BY <1>4, <2>1, <2>2
  <2> QED
    BY <1>g, <2>1, <2>2, <2>3 DEF Carries, Ordered!AddressesOf
<1>6. ASSUME NEW i \in DOMAIN g
      PROVE  <<c, i>> \in WaitersIn(batch)'
  <2>1. g[i] \in Addresses
    BY <1>2, RequestAssumption
  <2>2. batch'[g[i]] = [writer |-> c, bypass |-> forced[c], age |-> 0,
                        waiters |-> SlotsAt(c, g, g[i])]
    BY <1>4, <2>1
  <2>3. batch'[g[i]] \in Entry
    <3>1. SlotsAt(c, g, g[i]) \in SUBSET Slots /\ forced[c] \in BOOLEAN
      BY <1>0, <1>2, SlotsAtType DEF TypeOK
    <3> QED
      BY <2>2, <3>1, TimingAssumption DEF Entry
  <2>4. <<c, i>> \in batch'[g[i]].waiters
    BY <2>2 DEF SlotsAt
  <2> QED
    BY <2>1, <2>3, <2>4, NoEntryAssumption DEF WaitersIn, HeldIn
<1>7. \A a \in Addresses : position[c] > Age(device[a])
  BY <1>1, <1>2 DEF OrderInv, FirstInLine
<1>8. held = Nothing /\ HeldIn(held) = {} /\ HeldIn(held)' = {} /\ Window = 0
  BY <1>1, <1>2, NothingType DEF OrderInv, OneMode, HeldIn
<1>9. position[c] \in Nat
  BY <1>0 DEF Positioned
<1>10. Newer(batch)'
  <2>1. \A a \in HeldIn(batch)' : \A s \in batch'[a].waiters : s[1] = c
    BY <1>5 DEF SlotsAt
  <2> QED
    BY <1>2, <1>3, <1>5, <1>7, <1>9, <2>1 DEF Newer
<1>11. Newer(held)' /\ HeldAfterBatch' /\ OneMode' /\ Positioned'
  BY <1>0, <1>2, <1>8 DEF Newer, HeldAfterBatch, OneMode, Positioned, Nothing
<1>12. FirstInLine'
  BY <1>1, <1>2, <1>3, <1>7 DEF FirstInLine, DirectJob
<1>13. LineOrdered'
  <2> SUFFICES ASSUME NEW d \in Calls, NEW i \in DOMAIN queue, queue[i] = DirectJob(d)
               PROVE  /\ \A a \in Addresses : position[d] > Age(device[a])
                      /\ \A a \in HeldIn(batch)' : position[d] > position[batch'[a].writer]
                      /\ \A e \in Calls : running = DirectJob(e) => position[d] > position[e]
                      /\ \A e \in Calls : \A j \in DOMAIN queue :
                            j > i /\ queue[j] = DirectJob(e) => position[e] > position[d]
    BY <1>2, <1>3 DEF LineOrdered
  <2> QED
    BY <1>1, <1>5 DEF OrderInv, LineOrdered
<1>14. Covered'
  <2> SUFFICES ASSUME NEW d \in Calls, status[d] = "waiting", NEW i \in DOMAIN group[d]
               PROVE  \/ <<d, i>> \in WaitersIn(held)' \cup WaitersIn(batch)'
                      \/ InLine(d)' \/ Age(device[group[d][i]]) >= position[d]
    BY <1>2, <1>3 DEF Covered
  <2>1. CASE d = c
    BY <1>g, <1>6, <2>1
  <2>2. CASE d # c
    <3>1. <<d, i>> \notin WaitersIn(held) \cup WaitersIn(batch)
      BY <1>2, <1>8, NothingType DEF WaitersIn
    <3>2. running # DirectJob(d)
      BY <1>1, <2>2 DEF DirectJob
    <3> QED
      BY <1>2, <1>3, <3>1, <3>2 DEF OrderInv, Covered, InLine
  <2> QED
    BY <2>1, <2>2
<1> QED
  BY <1>10, <1>11, <1>12, <1>13, <1>14 DEF OrderInv

\* The head of the line gets the lock: all it waited for has been settled.
LEMMA GrantOrder ==
    ASSUME AccountInv, TypeOK', OrderInv, GrantFlushLock, UNCHANGED <<asked, position>>
    PROVE  OrderInv'
<1>0. TypeOK /\ LockIsFree /\ Positioned
  BY DEF AccountInv, OrderInv
<1>1. /\ running = NoJob /\ batch = Nothing /\ queue # <<>> /\ queue' = Tail(queue)
      /\ running' = IF Head(queue).kind = "dead" THEN NoJob ELSE Head(queue)
      /\ UNCHANGED <<held, batch, status, group, device>>
  BY <1>0 DEF GrantFlushLock, LockIsFree, calls
<1>2. /\ WaitersIn(held)' = WaitersIn(held) /\ HeldIn(held)' = HeldIn(held)
      /\ WaitersIn(batch)' = {} /\ WaitersIn(batch) = {}
      /\ HeldIn(batch)' = {} /\ HeldIn(batch) = {}
  BY <1>1, NothingType DEF WaitersIn, HeldIn, Nothing
<1>3. \A d : Age(d)' = Age(d) /\ Carries(d)' = Carries(d) /\ DirectJob(d)' = DirectJob(d)
  BY <1>1 DEF Age, Carries, Ordered!Age, Ordered!AddressesOf, DirectJob
<1>4. /\ 1 \in DOMAIN queue /\ Head(queue) = queue[1]
      /\ DOMAIN queue' = 1..(Len(queue) - 1) /\ Len(queue) \in Nat
      /\ DOMAIN queue = 1..Len(queue)
      /\ \A i \in DOMAIN queue' : i + 1 \in DOMAIN queue /\ queue'[i] = queue[i + 1]
  BY <1>0, <1>1 DEF TypeOK
<1>5. /\ \A c \in Calls : running' = DirectJob(c) => queue[1] = DirectJob(c)
      /\ \A c \in Calls : queue[1] = DirectJob(c) => running' = DirectJob(c)
      /\ \A c \in Calls : running # DirectJob(c)
  BY <1>1, <1>4 DEF NoJob, Job, DirectJob
<1>6. Newer(held)' /\ Newer(batch)' /\ HeldAfterBatch' /\ Positioned'
  BY <1>1, <1>2, <1>3 DEF OrderInv, Newer, HeldAfterBatch, Positioned
<1>7. OneMode'
  BY <1>1, <1>4, <1>5, <1>3 DEF OrderInv, OneMode, Nothing
<1>8. FirstInLine'
  BY <1>1, <1>3, <1>4, <1>5 DEF OrderInv, FirstInLine, LineOrdered
<1>9. LineOrdered'
  <2> SUFFICES ASSUME NEW c \in Calls, NEW i \in DOMAIN queue', queue'[i] = DirectJob(c)
               PROVE  /\ \A a \in Addresses : position[c] > Age(device[a])
                      /\ \A d \in Calls : running' = DirectJob(d) => position[c] > position[d]
                      /\ \A d \in Calls : \A j \in DOMAIN queue' :
                            j > i /\ queue'[j] = DirectJob(d) => position[d] > position[c]
    BY <1>1, <1>2, <1>3 DEF LineOrdered
  <2>1. i + 1 \in DOMAIN queue /\ queue[i + 1] = DirectJob(c) /\ i \in Nat \ {0}
    BY <1>4
  <2>2. \A a \in Addresses : position[c] > Age(device[a])
    BY <2>1 DEF OrderInv, LineOrdered
  <2>3. ASSUME NEW d \in Calls, running' = DirectJob(d)
        PROVE  position[c] > position[d]
    <3>1. queue[1] = DirectJob(d) /\ i + 1 > 1
      BY <1>5, <2>1, <2>3
    <3> QED
      BY <1>4, <2>1, <3>1 DEF OrderInv, LineOrdered
  <2>4. ASSUME NEW d \in Calls, NEW j \in DOMAIN queue', j > i, queue'[j] = DirectJob(d)
        PROVE  position[d] > position[c]
    <3>1. j + 1 \in DOMAIN queue /\ queue[j + 1] = DirectJob(d) /\ j + 1 > i + 1
      BY <1>4, <2>1, <2>4
    <3> QED
      BY <2>1, <3>1 DEF OrderInv, LineOrdered
  <2> QED
    BY <2>2, <2>3, <2>4
<1>10. Covered'
  <2> SUFFICES ASSUME NEW c \in Calls, InLine(c)
               PROVE  InLine(c)'
    BY <1>1, <1>2, <1>3 DEF OrderInv, Covered
  <2>1. PICK i \in DOMAIN queue : queue[i] = DirectJob(c)
    BY <1>5 DEF InLine
  <2>2. CASE i = 1
    BY <1>1, <1>3, <1>5, <2>1, <2>2 DEF InLine, Nothing
  <2>3. CASE i # 1
    <3>1. i - 1 \in DOMAIN queue' /\ queue'[i - 1] = DirectJob(c)
      <4>1. i - 1 \in DOMAIN queue' /\ (i - 1) + 1 = i
        BY <1>4, <2>1, <2>3
      <4> QED
        BY <1>4, <2>1, <4>1
    <3> QED
      BY <1>3, <3>1 DEF InLine
  <2> QED
    BY <2>2, <2>3
<1> QED
  BY <1>6, <1>7, <1>8, <1>9, <1>10 DEF OrderInv

\* The end of a flush: what reached the device is newer than what was there.
Arrived(reached) ==
    /\ reached \subseteq HeldIn(batch)
    /\ device' = [a \in Addresses |-> IF a \in reached THEN batch[a].writer ELSE device[a]]
    /\ UNCHANGED <<group, asked, position>>

LEMMA ArrivedFacts ==
    ASSUME TypeOK, OrderInv, NEW reached, Arrived(reached)
    PROVE  /\ \A d : Age(d)' = Age(d) /\ Carries(d)' = Carries(d) /\ DirectJob(d)' = DirectJob(d)
           /\ \A a \in Addresses : /\ device'[a] # device[a] => a \in reached
                                   /\ Age(device'[a]) \in Nat
                                   /\ Age(device'[a]) >= Age(device[a])
           /\ \A a \in reached : /\ a \in Addresses /\ device'[a] = batch[a].writer
                                 /\ device'[a] \in Calls /\ a \in Carries(device'[a])
                                 /\ Age(device'[a]) = position[batch[a].writer]
                                 /\ Age(device'[a]) > Age(device[a])
           /\ Positioned /\ batch \in Batches /\ held \in Batches
<1>0. Positioned /\ batch \in Batches /\ held \in Batches
  BY DEF TypeOK, OrderInv
<1>1. \A d : Age(d)' = Age(d) /\ Carries(d)' = Carries(d) /\ DirectJob(d)' = DirectJob(d)
  BY DEF Arrived, Age, Carries, Ordered!Age, Ordered!AddressesOf, DirectJob
<1>2. ASSUME NEW a \in reached
      PROVE  /\ a \in Addresses /\ device'[a] = batch[a].writer
             /\ device'[a] \in Calls /\ a \in Carries(device'[a])
             /\ Age(device'[a]) = position[batch[a].writer]
             /\ Age(device'[a]) \in Nat
             /\ Age(device'[a]) > Age(device[a])
  <2>1. a \in HeldIn(batch) /\ a \in Addresses /\ batch[a].writer \in Calls
    BY <1>0, EntryFacts DEF Arrived
  <2>2. device'[a] = batch[a].writer
    BY <2>1 DEF Arrived
  <2>3. Age(device'[a]) = position[batch[a].writer] /\ position[batch[a].writer] \in Nat
    BY <1>0, <2>1, <2>2, AgeFacts
  <2> QED
    BY <2>1, <2>2, <2>3 DEF OrderInv, Newer
<1>3. ASSUME NEW a \in Addresses \ reached
      PROVE  /\ device'[a] = device[a] /\ Age(device'[a]) \in Nat
             /\ Age(device'[a]) >= Age(device[a])
  <2>1. device'[a] = device[a]
    BY DEF Arrived
  <2>2. Age(device[a]) \in Nat
    BY <1>0, AgeFacts
  <2> QED
    BY <2>1, <2>2
<1>4. \A a \in Addresses : Age(device[a]) \in Nat
  BY <1>0, AgeFacts
<1>5. ASSUME NEW a \in Addresses
      PROVE  /\ device'[a] # device[a] => a \in reached
             /\ Age(device'[a]) \in Nat /\ Age(device'[a]) >= Age(device[a])
  BY <1>2, <1>3, <1>4
<1> QED
  BY <1>0, <1>1, <1>2, <1>5

\* A caller that a flush did not fail still has each of its values on its way, or the
\* register has reached it.
LEMMA SettleCovers ==
    ASSUME AccountInv, TypeOK', OrderInv, SamePlaces, batch # Nothing,
           NEW success \in BOOLEAN, Settle(success),
           NEW reached, Arrived(reached), success => reached = HeldIn(batch),
           WaitersIn(held)' = {s \in WaitersIn(held) : success \/ s[1] \notin BatchCalls},
           NEW c \in Calls, status[c] = "waiting", status'[c] # "failed",
           NEW i \in DOMAIN group[c]
    PROVE  \/ <<c, i>> \in WaitersIn(held)'
           \/ \E j \in DOMAIN queue' : queue'[j] = DirectJob(c)
           \/ Age(device'[group[c][i]]) >= position[c]
<1>0. TypeOK /\ Accounts
  BY DEF AccountInv
<1>1. ~success => c \notin BatchCalls
  BY DEF Settle
<1>2. CASE <<c, i>> \in WaitersIn(held)
  BY <1>1, <1>2
<1>3. CASE <<c, i>> \in WaitersIn(batch)
  <2>1. PICK a \in HeldIn(batch) : <<c, i>> \in batch[a].waiters
    BY <1>3 DEF WaitersIn
  <2>2. group[c][i] = a
    BY <1>0, <2>1 DEF Accounts, EntriesMatch
  <2>3. c \in BatchCalls
    BY <1>3 DEF BatchCalls
  <2>4. a \in reached
    BY <1>1, <2>1, <2>3
  <2>5. position[c] <= position[batch[a].writer]
    BY <2>1 DEF OrderInv, Newer
  <2>6. Age(device'[a]) = position[batch[a].writer] /\ Age(device'[a]) \in Nat
    BY <1>0, <2>4, ArrivedFacts
  <2>7. position[c] \in Nat
    BY DEF OrderInv, Positioned
  <2> QED
    BY <2>2, <2>5, <2>6, <2>7
<1>4. CASE InLine(c)
  <2>1. PICK j \in DOMAIN queue : queue[j] = DirectJob(c)
    BY <1>4 DEF InLine
  <2>2. j \in Nat
    BY <1>0, QueueIndices
  <2> QED
    BY <2>1, <2>2 DEF SamePlaces
<1>5. CASE Age(device[group[c][i]]) >= position[c]
  <2>1. PICK a \in Addresses : a = group[c][i]
    BY <1>0, GroupAddresses
  <2>2. /\ Age(device'[a]) \in Nat /\ Age(device'[a]) >= Age(device[a])
        /\ Age(device[a]) \in Nat /\ position[c] \in Nat
    BY <1>0, ArrivedFacts, AgeFacts DEF Positioned
  <2> QED
    BY <1>5, <2>1, <2>2
<1> QED
  BY <1>2, <1>3, <1>4, <1>5 DEF OrderInv, Covered

LEMMA SettleOrder ==
    ASSUME AccountInv, TypeOK', OrderInv, SamePlaces, batch # Nothing,
           NEW success \in BOOLEAN, Settle(success),
           NEW reached, Arrived(reached), success => reached = HeldIn(batch),
           WaitersIn(held)' = {s \in WaitersIn(held) : success \/ s[1] \notin BatchCalls},
           HeldIn(held)' \subseteq HeldIn(held),
           \A a \in HeldIn(held)' : /\ held'[a].writer = held[a].writer
                                    /\ held'[a].waiters \subseteq held[a].waiters
    PROVE  OrderInv'
<1>0. TypeOK /\ Positioned /\ batch \in Batches /\ held \in Batches
  BY DEF AccountInv, OrderInv, TypeOK
<1>1. /\ WaitersIn(batch)' = {} /\ HeldIn(batch)' = {}
      /\ batch' = Nothing /\ running' = NoJob
      /\ UNCHANGED <<group, asked, position>>
  BY NothingType DEF Settle, WaitersIn, HeldIn, Nothing, Arrived
<1>2. \A d : Age(d)' = Age(d) /\ Carries(d)' = Carries(d) /\ DirectJob(d)' = DirectJob(d)
  BY <1>0, ArrivedFacts
<1>3. \A a \in Addresses : Age(device[a])' = Age(device'[a])
  BY <1>1 DEF Age, Ordered!Age
<1>4. \A c \in Calls : /\ status'[c] \in {"idle", "waiting"} => status'[c] = status[c]
  BY DEF Settle
<1>5. Positioned'
  <2>1. ASSUME NEW a \in Addresses, device'[a] # NoCall
        PROVE  position[device'[a]] > 0
    <3>1. CASE a \in reached
      <4>1. device'[a] = batch[a].writer /\ a \in HeldIn(batch)
        BY <1>0, <3>1, ArrivedFacts DEF Arrived
      <4> QED
        BY <1>0, <4>1, WritersAsked DEF OrderInv
    <3>2. CASE a \notin reached
      BY <1>0, <2>1, <3>2 DEF Arrived, Positioned
    <3> QED
      BY <3>1, <3>2
  <2> QED
    BY <1>0, <1>1, <1>4, <2>1 DEF Positioned
<1>6. Newer(held)'
  <2>1. ASSUME NEW a \in HeldIn(held)'
        PROVE  /\ a \in Carries(held[a].writer)
               /\ position[held[a].writer] > Age(device'[a])
               /\ \A s \in held[a].waiters : position[s[1]] <= position[held[a].writer]
               /\ a \in Addresses
    <3>1. a \in HeldIn(held) /\ a \in Addresses
      BY DEF HeldIn
    <3>2. /\ a \in Carries(held[a].writer) /\ position[held[a].writer] > Age(device[a])
          /\ \A s \in held[a].waiters : position[s[1]] <= position[held[a].writer]
      BY <3>1 DEF OrderInv, Newer
    <3>3. CASE a \in reached
      <4>1. a \in HeldIn(batch) /\ Age(device'[a]) = position[batch[a].writer]
        BY <1>0, <3>3, ArrivedFacts DEF Arrived
      <4> QED
        BY <3>1, <3>2, <4>1 DEF OrderInv, HeldAfterBatch
    <3>4. CASE a \notin reached
      <4>1. device'[a] = device[a]
        BY <1>0, <3>1, <3>4, ArrivedFacts
      <4> QED
        BY <3>1, <3>2, <4>1
    <3> QED
      BY <3>3, <3>4
  <2> QED
    BY <1>1, <1>2, <1>3, <2>1 DEF Newer
<1>7. Newer(batch)' /\ HeldAfterBatch'
  BY <1>1 DEF Newer, HeldAfterBatch
<1>8. \A c \in Calls : /\ running' # DirectJob(c)
                       /\ \A i \in DOMAIN queue' : queue'[i] = DirectJob(c) =>
                             i \in DOMAIN queue /\ queue[i] = DirectJob(c)
  <2>1. DOMAIN queue' \subseteq Nat
    BY DEF TypeOK
  <2> QED
    BY <1>1, <2>1 DEF SamePlaces, NoJob, Job, DirectJob
<1>9. OneMode'
  <2>1. held = Nothing => held' = Nothing
    <3>1. held' \in Batches /\ HeldIn(held)' = HeldIn(held')
      BY DEF TypeOK, HeldIn
    <3> QED
      BY <1>0, <3>1, NothingHeld
  <2> QED
    BY <1>2, <1>8, <2>1 DEF OrderInv, OneMode, Nothing
<1>10. LineOrdered'
  <2> SUFFICES ASSUME NEW c \in Calls, NEW i \in DOMAIN queue', queue'[i] = DirectJob(c)
               PROVE  /\ \A a \in Addresses : position[c] > Age(device'[a])
                      /\ \A d \in Calls : \A j \in DOMAIN queue' :
                            j > i /\ queue'[j] = DirectJob(d) => position[d] > position[c]
    BY <1>1, <1>2, <1>3, <1>8 DEF LineOrdered
  <2>1. /\ i \in DOMAIN queue /\ queue[i] = DirectJob(c)
        /\ \A a \in Addresses : position[c] > Age(device[a])
        /\ \A a \in HeldIn(batch) : position[c] > position[batch[a].writer]
        /\ \A d \in Calls : \A j \in DOMAIN queue :
              j > i /\ queue[j] = DirectJob(d) => position[d] > position[c]
    BY <1>8 DEF OrderInv, LineOrdered
  <2>2. ASSUME NEW a \in Addresses PROVE position[c] > Age(device'[a])
    <3>1. CASE a \in reached
      <4>1. a \in HeldIn(batch) /\ Age(device'[a]) = position[batch[a].writer]
        BY <1>0, <3>1, ArrivedFacts DEF Arrived
      <4> QED
        BY <2>1, <4>1
    <3>2. CASE a \notin reached
      <4>1. device'[a] = device[a]
        BY <1>0, <3>2, ArrivedFacts
      <4> QED
        BY <2>1, <4>1
    <3> QED
      BY <3>1, <3>2
  <2> QED
    BY <1>8, <2>1, <2>2
<1>11. FirstInLine'
  BY <1>2, <1>8 DEF FirstInLine
<1>12. Covered'
  <2> SUFFICES ASSUME NEW c \in Calls, status'[c] = "waiting", NEW i \in DOMAIN group[c]
               PROVE  \/ <<c, i>> \in WaitersIn(held)'
                      \/ \E j \in DOMAIN queue' : queue'[j] = DirectJob(c)
                      \/ Age(device[group[c][i]])' >= position[c]
    BY <1>1, <1>2 DEF Covered, InLine
  <2>1. status[c] = "waiting"
    BY <1>4
  <2>2. Age(device[group[c][i]])' = Age(device'[group[c][i]])
    BY <1>1 DEF Age, Ordered!Age
  <2> QED
    BY <2>1, <2>2, SettleCovers
<1> QED
  BY <1>5, <1>6, <1>7, <1>9, <1>10, <1>11, <1>12 DEF OrderInv

LEMMA OrderStart == OrderInit => OrderInv
<1> SUFFICES ASSUME OrderInit PROVE OrderInv
  OBVIOUS
<1>1. /\ held = Nothing /\ batch = Nothing /\ running = NoJob /\ DOMAIN queue = {}
      /\ asked = 0 /\ position = [c \in Calls |-> 0]
      /\ status = [c \in Calls |-> "idle"] /\ device = [a \in Addresses |-> NoCall]
  BY DEF OrderInit, Init
<1>2. HeldIn(held) = {} /\ HeldIn(batch) = {}
  BY <1>1, NothingType
<1>3. \A c \in Calls : running # DirectJob(c)
  BY <1>1 DEF NoJob, Job, DirectJob
<1>4. Positioned /\ Covered
  BY <1>1 DEF Positioned, Covered
<1> QED
  BY <1>1, <1>2, <1>3, <1>4
     DEF OrderInv, Newer, HeldAfterBatch, OneMode, LineOrdered, FirstInLine

\* The history moves only when a call begins.
LEMMA NobodyAsks ==
    ASSUME TypeOK, Positioned, OrderNext,
           \A c \in Calls : status[c] = "idle" => status'[c] # "waiting"
    PROVE  UNCHANGED <<asked, position>>
<1>1. Asking = {}
  BY DEF Asking
<1>2. position' = [c \in Calls |-> position[c]]
  BY <1>1 DEF OrderNext
<1> QED
  BY <1>1, <1>2 DEF OrderNext, Positioned

LEMMA OneAsks ==
    ASSUME TypeOK, Positioned, OrderNext, NEW c \in Calls, NEW g \in Groups,
           NEW bypass \in BOOLEAN, Begin(c, g, bypass), device' = device
    PROVE  Asks(c, g)
<1>1. status[c] = "idle" /\ status' = [status EXCEPT ![c] = "waiting"]
  BY DEF Begin
<1>2. Asking = {c}
  BY <1>1 DEF Asking, TypeOK
<1>3. /\ asked' = asked + 1
      /\ position' = [d \in Calls |-> IF d = c THEN asked + 1 ELSE position[d]]
  BY <1>2 DEF OrderNext
<1> QED
  BY <1>1, <1>3 DEF Asks, Begin

\* Both ends of a flush, and what they leave in the batch.
LEMMA FlushEnds ==
    ASSUME AccountInv, OrderInv, FlushSucceeds \/ FlushFails, UNCHANGED <<asked, position>>
    PROVE  \E success \in BOOLEAN : \E reached :
              /\ Settle(success) /\ Arrived(reached) /\ (success => reached = HeldIn(batch))
              /\ SamePlaces /\ batch # Nothing
              /\ WaitersIn(held)' = {s \in WaitersIn(held) : success \/ s[1] \notin BatchCalls}
              /\ HeldIn(held)' \subseteq HeldIn(held)
              /\ \A a \in HeldIn(held)' : /\ held'[a].writer = held[a].writer
                                          /\ held'[a].waiters \subseteq held[a].waiters
<1>0. TypeOK /\ held \in Batches
  BY DEF AccountInv, TypeOK
<1>1. CASE FlushSucceeds
  <2>1. Settle(TRUE) /\ batch # Nothing /\ UNCHANGED <<held, queue, group>>
    BY <1>1 DEF FlushSucceeds
  <2>2. PICK reached : reached = HeldIn(batch)
    OBVIOUS
  <2>3. Arrived(reached)
    BY <1>1, <2>2 DEF FlushSucceeds, Arrived, HeldIn
  <2>4. /\ SamePlaces
        /\ WaitersIn(held)' = {s \in WaitersIn(held) : TRUE \/ s[1] \notin BatchCalls}
        /\ HeldIn(held)' = HeldIn(held)
    BY <2>1 DEF SamePlaces, WaitersIn, HeldIn
  <2> QED
    BY <2>1, <2>2, <2>3, <2>4
<1>2. CASE FlushFails
  <2>1. /\ batch # Nothing /\ Settle(FALSE) /\ held' = dropFailed(BatchCalls)
        /\ rescheduleRemaining(dropFailed(BatchCalls)) \/ queue' = queue
        /\ UNCHANGED group
    BY <1>2 DEF FlushFails, timing
  <2>2. PICK reached \in SUBSET HeldIn(batch) :
           device' = [a \in Addresses |-> IF a \in reached THEN batch[a].writer ELSE device[a]]
    BY <1>2 DEF FlushFails
  <2>3. Arrived(reached)
    BY <2>1, <2>2 DEF Arrived
  <2>4. SamePlaces
    BY <1>0, <2>1, PlacesCancelled DEF rescheduleRemaining, SamePlaces
  <2>5. PICK failed : failed = BatchCalls /\ held' = dropFailed(failed)
    BY <2>1
  <2>6. /\ WaitersIn(held') = {s \in WaitersIn(held) : s[1] \notin failed}
        /\ \A a \in HeldIn(held') :
              /\ a \in HeldIn(held)
              /\ held'[a].waiters = {s \in held[a].waiters : s[1] \notin failed}
    BY <1>0, <2>5, DroppedSlots
  <2>7. WaitersIn(held)' = WaitersIn(held') /\ HeldIn(held)' = HeldIn(held')
    BY DEF WaitersIn, HeldIn
  <2>8. ASSUME NEW a \in HeldIn(held)'
        PROVE  held'[a].writer = held[a].writer
    <3>1. a \in HeldIn(held) /\ held[a] \in Entry
      BY <1>0, <2>6, <2>7, HeldEntry
    <3>2. held'[a] = [held[a] EXCEPT !.waiters = {s \in held[a].waiters : s[1] \notin failed}]
      BY <2>5, <2>8, <3>1 DEF dropFailed, HeldIn
    <3> QED
      BY <3>1, <3>2 DEF Entry
  <2>9. WaitersIn(held)' = {s \in WaitersIn(held) : FALSE \/ s[1] \notin BatchCalls}
    BY <2>5, <2>6, <2>7
  <2> QED
    BY <2>1, <2>3, <2>4, <2>6, <2>7, <2>8, <2>9
<1> QED
  BY <1>1, <1>2

\* Steps that leave every place, every entry and every answer as it is.
LEMMA QuietOrder ==
    ASSUME TypeOK, TypeOK', OrderInv, SamePlaces,
           UNCHANGED <<batch, running, status, device, group, asked, position>>,
           HeldIn(held)' = HeldIn(held),
           \A a \in HeldIn(held) : /\ held'[a].writer = held[a].writer
                                    /\ held'[a].waiters = held[a].waiters
    PROVE  OrderInv'
<1>1. DOMAIN queue \subseteq Nat /\ DOMAIN queue' \subseteq Nat
  BY DEF TypeOK
<1>2. \A c \in Calls : DirectJob(c)' = DirectJob(c)
  BY DEF DirectJob
<1>3. \A c \in Calls : InLine(c) => InLine(c)'
  BY <1>1, <1>2 DEF InLine, SamePlaces, Nothing
<1>4. WaitersIn(held)' = WaitersIn(held)
  BY DEF WaitersIn
<1>5. \A c \in Calls : \A i \in DOMAIN queue' : queue'[i] = DirectJob(c) =>
         i \in DOMAIN queue /\ queue[i] = DirectJob(c)
  BY <1>1 DEF SamePlaces
<1> QED
  BY <1>3, <1>4, <1>5, NothingSent

\* Time changes the ages of the entries and nothing else.
LEMMA TickOrder ==
    ASSUME TypeOK, TypeOK', OrderInv, Tick, UNCHANGED <<asked, position>>
    PROVE  OrderInv'
<1>1. SamePlaces
  BY DEF Tick, SamePlaces
<1>2. ASSUME NEW a \in Addresses
      PROVE  /\ held'[a] = NoEntry <=> held[a] = NoEntry
             /\ held[a] # NoEntry => /\ held'[a].waiters = held[a].waiters
                                     /\ held'[a].writer = held[a].writer
  <2>1. held[a] \in Entry \cup {NoEntry} /\ held'[a] \in Entry \cup {NoEntry}
    BY DEF TypeOK, Batches
  <2>2. CASE held[a] = NoEntry
    BY <2>2 DEF Tick
  <2>3. CASE held[a] # NoEntry
    <3>1. held[a] \in Entry /\ held'[a] = [held[a] EXCEPT !.age = Smaller(@ + 1, MaxHold)]
      BY <2>1, <2>3 DEF Tick
    <3>2. held[a].age \in 0..MaxHold
      BY <3>1 DEF Entry
    <3>3. Smaller(held[a].age + 1, MaxHold) \in 0..MaxHold
      BY <3>2, TimingAssumption DEF Smaller
    <3>4. held'[a] \in Entry
      BY <3>1, <3>3 DEF Entry
    <3>5. held'[a].waiters = held[a].waiters /\ held'[a].writer = held[a].writer
      BY <3>1 DEF Entry
    <3> QED
      BY <2>3, <3>4, <3>5, NoEntryAssumption
  <2> QED
    BY <2>2, <2>3
<1>3. HeldIn(held)' = HeldIn(held)
  BY <1>2 DEF HeldIn
<1> QED
  BY <1>1, <1>2, <1>3, QuietOrder DEF Tick, calls, HeldIn

\* A place in the line that is given up takes its call with it.
LEMMA InterruptOrder ==
    ASSUME TypeOK, TypeOK', OrderInv, NEW c \in Calls, InterruptDirect(c),
           UNCHANGED <<asked, position>>
    PROVE  OrderInv'
<1>1. PICK k \in DOMAIN queue : queue[k] = DirectJob(c) /\ queue' = [queue EXCEPT ![k] = Job("dead")]
  BY DEF InterruptDirect
<1>2. /\ UNCHANGED <<held, batch, running, group, device>>
      /\ status' = [status EXCEPT ![c] = "failed"]
  BY DEF InterruptDirect
<1>3. \A d \in Calls : Job("dead") # DirectJob(d) /\ DirectJob(d)' = DirectJob(d)
  BY DEF Job, DirectJob
<1>4. \A d \in Calls : d # c => DirectJob(d) # DirectJob(c)
  BY DEF DirectJob
<1>5. DOMAIN queue' = DOMAIN queue
  BY <1>1
<1>6. \A d \in Calls : \A i \in DOMAIN queue' : queue'[i] = DirectJob(d) =>
         i \in DOMAIN queue /\ queue[i] = DirectJob(d)
  BY <1>1, <1>3, <1>5
<1>7. \A d \in Calls : status'[d] = "waiting" => d # c /\ status[d] = "waiting"
  BY <1>2 DEF TypeOK
<1>8. \A d \in Calls : d # c => (InLine(d) => InLine(d)')
  <2>1. \A d \in Calls : \A i \in DOMAIN queue : d # c /\ queue[i] = DirectJob(d) =>
           queue'[i] = DirectJob(d)
    BY <1>1, <1>4
  <2> QED
    BY <1>2, <1>3, <1>5, <2>1 DEF InLine, Nothing
<1>9. HeldIn(held)' = HeldIn(held) /\ WaitersIn(held)' = WaitersIn(held)
  BY <1>2 DEF HeldIn, WaitersIn
<1>10. \A d \in Calls : status'[d] \in {"idle", "waiting"} => status'[d] = status[d]
  BY <1>2 DEF TypeOK
<1> QED
  BY <1>2, <1>3, <1>6, <1>7, <1>8, <1>9, <1>10, NothingSent

\* A call that is refused was nowhere.
LEMMA RejectOrder ==
    ASSUME TypeOK, TypeOK', OrderInv, NEW c \in Calls, RejectClosed(c),
           UNCHANGED <<asked, position>>
    PROVE  OrderInv'
<1>1. /\ UNCHANGED <<held, batch, queue, running, group, device>>
      /\ status' = [status EXCEPT ![c] = "failed"]
  BY DEF RejectClosed
<1>2. HeldIn(held)' = HeldIn(held) /\ WaitersIn(held)' = WaitersIn(held)
  BY <1>1 DEF HeldIn, WaitersIn
<1>3. \A d \in Calls : InLine(d) => InLine(d)'
  BY <1>1 DEF InLine, DirectJob, Nothing
<1>4. \A d \in Calls : status'[d] \in {"idle", "waiting"} => status'[d] = status[d]
  BY <1>1 DEF TypeOK
<1> QED
  BY <1>1, <1>2, <1>3, <1>4, NothingSent

\* The finalizer fails exactly the calls whose entries it drops.
LEMMA FinalizeOrder ==
    ASSUME TypeOK, TypeOK', OrderInv, Finalize, UNCHANGED <<asked, position>>
    PROVE  OrderInv'
<1>1. /\ UNCHANGED <<batch, queue, running, group, device>> /\ held' = Nothing
      /\ status' = [c \in Calls |->
                      IF status[c] = "waiting" /\ \E s \in WaitersIn(held) : s[1] = c
                      THEN "failed" ELSE status[c]]
  BY DEF Finalize
<1>2. HeldIn(held)' = {}
  BY <1>1, NothingType DEF HeldIn
<1>3. \A c \in Calls : InLine(c) => InLine(c)'
  BY <1>1 DEF InLine, DirectJob, Nothing
<1>4. \A c \in Calls : status'[c] \in {"idle", "waiting"} => status'[c] = status[c]
  BY <1>1
<1>5. \A c \in Calls : status'[c] = "waiting" => ~\E s \in WaitersIn(held) : s[1] = c
  BY <1>1
<1> QED
  BY <1>1, <1>2, <1>3, <1>4, <1>5, NothingSent

\* No call slot is used again, so every number that was given stays.
LEMMA OrderStep ==
    ASSUME AccountInv, TypeOK', OrderInv, ~Repeat, [OrderNext]_orderVars
    PROVE  OrderInv'
<1>0. TypeOK /\ LockIsFree /\ Positioned
  BY DEF AccountInv, OrderInv
<1>p. queue \in Seq(Jobs) /\ Cancelled(queue) \in Seq(Jobs)
  BY <1>0, CancelledType DEF TypeOK
<1>1. CASE UNCHANGED orderVars
  <2>1. SamePlaces
    BY <1>1 DEF orderVars, vars, SamePlaces
  <2> QED
    BY <1>0, <1>1, <2>1, QuietOrder DEF orderVars, vars, calls, HeldIn
<1> SUFFICES ASSUME OrderNext PROVE OrderInv'
  BY <1>1
<1>2. ASSUME NEW c \in Calls, NEW g \in Groups, NEW bypass \in BOOLEAN,
             writeAll(c, g, bypass) \/ writeAllNow(c, g, bypass)
      PROVE  OrderInv'
  <2>1. /\ Begin(c, g, bypass) /\ Hold(c, g, bypass) /\ Window # 0
        /\ UNCHANGED <<batch, running, device>>
    BY <1>2, TimingAssumption DEF writeAll, writeAllNow
  <2>2. Asks(c, g)
    BY <1>0, <2>1, OneAsks
  <2>3. SamePlaces
    <3>1. CASE queue' = Cancelled(queue)
      BY <1>0, <3>1, PlacesCancelled
    <3>2. CASE queue' = queue
      BY <3>2 DEF SamePlaces
    <3>3. CASE queue' = Append(Cancelled(queue), Job("full"))
      BY <1>0, <1>p, <3>3, JobTypes, PlacesAppended DEF Job, Kinds
    <3>4. CASE queue' = Append(queue, Job("all"))
      BY <1>0, <1>p, <3>4, JobTypes, PlacesAppended DEF Job, Kinds
    <3> QED
      BY <1>2, <3>1, <3>2, <3>3, <3>4 DEF writeAll, writeAllNow
  <2> QED
    BY <2>1, <2>2, <2>3, ArrivalOrder
<1>3. ASSUME NEW c \in Calls, NEW g \in Groups, NEW bypass \in BOOLEAN,
             issueDirectly(c, g, bypass)
      PROVE  OrderInv'
  <2>1. /\ Begin(c, g, bypass) /\ Window = 0 /\ queue' = Append(queue, DirectJob(c))
        /\ UNCHANGED <<held, batch, running, device>>
    BY <1>3 DEF issueDirectly
  <2>2. Asks(c, g)
    BY <1>0, <2>1, OneAsks
  <2> QED
    BY <2>1, <2>2, DirectArrivalOrder
<1>4. ASSUME NEW c \in Calls, RejectClosed(c)
      PROVE  OrderInv'
  <2>1. UNCHANGED <<asked, position>>
    BY <1>0, <1>4, NobodyAsks DEF RejectClosed, TypeOK
  <2> QED
    BY <1>0, <1>4, <2>1, RejectOrder
<1>5. ASSUME NEW c \in Calls, InterruptDirect(c)
      PROVE  OrderInv'
  <2>1. UNCHANGED <<asked, position>>
    BY <1>0, <1>5, NobodyAsks DEF InterruptDirect, TypeOK
  <2> QED
    BY <1>0, <1>5, <2>1, InterruptOrder
<1>6. CASE flush \/ TimerFires
  <2>1. UNCHANGED <<held, batch, running, calls, device>>
    BY <1>6 DEF flush, TimerFires
  <2>2. UNCHANGED <<asked, position>>
    BY <1>0, <2>1, NobodyAsks DEF calls
  <2>3. timer.id \in 0..3
    BY <1>0 DEF TypeOK, Timers
  <2>4. SamePlaces
    <3>1. CASE flush
      BY <1>0, <1>p, <3>1, JobTypes, PlacesAppended DEF flush, Job, Kinds
    <3>2. CASE TimerFires
      BY <1>0, <1>p, <2>3, <3>2, JobTypes, PlacesAppended DEF TimerFires, TimerJob
    <3> QED
      BY <1>6, <3>1, <3>2
  <2> QED
    BY <1>0, <2>1, <2>2, <2>4, QuietOrder DEF calls, HeldIn
<1>7. CASE Tick
  <2>1. UNCHANGED <<asked, position>>
    BY <1>0, <1>7, NobodyAsks DEF Tick, calls
  <2> QED
    BY <1>0, <1>7, <2>1, TickOrder
<1>8. CASE GrantFlushLock
  <2>1. UNCHANGED <<asked, position>>
    BY <1>0, <1>8, NobodyAsks DEF GrantFlushLock, calls
  <2> QED
    BY <1>8, <2>1, GrantOrder
<1>9. CASE TakeBatch
  <2>0. /\ InScope(running) /\ batch = Nothing
        /\ UNCHANGED <<status, group, device, asked, position>>
    BY <1>0, <1>9, NobodyAsks DEF TakeBatch, calls
  <2>1. CASE running' = NoJob /\ UNCHANGED <<held, batch, queue>>
    <3>1. SamePlaces
      BY <2>1 DEF SamePlaces
    <3>2. PICK taken \in SUBSET Addresses : taken = {}
      OBVIOUS
    <3>3. /\ held' = [a \in Addresses |-> IF a \in taken THEN NoEntry ELSE held[a]]
          /\ batch' = [a \in Addresses |-> IF a \in taken THEN held[a] ELSE NoEntry]
      BY <1>0, <2>0, <2>1, <3>2 DEF TypeOK, Batches, Nothing
    <3> QED
      BY <2>0, <2>1, <3>1, <3>3, TakeOrder
  <2>2. CASE takeAll
    <3>1. SamePlaces
      BY <1>0, <2>2, PlacesCancelled DEF takeAll, SamePlaces
    <3>2. /\ held' = [a \in Addresses |-> IF a \in Addresses THEN NoEntry ELSE held[a]]
          /\ batch' = [a \in Addresses |-> IF a \in Addresses THEN held[a] ELSE NoEntry]
      BY <1>0, <2>2 DEF takeAll, TypeOK, Batches, Nothing
    <3>3. running' = running \/ running' = NoJob
      BY <2>2 DEF takeAll
    <3> QED
      BY <2>0, <3>1, <3>2, <3>3, TakeOrder
  <2>3. CASE takeFullRuns /\ fullRunAddresses(HeldIn(held)) # {}
    <3> DEFINE rest == [a \in Addresses |->
                          IF a \in fullRunAddresses(HeldIn(held)) THEN NoEntry ELSE held[a]]
    <3>1. PICK full : full = fullRunAddresses(HeldIn(held)) /\ full \subseteq Addresses
      BY DEF fullRunAddresses, HeldIn
    <3>2. /\ held' = [a \in Addresses |-> IF a \in full THEN NoEntry ELSE held[a]]
          /\ batch' = [a \in Addresses |-> IF a \in full THEN held[a] ELSE NoEntry]
          /\ rescheduleRemaining(rest) /\ running' = running
      BY <2>3, <3>1 DEF takeFullRuns
    <3>3. SamePlaces
      BY <1>0, <3>2, PlacesCancelled DEF rescheduleRemaining
    <3> QED
      BY <2>0, <3>1, <3>2, <3>3, TakeOrder
  <2> QED
    BY <1>9, <2>1, <2>2, <2>3 DEF TakeBatch, takeFullRuns
<1>10. CASE TakeDirect
  <2>1. UNCHANGED <<asked, position>>
    BY <1>0, <1>10, NobodyAsks DEF TakeDirect
  <2> QED
    BY <1>10, <2>1, TakeDirectOrder
<1>11. CASE FlushSucceeds \/ FlushFails
  <2>1. UNCHANGED <<asked, position>>
    BY <1>0, <1>11, NobodyAsks DEF FlushSucceeds, FlushFails, Settle
  <2> QED
    BY <1>11, <2>1, FlushEnds, SettleOrder
<1>12. CASE Close \/ CloseInterruptsTimer \/ CloseInterruptsWaiting
  <2>1. UNCHANGED <<held, batch, running, calls, device>>
    BY <1>12 DEF Close, CloseInterruptsTimer, CloseInterruptsWaiting
  <2>2. UNCHANGED <<asked, position>>
    BY <1>0, <2>1, NobodyAsks DEF calls
  <2>3. SamePlaces
    <3>1. CASE Close \/ CloseInterruptsTimer
      BY <3>1 DEF Close, CloseInterruptsTimer, SamePlaces
    <3>2. CASE CloseInterruptsWaiting
      BY <1>0, <3>2, PlacesDead DEF CloseInterruptsWaiting, InScope
    <3> QED
      BY <1>12, <3>1, <3>2
  <2> QED
    BY <1>0, <2>1, <2>2, <2>3, QuietOrder DEF calls, HeldIn
<1>13. CASE Finalize
  <2>1. UNCHANGED <<asked, position>>
    BY <1>0, <1>13, NobodyAsks DEF Finalize, TypeOK
  <2> QED
    BY <1>0, <1>13, <2>1, FinalizeOrder
<1> QED
  BY <1>2, <1>3, <1>4, <1>5, <1>6, <1>7, <1>8, <1>9, <1>10, <1>11, <1>12, <1>13
     DEF OrderNext, Next, Arrive, Return

-----------------------------------------------------------------------------
(* Every step is a step of ordered writes.                                 *)

\* Calls that are answered without a success, and nothing sent.
LEMMA FailureDelivers ==
    ASSUME TypeOK, TypeOK', UNCHANGED <<device, group, asked, position>>,
           \A c \in Calls : status'[c] # status[c] =>
              status[c] = "waiting" /\ status'[c] = "failed"
    PROVE  Ordered!Deliver
BY DEF TypeOK, Ordered!Deliver

\* A call succeeds with nothing left to send, so every register of it has got there.
LEMMA FlushDelivers ==
    ASSUME AccountInv, AccountInv', OrderInv, FlushSucceeds \/ FlushFails,
           UNCHANGED <<asked, position>>
    PROVE  Ordered!Deliver
<1>0. TypeOK /\ TypeOK' /\ Accounts'
  BY DEF AccountInv
<1>1a. PICK success \in BOOLEAN : \E reached :
         /\ Settle(success) /\ Arrived(reached) /\ (success => reached = HeldIn(batch))
         /\ SamePlaces /\ batch # Nothing
         /\ WaitersIn(held)' = {s \in WaitersIn(held) : success \/ s[1] \notin BatchCalls}
  BY FlushEnds
<1>1. PICK reached :
         /\ Settle(success) /\ Arrived(reached) /\ (success => reached = HeldIn(batch))
         /\ SamePlaces /\ batch # Nothing
         /\ WaitersIn(held)' = {s \in WaitersIn(held) : success \/ s[1] \notin BatchCalls}
  BY <1>1a
<1>2. /\ device' \in [Addresses -> Calls \cup {NoCall}]
      /\ status' \in [Calls -> {"idle", "waiting", "succeeded", "failed"}]
      /\ UNCHANGED <<asked, position, group>>
  BY <1>0, <1>1 DEF TypeOK, Arrived
<1>3. ASSUME NEW a \in Addresses, device'[a] # device[a]
      PROVE  /\ device'[a] \in Calls
             /\ a \in Ordered!AddressesOf(device'[a])
             /\ Ordered!Age(device'[a]) > Ordered!Age(device[a])
  BY <1>0, <1>1, <1>3, ArrivedFacts DEF Age, Carries
<1>4. ASSUME NEW c \in Calls, status'[c] # status[c]
      PROVE  /\ status[c] = "waiting"
             /\ \/ status'[c] = "failed"
                \/ /\ status'[c] = "succeeded"
                   /\ \A a \in Ordered!AddressesOf(c) : Ordered!Age(device'[a]) >= position[c]
  <2>1. status[c] = "waiting" /\ status'[c] \in {"failed", "succeeded"}
    BY <1>1, <1>4 DEF Settle
  <2> SUFFICES ASSUME status'[c] = "succeeded", NEW i \in DOMAIN group[c]
               PROVE  Ordered!Age(device'[group[c][i]]) >= position[c]
    BY <2>1 DEF Ordered!AddressesOf
  <2>2. <<c, i>> \notin WaitersIn(held)'
    BY <1>0 DEF Accounts, SettledHasNothingLeft, OpenSlots
  <2>3. \A j \in DOMAIN queue' : queue'[j] # DirectJob(c)
    BY <1>0 DEF Accounts, DirectAlone, DirectJob
  <2> QED
    BY <1>0, <1>1, <2>1, <2>2, <2>3, SettleCovers DEF Age
<1> QED
  BY <1>2, <1>3, <1>4 DEF Ordered!Deliver

LEMMA OrderRefines ==
    ASSUME AccountInv, AccountInv', OrderInv, ~Repeat, [OrderNext]_orderVars
    PROVE  [Ordered!Next]_(Ordered!vars)
<1>0. TypeOK /\ TypeOK' /\ Positioned
  BY DEF AccountInv, OrderInv
<1>1. CASE UNCHANGED orderVars
  BY <1>1 DEF orderVars, vars, calls, Ordered!vars
<1> SUFFICES ASSUME OrderNext PROVE [Ordered!Next]_(Ordered!vars)
  BY <1>1
<1>2. ASSUME NEW c \in Calls, NEW g \in Groups, NEW bypass \in BOOLEAN,
             \/ writeAll(c, g, bypass) \/ writeAllNow(c, g, bypass)
             \/ issueDirectly(c, g, bypass)
      PROVE  Ordered!Next
  <2>1. Begin(c, g, bypass) /\ device' = device
    BY <1>2 DEF writeAll, writeAllNow, issueDirectly
  <2>2. Asks(c, g)
    BY <1>0, <2>1, OneAsks
  <2>3. position' = [position EXCEPT ![c] = asked + 1]
    BY <1>0, <2>2 DEF Asks, Positioned
  <2>4. Ordered!Request(c, g)
    BY <2>2, <2>3 DEF Asks, Ordered!Request
  <2> QED
    BY <2>4 DEF Ordered!Next
<1>3. ASSUME NEW c \in Calls, RejectClosed(c)
      PROVE  Ordered!Next
  <2>1. UNCHANGED <<asked, position>>
    BY <1>0, <1>3, NobodyAsks DEF RejectClosed, TypeOK
  <2>2. Ordered!Refuse(c)
    BY <1>3, <2>1 DEF RejectClosed, Ordered!Refuse
  <2> QED
    BY <2>2 DEF Ordered!Next
<1>4. ASSUME NEW c \in Calls, InterruptDirect(c)
      PROVE  Ordered!Next
  <2>1. UNCHANGED <<asked, position>>
    BY <1>0, <1>4, NobodyAsks DEF InterruptDirect, TypeOK
  <2>2. status[c] = "waiting"
    BY <1>4 DEF InterruptDirect, AccountInv, Accounts, DirectAlone
  <2>3. /\ UNCHANGED <<device, group>>
        /\ \A d \in Calls : status'[d] # status[d] =>
              status[d] = "waiting" /\ status'[d] = "failed"
    BY <1>0, <1>4, <2>2 DEF InterruptDirect, TypeOK
  <2> QED
    BY <1>0, <2>1, <2>3, FailureDelivers DEF Ordered!Next
<1>5. CASE Finalize
  <2>1. UNCHANGED <<asked, position>>
    BY <1>0, <1>5, NobodyAsks DEF Finalize, TypeOK
  <2>2. /\ UNCHANGED <<device, group>>
        /\ \A d \in Calls : status'[d] # status[d] =>
              status[d] = "waiting" /\ status'[d] = "failed"
    BY <1>5 DEF Finalize
  <2> QED
    BY <1>0, <2>1, <2>2, FailureDelivers DEF Ordered!Next
<1>6. CASE FlushSucceeds \/ FlushFails
  <2>1. UNCHANGED <<asked, position>>
    BY <1>0, <1>6, NobodyAsks DEF FlushSucceeds, FlushFails, Settle
  <2> QED
    BY <1>6, <2>1, FlushDelivers DEF Ordered!Next
<1>7. CASE \/ flush \/ TimerFires \/ Tick \/ GrantFlushLock \/ TakeBatch \/ TakeDirect
           \/ Close \/ CloseInterruptsTimer \/ CloseInterruptsWaiting
  <2>1. UNCHANGED <<status, group, device>>
    BY <1>7 DEF flush, TimerFires, Tick, GrantFlushLock, TakeBatch, TakeDirect,
                Close, CloseInterruptsTimer, CloseInterruptsWaiting, calls
  <2>2. UNCHANGED <<asked, position>>
    BY <1>0, <2>1, NobodyAsks
  <2> QED
    BY <2>1, <2>2 DEF Ordered!vars
<1> QED
  BY <1>2, <1>3, <1>4, <1>5, <1>6, <1>7 DEF OrderNext, Next, Arrive, Return

\* Whatever the debouncer merges, splits, drops or interrupts, each register moves
\* forward in the order in which its writes were asked for, and a call is told of a
\* success only when every register of it holds its value or a newer one.
THEOREM DebouncerImplementsOrderedWrites ==
    ASSUME ~Repeat PROVE OrderSpec => ImplementsOrderedWrites
<1>1. OrderInit => Ordered!Init /\ OrderInv
  BY OrderStart DEF OrderInit, Init, Ordered!Init
<1>2. AccountInv /\ AccountInv' /\ OrderInv /\ [OrderNext]_orderVars
         => OrderInv' /\ [Ordered!Next]_(Ordered!vars)
  BY OrderStep, OrderRefines DEF AccountInv
<1>3. OrderInit => Init
  BY DEF OrderInit
<1>4. [OrderNext]_orderVars => [Next]_vars
  BY DEF OrderNext, orderVars
<1>5. OrderSpec => Spec
  BY <1>3, <1>4, PTL DEF OrderSpec, Spec
<1>6. OrderSpec => []AccountInv
  BY <1>5, WaitersAccounted, PTL
<1> QED
  BY <1>1, <1>2, <1>6, PTL DEF OrderSpec, ImplementsOrderedWrites, Ordered!Spec

=============================================================================

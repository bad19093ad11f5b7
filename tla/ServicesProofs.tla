---------------------------- MODULE ServicesProofs ----------------------------
(***************************************************************************)
(* What the registry's caches, the mock transport, the server layers and   *)
(* the serial port path guarantee for every set of callers, devices,       *)
(* transports and units, every policy and directory, and any number of     *)
(* losses and failures.  For the caches, the sum of two counters tells     *)
(* every acknowledgement that an invalidation overtook, and none besides.  *)
(***************************************************************************)
EXTENDS Services, SequenceTheorems, TLAPS

-----------------------------------------------------------------------------
(* The caches: the inductive invariant.                                    *)

Typed ==
    /\ link \in [Transports -> {"Connected", "Lost"}]
    /\ losses \in [Transports -> Nat]
    /\ scope \in [Transports -> {"open", "closed"}]
    /\ watchingLink \in [Transports -> BOOLEAN]
    /\ notices \in [Transports -> Nat]
    /\ supplied \in [Transports -> SUBSET (Caches \X Units)]
    /\ clients \in [Units -> Clients \cup {Undeclared}]
    /\ held \in [Caches -> [Units -> Nat \cup {Unknown}]]
    /\ unitGenerations \in [Caches -> [Units -> Nat]]
    /\ busGeneration \in [Caches -> Nat]
    /\ flight \in [Units -> [Tables -> Flights \cup {Idle}]]
    /\ believed \subseteq Caches \X Units

\* The watcher of a unit's transport knows the caches of the unit, and runs while the
\* scope is open.
Known(u, table) ==
    LET t == ServedBy(u)
        c == CacheOf(u, table)
    IN  c # NoCache =>
           /\ \/ c = Shared(table, t) /\ t \in shared
              \/ c = Supplied(table) /\ <<c, u>> \in supplied[t]
           /\ scope[t] = "open" => watchingLink[t]

Wired == \A u \in Units : Declared(u) => \A table \in Tables : Known(u, table)

\* A watcher forgets supplied caches for the units it serves only.
OwnUnits ==
    \A t \in Transports : \A c \in Caches, u \in Units :
        <<c, u>> \in supplied[t] => Declared(u) /\ ServedBy(u) = t /\ c \in CachesOf(u)

\* A write goes out through a cache of its unit; an invalidation overtook it exactly
\* when it is in doubt.
FlightsCounted ==
    \A u \in Units, table \in Tables :
        LET write == flight[u][table]
        IN  write # Idle =>
               /\ Declared(u) /\ CacheOf(u, table) # NoCache
               /\ write.generation <= generationOf(CacheOf(u, table), u)
               /\ write.doubtful <=> write.generation # generationOf(CacheOf(u, table), u)

Current(u, count) == count = losses[ServedBy(u)] \/ notices[ServedBy(u)] > 0

\* A write that is not in doubt went out after the last loss that the watcher has seen.
FlightsCurrent ==
    \A u \in Units, table \in Tables :
        flight[u][table] # Idle /\ ~flight[u][table].doubtful /\ scope[ServedBy(u)] = "open"
        => Current(u, flight[u][table].losses)

\* Beliefs are about declared units, in caches of theirs.
BeliefsPlaced ==
    \A c \in Caches, u \in Units :
        held[c][u] # Unknown => Declared(u) /\ c \in CachesOf(u)

CachesInv ==
    /\ Typed /\ Wired /\ OwnUnits /\ FlightsCounted /\ FlightsCurrent
    /\ BeliefsPlaced /\ BeliefsAreCurrent

-----------------------------------------------------------------------------
(* Lemmas about the operators of the model.                                *)

\* Caches of different owners are different, and none of them is no cache.
LEMMA CacheFacts ==
    ASSUME ConstantsFit
    PROVE  /\ NoCache \notin Caches
           /\ \A x \in Tables : Supplied(x) \in Caches
           /\ \A x \in Tables, t \in Transports : Shared(x, t) \in Caches
           /\ \A x, y \in Tables, s, t \in Transports : Shared(x, s) = Shared(y, t) => s = t
           /\ \A x, y \in Tables, t \in Transports : Shared(x, t) # Supplied(y)
BY DEF ConstantsFit, NoCache, Caches, Supplied, Shared, Tables

LEMMA ClientType ==
    ASSUME ConstantsFit, Typed, NEW u \in Units, Declared(u)
    PROVE  /\ clients[u] \in Clients /\ ServedBy(u) \in Transports
           /\ \A table \in Tables : CacheOf(u, table) \in Caches \cup {NoCache}
           /\ CachesOf(u) \subseteq Caches
BY DEF Typed, Declared, Clients, ServedBy, CacheOf, CachesOf

LEMMA ResolvedType ==
    ASSUME ConstantsFit, NEW u \in Units, NEW declared \in Declarations[u],
           NEW table \in Tables
    PROVE  LET c == Resolved(table, declared.on, declared[table])
           IN  /\ c \in Caches \cup {NoCache}
               /\ c # NoCache => \/ c = Shared(table, declared.on) /\ declared[table] = "shared"
                                 \/ c = Supplied(table) /\ declared[table] = "supplied"
BY CacheFacts DEF ConstantsFit, Resolved

LEMMA GenerationType ==
    ASSUME Typed, NEW c \in Caches, NEW u \in Units
    PROVE  generationOf(c, u) \in Nat
BY DEF Typed, generationOf

\* A write that is put in doubt stays what it was in all else.
LEMMA DoubtFacts ==
    ASSUME ConstantsFit, Typed, NEW units, NEW u \in Units, NEW table \in Tables
    PROVE  /\ Doubt(units)[u][table] \in Flights \cup {Idle}
           /\ Doubt(units)[u][table] = Idle <=> flight[u][table] = Idle
           /\ flight[u][table] # Idle =>
                 /\ Doubt(units)[u][table].generation = flight[u][table].generation
                 /\ Doubt(units)[u][table].losses = flight[u][table].losses
                 /\ Doubt(units)[u][table].doubtful
                       <=> flight[u][table].doubtful \/ u \in units
<1> DEFINE before == flight[u][table]
           marked == [before EXCEPT !.doubtful = TRUE]
<1>1. before \in Flights \cup {Idle}
  BY DEF Typed
<1>2. before # Idle => marked \in Flights /\ marked # Idle
  BY <1>1 DEF Flights, ConstantsFit
<1>3. before # Idle => /\ marked.generation = before.generation
                       /\ marked.losses = before.losses
                       /\ marked.doubtful
  BY <1>1 DEF Flights
<1>4. Doubt(units)[u][table] = IF u \in units /\ before # Idle THEN marked ELSE before
  BY DEF Doubt
<1> HIDE DEF before, marked
<1>5. /\ Doubt(units)[u][table] \in Flights \cup {Idle}
      /\ Doubt(units)[u][table] = Idle <=> before = Idle
  BY <1>1, <1>2, <1>4
<1>6. before # Idle => /\ Doubt(units)[u][table].generation = before.generation
                       /\ Doubt(units)[u][table].losses = before.losses
  BY <1>3, <1>4
<1>7. before # Idle => (Doubt(units)[u][table].doubtful <=> before.doubtful \/ u \in units)
  BY <1>3, <1>4, Zenon
<1> QED
  BY <1>5, <1>6, <1>7 DEF before

LEMMA DoubtType ==
    ASSUME ConstantsFit, Typed, NEW units
    PROVE  Doubt(units) \in [Units -> [Tables -> Flights \cup {Idle}]]
<1>1. \A u \in Units, table \in Tables : Doubt(units)[u][table] \in Flights \cup {Idle}
  BY DoubtFacts
<1>2. Doubt(units) = [u \in Units |-> [table \in Tables |-> Doubt(units)[u][table]]]
  BY DEF Doubt
<1> HIDE DEF Doubt
<1> QED
  BY <1>1, <1>2

-----------------------------------------------------------------------------
(* The invariant holds at first, and every action preserves it.            *)

LEMMA InitInv ==
    ASSUME ConstantsFit, Init
    PROVE  CachesInv
<1>1. Typed
  BY DEF ConstantsFit, Init, Typed
<1>2. \A u \in Units : ~Declared(u)
  BY DEF Init, Declared
<1> QED
  BY <1>1, <1>2 DEF Init, CachesInv, Wired, OwnUnits, FlightsCounted, FlightsCurrent,
     BeliefsPlaced, BeliefsAreCurrent

\* Only what a declaration does to its own unit needs an argument: until then nothing
\* is known of it or on the wire for it.
LEMMA DeclareInv ==
    ASSUME ConstantsFit, CachesInv, NEW u \in Units, NEW declared \in Declarations[u],
           Declare(u, declared)
    PROVE  CachesInv'
<1> DEFINE t == declared.on
           caching == [table \in Tables |-> Resolved(table, t, declared[table])]
<1>1. t \in Transports /\ ~Declared(u)
  BY DEF ConstantsFit, Declare
<1>2. /\ clients' = [clients EXCEPT ![u] = [on |-> t, cache |-> caching]]
      /\ UNCHANGED <<links, caches, flight>>
  BY DEF Declare
<1>3. [on |-> t, cache |-> caching] \in Clients
  BY <1>1, ResolvedType DEF Clients
<1>4. supplied' \in [Transports -> SUBSET (Caches \X Units)]
  BY <1>1, CacheFacts DEF Declare, CachesInv, Typed
<1>5. Typed'
  BY <1>1, <1>2, <1>3, <1>4 DEF Declare, CachesInv, Typed, links, caches
<1>6. /\ Declared(u)' /\ ServedBy(u)' = t
      /\ \A table \in Tables : CacheOf(u, table)' = caching[table]
  BY <1>2, <1>3 DEF CachesInv, Typed, ConstantsFit, Declared, ServedBy, CacheOf
<1>7. \A v \in Units \ {u} : /\ Declared(v)' <=> Declared(v)
                             /\ ServedBy(v)' = ServedBy(v)
                             /\ CachesOf(v)' = CachesOf(v)
                             /\ \A table \in Tables : CacheOf(v, table)' = CacheOf(v, table)
  BY <1>2 DEF CachesInv, Typed, Declared, ServedBy, CacheOf, CachesOf
<1>8. \A s \in Transports : supplied[s] \subseteq supplied'[s]
  BY DEF Declare, CachesInv, Typed
<1>9. \A s \in Transports : notices'[s] = notices[s] \/ notices'[s] = 1
  BY DEF Declare, CachesInv, Typed
<1>10. Wired'
  <2>1. ASSUME NEW v \in Units \ {u}, Declared(v), NEW table \in Tables
        PROVE  Known(v, table)'
    <3> DEFINE s == ServedBy(v)
               c == CacheOf(v, table)
    <3>1. s \in Transports /\ ServedBy(v)' = s /\ CacheOf(v, table)' = c
      BY <1>7, <2>1, ClientType DEF CachesInv
    <3>2. /\ s \in shared => s \in shared'
          /\ watchingLink[s] => watchingLink'[s]
          /\ scope' = scope
      BY <3>1 DEF Declare, CachesInv, Typed, links
    <3>3. Known(v, table)
      BY <2>1 DEF CachesInv, Wired
    <3> HIDE DEF s, c
    <3>4. ASSUME c # NoCache
          PROVE  /\ \/ c = Shared(table, s) /\ s \in shared'
                    \/ c = Supplied(table) /\ <<c, v>> \in supplied'[s]
                 /\ scope'[s] = "open" => watchingLink'[s]
      BY <1>8, <3>1, <3>2, <3>3, <3>4 DEF Known, s, c
    <3> QED
      BY <3>1, <3>4 DEF Known
  <2>2. ASSUME NEW table \in Tables, caching[table] # NoCache
        PROVE  /\ \/ caching[table] = Shared(table, t) /\ t \in shared'
                  \/ caching[table] = Supplied(table) /\ <<caching[table], u>> \in supplied'[t]
               /\ watchingLink'[t]
    <3>1. \/ caching[table] = Shared(table, t) /\ declared[table] = "shared"
          \/ caching[table] = Supplied(table) /\ declared[table] = "supplied"
      BY <2>2, ResolvedType
    <3>2. watchingLink'[t]
      BY <1>1, <2>2 DEF Declare, CachesInv, Typed
    <3>3. declared[table] = "shared" => t \in shared'
      BY DEF Declare
    <3>4. declared[table] = "supplied" => <<Supplied(table), u>> \in supplied'[t]
      BY <1>1 DEF Declare, CachesInv, Typed
    <3> QED
      BY <3>1, <3>2, <3>3, <3>4
  <2> QED
    BY <1>6, <1>7, <2>1, <2>2 DEF Wired, Known
<1>11. OwnUnits'
  <2>1. ASSUME NEW s \in Transports, NEW c \in Caches, NEW v \in Units,
               <<c, v>> \in supplied'[s], <<c, v>> \notin supplied[s]
        PROVE  v = u /\ s = t /\ c \in CachesOf(u)'
    <3>1. PICK table \in Tables : /\ s = t /\ declared[table] = "supplied"
                                  /\ <<c, v>> = <<Supplied(table), u>>
      BY <2>1 DEF Declare, CachesInv, Typed
    <3>2. caching[table] = Supplied(table)
      BY <3>1 DEF Resolved
    <3>3. Supplied(table) # NoCache
      BY CacheFacts
    <3> QED
      BY <1>6, <3>1, <3>2, <3>3 DEF CachesOf
  <2> QED
    BY <1>1, <1>6, <1>7, <2>1 DEF CachesInv, OwnUnits
<1>12. FlightsCounted'
  BY <1>1, <1>2, <1>7 DEF CachesInv, FlightsCounted, generationOf, caches
<1>13. ASSUME NEW v \in Units \ {u}, Declared(v), NEW count, Current(v, count)
      PROVE  Current(v, count)'
  <2>1. ServedBy(v) \in Transports /\ ServedBy(v)' = ServedBy(v) /\ losses' = losses
    BY <1>2, <1>7, <1>13, ClientType DEF CachesInv, links
  <2> QED
    BY <1>9, <1>13, <2>1 DEF Current
<1>14. FlightsCurrent'
  <2>1. ASSUME NEW v \in Units, NEW table \in Tables, flight[v][table] # Idle
        PROVE  v # u /\ Declared(v)
    BY <1>1, <2>1 DEF CachesInv, FlightsCounted
  <2> QED
    BY <1>2, <1>7, <1>13, <2>1 DEF CachesInv, FlightsCurrent, links
<1>15. BeliefsPlaced'
  BY <1>1, <1>2, <1>7 DEF CachesInv, BeliefsPlaced, caches
<1>16. BeliefsAreCurrent'
  <2>1. ASSUME NEW c \in Caches, NEW v \in Units, held[c][v] # Unknown
        PROVE  v # u /\ Declared(v)
    BY <1>1, <2>1 DEF CachesInv, BeliefsPlaced
  <2> QED
    BY <1>2, <1>7, <1>13, <2>1 DEF CachesInv, BeliefsAreCurrent, Current, links, caches
<1> QED
  BY <1>5, <1>10, <1>11, <1>12, <1>14, <1>15, <1>16 DEF CachesInv

\* While the clients stay as they are, so does everything that is read off them.
LEMMA SameClients ==
    ASSUME UNCHANGED clients
    PROVE  \A u \in Units : /\ Declared(u)' <=> Declared(u)
                            /\ ServedBy(u)' = ServedBy(u)
                            /\ CachesOf(u)' = CachesOf(u)
                            /\ \A table \in Tables : CacheOf(u, table)' = CacheOf(u, table)
BY DEF Declared, ServedBy, CacheOf, CachesOf

\* A step that leaves the clients and the watchers alone leaves the wiring alone.
LEMMA WiringSame ==
    ASSUME CachesInv, UNCHANGED <<scope, watchingLink, shared, supplied, clients>>
    PROVE  Wired' /\ OwnUnits'
<1>1. Wired'
  BY DEF CachesInv, Wired, Known, Declared, ServedBy, CacheOf
<1>2. OwnUnits'
  BY DEF CachesInv, OwnUnits, Declared, ServedBy, CachesOf, CacheOf
<1> QED
  BY <1>1, <1>2

LEMMA IssueWriteInv ==
    ASSUME ConstantsFit, CachesInv, NEW u \in Units, NEW table \in Tables,
           IssueWrite(u, table)
    PROVE  CachesInv'
<1> DEFINE c == CacheOf(u, table)
           write == [generation |-> generationOf(c, u), losses |-> losses[ServedBy(u)],
                     doubtful |-> FALSE]
<1>1. /\ Declared(u) /\ c # NoCache
      /\ flight' = [flight EXCEPT ![u][table] = write]
      /\ UNCHANGED <<links, registry, caches>>
  BY DEF IssueWrite
<1>2. c \in Caches /\ ServedBy(u) \in Transports
  BY <1>1, ClientType DEF CachesInv
<1>3. write \in Flights
  BY <1>2, GenerationType DEF CachesInv, Typed, Flights
<1>4. \A v \in Units, x \in Tables :
         flight'[v][x] = IF v = u /\ x = table THEN write ELSE flight[v][x]
  BY <1>1 DEF CachesInv, Typed
<1>5. flight' \in [Units -> [Tables -> Flights \cup {Idle}]]
  BY <1>1, <1>3 DEF CachesInv, Typed
<1>6. Typed'
  BY <1>1, <1>5 DEF CachesInv, Typed, links, registry, caches
<1>7. Wired' /\ OwnUnits' /\ BeliefsPlaced' /\ BeliefsAreCurrent'
  <2>1. Wired' /\ OwnUnits'
    BY <1>1, WiringSame DEF links, registry
  <2>2. BeliefsPlaced' /\ BeliefsAreCurrent'
    BY <1>1, SameClients DEF CachesInv, BeliefsPlaced, BeliefsAreCurrent, links, registry,
       caches
  <2> QED
    BY <2>1, <2>2
<1>8. FlightsCounted'
  <2>1. \A v \in Units, x \in Caches : generationOf(x, v)' = generationOf(x, v)
    BY <1>1 DEF generationOf, caches
  <2>2. write.generation <= generationOf(c, u)
    BY <1>2, GenerationType DEF CachesInv
  <2>3. UNCHANGED clients
    BY <1>1 DEF registry
  <2>4. ~write.doubtful /\ write.generation = generationOf(c, u)
    OBVIOUS
  <2> HIDE DEF write
  <2>5. ASSUME NEW v \in Units, NEW x \in Tables, flight'[v][x] # Idle
        PROVE  /\ Declared(v)' /\ CacheOf(v, x)' # NoCache
               /\ flight'[v][x].generation <= generationOf(CacheOf(v, x), v)'
               /\ flight'[v][x].doubtful
                     <=> flight'[v][x].generation # generationOf(CacheOf(v, x), v)'
    <3>1. Declared(v) /\ CacheOf(v, x) # NoCache
      BY <1>1, <1>4, <2>5 DEF CachesInv, FlightsCounted
    <3>2. CacheOf(v, x) \in Caches
      BY <3>1, ClientType DEF CachesInv
    <3>3. generationOf(CacheOf(v, x), v)' = generationOf(CacheOf(v, x), v)
      BY <2>1, <2>3, <3>2, SameClients
    <3>4. /\ flight'[v][x].generation <= generationOf(CacheOf(v, x), v)
          /\ flight'[v][x].doubtful
                <=> flight'[v][x].generation # generationOf(CacheOf(v, x), v)
      <4>1. CASE v = u /\ x = table
        BY <1>4, <2>2, <2>4, <4>1
      <4>2. CASE ~(v = u /\ x = table)
        BY <1>4, <2>5, <4>2 DEF CachesInv, FlightsCounted
      <4> QED
        BY <4>1, <4>2
    <3> QED
      BY <2>3, <3>1, <3>3, <3>4, SameClients
  <2> QED
    BY <2>5 DEF FlightsCounted
<1>9. FlightsCurrent'
  <2>1. UNCHANGED <<clients, losses, notices, scope>>
    BY <1>1 DEF links, registry
  <2>2. Current(u, write.losses)
    BY DEF Current
  <2> HIDE DEF write
  <2>3. ASSUME NEW v \in Units, NEW x \in Tables, flight'[v][x] # Idle,
               ~flight'[v][x].doubtful, scope[ServedBy(v)] = "open"
        PROVE  Current(v, flight'[v][x].losses)
    BY <1>4, <2>2, <2>3 DEF CachesInv, FlightsCurrent
  <2> QED
    BY <2>1, <2>3, SameClients DEF FlightsCurrent, Current
<1> QED
  BY <1>6, <1>7, <1>8, <1>9 DEF CachesInv

\* The answer of a write that is not in doubt is recorded, since no counter moved, and
\* any other is not, since one did.
LEMMA AcknowledgeInv ==
    ASSUME ConstantsFit, CachesInv, NEW u \in Units, NEW table \in Tables,
           Acknowledge(u, table)
    PROVE  CachesInv'
<1> DEFINE c == CacheOf(u, table)
           write == flight[u][table]
<1>1. /\ write # Idle
      /\ held' = IF write.generation = generationOf(c, u)
                 THEN [held EXCEPT ![c][u] = write.losses] ELSE held
      /\ believed' = IF write.doubtful THEN believed ELSE believed \cup {<<c, u>>}
      /\ flight' = [flight EXCEPT ![u][table] = Idle]
      /\ UNCHANGED <<links, registry, unitGenerations, busGeneration>>
  BY DEF Acknowledge
<1>2. /\ Declared(u) /\ c # NoCache
      /\ write.doubtful <=> write.generation # generationOf(c, u)
  BY <1>1 DEF CachesInv, FlightsCounted
<1>3. c \in Caches /\ c \in CachesOf(u)
  BY <1>2, ClientType DEF CachesInv, CachesOf
<1>4. write.losses \in Nat /\ write.losses # Unknown
  BY <1>1 DEF CachesInv, Typed, Flights, ConstantsFit
<1>5. /\ \/ /\ ~write.doubtful
            /\ held' = [held EXCEPT ![c][u] = write.losses]
            /\ believed' = believed \cup {<<c, u>>}
         \/ write.doubtful /\ UNCHANGED <<held, believed>>
  BY <1>1, <1>2
<1> HIDE DEF write
<1>6. Typed'
  <2>1. flight' \in [Units -> [Tables -> Flights \cup {Idle}]]
    BY <1>1 DEF CachesInv, Typed
  <2>2. held' \in [Caches -> [Units -> Nat \cup {Unknown}]]
    <3> HIDE DEF c
    <3>1. [held[c] EXCEPT ![u] = write.losses] \in [Units -> Nat \cup {Unknown}]
      BY <1>3, <1>4 DEF CachesInv, Typed
    <3>2. held \in [Caches -> [Units -> Nat \cup {Unknown}]]
      BY DEF CachesInv, Typed
    <3> QED
      BY <1>3, <1>5, <3>1, <3>2
  <2>3. believed' \subseteq Caches \X Units
    BY <1>3, <1>5 DEF CachesInv, Typed
  <2> QED
    BY <1>1, <2>1, <2>2, <2>3 DEF CachesInv, Typed, links, registry
<1>7. Wired' /\ OwnUnits'
  BY <1>1, WiringSame DEF links, registry
<1>8. \A v \in Units, x \in Tables : flight'[v][x] # Idle => flight'[v][x] = flight[v][x]
  BY <1>1 DEF CachesInv, Typed
<1>9. FlightsCounted' /\ FlightsCurrent'
  BY <1>1, <1>8, SameClients DEF CachesInv, FlightsCounted, FlightsCurrent, Current,
     generationOf, links, registry
<1>10. BeliefsPlaced'
  BY <1>1, <1>2, <1>3, <1>5, SameClients DEF CachesInv, Typed, BeliefsPlaced, registry
<1>11. BeliefsAreCurrent'
  <2>1. UNCHANGED <<clients, losses, notices, scope>>
    BY <1>1 DEF links, registry
  <2>2. ~write.doubtful /\ scope[ServedBy(u)] = "open" => Current(u, write.losses)
    BY <1>1 DEF CachesInv, FlightsCurrent, write
  <2>3. CASE write.doubtful
    <3>1. UNCHANGED <<held, believed>>
      BY <1>5, <2>3
    <3> QED
      BY <2>1, <3>1, SameClients DEF CachesInv, BeliefsAreCurrent
  <2>4. CASE ~write.doubtful
    <3>1. \A d \in Caches, v \in Units :
             held'[d][v] = IF d = c /\ v = u THEN write.losses ELSE held[d][v]
      BY <1>3, <1>5, <2>4 DEF CachesInv, Typed
    <3>2. \A d \in Caches, v \in Units :
             <<d, v>> \in believed' <=> <<d, v>> \in believed \/ (d = c /\ v = u)
      BY <1>5, <2>4
    <3>3. ASSUME NEW d \in Caches, NEW v \in Units
          PROVE  held'[d][v] # Unknown <=> <<d, v>> \in believed'
      BY <1>4, <3>1, <3>2 DEF CachesInv, BeliefsAreCurrent
    <3>4. ASSUME NEW d \in Caches, NEW v \in Units, held'[d][v] # Unknown,
                 scope[ServedBy(v)] = "open"
          PROVE  Current(v, held'[d][v])
      BY <2>2, <2>4, <3>1, <3>4 DEF CachesInv, BeliefsAreCurrent, Current
    <3> QED
      BY <2>1, <3>3, <3>4, SameClients DEF BeliefsAreCurrent, Current
  <2> QED
    BY <2>3, <2>4
<1> QED
  BY <1>6, <1>7, <1>9, <1>10, <1>11 DEF CachesInv

\* Every write of the unit that was on the wire is in doubt, and every counter that it
\* may have read is one higher.
LEMMA WriteFailsInv ==
    ASSUME ConstantsFit, CachesInv, NEW u \in Units, NEW table \in Tables,
           WriteFails(u, table)
    PROVE  CachesInv'
<1>1. /\ flight[u][table] # Idle
      /\ held' = [c \in Caches |-> IF c \in CachesOf(u)
                                   THEN [held[c] EXCEPT ![u] = Unknown] ELSE held[c]]
      /\ unitGenerations' = [c \in Caches |-> IF c \in CachesOf(u)
                               THEN [unitGenerations[c] EXCEPT ![u] = @ + 1]
                               ELSE unitGenerations[c]]
      /\ believed' = {b \in believed : b[2] # u}
      /\ flight' = [Doubt({u}) EXCEPT ![u][table] = Idle]
      /\ UNCHANGED <<links, registry, busGeneration>>
  BY DEF WriteFails
<1>2. Declared(u) /\ CachesOf(u) \subseteq Caches
  BY <1>1, ClientType DEF CachesInv, FlightsCounted
<1>3. \A c \in Caches, v \in Units :
         /\ held'[c][v] = IF c \in CachesOf(u) /\ v = u THEN Unknown ELSE held[c][v]
         /\ unitGenerations'[c][v] = IF c \in CachesOf(u) /\ v = u
                                     THEN unitGenerations[c][v] + 1 ELSE unitGenerations[c][v]
  BY <1>1 DEF CachesInv, Typed
<1>4. \A v \in Units, x \in Tables :
         flight'[v][x] # Idle =>
            /\ flight[v][x] # Idle
            /\ flight'[v][x].generation = flight[v][x].generation
            /\ flight'[v][x].losses = flight[v][x].losses
            /\ flight'[v][x].doubtful <=> flight[v][x].doubtful \/ v = u
  <2>1. Typed /\ Doubt({u}) \in [Units -> [Tables -> Flights \cup {Idle}]]
    BY DoubtType DEF CachesInv
  <2>2. ASSUME NEW v \in Units, NEW x \in Tables, flight'[v][x] # Idle
        PROVE  /\ flight[v][x] # Idle
               /\ flight'[v][x].generation = flight[v][x].generation
               /\ flight'[v][x].losses = flight[v][x].losses
               /\ flight'[v][x].doubtful <=> flight[v][x].doubtful \/ v = u
    <3>1. flight'[v][x] = Doubt({u})[v][x]
      BY <1>1, <2>1, <2>2
    <3>2. flight[v][x] # Idle
      BY <2>1, <2>2, <3>1, DoubtFacts
    <3>3. /\ Doubt({u})[v][x].generation = flight[v][x].generation
          /\ Doubt({u})[v][x].losses = flight[v][x].losses
      BY <2>1, <3>2, DoubtFacts
    <3>4. Doubt({u})[v][x].doubtful <=> flight[v][x].doubtful \/ v \in {u}
      BY <2>1, <3>2, DoubtFacts, Zenon
    <3>5. v \in {u} <=> v = u
      OBVIOUS
    <3> QED
      BY <3>1, <3>2, <3>3, <3>4, <3>5, Zenon
  <2> QED
    BY <2>2
<1>5. Typed'
  <2>1. flight' \in [Units -> [Tables -> Flights \cup {Idle}]]
    BY <1>1, DoubtType DEF CachesInv
  <2>2. held' \in [Caches -> [Units -> Nat \cup {Unknown}]]
    BY <1>1 DEF CachesInv, Typed
  <2>3. unitGenerations' \in [Caches -> [Units -> Nat]]
    BY <1>1 DEF CachesInv, Typed
  <2>4. believed' \subseteq Caches \X Units
    BY <1>1 DEF CachesInv, Typed
  <2>5. UNCHANGED <<link, losses, scope, watchingLink, notices, supplied, clients,
                    busGeneration>>
    BY <1>1 DEF links, registry
  <2>6. Typed
    BY DEF CachesInv
  <2> QED
    BY <2>1, <2>2, <2>3, <2>4, <2>5, <2>6 DEF Typed
<1>6. Wired' /\ OwnUnits'
  BY <1>1, WiringSame DEF links, registry
<1>7. FlightsCounted'
  <2>1. ASSUME NEW v \in Units, NEW x \in Tables, flight'[v][x] # Idle
        PROVE  /\ Declared(v)' /\ CacheOf(v, x)' # NoCache
               /\ flight'[v][x].generation <= generationOf(CacheOf(v, x), v)'
               /\ flight'[v][x].doubtful
                     <=> flight'[v][x].generation # generationOf(CacheOf(v, x), v)'
    <3> DEFINE d == CacheOf(v, x)
    <3>1. /\ Declared(v) /\ d # NoCache
          /\ flight[v][x].generation <= generationOf(d, v)
          /\ flight[v][x].doubtful <=> flight[v][x].generation # generationOf(d, v)
          /\ flight[v][x].generation \in Nat
      BY <1>4, <2>1 DEF CachesInv, Typed, Flights, FlightsCounted
    <3>2. d \in Caches /\ d \in CachesOf(v) /\ generationOf(d, v) \in Nat
      BY <3>1, ClientType, GenerationType DEF CachesInv, CachesOf
    <3>3. /\ Declared(v)' <=> Declared(v)
          /\ CacheOf(v, x)' = d
      BY <1>1, SameClients DEF registry
    <3>4. generationOf(d, v)' = IF v = u THEN generationOf(d, v) + 1 ELSE generationOf(d, v)
      BY <1>1, <1>3, <3>2, <3>3 DEF CachesInv, Typed, generationOf
    <3> QED
      BY <1>4, <2>1, <3>1, <3>2, <3>3, <3>4
  <2> QED
    BY <2>1 DEF FlightsCounted
<1>8. FlightsCurrent'
  <2>1. UNCHANGED <<clients, losses, notices, scope>>
    BY <1>1 DEF links, registry
  <2>2. ASSUME NEW v \in Units, NEW x \in Tables, flight'[v][x] # Idle,
               ~flight'[v][x].doubtful, scope[ServedBy(v)] = "open"
        PROVE  Current(v, flight'[v][x].losses)
    <3>1. flight[v][x] # Idle /\ ~flight[v][x].doubtful
      BY <1>4, <2>2
    <3>2. Current(v, flight[v][x].losses)
      BY <2>2, <3>1 DEF CachesInv, FlightsCurrent
    <3> QED
      BY <1>4, <2>2, <3>2
  <2> QED
    BY <2>1, <2>2, SameClients DEF FlightsCurrent, Current
<1>9. BeliefsPlaced'
  BY <1>1, <1>3, SameClients DEF CachesInv, BeliefsPlaced, registry
<1>10. BeliefsAreCurrent'
  <2>1. \A c \in Caches, v \in Units : <<c, v>> \in believed' <=> <<c, v>> \in believed /\ v # u
    BY <1>1
  <2>2. \A c \in Caches : held'[c][u] = Unknown
    BY <1>3 DEF CachesInv, BeliefsPlaced
  <2>3. UNCHANGED <<clients, losses, notices, scope>>
    BY <1>1 DEF links, registry
  <2>4. \A c \in Caches, v \in Units : v # u => held'[c][v] = held[c][v]
    BY <1>3
  <2>5. ASSUME NEW c \in Caches, NEW v \in Units
        PROVE  held'[c][v] # Unknown <=> <<c, v>> \in believed'
    BY <2>1, <2>2, <2>4 DEF CachesInv, BeliefsAreCurrent
  <2>6. ASSUME NEW c \in Caches, NEW v \in Units, held'[c][v] # Unknown,
               scope[ServedBy(v)] = "open"
        PROVE  held'[c][v] = losses[ServedBy(v)] \/ notices[ServedBy(v)] > 0
    BY <2>2, <2>4, <2>6 DEF CachesInv, BeliefsAreCurrent
  <2> QED
    BY <2>3, <2>5, <2>6, SameClients DEF BeliefsAreCurrent
<1> QED
  BY <1>5, <1>6, <1>7, <1>8, <1>9, <1>10 DEF CachesInv

\* A watcher that has a loss to see excuses every belief of its link.
LEMMA LinkLostInv ==
    ASSUME ConstantsFit, CachesInv, NEW t \in Transports, LinkLost(t)
    PROVE  CachesInv'
<1>1. /\ losses' = [losses EXCEPT ![t] = @ + 1]
      /\ notices' = [notices EXCEPT ![t] = IF watchingLink[t] THEN @ + 1 ELSE @]
      /\ UNCHANGED <<scope, watchingLink, shared, supplied, clients, caches, flight>>
  BY DEF LinkLost
<1>2. Typed'
  <2>1. link' \in [Transports -> {"Connected", "Lost"}] /\ losses' \in [Transports -> Nat]
    BY DEF CachesInv, Typed, LinkLost
  <2>2. notices' \in [Transports -> Nat]
    BY <1>1 DEF CachesInv, Typed
  <2> QED
    BY <1>1, <2>1, <2>2 DEF CachesInv, Typed, caches
<1>3. Wired' /\ OwnUnits' /\ FlightsCounted' /\ BeliefsPlaced'
  <2>1. Wired' /\ OwnUnits'
    BY <1>1, WiringSame
  <2>2. FlightsCounted' /\ BeliefsPlaced'
    BY <1>1, SameClients DEF CachesInv, FlightsCounted, BeliefsPlaced, generationOf, caches
  <2> QED
    BY <2>1, <2>2
<1>4. ASSUME NEW v \in Units, NEW table \in Tables, Declared(v), CacheOf(v, table) # NoCache,
             scope[ServedBy(v)] = "open", NEW count, Current(v, count)
      PROVE  Current(v, count)'
  <2>1. ServedBy(v) \in Transports /\ watchingLink[ServedBy(v)] /\ ServedBy(v)' = ServedBy(v)
    BY <1>1, <1>4, ClientType, SameClients DEF CachesInv, Wired, Known
  <2> QED
    BY <1>1, <1>4, <2>1 DEF CachesInv, Typed, Current
<1>5. FlightsCurrent'
  BY <1>1, <1>4, SameClients DEF CachesInv, FlightsCounted, FlightsCurrent
<1>6. BeliefsAreCurrent'
  <2>1. ASSUME NEW c \in Caches, NEW v \in Units, held[c][v] # Unknown,
               scope[ServedBy(v)] = "open"
        PROVE  Current(v, held[c][v])'
    <3>1. Current(v, held[c][v])
      BY <2>1 DEF CachesInv, BeliefsAreCurrent, Current
    <3>2. PICK table \in Tables : Declared(v) /\ CacheOf(v, table) # NoCache
      BY <2>1 DEF CachesInv, BeliefsPlaced, CachesOf
    <3> QED
      BY <1>1, <1>4, <2>1, <3>1, <3>2 DEF Current, caches
  <2> QED
    BY <1>1, <2>1, SameClients DEF CachesInv, BeliefsAreCurrent, Current, caches
<1> QED
  BY <1>2, <1>3, <1>5, <1>6 DEF CachesInv

LEMMA LinkRestoredInv ==
    ASSUME CachesInv, NEW t \in Transports, LinkRestored(t)
    PROVE  CachesInv'
<1>1. link' \in [Transports -> {"Connected", "Lost"}]
  BY DEF CachesInv, Typed, LinkRestored
<1>2. UNCHANGED <<losses, scope, registry, caches, flight>>
  BY DEF LinkRestored
<1>3. Typed'
  BY <1>1, <1>2 DEF CachesInv, Typed, registry, caches
<1>4. Wired' /\ OwnUnits'
  BY <1>2, WiringSame DEF registry
<1>5. FlightsCounted' /\ FlightsCurrent'
  BY <1>2, SameClients DEF CachesInv, FlightsCounted, FlightsCurrent, Current, generationOf,
     registry, caches
<1>6. BeliefsPlaced' /\ BeliefsAreCurrent'
  BY <1>2, SameClients DEF CachesInv, BeliefsPlaced, BeliefsAreCurrent, Current, registry,
     caches
<1> QED
  BY <1>3, <1>4, <1>5, <1>6 DEF CachesInv

\* Every counter that a write of a unit of this link may have read is higher; no other
\* link has a cache of its units forgotten.
LEMMA WatchLinkInv ==
    ASSUME ConstantsFit, CachesInv, NEW t \in Transports, watchLink(t)
    PROVE  CachesInv'
<1> DEFINE ForgetsBus(c) == t \in shared /\ \E table \in Tables : c = Shared(table, t)
<1>1. /\ notices[t] > 0
      /\ notices' = [notices EXCEPT ![t] = @ - 1]
      /\ held' = [c \in Caches |-> [u \in Units |->
                    IF ForgetsBus(c) \/ <<c, u>> \in supplied[t]
                    THEN Unknown ELSE held[c][u]]]
      /\ busGeneration' = [c \in Caches |->
                             IF ForgetsBus(c) THEN busGeneration[c] + 1 ELSE busGeneration[c]]
      /\ unitGenerations' = [c \in Caches |-> [u \in Units |->
                               IF <<c, u>> \in supplied[t]
                               THEN unitGenerations[c][u] + 1 ELSE unitGenerations[c][u]]]
      /\ believed' = {b \in believed : b[2] \notin UnitsOn(t)}
      /\ flight' = Doubt(UnitsOn(t))
      /\ UNCHANGED <<links, watchingLink, shared, supplied, clients>>
  BY DEF watchLink
<1>2. UNCHANGED <<losses, scope>>
  BY <1>1 DEF links
<1>3. Typed
  BY DEF CachesInv
<1>4. ASSUME NEW v \in Units, NEW c \in CachesOf(v), Declared(v)
      PROVE  /\ c \in Caches
             /\ ServedBy(v) = t <=> ForgetsBus(c) \/ <<c, v>> \in supplied[t]
             /\ ServedBy(v) # t => ~ForgetsBus(c) /\ <<c, v>> \notin supplied[t]
  <2>1. PICK x \in Tables : c = CacheOf(v, x) /\ c # NoCache
    BY <1>4 DEF CachesOf
  <2>2. c \in Caches /\ ServedBy(v) \in Transports
    BY <1>3, <1>4, ClientType
  <2>3. \/ c = Shared(x, ServedBy(v)) /\ ServedBy(v) \in shared
        \/ c = Supplied(x) /\ <<c, v>> \in supplied[ServedBy(v)]
    BY <1>4, <2>1 DEF CachesInv, Wired, Known
  <2>4. <<c, v>> \in supplied[t] => ServedBy(v) = t
    BY <2>2 DEF CachesInv, OwnUnits
  <2>5. ForgetsBus(c) => ServedBy(v) = t
    BY <2>2, <2>3, CacheFacts
  <2> QED
    BY <2>2, <2>3, <2>4, <2>5
<1>5. \A c \in Caches, v \in Units :
         held'[c][v] = IF ForgetsBus(c) \/ <<c, v>> \in supplied[t] THEN Unknown ELSE held[c][v]
  BY <1>1
<1>6. ASSUME NEW v \in Units, NEW c \in CachesOf(v), Declared(v)
      PROVE  /\ ServedBy(v) = t => generationOf(c, v)' > generationOf(c, v)
             /\ ServedBy(v) # t => generationOf(c, v)' = generationOf(c, v)
  <2>1. c \in Caches
    BY <1>4, <1>6
  <2>2. /\ busGeneration'[c]
             = IF ForgetsBus(c) THEN busGeneration[c] + 1 ELSE busGeneration[c]
        /\ unitGenerations'[c][v] = IF <<c, v>> \in supplied[t]
                                    THEN unitGenerations[c][v] + 1 ELSE unitGenerations[c][v]
    BY <1>1, <2>1
  <2>3. busGeneration[c] \in Nat /\ unitGenerations[c][v] \in Nat
    BY <1>3, <2>1 DEF Typed
  <2>4. ServedBy(v) = t <=> ForgetsBus(c) \/ <<c, v>> \in supplied[t]
    BY <1>4, <1>6
  <2> HIDE DEF ForgetsBus
  <2> QED
    BY <2>2, <2>3, <2>4 DEF generationOf
<1> HIDE DEF ForgetsBus
<1>7. Typed'
  <2>1. flight' \in [Units -> [Tables -> Flights \cup {Idle}]]
    BY <1>1, <1>3, DoubtType
  <2>2. held' \in [Caches -> [Units -> Nat \cup {Unknown}]]
    BY <1>1, <1>3 DEF Typed
  <2>3. unitGenerations' \in [Caches -> [Units -> Nat]] /\ busGeneration' \in [Caches -> Nat]
    BY <1>1, <1>3 DEF Typed
  <2>4. notices' \in [Transports -> Nat]
    BY <1>1, <1>3 DEF Typed
  <2> QED
    BY <1>1, <1>3, <2>1, <2>2, <2>3, <2>4 DEF Typed, links
<1>8. Wired' /\ OwnUnits'
  BY <1>1, <1>2, WiringSame
<1>9. ASSUME NEW v \in Units, NEW x \in Tables, flight'[v][x] # Idle
      PROVE  /\ flight[v][x] # Idle /\ Declared(v) /\ CacheOf(v, x) \in CachesOf(v)
             /\ flight'[v][x].generation = flight[v][x].generation
             /\ flight'[v][x].losses = flight[v][x].losses
             /\ flight'[v][x].doubtful <=> flight[v][x].doubtful \/ ServedBy(v) = t
  <2>1. flight[v][x] # Idle
    BY <1>1, <1>3, <1>9, DoubtFacts
  <2>2. Declared(v) /\ CacheOf(v, x) \in CachesOf(v)
    BY <2>1 DEF CachesInv, FlightsCounted, CachesOf
  <2>3. v \in UnitsOn(t) <=> ServedBy(v) = t
    BY <2>2 DEF UnitsOn
  <2>4. /\ flight'[v][x].generation = flight[v][x].generation
        /\ flight'[v][x].losses = flight[v][x].losses
    BY <1>1, <1>3, <2>1, DoubtFacts
  <2>5. Doubt(UnitsOn(t))[v][x].doubtful <=> flight[v][x].doubtful \/ v \in UnitsOn(t)
    BY <1>3, <2>1, DoubtFacts, Zenon
  <2> QED
    BY <1>1, <2>1, <2>2, <2>3, <2>4, <2>5, Zenon
<1>10. FlightsCounted'
  <2>1. ASSUME NEW v \in Units, NEW x \in Tables, flight'[v][x] # Idle
        PROVE  /\ Declared(v)' /\ CacheOf(v, x)' # NoCache
               /\ flight'[v][x].generation <= generationOf(CacheOf(v, x), v)'
               /\ flight'[v][x].doubtful
                     <=> flight'[v][x].generation # generationOf(CacheOf(v, x), v)'
    <3>0. PICK d \in CachesOf(v) : d = CacheOf(v, x)
      BY <1>9, <2>1
    <3>1. /\ d # NoCache
          /\ flight[v][x].generation <= generationOf(d, v)
          /\ flight[v][x].doubtful <=> flight[v][x].generation # generationOf(d, v)
          /\ flight[v][x].generation \in Nat
      BY <1>3, <1>9, <2>1, <3>0 DEF CachesInv, Typed, Flights, FlightsCounted
    <3>2. Declared(v) /\ d \in Caches
      BY <1>4, <1>9, <2>1
    <3>3. generationOf(d, v) \in Nat /\ generationOf(d, v)' \in Nat
      BY <1>3, <1>7, <3>2 DEF Typed, generationOf
    <3>4. (Declared(v)' <=> Declared(v)) /\ CacheOf(v, x)' = d
      BY <1>1, <3>0, SameClients
    <3>5. /\ ServedBy(v) = t => generationOf(d, v)' > generationOf(d, v)
          /\ ServedBy(v) # t => generationOf(d, v)' = generationOf(d, v)
      BY <1>6, <3>2
    <3> QED
      BY <1>9, <2>1, <3>1, <3>2, <3>3, <3>4, <3>5
  <2> QED
    BY <2>1 DEF FlightsCounted
<1>11. FlightsCurrent'
  <2>1. ASSUME NEW v \in Units, NEW x \in Tables, flight'[v][x] # Idle,
               ~flight'[v][x].doubtful, scope[ServedBy(v)] = "open"
        PROVE  \/ flight'[v][x].losses = losses[ServedBy(v)]
               \/ notices'[ServedBy(v)] > 0
    <3>1. flight[v][x] # Idle /\ ~flight[v][x].doubtful /\ ServedBy(v) # t
      BY <1>9, <2>1
    <3>2. Current(v, flight[v][x].losses)
      BY <2>1, <3>1 DEF CachesInv, FlightsCurrent
    <3>3. notices'[ServedBy(v)] = notices[ServedBy(v)]
      BY <1>1, <1>3, <1>9, <2>1, <3>1, ClientType DEF Typed
    <3> QED
      BY <1>9, <2>1, <3>2, <3>3 DEF Current
  <2> QED
    BY <1>1, <1>2, <2>1, SameClients DEF FlightsCurrent, Current
<1>12. ASSUME NEW c \in Caches, NEW v \in Units
       PROVE  held'[c][v] # Unknown <=> held[c][v] # Unknown /\ v \notin UnitsOn(t)
  <2>1. held[c][v] # Unknown => Declared(v) /\ c \in CachesOf(v)
    BY DEF CachesInv, BeliefsPlaced
  <2>2. held[c][v] # Unknown =>
           (ServedBy(v) = t <=> ForgetsBus(c) \/ <<c, v>> \in supplied[t])
    BY <1>4, <2>1
  <2>3. held[c][v] # Unknown => (v \in UnitsOn(t) <=> ServedBy(v) = t)
    BY <2>1 DEF UnitsOn
  <2> QED
    BY <1>5, <2>2, <2>3
<1>13. \A c \in Caches, v \in Units : held'[c][v] # Unknown => held'[c][v] = held[c][v]
  BY <1>5
<1>14. BeliefsPlaced'
  BY <1>1, <1>12, SameClients DEF CachesInv, BeliefsPlaced
<1>15. BeliefsAreCurrent'
  <2>1. ASSUME NEW c \in Caches, NEW v \in Units
        PROVE  held'[c][v] # Unknown <=> <<c, v>> \in believed'
    <3>1. <<c, v>> \in believed' <=> <<c, v>> \in believed /\ v \notin UnitsOn(t)
      BY <1>1
    <3>2. held[c][v] # Unknown <=> <<c, v>> \in believed
      BY DEF CachesInv, BeliefsAreCurrent
    <3> QED
      BY <1>12, <3>1, <3>2
  <2>2. ASSUME NEW c \in Caches, NEW v \in Units, held'[c][v] # Unknown,
               scope[ServedBy(v)] = "open"
        PROVE  held'[c][v] = losses[ServedBy(v)] \/ notices'[ServedBy(v)] > 0
    <3>1. held[c][v] # Unknown /\ v \notin UnitsOn(t) /\ held'[c][v] = held[c][v]
      BY <1>12, <1>13, <2>2
    <3>2. Current(v, held[c][v]) /\ Declared(v)
      BY <2>2, <3>1 DEF CachesInv, BeliefsAreCurrent, BeliefsPlaced, Current
    <3>3. ServedBy(v) # t
      BY <3>1, <3>2 DEF UnitsOn
    <3>4. notices'[ServedBy(v)] = notices[ServedBy(v)]
      BY <1>1, <1>3, <3>2, <3>3, ClientType DEF Typed
    <3> QED
      BY <3>1, <3>2, <3>4 DEF Current
  <2> QED
    BY <1>1, <1>2, <2>1, <2>2, SameClients DEF BeliefsAreCurrent
<1> QED
  BY <1>7, <1>8, <1>10, <1>11, <1>14, <1>15 DEF CachesInv

\* A closed scope asks nothing of the units it served.
LEMMA CloseInv ==
    ASSUME ConstantsFit, CachesInv, NEW t \in Transports, Close(t)
    PROVE  CachesInv'
<1>1. /\ scope' = [scope EXCEPT ![t] = "closed"]
      /\ watchingLink' = [watchingLink EXCEPT ![t] = FALSE]
      /\ notices' = [notices EXCEPT ![t] = 0]
      /\ UNCHANGED <<link, losses, shared, supplied, clients, caches>>
  BY DEF Close
<1>2. PICK interrupted \in SUBSET UnitsOn(t) :
         flight' = [u \in Units |-> IF u \in interrupted
                                    THEN [table \in Tables |-> Idle] ELSE flight[u]]
  BY DEF Close
<1>3. Typed
  BY DEF CachesInv
<1>4. \A v \in Units, x \in Tables : flight'[v][x] # Idle => flight'[v][x] = flight[v][x]
  BY <1>2
<1>5. Typed'
  <2>1. flight' \in [Units -> [Tables -> Flights \cup {Idle}]]
    BY <1>2, <1>3 DEF Typed
  <2>2. /\ scope' \in [Transports -> {"open", "closed"}]
        /\ watchingLink' \in [Transports -> BOOLEAN]
        /\ notices' \in [Transports -> Nat]
    BY <1>1, <1>3 DEF Typed
  <2> QED
    BY <1>1, <1>3, <2>1, <2>2 DEF Typed, caches
<1>6. \A s \in Transports : scope'[s] = "open" =>
         scope[s] = "open" /\ watchingLink'[s] = watchingLink[s] /\ notices'[s] = notices[s]
  BY <1>1, <1>3 DEF Typed
<1>7. Wired'
  BY <1>1, <1>3, <1>6, ClientType, SameClients DEF CachesInv, Wired, Known
<1>8. OwnUnits' /\ BeliefsPlaced'
  BY <1>1, SameClients DEF CachesInv, OwnUnits, BeliefsPlaced, caches
<1>9. FlightsCounted'
  BY <1>1, <1>4, SameClients DEF CachesInv, FlightsCounted, generationOf, caches
<1>10. FlightsCurrent'
  <2>1. ASSUME NEW v \in Units, NEW x \in Tables, flight'[v][x] # Idle,
               ~flight'[v][x].doubtful, scope'[ServedBy(v)] = "open"
        PROVE  \/ flight'[v][x].losses = losses[ServedBy(v)]
               \/ notices'[ServedBy(v)] > 0
    <3>1. flight[v][x] # Idle /\ flight'[v][x] = flight[v][x]
      BY <1>4, <2>1
    <3>2. ServedBy(v) \in Transports
      BY <1>3, <3>1, ClientType DEF CachesInv, FlightsCounted
    <3> QED
      BY <1>6, <2>1, <3>1, <3>2 DEF CachesInv, FlightsCurrent, Current
  <2> QED
    BY <1>1, <2>1, SameClients DEF FlightsCurrent, Current
<1>11. BeliefsAreCurrent'
  <2>1. ASSUME NEW c \in Caches, NEW v \in Units, held[c][v] # Unknown,
               scope'[ServedBy(v)] = "open"
        PROVE  held[c][v] = losses[ServedBy(v)] \/ notices'[ServedBy(v)] > 0
    <3>1. ServedBy(v) \in Transports
      BY <1>3, <2>1, ClientType DEF CachesInv, BeliefsPlaced
    <3> QED
      BY <1>6, <2>1, <3>1 DEF CachesInv, BeliefsAreCurrent
  <2> QED
    BY <1>1, <2>1, SameClients DEF CachesInv, BeliefsAreCurrent, caches
<1> QED
  BY <1>5, <1>7, <1>8, <1>9, <1>10, <1>11 DEF CachesInv

LEMMA StepInv ==
    ASSUME ConstantsFit, CachesInv, [Next]_vars
    PROVE  CachesInv'
<1>1. ASSUME NEW u \in Units, NEW declared \in Declarations[u], Declare(u, declared)
      PROVE  CachesInv'
  BY <1>1, DeclareInv
<1>2. ASSUME NEW u \in Units, NEW table \in Tables, IssueWrite(u, table)
      PROVE  CachesInv'
  BY <1>2, IssueWriteInv
<1>3. ASSUME NEW u \in Units, NEW table \in Tables, Acknowledge(u, table)
      PROVE  CachesInv'
  BY <1>3, AcknowledgeInv
<1>4. ASSUME NEW u \in Units, NEW table \in Tables, WriteFails(u, table)
      PROVE  CachesInv'
  BY <1>4, WriteFailsInv
<1>5. ASSUME NEW t \in Transports, LinkLost(t)
      PROVE  CachesInv'
  BY <1>5, LinkLostInv
<1>6. ASSUME NEW t \in Transports, LinkRestored(t)
      PROVE  CachesInv'
  BY <1>6, LinkRestoredInv
<1>7. ASSUME NEW t \in Transports, watchLink(t)
      PROVE  CachesInv'
  BY <1>7, WatchLinkInv
<1>8. ASSUME NEW t \in Transports, Close(t)
      PROVE  CachesInv'
  BY <1>8, CloseInv
<1>9. CASE UNCHANGED vars
  <2>1. UNCHANGED <<links, registry, caches, flight>>
    BY <1>9 DEF vars
  <2>2. Typed'
    BY <2>1 DEF CachesInv, Typed, links, registry, caches
  <2>3. Wired' /\ OwnUnits' /\ FlightsCounted' /\ FlightsCurrent'
    <3>1. Wired' /\ OwnUnits'
      BY <2>1, WiringSame DEF links, registry
    <3>2. FlightsCounted' /\ FlightsCurrent'
      BY <2>1, SameClients DEF CachesInv, FlightsCounted, FlightsCurrent, Current,
         generationOf, links, registry, caches
    <3> QED
      BY <3>1, <3>2
  <2>4. BeliefsPlaced' /\ BeliefsAreCurrent'
    BY <2>1, SameClients DEF CachesInv, BeliefsPlaced, BeliefsAreCurrent,
       links, registry, caches
  <2> QED
    BY <2>2, <2>3, <2>4 DEF CachesInv
<1> QED
  BY <1>1, <1>2, <1>3, <1>4, <1>5, <1>6, <1>7, <1>8, <1>9 DEF Next

-----------------------------------------------------------------------------
(* The caches: the theorem.                                                *)

\* Whatever the units share, supply or keep to themselves, a cache believes what was
\* written since the link was last lost or the watcher has a loss to see
\* (batching-client.ts, watchLink and the generations of register-cache.ts), and
\* neither a failed write of another unit nor the loss of another link takes one of its
\* beliefs away.
THEOREM BeliefsStayCurrent == Spec => []BeliefsAreCurrent
<1>1. Init => CachesInv
  BY ConstantsAssumption, InitInv
<1>2. CachesInv /\ [Next]_vars => CachesInv'
  BY ConstantsAssumption, StepInv
<1>3. CachesInv => BeliefsAreCurrent
  BY DEF CachesInv
<1> QED
  BY <1>1, <1>2, <1>3, PTL DEF Spec

-----------------------------------------------------------------------------
(* The services: one behaviour holds the four parts.                       *)

servicesVars == <<part, vars, mockVars, serverVars, serialVars>>

\* A step belongs to one of the four, and leaves the others alone.
LEMMA ServicesSteps ==
    ASSUME [ServicesNext]_servicesVars
    PROVE  /\ [Mock!Next]_mockVars
           /\ [Server!Next]_serverVars
           /\ [Serial!Next]_serialVars
BY DEF ServicesNext, servicesVars

-----------------------------------------------------------------------------
(* The mock: the calls.                                                    *)

TryingCall(call) ==
    /\ DOMAIN call = {"phase", "unit", "op", "policy", "inner", "round", "attempts"}
    /\ call.phase = "trying"

\* A call that runs is one of a unit that there is, and within the budget of each of
\* its two policies.
Running(c, call, units, outer) ==
    /\ call.unit \in units
    /\ call.op \in Operations[c]
    /\ IsPolicy(call.policy)
    /\ call.inner \in Nat \ {0} /\ call.inner <= Mock!Budget(call.policy)
    /\ call.round \in Nat \ {0} /\ call.round <= Mock!Budget(outer)
    /\ call.attempts \in Nat

\* The attempts that the rounds before allowed, and those of this one.
WithinRounds(call) ==
    call.attempts
        <= (call.round - 1) * Mock!Budget(call.policy) + call.inner
             - (IF call.phase = "trying" THEN 1 ELSE 0)

CallOK(c, call, units, outer) ==
    call.phase = "idle" \/
    /\ call.phase = "reporting" \/ TryingCall(call)
    /\ Running(c, call, units, outer)
    /\ WithinRounds(call)

CallsInv ==
    /\ options \in TransportOptions
    /\ DOMAIN calls = Callers
    /\ \A c \in Callers : CallOK(c, calls[c], DOMAIN devices, options.outer)

LEMMA BudgetIs ==
    ASSUME NEW policy, IsPolicy(policy)
    PROVE  Mock!Budget(policy) \in Nat /\ Mock!Budget(policy) >= 1
BY DEF IsPolicy, Mock!Budget

\* A retry is within the budget of its policy.
LEMMA RetriesWithin ==
    ASSUME NEW policy, IsPolicy(policy), NEW error, NEW attempt \in Nat,
           Mock!Retries(policy, error, attempt)
    PROVE  attempt + 1 <= Mock!Budget(policy)
BY DEF Mock!Retries, Mock!Continues, IsPolicy, Mock!Budget

LEMMA StartOK ==
    ASSUME CallsInv, NEW c \in Callers, NEW unit \in DOMAIN devices,
           NEW op \in Operations[c], NEW retry \in ClientPolicies
    PROVE  CallOK(c, Mock!Trying(unit, op, Mock!OrDefault(retry, options.retry), 1, 1, 0),
                  DOMAIN devices, options.outer)
<1>1. IsPolicy(Mock!OrDefault(retry, options.retry)) /\ IsPolicy(options.outer)
  BY PolicyAssumption DEF CallsInv, Mock!OrDefault
<1> QED
  BY <1>1, BudgetIs DEF CallOK, TryingCall, Running, WithinRounds, Mock!Trying

LEMMA AttemptedOK ==
    ASSUME NEW c \in Callers, NEW call, NEW units, NEW outer, CallOK(c, call, units, outer),
           call.phase = "trying", NEW outcome
    PROVE  CallOK(c, Mock!Attempted(call, outcome), units, outer)
<1>1. Mock!Budget(call.policy) \in Nat
  BY BudgetIs DEF CallOK, Running
<1>2. (call.round - 1) * Mock!Budget(call.policy) \in Int
  BY <1>1 DEF CallOK, Running
<1> QED
  BY <1>1, <1>2 DEF CallOK, TryingCall, Running, WithinRounds, Mock!Attempted

\* A retry stays within the budget that its policy has, and what that is within all.
LEMMA RetryOK ==
    ASSUME CallsInv, NEW c \in Callers, NEW call, NEW units,
           CallOK(c, call, units, options.outer), call.phase = "reporting"
    PROVE  CallOK(c, Mock!Retry(call), units, options.outer)
<1> DEFINE b == Mock!Budget(call.policy)
<1>1. IsPolicy(call.policy) /\ IsPolicy(options.outer)
  BY PolicyAssumption DEF CallOK, Running, CallsInv, TryingCall
<1>2. b \in Nat /\ b >= 1
  BY <1>1, BudgetIs
<1>3. Running(c, call, units, options.outer) /\ WithinRounds(call)
  BY DEF CallOK, TryingCall
<1>4. call.attempts <= (call.round - 1) * b + call.inner
  <2>1. (call.round - 1) * b \in Int /\ call.attempts \in Nat /\ call.inner \in Nat
    BY <1>2, <1>3 DEF Running
  <2>2. call.attempts <= (call.round - 1) * b + call.inner - 0
    BY <1>3 DEF WithinRounds
  <2> QED
    BY <2>1, <2>2
<1>5. CASE Mock!Retries(call.policy, call.error, call.inner)
  <2>1. call.inner + 1 <= b
    BY <1>1, <1>3, <1>5, RetriesWithin DEF Running
  <2>2. (call.round - 1) * b \in Int
    BY <1>2, <1>3 DEF Running
  <2>3. call.attempts <= (call.round - 1) * b + (call.inner + 1) - 1
    BY <1>3, <1>4, <2>2 DEF Running
  <2>4. Mock!Retry(call) = Mock!Again(call, call.inner + 1, call.round)
    BY <1>5 DEF Mock!Retry
  <2> HIDE DEF b
  <2> QED
    BY <1>3, <2>1, <2>3, <2>4
    DEF CallOK, TryingCall, Running, WithinRounds, Mock!Again, Mock!Trying, b
<1>6. CASE /\ ~Mock!Retries(call.policy, call.error, call.inner)
           /\ Mock!Retries(options.outer, call.error, call.round)
  <2>1. call.round + 1 <= Mock!Budget(options.outer)
    BY <1>1, <1>3, <1>6, RetriesWithin DEF Running
  <2>2. call.inner <= b /\ call.inner \in Nat /\ call.round \in Nat /\ call.attempts \in Nat
    BY <1>3 DEF Running
  <2>3. (call.round - 1) * b + b = ((call.round + 1) - 1) * b
    BY <1>2, <2>2
  <2>4. (call.round - 1) * b \in Int
    BY <1>2, <2>2
  <2>5. call.attempts <= ((call.round + 1) - 1) * b + 1 - 1
    BY <1>2, <1>4, <2>2, <2>3, <2>4
  <2>6. Mock!Retry(call) = Mock!Again(call, 1, call.round + 1)
    BY <1>6 DEF Mock!Retry
  <2> HIDE DEF b
  <2> QED
    BY <1>2, <1>3, <2>1, <2>2, <2>5, <2>6
    DEF CallOK, TryingCall, Running, WithinRounds, Mock!Again, Mock!Trying, b
<1>7. CASE /\ ~Mock!Retries(call.policy, call.error, call.inner)
           /\ ~Mock!Retries(options.outer, call.error, call.round)
  BY <1>7 DEF Mock!Retry, Mock!Ends, CallOK
<1> QED
  BY <1>5, <1>6, <1>7

-----------------------------------------------------------------------------
(* The mock: the devices.                                                  *)

DeviceOK(d) ==
    /\ d = [name \in Mock!TableNames |-> d[name]]
    /\ \A name \in Mock!TableNames :
          d[name] = [map |-> d[name].map, maxAddress |-> d[name].maxAddress]

DevicesInv ==
    /\ devices = [u \in DOMAIN devices |-> devices[u]]
    /\ \A u \in DOMAIN devices : DeviceOK(devices[u])

\* The device after what was stored differs in one table, at the addresses stored.
LEMMA StoredIs ==
    ASSUME NEW d, DeviceOK(d), NEW table \in Mock!TableNames, NEW address \in Nat,
           NEW values, Len(values) \in Nat
    PROVE  LET stored == Mock!Stored(d, table, address, values)
           IN  /\ DeviceOK(stored)
               /\ \A name \in Mock!TableNames \ {table} : stored[name] = d[name]
               /\ \A a \in DOMAIN stored[table].map :
                     a \notin address..(address + Len(values) - 1) =>
                        /\ a \in DOMAIN d[table].map
                        /\ stored[table].map[a] = d[table].map[a]
<1> DEFINE covered == address..(address + Len(values) - 1)
           map == [a \in covered \cup DOMAIN d[table].map |->
                     IF a \in covered THEN values[a - address + 1] ELSE d[table].map[a]]
           stored == Mock!Stored(d, table, address, values)
<1>1. stored = [d EXCEPT ![table].map = map]
  BY DEF Mock!Stored
<1> HIDE DEF stored, map
<1>2. \A name \in Mock!TableNames \ {table} : stored[name] = d[name]
  BY <1>1 DEF DeviceOK
<1>3. stored[table] = [map |-> map, maxAddress |-> d[table].maxAddress]
  BY <1>1 DEF DeviceOK
<1>4. DeviceOK(stored)
  <2>1. stored = [name \in Mock!TableNames |-> stored[name]]
    BY <1>1 DEF DeviceOK
  <2> QED
    BY <1>2, <1>3, <2>1 DEF DeviceOK
<1>5. \A a \in DOMAIN map : a \notin covered =>
          a \in DOMAIN d[table].map /\ map[a] = d[table].map[a]
  BY DEF map
<1> QED
  BY <1>2, <1>3, <1>4, <1>5 DEF stored

\* The addresses of values in a row.
Within(address, values) == {address + i - 1 : i \in DOMAIN values}

\* A write to one table changes that table, within what it covers.
LEMMA StoredReads ==
    ASSUME NEW d, DeviceOK(d), NEW table \in Mock!TableNames, NEW address \in Nat,
           NEW values, Len(values) \in Nat, DOMAIN values = 1..Len(values)
    PROVE  LET stored == Mock!Stored(d, table, address, values)
           IN  \A name \in Mock!TableNames : \A a \in DOMAIN stored[name].map :
                  Mock!Reading(stored, name, a) # Mock!Reading(d, name, a) =>
                     /\ name = table
                     /\ a \in Within(address, values)
<1> DEFINE stored == Mock!Stored(d, table, address, values)
<1> SUFFICES ASSUME NEW name \in Mock!TableNames, NEW a \in DOMAIN stored[name].map,
                    Mock!Reading(stored, name, a) # Mock!Reading(d, name, a)
             PROVE  name = table /\ a \in Within(address, values)
  OBVIOUS
<1>1. /\ \A n \in Mock!TableNames \ {table} : stored[n] = d[n]
      /\ \A b \in DOMAIN stored[table].map :
            b \notin address..(address + Len(values) - 1) =>
               b \in DOMAIN d[table].map /\ stored[table].map[b] = d[table].map[b]
  BY StoredIs
<1> HIDE DEF stored
<1>2. name = table
  BY <1>1 DEF Mock!Reading
<1>3. a \in address..(address + Len(values) - 1)
  BY <1>1, <1>2 DEF Mock!Reading
<1>4. a - address + 1 \in 1..Len(values) /\ a = address + (a - address + 1) - 1
  BY <1>3
<1> QED
  BY <1>2, <1>4 DEF Within

\* What can be written is a sequence, to a table that there is.
LEMMA WritableIs ==
    ASSUME NEW table, NEW values, CanWrite(table, values)
    PROVE  /\ table \in Mock!TableNames
           /\ Len(values) \in Nat /\ DOMAIN values = 1..Len(values)
BY LenProperties DEF CanWrite, Mock!TableNames

Unharmed(d, outcome, op) ==
    \A name \in Mock!TableNames : \A a \in DOMAIN outcome.device[name].map :
        Mock!Reading(outcome.device, name, a) # Mock!Reading(d, name, a) =>
            outcome.error = Mock!None /\ name = op.table /\ a \in Mock!Covered(op)

Answered(outcome, op) ==
    outcome.error = Mock!None /\ op.kind \in {"read", "readWrite"} =>
        outcome.answer = Mock!Values(outcome.device, op.table, op.address, op.quantity)

Whole(d, outcome, op) ==
    DeviceOK(outcome.device) /\ Unharmed(d, outcome, op) /\ Answered(outcome, op)

LEMMA RefusedIsWhole ==
    ASSUME NEW d, DeviceOK(d), NEW op, NEW error, error # Mock!None
    PROVE  Whole(d, Mock!Refuses(d, error), op)
BY DEF Whole, Unharmed, Answered, Mock!Refuses

LEMMA PerformedIsWhole ==
    ASSUME NEW d, DeviceOK(d), NEW c \in Callers, NEW op \in Operations[c]
    PROVE  Whole(d, Mock!perform(d, op), op)
<1>1. Mock!InvalidArgument # Mock!None
  BY DEF Mock!InvalidArgument, Mock!None, Mock!Error
<1>2. Whole(d, Mock!Refuses(d, Mock!InvalidArgument), op)
  BY <1>1, RefusedIsWhole
<1>3. CASE op.kind = "read"
  <2>1. Mock!perform(d, op) = Mock!read(d, op)
    BY <1>3 DEF Mock!perform
  <2>2. Whole(d, Mock!Answers(d, Mock!Values(d, op.table, op.address, op.quantity)), op)
    BY DEF Whole, Unharmed, Answered, Mock!Answers
  <2> QED
    BY <1>2, <2>1, <2>2 DEF Mock!read
<1>4. CASE op.kind = "write"
  <2>1. Mock!perform(d, op) = Mock!write(d, op)
    BY <1>4 DEF Mock!perform
  <2>2. op.address \in Nat /\ CanWrite(op.table, op.values)
    BY <1>4, OperationAssumption
  <2> DEFINE stored == Mock!Stored(d, op.table, op.address, op.values)
  <2>3. op.table \in Mock!TableNames /\ Len(op.values) \in Nat
          /\ DOMAIN op.values = 1..Len(op.values)
    BY <2>2, WritableIs
  <2>4. DeviceOK(stored)
    BY <2>2, <2>3, StoredIs
  <2>5. \A name \in Mock!TableNames : \A a \in DOMAIN stored[name].map :
            Mock!Reading(stored, name, a) # Mock!Reading(d, name, a) =>
               name = op.table /\ a \in Within(op.address, op.values)
    BY <2>2, <2>3, StoredReads
  <2>6. Mock!Covered(op) = Within(op.address, op.values)
    BY <1>4 DEF Mock!Covered, Within
  <2> HIDE DEF stored
  <2>7. Whole(d, Mock!Answers(stored, <<>>), op)
    BY <1>4, <2>4, <2>5, <2>6 DEF Whole, Unharmed, Answered, Mock!Answers
  <2> QED
    BY <1>2, <2>1, <2>7 DEF Mock!write, stored
<1>5. CASE op.kind = "readWrite"
  <2>1. Mock!perform(d, op) = Mock!readWriteMultipleRegisters(d, op)
    BY <1>5 DEF Mock!perform
  <2>2. /\ op.table = "holdingRegisters" /\ op.writeAddress \in Nat
        /\ CanWrite(op.table, op.values)
    BY <1>5, OperationAssumption
  <2> DEFINE stored == Mock!Stored(d, "holdingRegisters", op.writeAddress, op.values)
  <2>3. op.table \in Mock!TableNames /\ Len(op.values) \in Nat
          /\ DOMAIN op.values = 1..Len(op.values)
    BY <2>2, WritableIs
  <2>4. DeviceOK(stored)
    BY <2>2, <2>3, StoredIs
  <2>5. \A name \in Mock!TableNames : \A a \in DOMAIN stored[name].map :
            Mock!Reading(stored, name, a) # Mock!Reading(d, name, a) =>
               name = op.table /\ a \in Within(op.writeAddress, op.values)
    BY <2>2, <2>3, StoredReads
  <2>6. Mock!Covered(op) = Within(op.writeAddress, op.values)
    BY <1>5 DEF Mock!Covered, Within
  <2> HIDE DEF stored
  <2>7. Whole(d, Mock!Answers(stored, Mock!Values(stored, "holdingRegisters",
                                                  op.address, op.quantity)), op)
    BY <2>2, <2>4, <2>5, <2>6 DEF Whole, Unharmed, Answered, Mock!Answers
  <2> QED
    BY <1>2, <2>1, <2>7 DEF Mock!readWriteMultipleRegisters, stored
<1>6. CASE op.kind = "diagnostic"
  BY <1>6 DEF Mock!perform, Whole, Unharmed, Answered, Mock!Answers
<1>7. CASE op.kind = "unsupported"
  BY <1>2, <1>7 DEF Mock!perform
<1> QED
  BY <1>3, <1>4, <1>5, <1>6, <1>7, OperationAssumption

-----------------------------------------------------------------------------
(* The mock: the steps.                                                    *)

MockInv == CallsInv /\ DevicesInv

LEMMA MockInit == Mock!Init => MockInv
<1> SUFFICES ASSUME Mock!Init PROVE MockInv
  OBVIOUS
<1>1. CallsInv
  BY DEF Mock!Init, CallsInv, CallOK, Mock!Ends
<1>2. \A entries : Mock!buildTable(entries) =
          [map |-> Mock!buildTable(entries).map,
           maxAddress |-> Mock!buildTable(entries).maxAddress]
  BY DEF Mock!buildTable
<1>3. \A definition : DeviceOK(Mock!deviceState(definition))
  <2> TAKE definition
  <2> DEFINE d == Mock!deviceState(definition)
  <2>1. d = [name \in Mock!TableNames |-> d[name]]
    BY DEF Mock!deviceState, Mock!TableNames
  <2>2. \A name \in Mock!TableNames : \E entries : d[name] = Mock!buildTable(entries)
    BY DEF Mock!deviceState, Mock!TableNames
  <2> HIDE DEF d
  <2>3. DeviceOK(d)
    BY <1>2, <2>1, <2>2 DEF DeviceOK
  <2> QED
    BY <2>3 DEF d
<1>4. DevicesInv
  BY <1>3 DEF Mock!Init, Mock!deviceStates, DevicesInv
<1> QED
  BY <1>1, <1>4 DEF MockInv

\* The callers but c stay as they are, and c does well.
LEMMA OneCall ==
    ASSUME CallsInv, NEW c \in Callers, NEW call,
           calls' = [calls EXCEPT ![c] = call],
           UNCHANGED options, DOMAIN devices' = DOMAIN devices,
           CallOK(c, call, DOMAIN devices, options.outer)
    PROVE  CallsInv'
BY DEF CallsInv

\* What an attempt of caller c does to the device of its unit, and tells of it.
LEMMA AttemptIs ==
    ASSUME MockInv, NEW c \in Callers, NEW fault, Mock!Attempt(c, fault)
    PROVE  LET call == calls[c]
               refused == Mock!guard(call, fault)
           IN  \E outcome :
                  /\ outcome = IF refused # Mock!None
                               THEN Mock!Refuses(devices[call.unit], refused)
                               ELSE Mock!perform(devices[call.unit], call.op)
                  /\ Whole(devices[call.unit], outcome, call.op)
                  /\ devices' = [devices EXCEPT ![call.unit] = outcome.device]
                  /\ calls' = [calls EXCEPT ![c] = Mock!Attempted(call, outcome)]
                  /\ UNCHANGED options
                  /\ CallOK(c, call, DOMAIN devices, options.outer)
                  /\ call.phase = "trying"
                  /\ call.unit \in DOMAIN devices
<1> DEFINE call == calls[c]
           refused == Mock!guard(call, fault)
           outcome == IF refused # Mock!None
                      THEN Mock!Refuses(devices[call.unit], refused)
                      ELSE Mock!perform(devices[call.unit], call.op)
<1>1. /\ call.phase = "trying"
      /\ devices' = [devices EXCEPT ![call.unit] = outcome.device]
      /\ calls' = [calls EXCEPT ![c] = Mock!Attempted(call, outcome)]
      /\ UNCHANGED options
  BY DEF Mock!Attempt
<1> HIDE DEF call, refused
<1>2. CallOK(c, call, DOMAIN devices, options.outer)
  BY DEF MockInv, CallsInv, call
<1>3. call.unit \in DOMAIN devices /\ call.op \in Operations[c]
  BY <1>1, <1>2 DEF CallOK, Running
<1>4. DeviceOK(devices[call.unit])
  BY <1>3 DEF MockInv, DevicesInv
<1>5. Whole(devices[call.unit], outcome, call.op)
  BY <1>3, <1>4, RefusedIsWhole, PerformedIsWhole
<1> QED
  BY <1>1, <1>2, <1>3, <1>5 DEF call, refused

LEMMA MockFrame ==
    ASSUME \/ Mock!Oversee \/ Mock!CloseScope \/ Mock!CloseTransport
           \/ \E fault \in Mock!HookReturns : Mock!Reconnect(fault)
    PROVE  UNCHANGED <<options, devices, calls>>
BY DEF Mock!Oversee, Mock!Supervise, Mock!Probe, Mock!CloseScope, Mock!CloseTransport,
       Mock!Reconnect

LEMMA MockParts ==
    ASSUME [Mock!Next]_mockVars
    PROVE  \/ \E c \in Callers :
                 \/ \E unit \in UnitIds, op \in Operations[c], retry \in ClientPolicies :
                       Mock!Call(c, unit, op, retry)
                 \/ \E fault \in Mock!HookReturns : Mock!Attempt(c, fault)
                 \/ Mock!Report(c)
                 \/ Mock!Interrupt(c)
           \/ UNCHANGED <<options, devices, calls>>
<1>1. CASE Mock!Next
  BY <1>1, MockFrame DEF Mock!Next, Mock!Serve
<1>2. CASE UNCHANGED mockVars
  BY <1>2 DEF mockVars
<1> QED
  BY <1>1, <1>2

LEMMA MockStep ==
    ASSUME MockInv, [Mock!Next]_mockVars
    PROVE  MockInv'
<1> USE DEF MockInv
<1>1. ASSUME UNCHANGED <<options, devices, calls>> PROVE MockInv'
  BY <1>1 DEF CallsInv, DevicesInv
<1>2. ASSUME NEW c \in Callers, NEW call, calls' = [calls EXCEPT ![c] = call],
             UNCHANGED <<options, devices>>,
             CallOK(c, call, DOMAIN devices, options.outer)
      PROVE  MockInv'
  <2>1. CallsInv'
    BY <1>2, OneCall
  <2>2. DevicesInv'
    BY <1>2 DEF DevicesInv
  <2> QED
    BY <2>1, <2>2
<1>3. \A c \in Callers : \A error : CallOK(c, Mock!Ends(error), DOMAIN devices, options.outer)
  BY DEF CallOK, Mock!Ends
<1>4. ASSUME NEW c \in Callers, NEW unit \in UnitIds, NEW op \in Operations[c],
             NEW retry \in ClientPolicies, Mock!Call(c, unit, op, retry)
      PROVE  MockInv'
  <2>1. UNCHANGED <<options, devices>>
    BY <1>4 DEF Mock!Call
  <2>2. PICK call : /\ calls' = [calls EXCEPT ![c] = call]
                    /\ CallOK(c, call, DOMAIN devices, options.outer)
    <3>1. CASE closed
      BY <1>3, <1>4, <3>1 DEF Mock!Call
    <3>2. CASE ~closed /\ unit \notin DOMAIN devices
      BY <1>3, <1>4, <3>2 DEF Mock!Call
    <3>3. CASE ~closed /\ unit \in DOMAIN devices
      BY <1>4, <3>3, StartOK DEF Mock!Call
    <3> QED
      BY <3>1, <3>2, <3>3
  <2> QED
    BY <1>2, <2>1, <2>2
<1>5. ASSUME NEW c \in Callers, NEW fault, Mock!Attempt(c, fault)
      PROVE  MockInv'
  <2> DEFINE call == calls[c]
  <2>1. PICK outcome :
            /\ Whole(devices[call.unit], outcome, call.op)
            /\ devices' = [devices EXCEPT ![call.unit] = outcome.device]
            /\ calls' = [calls EXCEPT ![c] = Mock!Attempted(call, outcome)]
            /\ UNCHANGED options
            /\ CallOK(c, call, DOMAIN devices, options.outer)
            /\ call.phase = "trying"
            /\ call.unit \in DOMAIN devices
    BY <1>5, AttemptIs
  <2> HIDE DEF call
  <2>2. DevicesInv'
    BY <2>1 DEF DevicesInv, Whole
  <2>3. CallOK(c, Mock!Attempted(call, outcome), DOMAIN devices, options.outer)
    BY <2>1, AttemptedOK
  <2>4. DOMAIN devices' = DOMAIN devices
    BY <2>1
  <2>5. CallsInv'
    BY <2>1, <2>3, <2>4, OneCall
  <2> QED
    BY <2>2, <2>5
<1>6. ASSUME NEW c \in Callers, Mock!Report(c) PROVE MockInv'
  <2>1. UNCHANGED <<options, devices>> /\ calls[c].phase = "reporting"
    BY <1>6 DEF Mock!Report
  <2>2. CallOK(c, Mock!Retry(calls[c]), DOMAIN devices, options.outer)
    BY <2>1, RetryOK DEF CallsInv
  <2>3. \/ calls' = [calls EXCEPT ![c] = Mock!Ends(Mock!None)]
        \/ calls' = [calls EXCEPT ![c] = Mock!Retry(calls[c])]
    BY <1>6 DEF Mock!Report
  <2> QED
    BY <1>2, <1>3, <2>1, <2>2, <2>3
<1>7. ASSUME NEW c \in Callers, Mock!Interrupt(c) PROVE MockInv'
  BY <1>2, <1>3, <1>7 DEF Mock!Interrupt
<1> QED
  BY <1>1, <1>4, <1>5, <1>6, <1>7, MockParts

LEMMA MockInvariant == ServicesSpec => []MockInv
<1>1. ServicesInit => MockInv
  BY MockInit DEF ServicesInit
<1>2. MockInv /\ [ServicesNext]_servicesVars => MockInv'
  BY MockStep, ServicesSteps
<1> QED
  BY <1>1, <1>2, PTL DEF ServicesSpec, servicesVars

\* AttemptsAreBounded: createRetryPolicy (retry.ts) shares one budget among the kinds
\* of error, and the budgets of a client and of a retryModbus around its call multiply.
THEOREM AttemptsStayBounded == ServicesSpec => []AttemptsAreBounded
<1>1. MockInv => AttemptsAreBounded
  <2> SUFFICES ASSUME MockInv, NEW c \in Callers, calls[c].phase = "reporting"
               PROVE  calls[c].attempts
                        <= Mock!Budget(calls[c].policy) * Mock!Budget(options.outer)
    BY DEF AttemptsAreBounded, Mock!AttemptsAreBounded
  <2> DEFINE call == calls[c]
             b == Mock!Budget(call.policy)
             o == Mock!Budget(options.outer)
  <2>1. /\ Running(c, call, DOMAIN devices, options.outer)
        /\ WithinRounds(call)
        /\ IsPolicy(options.outer)
    BY PolicyAssumption DEF MockInv, CallsInv, CallOK
  <2>2. b \in Nat /\ o \in Nat
    BY <2>1, BudgetIs DEF Running
  <2>3. /\ call.round \in Nat \ {0} /\ call.inner \in Nat /\ call.attempts \in Nat
        /\ call.round <= o /\ call.inner <= b
    BY <2>1 DEF Running
  <2>4. call.attempts <= (call.round - 1) * b + call.inner - 0
    BY <2>1 DEF WithinRounds
  <2> HIDE DEF b, o, call
  <2>5. (call.round - 1) * b + b = call.round * b /\ (call.round - 1) * b \in Int
    BY <2>2, <2>3
  <2>6. call.round * b <= b * o
    <3>1. PICK k \in Nat : o = call.round + k
      <4>1. o - call.round \in Nat /\ o = call.round + (o - call.round)
        BY <2>2, <2>3
      <4> QED
        BY <4>1
    <3>2. b * o = call.round * b + k * b /\ k * b \in Nat /\ call.round * b \in Int
      BY <2>2, <2>3, <3>1
    <3> QED
      BY <3>2
  <2>7. call.attempts <= b * o
    <3>1. call.round * b \in Int /\ b * o \in Int
      BY <2>2, <2>3
    <3> QED
      BY <2>2, <2>3, <2>4, <2>5, <2>6, <3>1
  <2> QED
    BY <2>7 DEF b, o, call
<1> QED
  BY <1>1, MockInvariant, PTL

\* A call gets from trying to reporting by an attempt of its own.
LEMMA ReachedByAttempt ==
    ASSUME MockInv, [Mock!Next]_mockVars, NEW c \in Callers, Mock!Reached(c)
    PROVE  \E fault \in Mock!HookReturns : Mock!Attempt(c, fault)
<1>1. DOMAIN calls = Callers
  BY DEF MockInv, CallsInv
<1>2. calls[c].phase = "trying" /\ calls'[c].phase = "reporting"
  BY DEF Mock!Reached
<1>3. CASE UNCHANGED calls
  BY <1>2, <1>3
<1>4. ASSUME NEW d \in Callers, d # c, NEW call, calls' = [calls EXCEPT ![d] = call]
      PROVE  FALSE
  BY <1>1, <1>2, <1>4
<1>5. ASSUME NEW d \in Callers, NEW unit \in UnitIds, NEW op \in Operations[d],
             NEW retry \in ClientPolicies, Mock!Call(d, unit, op, retry)
      PROVE  FALSE
  <2>1. calls[d].phase = "idle" /\ \E call : calls' = [calls EXCEPT ![d] = call]
    BY <1>5 DEF Mock!Call
  <2> QED
    BY <1>2, <1>4, <2>1
<1>6. ASSUME NEW d \in Callers, d # c, NEW fault, Mock!Attempt(d, fault) PROVE FALSE
  <2>1. \E call : calls' = [calls EXCEPT ![d] = call]
    BY <1>6 DEF Mock!Attempt
  <2> QED
    BY <1>4, <1>6, <2>1
<1>7. ASSUME NEW d \in Callers, Mock!Report(d) PROVE FALSE
  <2>1. calls[d].phase = "reporting" /\ \E call : calls' = [calls EXCEPT ![d] = call]
    BY <1>7 DEF Mock!Report
  <2> QED
    BY <1>2, <1>4, <2>1
<1>8. ASSUME NEW d \in Callers, Mock!Interrupt(d) PROVE FALSE
  <2>1. calls' = [calls EXCEPT ![d] = Mock!Ends(Mock!None)]
    BY <1>8 DEF Mock!Interrupt
  <2>2. d = c
    BY <1>4, <2>1
  <2>3. calls'[c] = Mock!Ends(Mock!None)
    BY <1>1, <2>1, <2>2
  <2> QED
    BY <1>2, <2>3 DEF Mock!Ends
<1> QED
  BY <1>3, <1>5, <1>6, <1>7, <1>8, MockParts

\* OperationsAreWhole: readWriteMultipleRegisters (mocks.ts) checks both of its ranges
\* before it writes, and a refused operation changes no table.
THEOREM OperationsStayWhole == ServicesSpec => OperationsAreWhole
<1> DEFINE Done(c) ==
        LET op == calls[c].op
            unit == calls[c].unit
            succeeds == calls'[c].error = Mock!None
        IN  /\ \A u \in DOMAIN devices, t \in Mock!TableNames :
                 \A a \in DOMAIN devices'[u][t].map :
                     Mock!Reading(devices'[u], t, a) # Mock!Reading(devices[u], t, a)
                     => succeeds /\ u = unit /\ a \in Mock!Covered(op) /\ t = op.table
            /\ succeeds /\ op.kind \in {"read", "readWrite"} =>
                 calls'[c].answer
                     = Mock!Values(devices'[unit], op.table, op.address, op.quantity)
<1>1. ASSUME MockInv, [ServicesNext]_servicesVars, NEW c \in Callers, Mock!Reached(c)
      PROVE  Done(c)
  <2>1. PICK fault : Mock!Attempt(c, fault)
    BY <1>1, ReachedByAttempt, ServicesSteps
  <2> DEFINE call == calls[c]
  <2>2. PICK outcome :
            /\ Whole(devices[call.unit], outcome, call.op)
            /\ devices' = [devices EXCEPT ![call.unit] = outcome.device]
            /\ calls' = [calls EXCEPT ![c] = Mock!Attempted(call, outcome)]
            /\ call.unit \in DOMAIN devices
    BY <1>1, <2>1, AttemptIs
  <2>3. calls'[c] = Mock!Attempted(call, outcome)
    BY <1>1, <2>2 DEF MockInv, CallsInv
  <2>4. calls'[c].error = outcome.error /\ calls'[c].answer = outcome.answer
    BY <2>3 DEF Mock!Attempted
  <2>5. /\ devices'[call.unit] = outcome.device
        /\ \A u \in DOMAIN devices : u # call.unit => devices'[u] = devices[u]
    BY <2>2
  <2> HIDE DEF call
  <2>6. ASSUME NEW u \in DOMAIN devices, NEW t \in Mock!TableNames,
               NEW a \in DOMAIN devices'[u][t].map,
               Mock!Reading(devices'[u], t, a) # Mock!Reading(devices[u], t, a)
        PROVE  /\ calls'[c].error = Mock!None /\ u = call.unit
               /\ a \in Mock!Covered(call.op) /\ t = call.op.table
    <3>1. u = call.unit
      BY <2>5, <2>6
    <3> QED
      BY <2>2, <2>4, <2>5, <2>6, <3>1 DEF Whole, Unharmed
  <2>7. calls'[c].error = Mock!None /\ call.op.kind \in {"read", "readWrite"} =>
            calls'[c].answer =
                Mock!Values(devices'[call.unit], call.op.table, call.op.address,
                            call.op.quantity)
    BY <2>2, <2>4, <2>5 DEF Whole, Answered
  <2> QED
    BY <2>6, <2>7 DEF call
<1> HIDE DEF Done
<1>2. ASSUME MockInv, [ServicesNext]_servicesVars
      PROVE  \A c \in Callers : Mock!Reached(c) => Done(c)
  BY <1>1, <1>2
<1> QED
  BY <1>2, MockInvariant, PTL
  DEF Done, ServicesSpec, servicesVars, OperationsAreWhole, Mock!OperationsAreWhole, Mock!vars

-----------------------------------------------------------------------------
(* The server layers.                                                      *)

Shutdown == <<"shutdown">>
LoopFirst == <<"loop", "shutdown">>
Loop == <<"loop">>

\* A bound server has its shutdown among the finalizers of the scope, or a layer that
\* was interrupted before it could add one; and it is gone when only the loop is left.
ServerInv ==
    /\ kind \in {Shutdown, LoopFirst}
    /\ finalizers \in {<<>>, Shutdown, LoopFirst, Loop}
    /\ layer = "building" => serverScope = "open"
    /\ server = "binding" =>
          layer \in {"building", "interrupted"} /\ finalizers = <<>> /\ loop = "none"
    /\ server = "bound" => layer = "interrupted" \/ finalizers \in {Shutdown, LoopFirst}
    /\ finalizers = Loop => server = "shutDown"
    /\ loop = "interrupted" => server = "shutDown"
    /\ serverScope = "closed" => finalizers = <<>>

\* The finalizers that are left after the newest one.
LEMMA NewestFirst ==
    /\ Shutdown[Len(Shutdown)] = "shutdown" /\ Server!Front(Shutdown) = <<>>
    /\ LoopFirst[Len(LoopFirst)] = "shutdown" /\ Server!Front(LoopFirst) = Loop
    /\ Loop[Len(Loop)] = "loop" /\ Server!Front(Loop) = <<>>
    /\ Shutdown # <<>> /\ LoopFirst # <<>> /\ Loop # <<>>
    /\ Loop # Shutdown /\ Loop # LoopFirst
<1> USE DEF Shutdown, LoopFirst, Loop
<1>1. Len(Shutdown) = 1 /\ Len(LoopFirst) = 2 /\ Len(Loop) = 1
  OBVIOUS
<1>2. Server!Front(Shutdown) = <<>> /\ Server!Front(Loop) = <<>>
  BY <1>1 DEF Server!Front
<1>3. Server!Front(LoopFirst) = Loop
  <2>1. Server!Front(LoopFirst) = SubSeq(LoopFirst, 1, 1)
    BY <1>1 DEF Server!Front
  <2>2. SubSeq(LoopFirst, 1, 1) = [i \in 1..1 |-> LoopFirst[i]]
    OBVIOUS
  <2>3. Loop = [i \in 1..1 |-> Loop[i]] /\ \A i \in 1..1 : Loop[i] = LoopFirst[i]
    OBVIOUS
  <2> QED
    BY <2>1, <2>2, <2>3
<1>4. Shutdown[1] = "shutdown" /\ LoopFirst[2] = "shutdown" /\ Loop[1] = "loop"
  OBVIOUS
<1>5. Shutdown # <<>> /\ LoopFirst # <<>> /\ Loop # <<>> /\ Loop # Shutdown
  OBVIOUS
<1>6. Loop # LoopFirst
  BY <1>1
<1> QED
  BY <1>1, <1>2, <1>3, <1>4, <1>5, <1>6

LEMMA ServerInit == Server!Init => ServerInv
<1>1. \A k \in Server!Layers : k \in {Shutdown, LoopFirst}
  BY DEF Server!Layers, Server!tcpServerLayer, Server!serialRtuServerLayer,
         Server!serialAsciiServerLayer, Server!tcpGatewayLayer, Server!wasmWsServerLayer,
         Server!wasmSerialRtuServerLayer, Server!wasmSerialAsciiServerLayer,
         Shutdown, LoopFirst
<1> QED
  BY <1>1, NewestFirst DEF Server!Init, ServerInv

LEMMA ServerStep ==
    ASSUME ServerInv, [Server!Next]_serverVars
    PROVE  ServerInv'
<1> USE NewestFirst DEF ServerInv
<1>1. CASE Server!BindSucceeds
  BY <1>1 DEF Server!BindSucceeds
<1>2. CASE Server!BindFails
  BY <1>2 DEF Server!BindFails
<1>3. CASE Server!Interrupt
  BY <1>3 DEF Server!Interrupt
<1>4. CASE Server!LoopEnds
  BY <1>4 DEF Server!LoopEnds
<1>5. CASE Server!Close
  BY <1>5 DEF Server!Close
<1>6. CASE Server!Finalize
  <2>1. CASE finalizers \in {Shutdown, LoopFirst}
    BY <1>6, <2>1 DEF Server!Finalize
  <2>2. CASE finalizers = Loop
    BY <1>6, <2>2 DEF Server!Finalize
  <2> QED
    BY <1>6, <2>1, <2>2 DEF Server!Finalize
<1>7. CASE Server!Closed
  BY <1>7 DEF Server!Closed
<1>8. CASE UNCHANGED serverVars
  BY <1>8 DEF serverVars
<1> QED
  BY <1>1, <1>2, <1>3, <1>4, <1>5, <1>6, <1>7, <1>8 DEF Server!Next

-----------------------------------------------------------------------------
(* The path of a serial port.                                              *)

\* An alias is a link to the configured path in a directory whose path is short enough.
SerialInv ==
    /\ DOMAIN target = Directories
    /\ existing \subseteq made /\ made \subseteq Directories
    /\ directory = Absent => made = {}
    /\ finalized = "alias" => existing \subseteq (made \ {directory}) \cup late
    /\ alias # Absent =>
          alias \in Directories /\ target[alias] = Serial!Configured /\ ~longTemporary
    /\ opening = "linking" => ~longTemporary

LEMMA SerialInit == Serial!Init => SerialInv
BY DEF Serial!Init, SerialInv

LEMMA SerialStep ==
    ASSUME SerialInv, [Serial!Next]_serialVars
    PROVE  SerialInv'
<1> USE DirectoryAssumption DEF SerialInv, Serial!limits, Serial!disk
<1>1. CASE Serial!Open
  BY <1>1 DEF Serial!Open, Serial!NativeOpen
<1>2. CASE Serial!Resolve
  BY <1>2 DEF Serial!Resolve
<1>3. CASE Serial!Symlink
  BY <1>3 DEF Serial!Symlink, Serial!AliasTarget
<1>4. CASE Serial!SymlinkFails
  BY <1>4 DEF Serial!SymlinkFails
<1>5. CASE Serial!Replug
  BY <1>5 DEF Serial!Replug
<1>6. CASE Serial!CloseTransport
  BY <1>6 DEF Serial!CloseTransport
<1>7. CASE Serial!RemoveAlias
  BY <1>7 DEF Serial!RemoveAlias, Serial!Removed
<1>8. ASSUME NEW d \in Directories, Serial!MakeDirectory(d) PROVE SerialInv'
  BY <1>8 DEF Serial!MakeDirectory
<1>9. CASE UNCHANGED serialVars
  BY <1>9 DEF serialVars
<1> QED
  BY <1>1, <1>2, <1>3, <1>4, <1>5, <1>6, <1>7, <1>8, <1>9 DEF Serial!Next

-----------------------------------------------------------------------------
(* Both.                                                                   *)

LEMMA ScopesInvariant == ServicesSpec => [](ServerInv /\ SerialInv)
<1>1. ServicesInit => ServerInv /\ SerialInv
  BY ServerInit, SerialInit DEF ServicesInit
<1>2. ServerInv /\ SerialInv /\ [ServicesNext]_servicesVars => (ServerInv /\ SerialInv)'
  BY ServicesSteps, ServerStep, SerialStep
<1> QED
  BY <1>1, <1>2, PTL DEF ServicesSpec, servicesVars

\* ScopesReleaseWhatTheyHold: a closed scope has shut down the server that its layer
\* bound (TcpModbusServerService.ts and the others), before the request loop ends, unless
\* the build was interrupted while the bind was pending; and it has removed the alias
\* directory that it knows (serial-port-path.ts), which is neither one that was made after
\* the close nor one that a later open replaced.
THEOREM ScopesReleaseAll == ServicesSpec => []ScopesReleaseWhatTheyHold
<1>1. ServerInv => Server!BoundServersAreShutDown
  BY NewestFirst DEF ServerInv, Server!BoundServersAreShutDown
<1>2. SerialInv => Serial!OnlyReplacedDirectoriesStay
  BY DEF SerialInv, Serial!OnlyReplacedDirectoriesStay
<1> QED
  BY <1>1, <1>2, ScopesInvariant, PTL DEF ScopesReleaseWhatTheyHold

\* OpensFollowTheLink: whatever device an alias was made for (serial-port-path.ts), an
\* open through it reaches the device that the configured link names now, and no path
\* that is opened is longer than the native limit.
THEOREM OpensReachTheLink == ServicesSpec => OpensFollowTheLink
<1> DEFINE Follows ==
        (Serial!Open \/ Serial!Symlink) /\ opening' = "none" =>
            /\ opened'.device = device
            /\ opened'.path = Serial!Configured => ~longLink
            /\ opened'.path # Serial!Configured => ~longTemporary
<1>1. ASSUME SerialInv, Serial!Open, opening' = "none" PROVE Follows
  <2>1. CASE ~longLink
    BY <1>1, <2>1 DEF Serial!Open, Serial!NativeOpen, Serial!Device
  <2>2. CASE longLink
    <3>1. alias # Absent /\ opened' = [path |-> alias, device |-> Serial!Device(alias)]
      BY <1>1, <2>2 DEF Serial!Open, Serial!NativeOpen
    <3>2. Serial!Device(alias) = device /\ alias # Serial!Configured /\ ~longTemporary
      BY <1>1, <3>1, DirectoryAssumption DEF SerialInv, Serial!Device
    <3> QED
      BY <3>1, <3>2
  <2> QED
    BY <2>1, <2>2
<1>2. ASSUME SerialInv, Serial!Symlink PROVE Follows
  <2>1. opened'.path = directory /\ opened'.device = device
    BY <1>2 DEF Serial!Symlink, Serial!AliasTarget
  <2>2. directory # Serial!Configured /\ ~longTemporary
    BY <1>2, DirectoryAssumption DEF SerialInv, Serial!Symlink
  <2> QED
    BY <2>1, <2>2
<1>3. ServerInv /\ SerialInv => Follows
  BY <1>1, <1>2
<1> HIDE DEF Follows
<1> QED
  BY <1>3, ScopesInvariant, PTL
  DEF Follows, OpensFollowTheLink, Serial!OpensFollowTheLink, Serial!vars, ServicesSpec

=============================================================================

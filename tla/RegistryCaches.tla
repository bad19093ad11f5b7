---------------------------- MODULE RegistryCaches ----------------------------
(***************************************************************************)
(* The write caches of the units of several transports: the caches that a  *)
(* transport shares between its units, the caches that a caller supplies   *)
(* to several of them, the generations that tell an acknowledgement that   *)
(* it is too late, and the watcher of each link.                           *)
(*                                                                         *)
(* src/src/batching-client.ts (createBatchingRegistry) and                 *)
(* src/src/register-cache.ts (createEncodedCache).  A unit has one address *)
(* in each table, and what a cache holds of it is the number of losses of  *)
(* the link that came before the write: which value it was does not matter *)
(* here.  BatchingClient has the batches of one unit.                      *)
(***************************************************************************)
EXTENDS Naturals, FiniteSets

CONSTANTS
    Transports, Units,
    Declarations,       \* unit |-> the transports and the `cache` options, by table,
                        \* that it may be declared with
    MaxLosses,          \* bound: how often each link is lost
    MaxGeneration,      \* bound: failed writes of each unit
    MaxFlights,         \* bound: writes on the wire at once
    Undeclared, Idle, Unknown

Tables == {"registers", "coils"}

\* A cache is its table and its owner: a transport, or the caller that supplies it.
Shared(table, t) == <<table, t>>
Supplied(table) == <<table, "supplied">>
NoCache == <<"none", "none">>
Caches == {Shared(table, t) : table \in Tables, t \in Transports}
              \cup {Supplied(table) : table \in Tables}

Clients == [on : Transports, cache : [Tables -> Caches \cup {NoCache}]]
Flights == [generation : Nat, losses : Nat, doubtful : BOOLEAN]

\* Values that stand for nothing are none of the values they stand beside, and a
\* declaration names a transport and one of the four ways to cache each table.
ConstantsFit ==
    /\ Unknown \notin Nat /\ Undeclared \notin Clients /\ Idle \notin Flights
    /\ "supplied" \notin Transports /\ "none" \notin Transports
    /\ \A u \in Units : \A options \in Declarations[u] :
          /\ options.on \in Transports
          /\ \A table \in Tables : options[table] \in {"shared", "supplied", "none", "off"}

ASSUME ConstantsAssumption == ConstantsFit

VARIABLES
    link,               \* of each transport: "Connected" or "Lost"
    losses,             \* history: how often each link was lost
    scope,              \* clientScope: "open" or "closed"
    watchingLink,
    notices,            \* states other than Connected that the watcher has not seen
    shared,             \* the transports that have their shared caches
    supplied,           \* the pairs of a supplied cache and a unit, by transport
    clients,            \* of each declared unit: its transport and its caches by table
    held,               \* cache |-> unit |-> the loss count of its belief, or Unknown
    unitGenerations, busGeneration,
    flight,             \* the write of a unit that is on the wire, by table
    believed            \* history: the pairs of cache and unit with a belief that
                        \* nothing has put in doubt

links == <<link, losses, scope>>
registry == <<watchingLink, notices, shared, supplied, clients>>
caches == <<held, unitGenerations, busGeneration, believed>>
vars == <<links, registry, caches, flight>>

Init ==
    /\ link = [t \in Transports |-> "Connected"]
    /\ losses = [t \in Transports |-> 0]
    /\ scope = [t \in Transports |-> "open"]
    /\ watchingLink = [t \in Transports |-> FALSE]
    /\ notices = [t \in Transports |-> 0]
    /\ shared = {}
    /\ supplied = [t \in Transports |-> {}]
    /\ clients = [u \in Units |-> Undeclared]
    /\ held = [c \in Caches |-> [u \in Units |-> Unknown]]
    /\ unitGenerations = [c \in Caches |-> [u \in Units |-> 0]]
    /\ busGeneration = [c \in Caches |-> 0]
    /\ flight = [u \in Units |-> [table \in Tables |-> Idle]]
    /\ believed = {}

Declared(u) == clients[u] # Undeclared
ServedBy(u) == clients[u].on
UnitsOn(t) == {u \in Units : Declared(u) /\ ServedBy(u) = t}
CacheOf(u, table) == clients[u].cache[table]
CachesOf(u) == {CacheOf(u, table) : table \in Tables} \ {NoCache}
Larger(m, n) == IF m > n THEN m ELSE n

\* Mutant: one count does for both kinds of invalidation.
generationOf_Larger(c, u) == Larger(unitGenerations[c][u], busGeneration[c])

\* Counted per unit and for the whole bus.
generationOf(c, u) == unitGenerations[c][u] + busGeneration[c]

-----------------------------------------------------------------------------
(* Declarations.                                                           *)

\* The cache that an option names; "off" is a unit that does not batch coils.
Resolved(table, t, option) ==
    CASE option = "shared" -> Shared(table, t)
      [] option = "supplied" -> Supplied(table)
      [] option \in {"none", "off"} -> NoCache

\* The build of a declaration, once its raw client is there.  The first cache of a
\* transport starts the watcher, which begins with the state the link is in.
Declare(u, options) ==
    LET t == options.on
        caching == [table \in Tables |-> Resolved(table, t, options[table])]
        watched == {caching[table] : table \in Tables} \ {NoCache}
    IN  /\ scope[t] = "open"
        /\ ~Declared(u)
        /\ clients' = [clients EXCEPT ![u] = [on |-> t, cache |-> caching]]
        /\ shared' = IF \E table \in Tables : options[table] = "shared"
                     THEN shared \cup {t} ELSE shared
        /\ supplied' = [supplied EXCEPT ![t] =
                          @ \cup {<<Supplied(table), u>> : table \in
                                    {x \in Tables : options[x] = "supplied"}}]
        /\ watchingLink' = [watchingLink EXCEPT ![t] = @ \/ watched # {}]
        /\ notices' = [notices EXCEPT ![t] =
                         IF ~watchingLink[t] /\ watched # {} /\ link[t] = "Lost" THEN 1 ELSE @]
        /\ UNCHANGED <<links, caches, flight>>

-----------------------------------------------------------------------------
(* Writes.                                                                 *)

\* A batch goes out: its client has read the generation of its cache.
IssueWrite(u, table) ==
    /\ Declared(u) /\ CacheOf(u, table) # NoCache
    /\ scope[ServedBy(u)] = "open"
    /\ flight[u][table] = Idle
    /\ Cardinality({x \in Units \X Tables : flight[x[1]][x[2]] # Idle}) < MaxFlights
    /\ flight' = [flight EXCEPT ![u][table] =
                    [generation |-> generationOf(CacheOf(u, table), u),
                     losses |-> losses[ServedBy(u)], doubtful |-> FALSE]]
    /\ UNCHANGED <<links, registry, caches>>

\* The acknowledgement: observe() records nothing after an invalidation.
Acknowledge(u, table) ==
    LET c == CacheOf(u, table)
        write == flight[u][table]
    IN  /\ write # Idle
        /\ held' = IF write.generation = generationOf(c, u)
                   THEN [held EXCEPT ![c][u] = write.losses] ELSE held
        /\ believed' = IF write.doubtful THEN believed ELSE believed \cup {<<c, u>>}
        /\ flight' = [flight EXCEPT ![u][table] = Idle]
        /\ UNCHANGED <<links, registry, unitGenerations, busGeneration>>

\* The writes of these units are in doubt, whatever their answer will be.
Doubt(units) ==
    [u \in Units |-> [table \in Tables |->
       IF u \in units /\ flight[u][table] # Idle
       THEN [flight[u][table] EXCEPT !.doubtful = TRUE] ELSE flight[u][table]]]

\* A failed write invalidates its unit in the caches of both tables.
WriteFails(u, table) ==
    /\ flight[u][table] # Idle
    /\ \A c \in CachesOf(u) : unitGenerations[c][u] < MaxGeneration
    /\ held' = [c \in Caches |-> IF c \in CachesOf(u)
                                 THEN [held[c] EXCEPT ![u] = Unknown] ELSE held[c]]
    /\ unitGenerations' = [c \in Caches |-> IF c \in CachesOf(u)
                             THEN [unitGenerations[c] EXCEPT ![u] = @ + 1]
                             ELSE unitGenerations[c]]
    /\ believed' = {b \in believed : b[2] # u}
    /\ flight' = [Doubt({u}) EXCEPT ![u][table] = Idle]
    /\ UNCHANGED <<links, registry, busGeneration>>

-----------------------------------------------------------------------------
(* The links.                                                              *)

LinkLost(t) ==
    /\ link[t] = "Connected"
    /\ losses[t] < MaxLosses[t]
    /\ link' = [link EXCEPT ![t] = "Lost"]
    /\ losses' = [losses EXCEPT ![t] = @ + 1]
    /\ notices' = [notices EXCEPT ![t] = IF watchingLink[t] THEN @ + 1 ELSE @]
    /\ UNCHANGED <<scope, watchingLink, shared, supplied, clients, caches, flight>>

LinkRestored(t) ==
    /\ link[t] = "Lost"
    /\ link' = [link EXCEPT ![t] = "Connected"]
    /\ UNCHANGED <<losses, scope, registry, caches, flight>>

\* The watcher sees a lost link: it forgets the shared caches whole, and of each
\* supplied one the units that are served here.
watchLink(t) ==
    LET ForgetsBus(c) == t \in shared /\ \E table \in Tables : c = Shared(table, t)
    IN  /\ notices[t] > 0
        /\ notices' = [notices EXCEPT ![t] = @ - 1]
        /\ held' = [c \in Caches |-> [u \in Units |->
                      IF ForgetsBus(c) \/ <<c, u>> \in supplied[t]
                      THEN Unknown ELSE held[c][u]]]
        /\ busGeneration' = [c \in Caches |->
                               IF ForgetsBus(c) THEN busGeneration[c] + 1 ELSE busGeneration[c]]
        /\ unitGenerations' = [c \in Caches |-> [u \in Units |->
                                 IF <<c, u>> \in supplied[t]
                                 THEN unitGenerations[c][u] + 1 ELSE unitGenerations[c][u]]]
        /\ believed' = {b \in believed : b[2] \notin UnitsOn(t)}
        /\ flight' = Doubt(UnitsOn(t))
        /\ UNCHANGED <<links, watchingLink, shared, supplied, clients>>

\* The scope of the clients closes: the watcher ends with what it has not seen, and so
\* does a write that a fiber of the scope carries.
Close(t) ==
    /\ scope[t] = "open"
    /\ scope' = [scope EXCEPT ![t] = "closed"]
    /\ watchingLink' = [watchingLink EXCEPT ![t] = FALSE]
    /\ notices' = [notices EXCEPT ![t] = 0]
    /\ \E interrupted \in SUBSET UnitsOn(t) :
          flight' = [u \in Units |-> IF u \in interrupted
                                     THEN [table \in Tables |-> Idle] ELSE flight[u]]
    /\ UNCHANGED <<link, losses, shared, supplied, clients, caches>>

Next ==
    \/ \E u \in Units :
        \/ \E options \in Declarations[u] : Declare(u, options)
        \/ \E table \in Tables :
              IssueWrite(u, table) \/ Acknowledge(u, table) \/ WriteFails(u, table)
    \/ \E t \in Transports : LinkLost(t) \/ LinkRestored(t) \/ watchLink(t) \/ Close(t)

Spec == Init /\ [][Next]_vars

-----------------------------------------------------------------------------
(* Properties.                                                             *)

\* A cache believes what was written since the link was last lost, except while the
\* watcher has a loss to see, and never again what a write that an invalidation
\* overtook has left.  It keeps every other belief: invalidating one unit, or the link
\* of one transport, costs the units beside it nothing that they know or have on the
\* wire.
BeliefsAreCurrent ==
    \A c \in Caches, u \in Units :
        /\ held[c][u] # Unknown /\ scope[ServedBy(u)] = "open" =>
              held[c][u] = losses[ServedBy(u)] \/ notices[ServedBy(u)] > 0
        /\ held[c][u] # Unknown <=> <<c, u>> \in believed

=============================================================================

------------------------ MODULE MCWriteDebouncerLive ------------------------
(* WriteDebouncer with a window and without one, for the runs that need    *)
(* fairness.  `window` is chosen once; the actions of the two instances    *)
(* never mix.                                                              *)
EXTENDS Naturals

CONSTANTS Calls, MaxGroup, FlushFullRuns, Limit, MaxQueue, Repeat, NoCall, NoEntry

VARIABLES held, batch, timer, openedAge, lastAge, queue, running, scope,
          status, remaining, group, forced, newest, device, window

MCAddresses == {1, 2, 4}
MCGroups == {<<1>>, <<1, 2>>}

Collected == INSTANCE WriteDebouncer
    WITH Addresses <- MCAddresses, Groups <- MCGroups, Window <- 1, MaxHold <- 2
Direct == INSTANCE WriteDebouncer
    WITH Addresses <- MCAddresses, Groups <- MCGroups, Window <- 0, MaxHold <- 0

vars == <<Collected!vars, window>>

Init ==
    /\ window \in {0, 1}
    /\ Collected!Init

\* The step of the instance that was chosen.
Chosen(collected, direct) ==
    /\ \/ window = 1 /\ collected
       \/ window = 0 /\ direct
    /\ UNCHANGED window

Next == Chosen(Collected!Next, Direct!Next)

\* WriteDebouncer!Fairness, for the instance that was chosen.
Fairness ==
    /\ WF_vars(Chosen(Collected!TimerFires, Direct!TimerFires))
    /\ SF_vars(Chosen(Collected!Tick, Direct!Tick))
    /\ WF_vars(Chosen(Collected!GrantFlushLock, Direct!GrantFlushLock))
    /\ WF_vars(Chosen(Collected!TakeBatch, Direct!TakeBatch))
    /\ WF_vars(Chosen(Collected!TakeDirect, Direct!TakeDirect))
    /\ WF_vars(Chosen(Collected!FlushSucceeds \/ Collected!FlushFails,
                   Direct!FlushSucceeds \/ Direct!FlushFails))
    /\ WF_vars(Chosen(Collected!CloseInterruptsTimer, Direct!CloseInterruptsTimer))
    /\ WF_vars(Chosen(Collected!CloseInterruptsWaiting, Direct!CloseInterruptsWaiting))
    /\ WF_vars(Chosen(Collected!Finalize, Direct!Finalize))

FairSpec == Init /\ [][Next]_vars /\ Fairness

\* Every call gets an answer, with a window and without one.
EveryCallSettles == Collected!EveryCallSettles
=============================================================================

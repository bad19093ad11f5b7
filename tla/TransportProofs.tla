-------------------------- MODULE TransportProofs --------------------------
(***************************************************************************)
(* What Transport guarantees for every set of callers, supervisors and     *)
(* handles, with and without a supervisor, on a serial line or not.        *)
(***************************************************************************)
EXTENDS Transport, FiniteSetTheorems, SequenceTheorems, TLAPS

-----------------------------------------------------------------------------
(* Types.                                                                  *)

\* What the lock does to its queue.
LEMMA QueueType ==
    ASSUME NEW F, NEW q \in Seq(F)
    PROVE  /\ \A f \in F : Append(q, f) \in Seq(F)
           /\ q # <<>> => Tail(q) \in Seq(F) /\ Head(q) \in F
           /\ \A i \in DOMAIN q : RemoveAt(q, i) \in Seq(F)
<1>1. \A f \in F : Append(q, f) \in Seq(F)
  BY AppendProperties
<1>2. q # <<>> => Tail(q) \in Seq(F) /\ Head(q) \in F
  BY HeadTailProperties
<1>3. ASSUME NEW i \in DOMAIN q PROVE RemoveAt(q, i) \in Seq(F)
  <2>1. i \in 1..Len(q) /\ Len(q) \in Nat
    BY LenProperties
  <2>2. SubSeq(q, 1, i - 1) \in Seq(F) /\ SubSeq(q, i + 1, Len(q)) \in Seq(F)
    BY <2>1
  <2> QED
    BY <2>2, ConcatProperties DEF RemoveAt
<1> QED
  BY <1>1, <1>2, <1>3

\* The end of a call, and a failure report, keep the types.
LEMMA EndsType ==
    ASSUME TypeOK, NEW c \in Callers, NEW answer \in Answers, Ends(c, answer)
    PROVE  /\ pc' \in [Callers -> Places]
           /\ target' \in [Callers -> Handles \cup {NoHandle}]
           /\ detached' \subseteq Callers /\ interrupted' \subseteq detached'
           /\ holder' \in Callers \cup {Free, Work}
<1>1. \A a \in {answer, "failed"} : a \in Places
  BY DEF Places, Answers
<1> QED
  BY <1>1 DEF TypeOK, Ends

LEMMA FailsType ==
    ASSUME TypeOK, NEW c \in Callers, Fails(c)
    PROVE  /\ pc' \in [Callers -> Places]
           /\ target' \in [Callers -> Handles \cup {NoHandle}]
           /\ detached' \subseteq Callers /\ interrupted' \subseteq detached'
           /\ holder' \in Callers \cup {Free, Work}
           /\ state' \in States
           /\ sup' \in [Supervisors -> SupervisorPlaces]
<1>1. "failed" \in Answers /\ Ends(c, "failed")
  BY DEF Fails, Answers
<1>2. PICK triggers \in BOOLEAN : report(c, triggers)
  BY DEF Fails
<1>3. /\ state' \in States
      /\ sup' \in [Supervisors -> SupervisorPlaces]
  <2>1. sup' = sup \/ \E s \in Supervisors : sup' = [sup EXCEPT ![s] = "attempts"]
    BY <1>2 DEF report, claimReconnect
  <2>2. "attempts" \in SupervisorPlaces
    BY DEF SupervisorPlaces
  <2>3. sup' \in [Supervisors -> SupervisorPlaces]
    BY <2>1, <2>2 DEF TypeOK
  <2> QED
    BY <1>2, <2>3 DEF report, claimReconnect, TypeOK, States
<1> QED
  BY <1>1, <1>3, EndsType

\* The waiters of shared work go on together.
LEMMA ResumeType ==
    ASSUME TypeOK, NEW waiters, NEW t \in Handles \cup {NoHandle},
           NEW at \in {"opened", "reconnected", "failed"}, Resume(waiters, at, t)
    PROVE  /\ pc' \in [Callers -> Places]
           /\ target' \in [Callers -> Handles \cup {NoHandle}]
<1>1. at \in Places
  BY DEF Places, Answers
<1> QED
  BY <1>1 DEF TypeOK, Resume

LEMMA GrantedType ==
    ASSUME TypeOK, NEW c \in Callers, Granted(c)
    PROVE  holder' \in Callers \cup {Free, Work} /\ queue' \in Seq(Callers \cup {Work})
BY QueueType DEF Granted, TypeOK, lock

LEMMA JoinType ==
    ASSUME TypeOK, JoinReconnect
    PROVE  reconnecting' \in Handles \cup {NoHandle} /\ queue' \in Seq(Callers \cup {Work})
<1>1. Append(queue, Work) \in Seq(Callers \cup {Work})
  BY QueueType DEF TypeOK
<1> QED
  BY <1>1 DEF JoinReconnect, TypeOK

LEMMA CallsType ==
    ASSUME TypeOK, NEW c \in Callers, NEW t \in Handles, Calls(c, t)
    PROVE  /\ client' \in Handles \cup {NoHandle} /\ wire' \subseteq Callers
           /\ pc' \in [Callers -> Places]
           /\ target' \in [Callers -> Handles \cup {NoHandle}]
<1>1. "calls" \in Places
  BY DEF Places
<1>2. client' \in Handles \cup {NoHandle}
  BY DEF Calls, TypeOK
<1>3. pc' \in [Callers -> Places]
  BY <1>1 DEF Calls, TypeOK
<1>4. target' \in [Callers -> Handles \cup {NoHandle}]
  BY <1>2 DEF Calls, TypeOK
<1> QED
  BY <1>2, <1>3, <1>4 DEF Calls, TypeOK

LEMMA CallerType == ASSUME TypeOK, NEW c \in Callers, CallerSteps(c) PROVE TypeOK'
<1>0. {"failed", "ok", "opens", "reconnects"} \subseteq Places
  BY DEF Places, Answers
<1>1. CASE Rejected(c)
  <2>1. queue' \in Seq(Callers \cup {Work}) /\ holder' = holder
    BY <1>1, QueueType DEF Rejected, TypeOK, lock
  <2>2. pc' \in [Callers -> Places]
    BY <1>0, <1>1 DEF Rejected, TypeOK
  <2> QED
    BY <1>1, <2>1, <2>2 DEF Rejected, TypeOK, handles, flights, lifecycle
<1>2. CASE Attempt(c)
  <2>1. transport \in Handles /\ Calls(c, transport) /\ Granted(c)
    BY <1>2 DEF Attempt, TypeOK
  <2> QED
    BY <1>2, <2>1, CallsType, GrantedType DEF Attempt, TypeOK, flights, lifecycle
<1>3. CASE GetClient(c)
  <2>1. queue' \in Seq(Callers \cup {Work}) /\ holder' = holder
    BY <1>3, QueueType DEF GetClient, TypeOK, lock
  <2>2. pc' \in [Callers -> Places]
    BY <1>0, <1>3 DEF GetClient, TypeOK
  <2>3. client' \in Handles \cup {NoHandle}
    BY <1>3 DEF GetClient, TypeOK
  <2> QED
    BY <1>3, <2>1, <2>2, <2>3 DEF GetClient, TypeOK, flights, lifecycle
<1>4. CASE EnsureOpen(c)
  <2>1. pc' \in [Callers -> Places]
    BY <1>0, <1>4 DEF EnsureOpen, TypeOK
  <2>2. Granted(c) /\ detached' \subseteq Callers /\ detached \subseteq detached'
    BY <1>4 DEF EnsureOpen, TypeOK
  <2> QED
    BY <1>4, <2>1, <2>2, GrantedType DEF EnsureOpen, TypeOK, handles, lifecycle
<1>5. CASE Reconnect(c)
  <2>1. pc' \in [Callers -> Places]
    BY <1>0, <1>5 DEF Reconnect, TypeOK
  <2>2. JoinReconnect
    BY <1>5 DEF Reconnect
  <2> QED
    BY <1>5, <2>1, <2>2, JoinType DEF Reconnect, TypeOK, handles, lifecycle
<1>6. CASE OpenFailed(c)
  BY <1>6, FailsType DEF OpenFailed, TypeOK, handles, flights, lifecycle
<1>7. CASE Opened(c)
  <2>1. CASE kind[c] = "operation"
    <3>1. target[c] \in Handles /\ Calls(c, target[c])
      BY <1>7, <2>1 DEF Opened, TypeOK
    <3> QED
      BY <1>7, <2>1, <3>1, CallsType DEF Opened, TypeOK, flights, lifecycle
  <2>2. CASE kind[c] # "operation"
    <3>1. Ends(c, "ok") /\ "ok" \in Answers
      BY <1>7, <2>2 DEF Opened, Answers
    <3> QED
      BY <1>7, <2>2, <3>1, EndsType DEF Opened, TypeOK, flights, lifecycle
  <2> QED
    BY <2>1, <2>2
<1>8. CASE Reconnected(c)
  <2>1. PICK answer \in {"ok", "failed"} : Ends(c, answer) /\ state' \in {state, "Connected"}
    BY <1>8 DEF Reconnected
  <2>2. answer \in Answers
    BY DEF Answers
  <2> QED
    BY <1>8, <2>1, <2>2, EndsType DEF Reconnected, TypeOK, handles, flights, lifecycle, States
<1> QED
  BY <1>1, <1>2, <1>3, <1>4, <1>5, <1>6, <1>7, <1>8 DEF CallerSteps

LEMMA CallType ==
    ASSUME TypeOK, NEW c \in Callers,
           \/ Begin(c) \/ ConnectTimesOut(c) \/ CallReturns(c) \/ CallFails(c)
           \/ Interrupt(c) \/ InterruptDetached(c)
    PROVE  TypeOK'
<1>0. {"ok", "failed"} \subseteq Answers
  BY DEF Answers
<1>1. CASE Begin(c)
  <2>1. \A k \in Kinds : k \in AllKinds
    BY OptionAssumption
  <2>2. "starts" \in Places
    BY DEF Places
  <2>3. pc' \in [Callers -> Places] /\ kind' \in [Callers -> AllKinds]
    BY <1>1, <2>1, <2>2 DEF Begin, TypeOK
  <2>4. queue' \in Seq(Callers \cup {Work})
    BY <1>1, QueueType DEF Begin, TypeOK
  <2> QED
    BY <1>1, <2>3, <2>4 DEF Begin, TypeOK, handles, flights, lifecycle
<1>2. CASE ConnectTimesOut(c)
  BY <1>2, FailsType DEF ConnectTimesOut, TypeOK, handles, flights, lifecycle
<1>3. CASE CallReturns(c)
  <2>1. CASE pc[c] # "calls"
    BY <1>3, <2>1 DEF CallReturns, TypeOK, handles, flights, lifecycle
  <2>2. CASE pc[c] = "calls"
    BY <1>0, <1>3, <2>2, EndsType
    DEF CallReturns, TypeOK, handles, flights, lifecycle, States
  <2> QED
    BY <2>1, <2>2
<1>4. CASE CallFails(c)
  BY <1>4, FailsType DEF CallFails, TypeOK, handles, flights, lifecycle
<1>5. CASE Interrupt(c)
  <2>1. queue' \in Seq(Callers \cup {Work})
    BY <1>5, QueueType DEF Interrupt, TypeOK
  <2> QED
    BY <1>0, <1>5, <2>1, EndsType DEF Interrupt, TypeOK, handles, flights, lifecycle
<1>6. CASE InterruptDetached(c)
  BY <1>6 DEF InterruptDetached, TypeOK, States, flights, lock
<1> QED
  BY <1>1, <1>2, <1>3, <1>4, <1>5, <1>6

LEMMA SupervisorType == ASSUME TypeOK, NEW s \in Supervisors, SupervisorSteps(s) PROVE TypeOK'
<1>1. /\ sup' \in [Supervisors -> SupervisorPlaces]
      /\ UNCHANGED <<handles, opening, lifecycle, calls, holder>>
  <2>1. PICK at \in SupervisorPlaces : sup' = [sup EXCEPT ![s] = at]
    BY DEF SupervisorSteps, SupervisorAttempts, SupervisorTimesOut, SupervisorSucceeds,
           SupervisorFails, SupervisorRetries, SupervisorProbes, SupervisorPlaces
  <2>2. sup' \in [Supervisors -> SupervisorPlaces]
    BY <2>1 DEF TypeOK
  <2> QED
    BY <2>2 DEF SupervisorSteps, SupervisorAttempts, SupervisorTimesOut, SupervisorSucceeds,
           SupervisorFails, SupervisorRetries, SupervisorProbes, flights, lock
<1>2. state' \in States
  BY DEF SupervisorSteps, SupervisorAttempts, SupervisorTimesOut, SupervisorSucceeds,
         SupervisorFails, SupervisorRetries, SupervisorProbes, States, TypeOK
<1>3. reconnecting' \in Handles \cup {NoHandle} /\ queue' \in Seq(Callers \cup {Work})
  <2>1. JoinReconnect \/ UNCHANGED <<reconnecting, queue>>
    BY DEF SupervisorSteps, SupervisorAttempts, SupervisorTimesOut, SupervisorSucceeds,
           SupervisorFails, SupervisorRetries, SupervisorProbes, flights, lock
  <2> QED
    BY <2>1, JoinType DEF TypeOK
<1> QED
  BY <1>1, <1>2, <1>3 DEF TypeOK, handles, lifecycle, calls

\* What runs detached from every caller, the limits, and the close.
SharedSteps ==
    \/ \E t \in Handles : OpenLands(t) \/ HandleCloses(t)
    \/ OpenFails \/ GrantReconnect \/ ReconnectLands \/ ReconnectFails
    \/ clearRequestTimeout \/ setRequestTimeout
    \/ closeTransport \/ CloseSettles \/ ServiceStops

LEMMA GoType ==
    ASSUME TypeOK, NEW at \in SupervisorPlaces
    PROVE  SupervisorsGo(at) \in [Supervisors -> SupervisorPlaces]
BY DEF SupervisorsGo, TypeOK

LEMMA SharedType == ASSUME TypeOK, SharedSteps PROVE TypeOK'
<1>0. {"none", "succeeded", "failed"} \subseteq SupervisorPlaces
  BY DEF SupervisorPlaces
<1>1. CASE \E t \in Handles : OpenLands(t)
  BY <1>1, ResumeType DEF OpenLands, TypeOK, States, lock
<1>2. CASE \E t \in Handles : HandleCloses(t)
  BY <1>2 DEF HandleCloses, TypeOK, flights, calls, lock
<1>3. CASE OpenFails
  BY <1>3, ResumeType DEF OpenFails, TypeOK, handles, lifecycle, lock
<1>4. CASE GrantReconnect
  BY <1>4, QueueType DEF GrantReconnect, TypeOK, handles, flights, lifecycle, calls
<1>5. CASE ReconnectLands
  <2>1. reconnecting \in Handles
    BY <1>5 DEF ReconnectLands, NativeReconnect, TypeOK
  <2>2. sup' \in [Supervisors -> SupervisorPlaces]
    BY <1>0, <1>5, GoType DEF ReconnectLands
  <2>3. /\ pc' \in [Callers -> Places]
        /\ target' \in [Callers -> Handles \cup {NoHandle}]
    BY <1>5, <2>1, ResumeType DEF ReconnectLands
  <2>4. state' \in States
    BY <1>5 DEF ReconnectLands, TypeOK, States
  <2> QED
    BY <1>5, <2>1, <2>2, <2>3, <2>4 DEF ReconnectLands, TypeOK
<1>6. CASE ReconnectFails
  <2>1. sup' \in [Supervisors -> SupervisorPlaces]
    BY <1>0, <1>6, GoType DEF ReconnectFails
  <2>2. /\ pc' \in [Callers -> Places]
        /\ target' \in [Callers -> Handles \cup {NoHandle}]
    BY <1>6, ResumeType DEF ReconnectFails
  <2> QED
    BY <1>6, <2>1, <2>2 DEF ReconnectFails, TypeOK, handles, lifecycle
<1>7. CASE clearRequestTimeout \/ setRequestTimeout
  BY <1>7 DEF clearRequestTimeout, setRequestTimeout, TypeOK, flights, lifecycle, calls, lock
<1>8. CASE closeTransport \/ CloseSettles
  BY <1>8 DEF closeTransport, CloseSettles, TypeOK, States, handles, flights, calls, lock
<1>9. CASE ServiceStops
  BY <1>0, <1>9 DEF ServiceStops, TypeOK, handles, flights, calls, lock
<1> QED
  BY <1>1, <1>2, <1>3, <1>4, <1>5, <1>6, <1>7, <1>8, <1>9 DEF SharedSteps

LEMMA NextParts ==
    ASSUME Next
    PROVE  \/ \E c \in Callers : CallerSteps(c)
           \/ \E c \in Callers : \/ Begin(c) \/ ConnectTimesOut(c) \/ CallReturns(c)
                                 \/ CallFails(c) \/ Interrupt(c) \/ InterruptDetached(c)
           \/ \E s \in Supervisors : SupervisorSteps(s)
           \/ SharedSteps
BY DEF Next, SharedSteps

LEMMA InitType == Init => TypeOK
<1>1. SUFFICES ASSUME Init PROVE TypeOK
  OBVIOUS
<1>2. "none" \in SupervisorPlaces /\ "idle" \in Places /\ "operation" \in AllKinds
  BY DEF SupervisorPlaces, Places, Answers, AllKinds
<1>3. /\ sup \in [Supervisors -> SupervisorPlaces] /\ pc \in [Callers -> Places]
      /\ kind \in [Callers -> AllKinds] /\ target \in [Callers -> Handles \cup {NoHandle}]
  BY <1>1, <1>2 DEF Init
<1>4. queue \in Seq(Callers \cup {Work})
  BY <1>1 DEF Init
<1> QED
  BY <1>1, <1>3, <1>4 DEF Init, TypeOK, States

\* Every variable keeps its type, for any number of callers, supervisors and handles.
THEOREM TypeCorrect == Spec => []TypeOK
<1>1. Init => TypeOK
  BY InitType
<1>2. TypeOK /\ [Next]_vars => TypeOK'
  <2> SUFFICES ASSUME TypeOK, [Next]_vars PROVE TypeOK'
    OBVIOUS
  <2>1. CASE Next
    BY <2>1, NextParts, CallerType, CallType, SupervisorType, SharedType
  <2>2. CASE UNCHANGED vars
    BY <2>2 DEF TypeOK, vars, handles, flights, lifecycle, calls, lock
  <2> QED
    BY <2>1, <2>2
<1> QED
  BY <1>1, <1>2, PTL DEF Spec

-----------------------------------------------------------------------------
(* The limit of the current handle.                                        *)

LimitInv == TypeOK /\ LimitIsOfHandle

LEMMA LimitStep == ASSUME LimitInv, Next PROVE LimitIsOfHandle'
<1>1. CASE UNCHANGED <<transport, unlimited, cleared>>
  BY <1>1 DEF LimitInv, LimitIsOfHandle
<1>2. CASE \E t \in Handles : OpenLands(t)
  <2>1. PICK t \in Handles : OpenLands(t)
    BY <1>2
  <2>2. CASE closed
    BY <2>1, <2>2 DEF OpenLands, New, LimitInv, LimitIsOfHandle, TypeOK
  <2>3. CASE ~closed
    BY <2>1, <2>3 DEF OpenLands, LimitIsOfHandle
  <2> QED
    BY <2>2, <2>3
<1>3. CASE \E c \in Callers : InterruptDetached(c)
  BY <1>3 DEF InterruptDetached, LimitIsOfHandle
<1>4. CASE clearRequestTimeout \/ setRequestTimeout
  BY <1>4 DEF clearRequestTimeout, setRequestTimeout, LimitIsOfHandle
<1>5. \/ UNCHANGED <<transport, unlimited, cleared>>
      \/ \E t \in Handles : OpenLands(t)
      \/ \E c \in Callers : InterruptDetached(c)
      \/ clearRequestTimeout \/ setRequestTimeout
  <2>1. ASSUME NEW c \in Callers, CallerSteps(c) PROVE UNCHANGED <<transport, unlimited, cleared>>
    BY <2>1 DEF CallerSteps, Rejected, Attempt, GetClient, EnsureOpen, Reconnect, OpenFailed,
                Opened, Reconnected, handles
  <2>2. ASSUME NEW c \in Callers,
               \/ Begin(c) \/ ConnectTimesOut(c) \/ CallReturns(c) \/ CallFails(c)
               \/ Interrupt(c) \/ InterruptDetached(c)
        PROVE  UNCHANGED <<transport, unlimited, cleared>> \/ InterruptDetached(c)
    BY <2>2 DEF Begin, ConnectTimesOut, CallReturns, CallFails, Interrupt, handles
  <2>3. ASSUME NEW s \in Supervisors, SupervisorSteps(s)
        PROVE  UNCHANGED <<transport, unlimited, cleared>>
    BY <2>3 DEF SupervisorSteps, SupervisorAttempts, SupervisorTimesOut, SupervisorSucceeds,
                SupervisorFails, SupervisorRetries, SupervisorProbes, handles
  <2>4. ASSUME SharedSteps
        PROVE  \/ UNCHANGED <<transport, unlimited, cleared>>
               \/ \E t \in Handles : OpenLands(t)
               \/ clearRequestTimeout \/ setRequestTimeout
    BY <2>4 DEF SharedSteps, HandleCloses, OpenFails, GrantReconnect, ReconnectLands,
                ReconnectFails, closeTransport, CloseSettles, ServiceStops, handles
  <2> QED
    BY <2>1, <2>2, <2>3, <2>4, NextParts
<1> QED
  BY <1>1, <1>2, <1>3, <1>4, <1>5

\* LimitIsOfHandle: after setRequestTimeout and clearRequestTimeout, and after
\* the handle was replaced (shared-transport.ts), the limit that the wrapper goes
\* by is that of the current handle.
THEOREM LimitFollowsHandle == Spec => []LimitIsOfHandle
<1>1. Init => LimitIsOfHandle
  BY DEF Init, LimitIsOfHandle
<1>2. TypeOK /\ LimitIsOfHandle /\ [Next]_vars => LimitIsOfHandle'
  <2> SUFFICES ASSUME TypeOK, LimitIsOfHandle, [Next]_vars PROVE LimitIsOfHandle'
    OBVIOUS
  <2>1. CASE Next
    BY <2>1, LimitStep DEF LimitInv
  <2>2. CASE UNCHANGED vars
    BY <2>2 DEF LimitIsOfHandle, vars, handles
  <2> QED
    BY <2>1, <2>2
<1> QED
  BY <1>1, <1>2, TypeCorrect, PTL DEF Spec

-----------------------------------------------------------------------------
(* The circuit and its supervisor.                                         *)

LEMMA CircuitReport ==
    ASSUME TypeOK, CircuitHasSupervisor, NEW c \in Callers, NEW triggers, report(c, triggers),
           UNCHANGED serving
    PROVE  CircuitHasSupervisor'
<1>1. CASE UNCHANGED <<state, sup>>
  BY <1>1 DEF CircuitHasSupervisor
<1>2. CASE ~Supervised
  BY <1>2 DEF CircuitHasSupervisor
<1>3. CASE Supervised /\ claimReconnect
  <2>1. CASE ~serving
    BY <2>1 DEF CircuitHasSupervisor
  <2>2. CASE serving
    <3>1. PICK s \in Supervisors : sup' = [sup EXCEPT ![s] = "attempts"]
      BY <1>3, <2>2 DEF claimReconnect
    <3>2. sup'[s] = "attempts" /\ state' = "Reconnecting"
      BY <1>3, <3>1 DEF claimReconnect, TypeOK
    <3> QED
      BY <3>2 DEF CircuitHasSupervisor
  <2> QED
    BY <2>1, <2>2
<1> QED
  BY <1>1, <1>2, <1>3 DEF report

LEMMA CircuitSupervisor ==
    ASSUME TypeOK, CircuitHasSupervisor, NEW s \in Supervisors, SupervisorSteps(s)
    PROVE  CircuitHasSupervisor'
<1>0. UNCHANGED serving
  BY DEF SupervisorSteps, SupervisorAttempts, SupervisorTimesOut, SupervisorSucceeds,
         SupervisorFails, SupervisorRetries, SupervisorProbes, lifecycle
<1>1. ASSUME NEW at \in {"attempts", "waits", "failed", "backs off"},
             sup' = [sup EXCEPT ![s] = at], state' \in {state, "Reconnecting"}
      PROVE  CircuitHasSupervisor'
  <2>1. sup'[s] = at
    BY <1>1 DEF TypeOK
  <2> QED
    BY <2>1 DEF CircuitHasSupervisor
<1>2. CASE SupervisorAttempts(s)
  BY <1>1, <1>2 DEF SupervisorAttempts
<1>3. CASE SupervisorTimesOut(s)
  BY <1>1, <1>3 DEF SupervisorTimesOut
<1>4. CASE SupervisorSucceeds(s)
  BY <1>4 DEF SupervisorSucceeds, CircuitHasSupervisor
<1>5. CASE SupervisorFails(s)
  <2>1. CASE sup' = [sup EXCEPT ![s] = "backs off"] /\ UNCHANGED state
    BY <1>1, <2>1
  <2>2. CASE sup' = [sup EXCEPT ![s] = "sleeps"] /\ state' = "Down"
    <3>1. sup'[s] = "sleeps"
      BY <2>2 DEF TypeOK
    <3> QED
      BY <2>2, <3>1 DEF CircuitHasSupervisor
  <2> QED
    BY <1>5, <2>1, <2>2 DEF SupervisorFails
<1>6. CASE SupervisorRetries(s)
  BY <1>1, <1>6 DEF SupervisorRetries
<1>7. CASE SupervisorProbes(s)
  <2>1. CASE state = "Down"
    BY <1>1, <1>7, <2>1 DEF SupervisorProbes
  <2>2. CASE state # "Down"
    <3>1. \A r \in Supervisors : r # s => sup'[r] = sup[r]
      BY <1>7, <2>2 DEF SupervisorProbes, TypeOK
    <3>2. sup[s] = "sleeps" /\ UNCHANGED state
      BY <1>7, <2>2 DEF SupervisorProbes
    <3> QED
      BY <1>0, <2>2, <3>1, <3>2 DEF CircuitHasSupervisor
  <2> QED
    BY <2>1, <2>2
<1> QED
  BY <1>2, <1>3, <1>4, <1>5, <1>6, <1>7 DEF SupervisorSteps

\* The supervisors that wait for a reconnect learn how it ended.
LEMMA CircuitGo ==
    ASSUME TypeOK, CircuitHasSupervisor, NEW at \in {"succeeded", "failed"},
           sup' = SupervisorsGo(at), state' \in {state, "Connected"}, UNCHANGED serving
    PROVE  CircuitHasSupervisor'
<1>1. \A s \in Supervisors : sup'[s] = sup[s] \/ sup'[s] = at
  BY DEF SupervisorsGo
<1> QED
  BY <1>1 DEF CircuitHasSupervisor

LEMMA CircuitStep == ASSUME TypeOK, CircuitHasSupervisor, Next PROVE CircuitHasSupervisor'
<1>1. ASSUME UNCHANGED <<sup, serving>>, state' \in {state, "Connected", "Disconnected"}
      PROVE  CircuitHasSupervisor'
  BY <1>1 DEF CircuitHasSupervisor
<1>2. ASSUME NEW c \in Callers, Fails(c), UNCHANGED serving PROVE CircuitHasSupervisor'
  BY <1>2, CircuitReport DEF Fails
<1>3. ASSUME NEW c \in Callers, CallerSteps(c) PROVE CircuitHasSupervisor'
  <2>1. CASE OpenFailed(c)
    BY <1>2, <2>1 DEF OpenFailed, lifecycle
  <2>2. CASE ~OpenFailed(c)
    BY <1>1, <1>3, <2>2 DEF CallerSteps, Rejected, Attempt, GetClient, EnsureOpen, Reconnect,
                            Opened, Reconnected, lifecycle
  <2> QED
    BY <2>1, <2>2
<1>4. ASSUME NEW c \in Callers,
             \/ Begin(c) \/ ConnectTimesOut(c) \/ CallReturns(c) \/ CallFails(c)
             \/ Interrupt(c) \/ InterruptDetached(c)
      PROVE  CircuitHasSupervisor'
  <2>1. CASE ConnectTimesOut(c) \/ CallFails(c)
    BY <1>2, <2>1 DEF ConnectTimesOut, CallFails, lifecycle
  <2>2. CASE Begin(c) \/ CallReturns(c) \/ Interrupt(c) \/ InterruptDetached(c)
    BY <1>1, <2>2 DEF Begin, CallReturns, Interrupt, InterruptDetached, lifecycle
  <2> QED
    BY <1>4, <2>1, <2>2
<1>5. ASSUME SharedSteps PROVE CircuitHasSupervisor'
  <2>1. CASE ReconnectLands
    BY <2>1, CircuitGo DEF ReconnectLands
  <2>2. CASE ReconnectFails
    BY <2>2, CircuitGo DEF ReconnectFails, lifecycle
  <2>3. CASE ServiceStops
    BY <2>3 DEF ServiceStops, CircuitHasSupervisor
  <2>4. CASE ~(ReconnectLands \/ ReconnectFails \/ ServiceStops)
    BY <1>1, <1>5, <2>4 DEF SharedSteps, OpenLands, HandleCloses, OpenFails, GrantReconnect,
       clearRequestTimeout, setRequestTimeout, closeTransport, CloseSettles, lifecycle
  <2> QED
    BY <2>1, <2>2, <2>3, <2>4
<1> QED
  BY <1>3, <1>4, <1>5, CircuitSupervisor, NextParts

\* CircuitHasSupervisor: while the service scope is open, a circuit that operations
\* find open (modbus-client.ts refuses them) has a supervisor of connection.ts.
THEOREM OpenCircuitIsSupervised == Spec => []CircuitHasSupervisor
<1>1. Init => CircuitHasSupervisor
  BY DEF Init, CircuitHasSupervisor
<1>2. TypeOK /\ CircuitHasSupervisor /\ [Next]_vars => CircuitHasSupervisor'
  <2> SUFFICES ASSUME TypeOK, CircuitHasSupervisor, [Next]_vars PROVE CircuitHasSupervisor'
    OBVIOUS
  <2>1. CASE Next
    BY <2>1, CircuitStep
  <2>2. CASE UNCHANGED vars
    BY <2>2 DEF CircuitHasSupervisor, vars, lifecycle
  <2> QED
    BY <2>1, <2>2
<1> QED
  BY <1>1, <1>2, TypeCorrect, PTL DEF Spec

-----------------------------------------------------------------------------
(* Native handles.                                                         *)

\* Nothing takes the handle away under shared work: nobody opens while there is
\* a handle, and the handle that is reconnected is the current one.
HandleInv ==
    /\ TypeOK
    /\ detached = {} /\ ~(Serial /\ cleared)
    /\ opening => transport = NoHandle
    /\ reconnecting # NoHandle => transport = reconnecting
    /\ HandlesAreOwned

\* What the ownership of handles depends on.
handleVars == <<transport, live, cleared, opening, reconnecting, closing, closes, detached>>

LEMMA HandlesSame == ASSUME HandleInv, TypeOK', UNCHANGED handleVars PROVE HandleInv'
BY DEF HandleInv, handleVars, HandlesAreOwned

LEMMA HandlesEnd ==
    ASSUME HandleInv, TypeOK', NEW c, NEW answer, Ends(c, answer),
           UNCHANGED <<transport, live, cleared, opening, reconnecting, closing, closes>>
    PROVE  HandleInv'
BY DEF HandleInv, Ends, HandlesAreOwned

LEMMA HandlesJoin ==
    ASSUME HandleInv, TypeOK', JoinReconnect, transport # NoHandle,
           UNCHANGED <<transport, live, cleared, opening, closing, closes, detached>>
    PROVE  HandleInv'
BY DEF HandleInv, JoinReconnect, HandlesAreOwned

LEMMA HandleCaller ==
    ASSUME HandleInv, TypeOK', NEW c \in Callers, CallerSteps(c) PROVE HandleInv'
<1>1. CASE Rejected(c)
  BY <1>1, HandlesSame DEF Rejected, handleVars, handles, flights, lifecycle
<1>2. CASE Attempt(c)
  BY <1>2, HandlesSame DEF Attempt, handleVars, flights, lifecycle, HandleInv
<1>3. CASE GetClient(c)
  BY <1>3, HandlesSame DEF GetClient, handleVars, flights, lifecycle
<1>4. CASE EnsureOpen(c)
  BY <1>4 DEF EnsureOpen, handles, lifecycle, HandleInv, HandlesAreOwned
<1>5. CASE Reconnect(c)
  BY <1>5, HandlesJoin DEF Reconnect, handles, lifecycle
<1>6. CASE OpenFailed(c)
  BY <1>6, HandlesEnd DEF OpenFailed, Fails, handles, flights, lifecycle
<1>7. CASE Opened(c)
  <2>1. CASE kind[c] = "operation"
    BY <1>7, <2>1, HandlesSame DEF Opened, handleVars, flights, lifecycle
  <2>2. CASE kind[c] # "operation"
    BY <1>7, <2>2, HandlesEnd DEF Opened, flights, lifecycle
  <2> QED
    BY <2>1, <2>2
<1>8. CASE Reconnected(c)
  BY <1>8, HandlesEnd DEF Reconnected, handles, flights, lifecycle
<1> QED
  BY <1>1, <1>2, <1>3, <1>4, <1>5, <1>6, <1>7, <1>8 DEF CallerSteps

LEMMA HandleCall ==
    ASSUME HandleInv, TypeOK', NEW c \in Callers,
           \/ Begin(c) \/ ConnectTimesOut(c) \/ CallReturns(c) \/ CallFails(c)
           \/ Interrupt(c) \/ InterruptDetached(c)
    PROVE  HandleInv'
<1>1. CASE Begin(c)
  BY <1>1, HandlesSame DEF Begin, handleVars, handles, flights, lifecycle
<1>2. CASE ConnectTimesOut(c) \/ CallFails(c)
  BY <1>2, HandlesEnd DEF ConnectTimesOut, CallFails, Fails, handles, flights, lifecycle
<1>3. CASE CallReturns(c)
  <2>1. CASE pc[c] # "calls"
    BY <1>3, <2>1, HandlesSame DEF CallReturns, handleVars, handles, flights, lifecycle
  <2>2. CASE pc[c] = "calls"
    BY <1>3, <2>2, HandlesEnd DEF CallReturns, handles, flights, lifecycle
  <2> QED
    BY <2>1, <2>2
<1>4. CASE Interrupt(c)
  BY <1>4, HandlesEnd DEF Interrupt, handles, flights, lifecycle
<1>5. CASE InterruptDetached(c)
  BY <1>5 DEF InterruptDetached, HandleInv
<1> QED
  BY <1>1, <1>2, <1>3, <1>4, <1>5

LEMMA HandleSupervisor ==
    ASSUME HandleInv, TypeOK', NEW s \in Supervisors, SupervisorSteps(s) PROVE HandleInv'
<1>1. CASE SupervisorAttempts(s)
  <2>1. CASE UNCHANGED reconnecting
    BY <1>1, <2>1, HandlesSame DEF SupervisorAttempts, handleVars, handles, lifecycle, calls
  <2>2. CASE ~UNCHANGED reconnecting
    BY <1>1, <2>2, HandlesJoin DEF SupervisorAttempts, handles, lifecycle, calls
  <2> QED
    BY <2>1, <2>2
<1>2. CASE ~SupervisorAttempts(s)
  BY <1>2, HandlesSame
  DEF SupervisorSteps, SupervisorTimesOut, SupervisorSucceeds, SupervisorFails,
      SupervisorRetries, SupervisorProbes, handleVars, handles, flights, lifecycle, calls
<1> QED
  BY <1>1, <1>2

LEMMA HandleShared ==
    ASSUME HandleInv, TypeOK', SharedSteps, ~(Serial /\ RuntimeLimits) PROVE HandleInv'
<1>1. ASSUME NEW t \in Handles, OpenLands(t) PROVE HandleInv'
  <2>1. transport = NoHandle /\ reconnecting = NoHandle /\ reconnecting' = NoHandle
    BY <1>1 DEF OpenLands, HandleInv
  <2>2. HandlesAreOwned'
    <3> SUFFICES ASSUME NEW u \in live'
                 PROVE  u \in closes' \/ (u = transport' /\ closing' # "closed")
      BY DEF HandlesAreOwned
    <3>1. CASE u = t
      BY <1>1, <3>1 DEF OpenLands, closed
    <3>2. CASE u # t
      <4>1. u \in closes
        BY <1>1, <2>1, <3>2, FiberAssumption DEF OpenLands, HandleInv, HandlesAreOwned, TypeOK
      <4> QED
        BY <1>1, <4>1 DEF OpenLands
    <3> QED
      BY <3>1, <3>2
  <2> QED
    BY <1>1, <2>1, <2>2 DEF OpenLands, HandleInv
<1>2. ASSUME NEW t \in Handles, HandleCloses(t) PROVE HandleInv'
  BY <1>2 DEF HandleCloses, flights, calls, HandleInv, HandlesAreOwned
<1>3. CASE OpenFails
  BY <1>3 DEF OpenFails, handles, lifecycle, HandleInv, HandlesAreOwned
<1>4. CASE GrantReconnect
  BY <1>4, HandlesSame DEF GrantReconnect, handleVars, handles, flights, lifecycle, calls
<1>5. CASE ReconnectLands
  BY <1>5 DEF ReconnectLands, NativeReconnect, closed, HandleInv, HandlesAreOwned
<1>6. CASE ReconnectFails
  BY <1>6 DEF ReconnectFails, handles, lifecycle, HandleInv, HandlesAreOwned
<1>7. CASE clearRequestTimeout \/ setRequestTimeout
  BY <1>7 DEF clearRequestTimeout, setRequestTimeout, flights, lifecycle, calls,
              HandleInv, HandlesAreOwned
<1>8. CASE closeTransport
  BY <1>8, FiberAssumption
  DEF closeTransport, handles, flights, calls, closed, HandleInv, HandlesAreOwned, TypeOK
<1>9. CASE CloseSettles
  BY <1>9 DEF CloseSettles, flights, calls, HandleInv, HandlesAreOwned
<1>10. CASE ServiceStops
  BY <1>10, HandlesSame DEF ServiceStops, handleVars, handles, flights, calls
<1> QED
  BY <1>1, <1>2, <1>3, <1>4, <1>5, <1>6, <1>7, <1>8, <1>9, <1>10 DEF SharedSteps

LEMMA HandlesInvariant == ASSUME ~(Serial /\ RuntimeLimits) PROVE Spec => []HandleInv
<1>1. Init => HandleInv
  <2> SUFFICES ASSUME Init, TypeOK PROVE HandleInv
    BY InitType
  <2> QED
    BY DEF Init, HandleInv, HandlesAreOwned
<1>2. HandleInv /\ TypeOK' /\ [Next]_vars => HandleInv'
  <2> SUFFICES ASSUME HandleInv, TypeOK', [Next]_vars PROVE HandleInv'
    OBVIOUS
  <2>1. CASE Next
    BY <2>1, NextParts, HandleCaller, HandleCall, HandleSupervisor, HandleShared
  <2>2. CASE UNCHANGED vars
    BY <2>2, HandlesSame DEF handleVars, vars, handles, flights, lifecycle, calls
  <2> QED
    BY <2>1, <2>2
<1> QED
  BY <1>1, <1>2, TypeCorrect, PTL DEF Spec

\* HandlesAreOwned: unless a serial line has its limits changed at run time, no
\* native handle is left open; close, a late open (closeOrphan) and a late
\* reconnect of shared-transport.ts account for each.
THEOREM HandlesStayOwned == ASSUME ~(Serial /\ RuntimeLimits) PROVE Spec => []HandlesAreOwned
<1>1. HandleInv => HandlesAreOwned
  BY DEF HandleInv
<1> QED
  BY <1>1, HandlesInvariant, PTL

\* OnePendingConnect, under the same condition: an open and a reconnect of one
\* transport are never pending together.
THEOREM OneConnect == ASSUME ~(Serial /\ RuntimeLimits) PROVE Spec => []OnePendingConnect
<1>1. HandleInv => OnePendingConnect
  BY DEF HandleInv, OnePendingConnect, NativeReconnect
<1> QED
  BY <1>1, HandlesInvariant, PTL

-----------------------------------------------------------------------------
(* The serial line.                                                        *)

\* Past the lock, a fiber of a serial line keeps it until it has ended.
InLine(c) ==
    /\ pc[c] \in {"opens", "opened"} /\ kind[c] # "reconnect" => holder = c
    /\ pc[c] = "calls" => kind[c] = "operation" /\ holder = c
    /\ c \in wire => pc[c] = "calls"

LineInv == TypeOK /\ (Serial => \A c \in Callers : InLine(c))

\* A caller that nothing touches stays in line, and so does one that ends.
LEMMA LineSame ==
    ASSUME NEW c, InLine(c), pc'[c] = pc[c], kind'[c] = kind[c],
           c \in wire' => c \in wire, holder = c => holder' = c
    PROVE  InLine(c)'
BY DEF InLine

LEMMA LineEnds ==
    ASSUME TypeOK, NEW c \in Callers, NEW answer \in Answers, Ends(c, answer),
           Serial => \A d \in Callers : InLine(d),
           UNCHANGED kind, wire' = wire \ {c} \/ (wire' = wire /\ c \notin wire)
    PROVE  Serial => \A d \in Callers : InLine(d)'
<1> SUFFICES ASSUME Serial, NEW d \in Callers PROVE InLine(d)'
  OBVIOUS
<1>1. CASE d = c
  <2>1. pc'[c] \in Answers
    BY DEF Ends, TypeOK, Answers
  <2> QED
    BY <1>1, <2>1 DEF InLine, Answers
<1>2. CASE d # c
  BY <1>2, LineSame DEF Ends, TypeOK
<1> QED
  BY <1>1, <1>2

\* A caller that goes to a new place.
LEMMA LineMoves ==
    ASSUME TypeOK, NEW c \in Callers, NEW at, pc' = [pc EXCEPT ![c] = at],
           Serial => \A d \in Callers : InLine(d),
           \A d \in Callers \ {c} : kind'[d] = kind[d] /\ (d \in wire' => d \in wire),
           holder' = holder \/ holder = Free,
           Serial => InLine(c)'
    PROVE  Serial => \A d \in Callers : InLine(d)'
<1> SUFFICES ASSUME Serial, NEW d \in Callers, d # c PROVE InLine(d)'
  OBVIOUS
<1>1. pc'[d] = pc[d]
  BY DEF TypeOK
<1> QED
  BY <1>1, LineSame, FiberAssumption

LEMMA LineCaller ==
    ASSUME LineInv, NEW c \in Callers, CallerSteps(c)
    PROVE  Serial => \A d \in Callers : InLine(d)'
<1>0. TypeOK /\ (Serial => \A d \in Callers : InLine(d)) /\ UNCHANGED kind
  BY DEF LineInv, CallerSteps, Rejected, Attempt, GetClient, EnsureOpen, Reconnect, OpenFailed,
         Opened, Reconnected
<1>a. "failed" \in Answers /\ "ok" \in Answers
  BY DEF Answers
<1>b. Serial /\ c \in wire => pc[c] = "calls"
  BY <1>0 DEF InLine
<1>1. CASE Rejected(c)
  <2>1. pc'[c] = "failed" /\ UNCHANGED <<wire, holder>> /\ pc[c] = "starts"
    BY <1>0, <1>1 DEF Rejected, TypeOK, lock
  <2> QED
    BY <1>0, <1>1, <1>b, <2>1, LineMoves DEF Rejected, InLine
<1>2. CASE Attempt(c)
  <2>1. pc'[c] = "calls" /\ wire' = wire \cup {c} /\ kind[c] = "operation" /\ Granted(c)
    BY <1>0, <1>2 DEF Attempt, Calls, TypeOK
  <2>2. (holder' = holder \/ holder = Free) /\ (Serial => holder' = c)
    BY <2>1 DEF Granted, Locks, lock
  <2>3. Serial => InLine(c)'
    BY <1>0, <2>1, <2>2 DEF InLine
  <2> QED
    BY <1>0, <1>2, <2>1, <2>2, <2>3, LineMoves DEF Attempt, Calls
<1>3. CASE GetClient(c)
  <2>1. pc'[c] = "ok" /\ UNCHANGED <<wire, holder>> /\ pc[c] = "starts"
    BY <1>0, <1>3 DEF GetClient, TypeOK, lock
  <2> QED
    BY <1>0, <1>3, <1>b, <2>1, LineMoves DEF GetClient, InLine
<1>4. CASE EnsureOpen(c)
  <2>1. pc'[c] = "opens" /\ UNCHANGED wire /\ pc[c] = "starts" /\ Granted(c)
    BY <1>0, <1>4 DEF EnsureOpen, TypeOK
  <2>2. (holder' = holder \/ holder = Free) /\ (Serial /\ kind[c] # "reconnect" => holder' = c)
    BY <2>1 DEF Granted, Locks, lock
  <2>3. Serial => InLine(c)'
    BY <1>0, <1>b, <2>1, <2>2 DEF InLine
  <2> QED
    BY <1>0, <1>4, <2>1, <2>2, <2>3, LineMoves DEF EnsureOpen
<1>5. CASE Reconnect(c)
  <2>1. pc'[c] = "reconnects" /\ UNCHANGED <<wire, holder>> /\ pc[c] = "starts"
    BY <1>0, <1>5 DEF Reconnect, TypeOK
  <2> QED
    BY <1>0, <1>5, <1>b, <2>1, LineMoves DEF Reconnect, InLine
<1>6. CASE OpenFailed(c)
  BY <1>0, <1>6, <1>a, <1>b, LineEnds DEF OpenFailed, Fails
<1>7. CASE Opened(c)
  <2>1. CASE kind[c] = "operation"
    <3>1. pc[c] = "opened" /\ Calls(c, target[c]) /\ UNCHANGED holder
      BY <1>7, <2>1 DEF Opened
    <3>2. pc'[c] = "calls" /\ wire' = wire \cup {c}
      BY <1>0, <3>1 DEF Calls, TypeOK
    <3>3. Serial => InLine(c)'
      BY <1>0, <2>1, <3>1, <3>2 DEF InLine
    <3> QED
      BY <1>0, <3>1, <3>2, <3>3, LineMoves DEF Calls
  <2>2. CASE kind[c] # "operation"
    BY <1>0, <1>7, <1>a, <1>b, <2>2, LineEnds DEF Opened
  <2> QED
    BY <2>1, <2>2
<1>8. CASE Reconnected(c)
  BY <1>0, <1>8, <1>a, <1>b, LineEnds DEF Reconnected
<1> QED
  BY <1>1, <1>2, <1>3, <1>4, <1>5, <1>6, <1>7, <1>8 DEF CallerSteps

LEMMA LineCall ==
    ASSUME LineInv, NEW c \in Callers,
           \/ Begin(c) \/ ConnectTimesOut(c) \/ CallReturns(c) \/ CallFails(c)
           \/ Interrupt(c) \/ InterruptDetached(c)
    PROVE  Serial => \A d \in Callers : InLine(d)'
<1>0. TypeOK /\ (Serial => \A d \in Callers : InLine(d))
  BY DEF LineInv
<1>a. "failed" \in Answers /\ "ok" \in Answers
  BY DEF Answers
<1>b. Serial /\ c \in wire => pc[c] = "calls" /\ kind[c] = "operation"
  BY <1>0 DEF InLine
<1>1. CASE Begin(c)
  <2>1. /\ pc'[c] = "starts" /\ UNCHANGED <<wire, holder>> /\ c \notin wire
        /\ \A d \in Callers \ {c} : kind'[d] = kind[d]
    BY <1>0, <1>1 DEF Begin, TypeOK
  <2>2. InLine(c)'
    BY <2>1 DEF InLine
  <2> QED
    BY <1>0, <1>1, <2>1, <2>2, LineMoves DEF Begin
<1>2. CASE ConnectTimesOut(c)
  BY <1>0, <1>2, <1>a, <1>b, LineEnds DEF ConnectTimesOut, Fails
<1>3. CASE CallReturns(c)
  <2>1. CASE pc[c] # "calls"
    BY <1>3, <1>b, <2>1 DEF CallReturns
  <2>2. CASE pc[c] = "calls"
    BY <1>0, <1>3, <1>a, <2>2, LineEnds DEF CallReturns
  <2> QED
    BY <2>1, <2>2
<1>4. CASE CallFails(c)
  BY <1>0, <1>4, <1>a, LineEnds DEF CallFails, Fails
<1>5. CASE Interrupt(c)
  <2>1. Serial => c \notin wire
    BY <1>5, <1>b DEF Interrupt, Interruptible
  <2> QED
    BY <1>0, <1>5, <1>a, <2>1, LineEnds DEF Interrupt
<1>6. CASE InterruptDetached(c)
  BY <1>0, <1>6, LineSame DEF InterruptDetached, lock
<1> QED
  BY <1>1, <1>2, <1>3, <1>4, <1>5, <1>6

\* Shared work moves the callers that wait for it.
LEMMA LineResumes ==
    ASSUME LineInv, NEW at, NEW t, UNCHANGED <<kind, wire>>, holder = holder' \/ holder = Work,
           \/ Resume(OpenWaiters, at, t) /\ at = "opened"
           \/ Resume(ReconnectWaiters, at, t) /\ at \in {"reconnected", "failed"}
    PROVE  Serial => \A d \in Callers : InLine(d)'
<1> SUFFICES ASSUME Serial, NEW d \in Callers PROVE InLine(d)'
  OBVIOUS
<1>0. InLine(d) /\ (holder = d => holder' = d)
  BY FiberAssumption DEF LineInv
<1>1. \/ pc'[d] = pc[d]
      \/ pc[d] = "opens" /\ pc'[d] = "opened"
      \/ pc[d] = "reconnects" /\ pc'[d] \in {"reconnected", "failed"}
  BY DEF Resume, OpenWaiters, ReconnectWaiters
<1> QED
  BY <1>0, <1>1 DEF InLine

LEMMA LineShared ==
    ASSUME LineInv, SharedSteps PROVE Serial => \A d \in Callers : InLine(d)'
<1>1. CASE \E t \in Handles : OpenLands(t)
  BY <1>1, LineResumes DEF OpenLands, lock
<1>2. CASE OpenFails
  BY <1>2, LineResumes DEF OpenFails, lock
<1>3. CASE ReconnectLands
  BY <1>3, LineResumes DEF ReconnectLands
<1>4. CASE ReconnectFails
  BY <1>4, LineResumes DEF ReconnectFails
<1>5. CASE GrantReconnect
  <2>1. holder = Free /\ UNCHANGED calls
    BY <1>5 DEF GrantReconnect
  <2> QED
    BY <2>1, FiberAssumption, LineSame DEF LineInv, calls
<1>6. ASSUME UNCHANGED calls, UNCHANGED lock
      PROVE  Serial => \A d \in Callers : InLine(d)'
  BY <1>6, LineSame DEF LineInv, calls, lock
<1> QED
  BY <1>1, <1>2, <1>3, <1>4, <1>5, <1>6
  DEF SharedSteps, HandleCloses, clearRequestTimeout, setRequestTimeout, closeTransport,
      CloseSettles, ServiceStops

LEMMA LineInvariant == Spec => []LineInv
<1>1. Init => LineInv
  BY InitType DEF Init, LineInv, InLine
<1>2. LineInv /\ TypeOK' /\ [Next]_vars => LineInv'
  <2> SUFFICES ASSUME LineInv, TypeOK', [Next]_vars PROVE Serial => \A d \in Callers : InLine(d)'
    BY DEF LineInv
  <2>1. ASSUME UNCHANGED calls, UNCHANGED holder
        PROVE  Serial => \A d \in Callers : InLine(d)'
    BY <2>1, LineSame DEF LineInv, calls
  <2>2. ASSUME NEW s \in Supervisors, SupervisorSteps(s) PROVE UNCHANGED calls /\ UNCHANGED holder
    BY <2>2 DEF SupervisorSteps, SupervisorAttempts, SupervisorTimesOut, SupervisorSucceeds,
                SupervisorFails, SupervisorRetries, SupervisorProbes, lock
  <2>3. CASE Next
    BY <2>1, <2>2, <2>3, NextParts, LineCaller, LineCall, LineShared
  <2>4. CASE UNCHANGED vars
    BY <2>1, <2>4 DEF vars, lock
  <2> QED
    BY <2>3, <2>4
<1> QED
  BY <1>1, <1>2, TypeCorrect, PTL DEF Spec

\* OneOnTheLine: a serial line (serializeRequests, nativeLock) never carries a
\* request together with another, or with a reconnect, whatever is interrupted.
THEOREM LineCarriesOne == Spec => []OneOnTheLine
<1>1. LineInv => OneOnTheLine
  <2> SUFFICES ASSUME LineInv, Serial
               PROVE  Cardinality(wire) + (IF NativeReconnect THEN 1 ELSE 0) <= 1
    BY DEF OneOnTheLine
  <2>1. \A c \in wire : c \in Callers /\ holder = c
    BY DEF LineInv, InLine, TypeOK
  <2>2. CASE wire = {}
    <3>1. Cardinality(wire) = 0
      BY <2>2, FS_EmptySet
    <3> QED
      BY <3>1
  <2>3. CASE wire # {}
    <3>1. wire = {holder} /\ holder \in Callers
      BY <2>1, <2>3
    <3>2. Cardinality(wire) = 1
      BY <3>1, FS_Singleton
    <3>3. ~NativeReconnect
      BY <3>1, FiberAssumption DEF NativeReconnect
    <3> QED
      BY <3>2, <3>3
  <2> QED
    BY <2>2, <2>3
<1> QED
  BY <1>1, LineInvariant, PTL

-----------------------------------------------------------------------------
(* Who is served, and by which handle.  While the transport is open its     *)
(* handle is, and nothing else is being closed; what a caller carries over  *)
(* a wait is that handle, or an orphan of an open that landed after the     *)
(* close.                                                                   *)

CarriesHandle(c) ==
    /\ pc[c] = "opened" => target[c] = NoHandle \/ closed \/ target[c] = transport
    /\ pc[c] \in {"reconnected", "calls"} => target[c] = transport /\ transport # NoHandle
    /\ pc[c] \notin {"opened", "reconnected", "calls"} => target[c] = NoHandle

OpenHasHandle ==
    ~closed => closes = {} /\ (transport # NoHandle => transport \in live)

ServeInv ==
    /\ HandleInv
    /\ client \in {NoHandle, transport} /\ OpenHasHandle
    /\ \A c \in Callers : CarriesHandle(c)

\* A caller whose step touches neither the handle nor the close.
LEMMA CarriesMoves ==
    ASSUME TypeOK, NEW c \in Callers, NEW at, pc' = [pc EXCEPT ![c] = at],
           \A d \in Callers : CarriesHandle(d), CarriesHandle(c)',
           \A d \in Callers \ {c} : target'[d] = target[d],
           UNCHANGED <<transport, closing>>
    PROVE  \A d \in Callers : CarriesHandle(d)'
<1> SUFFICES ASSUME NEW d \in Callers, d # c PROVE CarriesHandle(d)'
  OBVIOUS
<1>1. pc'[d] = pc[d] /\ target'[d] = target[d]
  BY DEF TypeOK
<1> QED
  BY <1>1 DEF CarriesHandle, closed

LEMMA CarriesEnds ==
    ASSUME TypeOK, NEW c \in Callers, NEW answer \in {"ok", "failed"}, Ends(c, answer),
           \A d \in Callers : CarriesHandle(d), UNCHANGED <<transport, closing>>
    PROVE  \A d \in Callers : CarriesHandle(d)'
<1>1. /\ pc' = [pc EXCEPT ![c] = IF c \in interrupted THEN "failed" ELSE answer]
      /\ pc'[c] \in {"ok", "failed"} /\ target'[c] = NoHandle
      /\ \A d \in Callers \ {c} : target'[d] = target[d]
  BY DEF Ends, TypeOK
<1>2. CarriesHandle(c)'
  BY <1>1 DEF CarriesHandle
<1> QED
  BY <1>1, <1>2, CarriesMoves

LEMMA CarriesSame ==
    ASSUME UNCHANGED <<pc, target, transport>>, closed => closed',
           \A d \in Callers : CarriesHandle(d)
    PROVE  \A d \in Callers : CarriesHandle(d)'
BY DEF CarriesHandle, closed

LEMMA ServeCaller ==
    ASSUME ServeInv, NEW c \in Callers, CallerSteps(c)
    PROVE  /\ client' \in {NoHandle, transport'} /\ OpenHasHandle'
           /\ \A d \in Callers : CarriesHandle(d)'
<1>0. /\ TypeOK /\ client \in {NoHandle, transport} /\ OpenHasHandle
      /\ \A d \in Callers : CarriesHandle(d)
  BY DEF ServeInv, HandleInv
<1>1. UNCHANGED <<transport, live, closing, closes>>
  BY DEF CallerSteps, Rejected, Attempt, GetClient, EnsureOpen, Reconnect, OpenFailed, Opened,
         Reconnected, handles, lifecycle
<1>2. OpenHasHandle'
  BY <1>0, <1>1 DEF OpenHasHandle, closed
\* A caller that waits on: it carries no handle.
<1>3. ASSUME NEW at \in {"failed", "ok", "opens", "reconnects"}, pc[c] = "starts",
             pc' = [pc EXCEPT ![c] = at], UNCHANGED target
      PROVE  \A d \in Callers : CarriesHandle(d)'
  <2>1. target'[c] = NoHandle /\ pc'[c] = at
    BY <1>0, <1>3 DEF CarriesHandle, TypeOK
  <2>2. CarriesHandle(c)'
    BY <2>1 DEF CarriesHandle
  <2> QED
    BY <1>0, <1>1, <1>3, <2>2, CarriesMoves
<1>4. ASSUME Calls(c, transport), transport # NoHandle
      PROVE  client' \in {NoHandle, transport'} /\ \A d \in Callers : CarriesHandle(d)'
  <2>1. client' = transport /\ pc'[c] = "calls" /\ target'[c] = transport
    BY <1>0, <1>4 DEF Calls, TypeOK
  <2>2. CarriesHandle(c)'
    BY <1>1, <1>4, <2>1 DEF CarriesHandle
  <2>3. pc' = [pc EXCEPT ![c] = "calls"] /\ \A d \in Callers \ {c} : target'[d] = target[d]
    BY <1>0, <1>4 DEF Calls, TypeOK
  <2> QED
    BY <1>0, <1>1, <2>1, <2>2, <2>3, CarriesMoves
<1>5. CASE Rejected(c)
  BY <1>0, <1>1, <1>2, <1>3, <1>5 DEF Rejected, handles
<1>6. CASE Attempt(c)
  BY <1>2, <1>4, <1>6 DEF Attempt
<1>7. CASE GetClient(c)
  BY <1>0, <1>1, <1>2, <1>3, <1>7 DEF GetClient
<1>8. CASE EnsureOpen(c)
  BY <1>0, <1>1, <1>2, <1>3, <1>8 DEF EnsureOpen, handles
<1>9. CASE Reconnect(c)
  BY <1>0, <1>1, <1>2, <1>3, <1>9 DEF Reconnect, handles
<1>10. CASE OpenFailed(c)
  BY <1>0, <1>1, <1>2, <1>10, CarriesEnds DEF OpenFailed, Fails, handles
<1>11. CASE Opened(c)
  <2>1. target[c] = transport /\ transport # NoHandle
    BY <1>0, <1>11 DEF Opened, CarriesHandle
  <2>2. CASE kind[c] = "operation"
    BY <1>2, <1>4, <1>11, <2>1, <2>2 DEF Opened
  <2>3. CASE kind[c] # "operation"
    <3>1. Ends(c, "ok") /\ client' \in {client, transport}
      BY <1>11, <2>1, <2>3 DEF Opened
    <3> QED
      BY <1>0, <1>1, <1>2, <3>1, CarriesEnds
  <2> QED
    BY <2>2, <2>3
<1>12. CASE Reconnected(c)
  BY <1>0, <1>1, <1>2, <1>12, CarriesEnds DEF Reconnected, handles
<1> QED
  BY <1>5, <1>6, <1>7, <1>8, <1>9, <1>10, <1>11, <1>12 DEF CallerSteps

LEMMA ServeCall ==
    ASSUME ServeInv, NEW c \in Callers,
           \/ Begin(c) \/ ConnectTimesOut(c) \/ CallReturns(c) \/ CallFails(c)
           \/ Interrupt(c) \/ InterruptDetached(c)
    PROVE  /\ client' \in {NoHandle, transport'} /\ OpenHasHandle'
           /\ \A d \in Callers : CarriesHandle(d)'
<1>0. /\ TypeOK /\ client \in {NoHandle, transport} /\ OpenHasHandle /\ detached = {}
      /\ \A d \in Callers : CarriesHandle(d)
  BY DEF ServeInv, HandleInv
<1>1. ~InterruptDetached(c) /\ UNCHANGED <<transport, client, live, closing, closes>>
  BY <1>0 DEF Begin, ConnectTimesOut, CallReturns, CallFails, Interrupt, InterruptDetached,
              handles, lifecycle
<1>2. OpenHasHandle' /\ client' \in {NoHandle, transport'}
  BY <1>0, <1>1 DEF OpenHasHandle, closed
<1>3. CASE Begin(c)
  <2>1. pc' = [pc EXCEPT ![c] = "starts"] /\ pc'[c] = "starts" /\ UNCHANGED target
    BY <1>0, <1>3 DEF Begin, TypeOK
  <2>2. target[c] = NoHandle
    BY <1>0, <1>3 DEF Begin, Answers, CarriesHandle
  <2>3. CarriesHandle(c)'
    BY <2>1, <2>2 DEF CarriesHandle
  <2> QED
    BY <1>0, <1>1, <1>2, <2>1, <2>3, CarriesMoves
<1>4. CASE ConnectTimesOut(c) \/ CallFails(c) \/ Interrupt(c)
  BY <1>0, <1>1, <1>2, <1>4, CarriesEnds DEF ConnectTimesOut, CallFails, Interrupt, Fails
<1>5. CASE CallReturns(c)
  <2>1. CASE pc[c] # "calls"
    BY <1>0, <1>1, <1>2, <1>5, <2>1, CarriesSame DEF CallReturns, closed
  <2>2. CASE pc[c] = "calls"
    BY <1>0, <1>1, <1>2, <1>5, <2>2, CarriesEnds DEF CallReturns
  <2> QED
    BY <2>1, <2>2
<1> QED
  BY <1>1, <1>3, <1>4, <1>5

LEMMA ServeShared ==
    ASSUME ServeInv, HandleInv', SharedSteps
    PROVE  /\ client' \in {NoHandle, transport'} /\ OpenHasHandle'
           /\ \A d \in Callers : CarriesHandle(d)'
<1>0. /\ TypeOK /\ client \in {NoHandle, transport} /\ OpenHasHandle
      /\ opening => transport = NoHandle
      /\ reconnecting # NoHandle => transport = reconnecting
      /\ \A d \in Callers : CarriesHandle(d)
  BY DEF ServeInv, HandleInv
<1>1. ASSUME NEW t \in Handles, OpenLands(t)
      PROVE  /\ client' \in {NoHandle, transport'} /\ OpenHasHandle'
             /\ \A d \in Callers : CarriesHandle(d)'
  <2>1. /\ transport = NoHandle /\ client' = NoHandle /\ UNCHANGED closing /\ live' = live \cup {t}
        /\ closed \/ (transport' = t /\ closes' = closes)
    BY <1>0, <1>1 DEF OpenLands
  <2>2. OpenHasHandle'
    BY <1>0, <1>1, <2>1 DEF OpenHasHandle, closed
  <2>3. ASSUME NEW d \in Callers PROVE CarriesHandle(d)'
    <3>1. CASE pc[d] = "opens"
      <4>1. pc'[d] = "opened" /\ target'[d] = t
        BY <1>1, <3>1 DEF OpenLands, Resume, OpenWaiters
      <4> QED
        BY <2>1, <4>1 DEF CarriesHandle, closed
    <3>2. CASE pc[d] # "opens"
      <4>1. pc'[d] = pc[d] /\ target'[d] = target[d]
        BY <1>1, <3>2 DEF OpenLands, Resume, OpenWaiters
      <4> QED
        BY <1>0, <2>1, <4>1 DEF CarriesHandle, closed
    <3> QED
      BY <3>1, <3>2
  <2> QED
    BY <2>1, <2>2, <2>3
<1>2. ASSUME NEW t \in Handles, HandleCloses(t)
      PROVE  /\ client' \in {NoHandle, transport'} /\ OpenHasHandle'
             /\ \A d \in Callers : CarriesHandle(d)'
  BY <1>0, <1>2, CarriesSame DEF HandleCloses, calls, OpenHasHandle, closed
<1>3. CASE OpenFails
  <2>1. ASSUME NEW d \in Callers PROVE CarriesHandle(d)'
    <3>1. CASE pc[d] = "opens"
      <4>1. pc'[d] = "opened" /\ target'[d] = NoHandle
        BY <1>3, <3>1 DEF OpenFails, Resume, OpenWaiters
      <4> QED
        BY <4>1 DEF CarriesHandle
    <3>2. CASE pc[d] # "opens"
      <4>1. pc'[d] = pc[d] /\ target'[d] = target[d]
        BY <1>3, <3>2 DEF OpenFails, Resume, OpenWaiters
      <4> QED
        BY <1>0, <1>3, <4>1 DEF CarriesHandle, closed, OpenFails, handles, lifecycle
    <3> QED
      BY <3>1, <3>2
  <2> QED
    BY <1>0, <1>3, <2>1 DEF OpenFails, handles, lifecycle, OpenHasHandle, closed
<1>4. ASSUME NEW at, NEW h, Resume(ReconnectWaiters, at, h), UNCHANGED <<transport, closing>>,
             \/ at = "reconnected" /\ h = transport /\ transport # NoHandle
             \/ at = "failed" /\ h = NoHandle
      PROVE  \A d \in Callers : CarriesHandle(d)'
  <2> SUFFICES ASSUME NEW d \in Callers PROVE CarriesHandle(d)'
    OBVIOUS
  <2>1. CASE pc[d] = "reconnects"
    <3>1. pc'[d] = at /\ target'[d] = h
      BY <1>4, <2>1 DEF Resume, ReconnectWaiters
    <3> QED
      BY <1>4, <3>1 DEF CarriesHandle
  <2>2. CASE pc[d] # "reconnects"
    <3>1. pc'[d] = pc[d] /\ target'[d] = target[d]
      BY <1>4, <2>2 DEF Resume, ReconnectWaiters
    <3> QED
      BY <1>0, <1>4, <3>1 DEF CarriesHandle, closed
  <2> QED
    BY <2>1, <2>2
<1>5. CASE ReconnectLands
  <2>1. /\ reconnecting = transport /\ transport # NoHandle /\ live' = live \cup {transport}
        /\ UNCHANGED <<transport, client, closing>> /\ (closed \/ closes' = closes)
    BY <1>0, <1>5 DEF ReconnectLands, NativeReconnect
  <2>2. \A d \in Callers : CarriesHandle(d)'
    BY <1>4, <1>5, <2>1 DEF ReconnectLands
  <2> QED
    BY <1>0, <2>1, <2>2 DEF OpenHasHandle, closed
<1>6. CASE ReconnectFails
  BY <1>0, <1>4, <1>6 DEF ReconnectFails, handles, lifecycle, OpenHasHandle, closed
<1>7. CASE GrantReconnect \/ clearRequestTimeout \/ setRequestTimeout \/ ServiceStops
  BY <1>0, <1>7, CarriesSame
  DEF GrantReconnect, clearRequestTimeout, setRequestTimeout, ServiceStops, handles, lifecycle,
      calls, OpenHasHandle, closed
<1>8. CASE closeTransport \/ CloseSettles
  BY <1>0, <1>8, CarriesSame
  DEF closeTransport, CloseSettles, handles, calls, OpenHasHandle, closed
<1> QED
  BY <1>1, <1>2, <1>3, <1>5, <1>6, <1>7, <1>8 DEF SharedSteps

LEMMA ServeInvariant == ASSUME ~(Serial /\ RuntimeLimits) PROVE Spec => []ServeInv
<1>1. Init => client \in {NoHandle, transport} /\ OpenHasHandle /\ \A c \in Callers : CarriesHandle(c)
  BY DEF Init, OpenHasHandle, CarriesHandle, closed
<1>2. ServeInv /\ HandleInv' /\ [Next]_vars => ServeInv'
  <2> SUFFICES ASSUME ServeInv, HandleInv', [Next]_vars
               PROVE  /\ client' \in {NoHandle, transport'} /\ OpenHasHandle'
                      /\ \A c \in Callers : CarriesHandle(c)'
    BY DEF ServeInv
  <2>1. ASSUME UNCHANGED <<handles, lifecycle, calls>>
        PROVE  /\ client' \in {NoHandle, transport'} /\ OpenHasHandle'
               /\ \A c \in Callers : CarriesHandle(c)'
    BY <2>1, CarriesSame DEF ServeInv, OpenHasHandle, handles, lifecycle, calls, closed
  <2>2. ASSUME NEW s \in Supervisors, SupervisorSteps(s)
        PROVE  UNCHANGED <<handles, lifecycle, calls>>
    BY <2>2 DEF SupervisorSteps, SupervisorAttempts, SupervisorTimesOut, SupervisorSucceeds,
                SupervisorFails, SupervisorRetries, SupervisorProbes
  <2>3. CASE Next
    BY <2>1, <2>2, <2>3, NextParts, ServeCaller, ServeCall, ServeShared
  <2>4. CASE UNCHANGED vars
    BY <2>1, <2>4 DEF vars
  <2> QED
    BY <2>3, <2>4
<1> QED
  BY <1>1, <1>2, HandlesInvariant, PTL DEF Spec, ServeInv

\* What a step does to a caller that goes on to the wire or is told of success.
Served(c) ==
    pc'[c] # pc[c] /\ pc'[c] \in {"ok", "calls"} =>
        /\ transport \in live /\ {target[c], target'[c]} \subseteq {transport, NoHandle}
        /\ closed => pc[c] = "calls"

LEMMA OthersAreNotServed ==
    ASSUME TypeOK, NEW c \in Callers, NEW at, pc' = [pc EXCEPT ![c] = at],
           at \in {"ok", "calls"} => Served(c)
    PROVE  \A d \in Callers : Served(d)
BY DEF Served, TypeOK

LEMMA ServedStep == ASSUME ServeInv, Next PROVE \A c \in Callers : Served(c)
<1>0. /\ TypeOK /\ client \in {NoHandle, transport} /\ OpenHasHandle
      /\ \A d \in Callers : CarriesHandle(d)
  BY DEF ServeInv, HandleInv
<1>1. ASSUME NEW c \in Callers, CallerSteps(c) PROVE \A d \in Callers : Served(d)
  <2>1. ASSUME ~closed, transport # NoHandle,
               {target[c], target'[c]} \subseteq {transport, NoHandle}
        PROVE  Served(c)
    BY <1>0, <2>1 DEF OpenHasHandle, Served
  <2>2. ASSUME Calls(c, transport) PROVE target'[c] \in {NoHandle, transport}
    BY <1>0, <2>2 DEF Calls, TypeOK
  <2>3. ASSUME NEW answer, Ends(c, answer) PROVE target'[c] = NoHandle
    BY <1>0, <2>3 DEF Ends, TypeOK
  <2>4. CASE Attempt(c)
    <3>1. target[c] = NoHandle /\ Calls(c, transport) /\ ~closed /\ transport # NoHandle
      BY <1>0, <2>4 DEF Attempt, CarriesHandle
    <3> QED
      BY <1>0, <2>1, <2>2, <3>1, OthersAreNotServed DEF Calls
  <2>5. CASE GetClient(c)
    <3>1. target[c] = NoHandle /\ target' = target /\ ~closed /\ transport # NoHandle
      BY <1>0, <2>5 DEF GetClient, CarriesHandle
    <3> QED
      BY <1>0, <2>1, <2>5, <3>1, OthersAreNotServed DEF GetClient
  <2>6. CASE Opened(c)
    <3>1. target[c] = transport /\ transport # NoHandle /\ ~closed
      BY <1>0, <2>6 DEF Opened, CarriesHandle
    <3>2. Served(c)
      BY <2>1, <2>2, <2>3, <2>6, <3>1 DEF Opened
    <3>3. \E at : pc' = [pc EXCEPT ![c] = at]
      BY <2>6 DEF Opened, Calls, Ends
    <3> QED
      BY <1>0, <3>2, <3>3, OthersAreNotServed
  <2>7. CASE Reconnected(c)
    <3>1. target[c] = transport /\ transport # NoHandle
      BY <1>0, <2>7 DEF Reconnected, CarriesHandle
    <3>2. CASE closed
      BY <1>0, <2>7, <3>2, OthersAreNotServed DEF Reconnected, Ends
    <3>3. CASE ~closed
      BY <1>0, <2>1, <2>3, <2>7, <3>1, <3>3, OthersAreNotServed DEF Reconnected, Ends
    <3> QED
      BY <3>2, <3>3
  <2>8. CASE Rejected(c) \/ EnsureOpen(c) \/ Reconnect(c) \/ OpenFailed(c)
    <3>1. \E at \in {"failed", "opens", "reconnects"} : pc' = [pc EXCEPT ![c] = at]
      BY <2>8 DEF Rejected, EnsureOpen, Reconnect, OpenFailed, Fails, Ends
    <3> QED
      BY <1>0, <3>1, OthersAreNotServed
  <2> QED
    BY <1>1, <2>4, <2>5, <2>6, <2>7, <2>8 DEF CallerSteps
<1>2. ASSUME NEW c \in Callers,
             \/ Begin(c) \/ ConnectTimesOut(c) \/ CallReturns(c) \/ CallFails(c)
             \/ Interrupt(c) \/ InterruptDetached(c)
      PROVE  \A d \in Callers : Served(d)
  <2>1. CASE UNCHANGED pc
    BY <2>1 DEF Served
  <2>2. CASE \E at \in {"starts", "failed"} : pc' = [pc EXCEPT ![c] = at]
    BY <1>0, <2>2, OthersAreNotServed
  <2>3. CASE CallReturns(c) /\ pc[c] = "calls"
    <3>1. Ends(c, "ok") /\ target[c] \in live /\ target[c] = transport
      BY <1>0, <2>3 DEF CallReturns, CarriesHandle
    <3>2. target'[c] = NoHandle
      BY <1>0, <3>1 DEF Ends, TypeOK
    <3>3. Served(c)
      BY <2>3, <3>1, <3>2 DEF Served
    <3> QED
      BY <1>0, <3>1, <3>3, OthersAreNotServed DEF Ends
  <2> QED
    BY <1>2, <2>1, <2>2, <2>3 DEF Begin, ConnectTimesOut, CallReturns, CallFails, Interrupt,
                                  InterruptDetached, Ends, Fails
<1>3. ASSUME UNCHANGED pc PROVE \A c \in Callers : Served(c)
  BY <1>3 DEF Served
<1>4. ASSUME NEW s \in Supervisors, SupervisorSteps(s) PROVE UNCHANGED pc
  BY <1>4 DEF SupervisorSteps, SupervisorAttempts, SupervisorTimesOut, SupervisorSucceeds,
              SupervisorFails, SupervisorRetries, SupervisorProbes, calls
<1>5. ASSUME SharedSteps PROVE \A c \in Callers : Served(c)
  <2>1. UNCHANGED pc \/ \A c \in Callers : pc'[c] \in {pc[c], "opened", "reconnected", "failed"}
    BY <1>5 DEF SharedSteps, OpenLands, HandleCloses, OpenFails, GrantReconnect, ReconnectLands,
       ReconnectFails, clearRequestTimeout, setRequestTimeout, closeTransport, CloseSettles,
       ServiceStops, Resume, calls
  <2> QED
    BY <2>1 DEF Served
<1> QED
  BY <1>1, <1>2, <1>3, <1>4, <1>5, NextParts

\* SuccessIsByTheHandle, under the condition of HandlesStayOwned: opens and reconnects of
\* shared-transport.ts that land late, the supervisor and the close never let a caller call
\* or be served by a handle that is not the transport's own, open one.
THEOREM ServedByTheHandle ==
    ASSUME ~(Serial /\ RuntimeLimits) PROVE Spec => SuccessIsByTheHandle
<1>1. ServeInv /\ [Next]_vars => [\A c \in Callers : Served(c)]_vars
  BY ServedStep
<1> QED
  BY <1>1, ServeInvariant, PTL DEF Spec, SuccessIsByTheHandle, Served

=============================================================================

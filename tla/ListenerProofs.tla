--------------------------- MODULE ListenerProofs ---------------------------
(***************************************************************************)
(* Theorems about Listener.  What the two locks alone achieve is proved    *)
(* for every program (LocksInv), the absence of deadlock for programs      *)
(* whose handlers do not call stop(), the rest for disciplined programs    *)
(* (IInv).                                                                 *)
(***************************************************************************)
EXTENDS Listener, TLAPS

-----------------------------------------------------------------------------
(* Every program.                                                          *)

\* At first nobody holds a lock.
LEMMA LocksInit == Init => LocksInv
  BY ConstantsAssumption
     DEF Init, LocksInv, PCs, StartPCs, StopPCs, FlightPCs, Threads, LockInv,
         TerminatingIsQuiet

\* Every statement takes and gives back the locks it should, whatever the
\* program calls, and only an unset flag lets a dispatcher handle.
LEMMA LocksStep == ASSUME LocksInv, [Next]_vars PROVE LocksInv'
  <1> USE ConstantsAssumption DEF Threads, LocksInv, LockInv, TerminatingIsQuiet, Handling,
          Goto, Running, Calls, PCs, StartPCs, StopPCs, FlightPCs, Crash
  <1>1. CASE UNCHANGED vars
    BY <1>1 DEF vars
  <1>2. ASSUME NEW t \in Threads, Interpreter(t) PROVE LocksInv'
    BY <1>2 DEF Interpreter, TakeGil, YieldGil
  <1>3. ASSUME NEW t \in Threads, Starting(t) PROVE LocksInv'
    <2>1. CASE Start(t)
      BY <2>1 DEF Start
    <2>2. CASE CreateListener(t)
      BY <2>2 DEF CreateListener
    <2>3. CASE Bind(t)
      BY <2>3 DEF Bind
    <2>4. CASE BindFails(t)
      BY <2>4 DEF BindFails
    <2>5. CASE BindFreed(t)
      BY <2>5 DEF BindFreed
    <2>6. QED
      BY <1>3, <2>1, <2>2, <2>3, <2>4, <2>5 DEF Starting
  <1>4. ASSUME NEW t \in Threads, Stopping(t) PROVE LocksInv'
    <2>1. CASE Stop(t)
      BY <2>1 DEF Stop
    <2>2. CASE StopFlag(t)
      BY <2>2 DEF StopFlag
    <2>3. CASE StopListener(t)
      BY <2>3 DEF StopListener
    <2>4. CASE StopNull(t)
      BY <2>4 DEF StopNull
    <2>5. CASE StopWait(t)
      BY <2>5 DEF StopWait
    <2>6. CASE StopReset(t)
      BY <2>6 DEF StopReset
    <2>7. CASE StopReturn(t)
      BY <2>7 DEF StopReturn
    <2>8. QED
      BY <1>4, <2>1, <2>2, <2>3, <2>4, <2>5, <2>6, <2>7 DEF Stopping
  <1>5. ASSUME NEW t \in Threads, Asking(t) \/ Registering(t) PROVE LocksInv'
    <2>1. CASE IsAlive(t)
      BY <2>1 DEF IsAlive
    <2>2. CASE IsAliveFollow(t)
      BY <2>2 DEF IsAliveFollow
    <2>3. CASE IsAliveNull(t)
      BY <2>3 DEF IsAliveNull
    <2>4. CASE Registering(t)
      BY <2>4 DEF Registering, AddHandler, RemoveHandler
    <2>5. QED
      BY <1>5, <2>1, <2>2, <2>3, <2>4 DEF Asking
  <1>6. ASSUME NEW d \in Dispatchers, Dispatching(d) PROVE LocksInv'
    <2>1. ASSUME NEW n \in Names, Deliver(d, n) PROVE LocksInv'
      BY <2>1 DEF Deliver
    <2>2. CASE Enter(d)
      BY <2>2 DEF Enter
    <2>3. CASE CheckTerminating(d)
      BY <2>3 DEF CheckTerminating
    <2>4. CASE AcquireGil(d)
      BY <2>4 DEF AcquireGil
    <2>5. CASE CallHandler(d)
      BY <2>5 DEF CallHandler
    <2>6. CASE HandlerReturns(d)
      BY <2>6 DEF HandlerReturns
    <2>7. CASE CallFreed(d)
      BY <2>7 DEF CallFreed
    <2>8. CASE CallDone(d)
      BY <2>8 DEF CallDone
    <2>9. CASE Unlock(d)
      BY <2>9 DEF Unlock
    <2>10. QED
      BY <1>6, <2>1, <2>2, <2>3, <2>4, <2>5, <2>6, <2>7, <2>8, <2>9 DEF Dispatching
  <1>7. QED
    BY <1>1, <1>2, <1>3, <1>4, <1>5, <1>6 DEF Next

\* What the locks guarantee holds throughout.
LEMMA LocksInvariance == Spec => []LocksInv
  <1>1. LocksInv /\ [Next]_vars => LocksInv'
    BY LocksStep
  <1>2. QED
    BY <1>1, LocksInit, PTL DEF Spec

\* m_mutex serialises the handling of indications, although handlers give up
\* the interpreter lock (consumeIndication, lmiwbem_listener.cpp:95-106).
THEOREM Serialised == Spec => []HandlersSerialised
  <1>1. LocksInv => HandlersSerialised
    BY DEF LocksInv, LockInv, HandlersSerialised, Handling, Threads
  <1>2. QED
    BY <1>1, LocksInvariance, PTL

\* When stop() has set the flag no handler runs or will run, not even when
\* several threads stop the listener (stop, lmiwbem_listener.cpp:250-268).
THEOREM FlagDrains == Spec => []TerminatingIsQuiet
  <1>1. LocksInv => TerminatingIsQuiet
    BY DEF LocksInv
  <1>2. QED
    BY <1>1, LocksInvariance, PTL

-----------------------------------------------------------------------------
(* Programs whose handlers do not call stop().                             *)

NoStopInv == \A d \in Dispatchers : pc[d] \notin StopPCs

\* No dispatcher gets inside stop().
LEMMA NoStopStep ==
    ASSUME HandlersDoNotStop, pc \in [Threads -> PCs], NoStopInv, [Next]_vars
    PROVE  NoStopInv'
  <1> USE ConstantsAssumption DEF Threads, NoStopInv, Goto, Running, Calls, StopPCs, Crash,
          HandlersDoNotStop
  <1>1. CASE UNCHANGED vars
    BY <1>1 DEF vars
  <1>2. ASSUME NEW t \in Threads, Starting(t) PROVE NoStopInv'
    BY <1>2 DEF Starting, Start, CreateListener, Bind, BindFails, BindFreed
  <1>3. ASSUME NEW t \in Threads, Stopping(t) PROVE NoStopInv'
    BY <1>3 DEF Stopping, Stop, StopFlag, StopListener, StopNull, StopWait, StopReset,
       StopReturn
  <1>4. ASSUME NEW t \in Threads, Interpreter(t) \/ Asking(t) \/ Registering(t)
        PROVE  NoStopInv'
    BY <1>4 DEF Interpreter, TakeGil, YieldGil, Asking, IsAlive, IsAliveFollow,
       IsAliveNull, Registering, AddHandler, RemoveHandler
  <1>5. ASSUME NEW d \in Dispatchers, Dispatching(d) PROVE NoStopInv'
    BY <1>5 DEF Dispatching, Deliver, Enter, CheckTerminating, AcquireGil, CallHandler,
       HandlerReturns, CallFreed, CallDone, Unlock
  <1>6. QED
    BY <1>1, <1>2, <1>3, <1>4, <1>5 DEF Next

\* No set of threads waits for itself in a circle: m_mutex is asked for without
\* the interpreter lock and no callback waits for callbacks
\* (lmiwbem_listener.cpp:90-107 and 250-268).
THEOREM DeadlockFree == ASSUME HandlersDoNotStop PROVE Spec => []NoCircularWait
  <1>1. Init => NoStopInv
    BY ConstantsAssumption DEF Init, NoStopInv, StopPCs, Threads
  <1>2. LocksInv /\ NoStopInv /\ [Next]_vars => NoStopInv'
    BY NoStopStep DEF LocksInv
  <1>3. LocksInv /\ NoStopInv => NoCircularWait
    <2> SUFFICES ASSUME LocksInv, NoStopInv,
                        NEW t \in Threads, NEW u \in Threads, WaitsFor(t, u)
                 PROVE Rank(u) < Rank(t)
      BY DEF NoCircularWait
    <2> USE ConstantsAssumption DEF LocksInv, LockInv, NoStopInv, Threads, Rank, StopPCs
    <2>1. CASE pc[t] \in {"stop_lock", "enter"} /\ mutex = u
      BY <2>1
    <2>2. CASE pc[t] \in {"python", "want_gil", "stop_gil"} /\ gil = u /\ t # u
      BY <2>2
    <2>3. CASE pc[t] = "stop_wait" /\ u \in Dispatchers /\ pc[u] # "idle"
      BY <2>3
    <2>4. QED
      BY <2>1, <2>2, <2>3 DEF WaitsFor
  <1>4. QED
    BY <1>1, <1>2, <1>3, LocksInvariance, PTL DEF Spec

-----------------------------------------------------------------------------
(* Disciplined programs.                                                   *)

\* The invariant holds at first.
LEMMA InitInv == Init => IInv
  <1> SUFFICES ASSUME Init PROVE IInv
    OBVIOUS
  <1> USE ConstantsAssumption DEF Init, Threads, NoIter
  <1>1. TypeOK
    <2>1. (CHOOSE n \in Names : TRUE) \in Names
      OBVIOUS
    <2>2. QED
      BY <2>1 DEF TypeOK, PCs, ListenerStates, Faults
  <1>2. PlaceInv /\ ListenerInv /\ NoErrorInv /\ RunningHandles
    BY DEF PlaceInv, ListenerInv, NoErrorInv, RunningHandles, StopPCs
  <1>3. QED
    BY <1>1, <1>2, LocksInit DEF IInv

\* Every step keeps the types, disciplined or not.
LEMMA TypeStep == ASSUME TypeOK, [Next]_vars PROVE TypeOK'
  <1> USE ConstantsAssumption DEF Threads, TypeOK, Goto, Running, Calls, Crash, PCs,
          StartPCs, StopPCs, FlightPCs, ListenerStates, Faults
  <1>0. NoIter \in [name : Names, next : Nat, stale : BOOLEAN]
    BY DEF NoIter
  <1>1. CASE UNCHANGED vars
    BY <1>1 DEF vars
  <1>2. ASSUME NEW t \in Threads, Interpreter(t) PROVE TypeOK'
    BY <1>2 DEF Interpreter, TakeGil, YieldGil
  <1>3. ASSUME NEW t \in Threads, Starting(t) PROVE TypeOK'
    <2>1. CASE Start(t)
      <3>1. PICK r \in 0..MaxRetries :
              /\ tries' = [tries EXCEPT ![t] = r]
              /\ pc' = [pc EXCEPT ![t] = IF r = 0 THEN "python" ELSE "start"]
        BY <2>1 DEF Start
      <3>2. r \in Nat
        OBVIOUS
      <3>3. QED
        BY <2>1, <3>1, <3>2 DEF Start
    <2>2. CASE CreateListener(t) \/ Bind(t) \/ BindFails(t) \/ BindFreed(t)
      BY <2>2 DEF CreateListener, Bind, BindFails, BindFreed
    <2>3. QED
      BY <1>3, <2>1, <2>2 DEF Starting
  <1>4. ASSUME NEW t \in Threads, Stopping(t) PROVE TypeOK'
    <2>1. CASE Stop(t) \/ StopReturn(t)
      BY <2>1 DEF Stop, StopReturn
    <2>2. CASE StopFlag(t) \/ StopListener(t) \/ StopNull(t)
      BY <2>2 DEF StopFlag, StopListener, StopNull
    <2>3. CASE StopWait(t) \/ StopReset(t)
      BY <2>3 DEF StopWait, StopReset
    <2>4. QED
      BY <1>4, <2>1, <2>2, <2>3 DEF Stopping
  <1>5. ASSUME NEW t \in Threads, Asking(t) PROVE TypeOK'
    BY <1>5 DEF Asking, IsAlive, IsAliveFollow, IsAliveNull
  <1>6. ASSUME NEW t \in Threads, NEW n \in Names, AddHandler(t, n) PROVE TypeOK'
    BY <1>6 DEF AddHandler
  <1>7. ASSUME NEW t \in Threads, NEW n \in Names, RemoveHandler(t, n) PROVE TypeOK'
    <2>1. \A d \in Dispatchers :
             [iter[d] EXCEPT !.stale = TRUE] \in [name : Names, next : Nat, stale : BOOLEAN]
      OBVIOUS
    <2>2. iter' \in [Dispatchers -> [name : Names, next : Nat, stale : BOOLEAN]]
      BY <1>7, <2>1 DEF RemoveHandler
    <2>3. QED
      BY <1>7, <2>2 DEF RemoveHandler
  <1>8. ASSUME NEW d \in Dispatchers, Dispatching(d) PROVE TypeOK'
    <2>1. ASSUME NEW n \in Names, Deliver(d, n) PROVE TypeOK'
      BY <1>0, <2>1 DEF Deliver
    <2>2. CASE Enter(d) \/ CheckTerminating(d) \/ AcquireGil(d) \/ CallDone(d)
      BY <2>2 DEF Enter, CheckTerminating, AcquireGil, CallDone
    <2>3. CASE CallHandler(d)
      BY <2>3 DEF CallHandler
    <2>4. CASE HandlerReturns(d) \/ CallFreed(d)
      BY <2>4 DEF HandlerReturns, CallFreed
    <2>5. CASE Unlock(d)
      BY <1>0, <2>5 DEF Unlock
    <2>6. QED
      BY <1>8, <2>1, <2>2, <2>3, <2>4, <2>5 DEF Dispatching
  <1>9. QED
    BY <1>1, <1>2, <1>3, <1>4, <1>5, <1>6, <1>7, <1>8 DEF Next, Registering

\* What a disciplined program adds to the locks.
OwnInv == PlaceInv /\ ListenerInv /\ NoErrorInv /\ RunningHandles

\* Taking and giving up the interpreter lock.
LEMMA InterpreterInv ==
    ASSUME IInv, NEW t \in Threads, Interpreter(t) PROVE OwnInv'
  BY ConstantsAssumption DEF Interpreter, TakeGil, YieldGil, IInv, OwnInv, PlaceInv,
     ListenerInv, NoErrorInv, RunningHandles

\* start(): a failed bind frees the object it created.
LEMMA StartingInv ==
    ASSUME Discipline, IInv, NEW t \in Threads, Starting(t) PROVE OwnInv'
  <1> USE ConstantsAssumption DEF Threads, Goto, IInv, LocksInv, LockInv, OwnInv, PlaceInv,
          ListenerInv, NoErrorInv, RunningHandles, StartPCs, StopPCs, FlightPCs
  <1>1. CASE Start(t)
    BY <1>1 DEF Start, Calls, Running
  <1>2. CASE CreateListener(t)
    BY <1>2 DEF CreateListener
  <1>3. CASE Bind(t)
    BY <1>3 DEF Bind
  <1>4. CASE BindFails(t)
    BY <1>4 DEF BindFails
  <1>5. CASE BindFreed(t)
    BY <1>5 DEF BindFreed
  <1>6. QED
    BY <1>1, <1>2, <1>3, <1>4, <1>5 DEF Starting

\* stop(): each statement finds the listener that the first one saw.
LEMMA StoppingInv ==
    ASSUME Discipline, IInv, NEW t \in Threads, Stopping(t) PROVE OwnInv'
  <1> USE ConstantsAssumption DEF Threads, Goto, IInv, LocksInv, LockInv, OwnInv, PlaceInv,
          ListenerInv, NoErrorInv, RunningHandles, StartPCs, StopPCs, FlightPCs
  <1>1. CASE Stop(t)
    <2>1. \A s \in Threads : pc[s] \notin StopPCs
      BY <1>1 DEF Stop, Calls, Running, Discipline, OneStopper
    <2>2. listener = "running"
      BY <1>1, <2>1 DEF Stop, Calls, Running, TypeOK, ListenerStates
    <2>3. t \in Callers
      BY <1>1 DEF Stop, Calls, Discipline, HandlersDoNotStop
    <2>4. QED
      BY <1>1, <2>1, <2>2, <2>3 DEF Stop, Calls, Running
  <1>2. CASE StopFlag(t)
    BY <1>2 DEF StopFlag, Discipline, OneStopper
  <1>3. CASE StopListener(t)
    BY <1>3 DEF StopListener, Discipline, OneStopper
  <1>4. CASE StopNull(t)
    BY <1>4 DEF StopNull
  <1>5. CASE StopWait(t)
    BY <1>5 DEF StopWait, Discipline, OneStopper
  <1>6. CASE StopReset(t)
    BY <1>6 DEF StopReset, Discipline, OneStopper, OnlyTheStopperAsks
  <1>7. CASE StopReturn(t)
    BY <1>7 DEF StopReturn
  <1>8. QED
    BY <1>1, <1>2, <1>3, <1>4, <1>5, <1>6, <1>7 DEF Stopping

\* is_alive and uses_ssl: the listener they tested is still there.
LEMMA AskingInv ==
    ASSUME Discipline, IInv, NEW t \in Threads, Asking(t) PROVE OwnInv'
  <1> USE ConstantsAssumption DEF Threads, Goto, IInv, LocksInv, LockInv, OwnInv, PlaceInv,
          ListenerInv, NoErrorInv, RunningHandles, StartPCs, StopPCs, FlightPCs
  <1>1. CASE IsAlive(t)
    BY <1>1 DEF IsAlive, Calls, Running
  <1>2. CASE IsAliveFollow(t)
    BY <1>2 DEF IsAliveFollow
  <1>3. CASE IsAliveNull(t)
    BY <1>3 DEF IsAliveNull
  <1>4. QED
    BY <1>1, <1>2, <1>3 DEF Asking

\* add_handler and remove_handler: handlers change, and no iterator goes stale.
LEMMA RegisteringInv ==
    ASSUME Discipline, IInv, NEW t \in Threads, Registering(t) PROVE OwnInv'
  <1> USE DEF IInv, OwnInv, PlaceInv, ListenerInv, NoErrorInv, RunningHandles
  <1>1. ASSUME NEW n \in Names, AddHandler(t, n) PROVE OwnInv'
    BY <1>1 DEF AddHandler
  <1>2. ASSUME NEW n \in Names, RemoveHandler(t, n) PROVE OwnInv'
    <2>1. \A d \in Dispatchers : ~Iterating(d, n)
      BY <1>2 DEF RemoveHandler, Discipline, Iterating, StartPCs, StopPCs
    <2>2. iter' = [d \in Dispatchers |-> iter[d]]
      BY <1>2, <2>1 DEF RemoveHandler
    <2>3. QED
      BY <1>2, <2>2 DEF RemoveHandler
  <1>3. QED
    BY <1>1, <1>2 DEF Registering

\* consumeIndication.
LEMMA DispatchingInv ==
    ASSUME IInv, NEW d \in Dispatchers, Dispatching(d) PROVE OwnInv'
  <1> USE ConstantsAssumption DEF Threads, Goto, IInv, LocksInv, LockInv, OwnInv, PlaceInv,
          ListenerInv, RunningHandles, StartPCs, StopPCs, FlightPCs
  <1>1. NoErrorInv'
    <2> USE DEF NoErrorInv, NoIter, TypeOK
    <2>1. ASSUME NEW n \in Names, Deliver(d, n) PROVE NoErrorInv'
      BY <2>1 DEF Deliver
    <2>2. CASE CallHandler(d)
      BY <2>2 DEF CallHandler
    <2>3. CASE Unlock(d)
      BY <2>3 DEF Unlock
    <2>4. CASE Enter(d) \/ CheckTerminating(d) \/ AcquireGil(d) \/ HandlerReturns(d)
      BY <2>4 DEF Enter, CheckTerminating, AcquireGil, HandlerReturns
    <2>5. CASE CallFreed(d) \/ CallDone(d)
      BY <2>5 DEF CallFreed, CallDone
    <2>6. QED
      BY <2>1, <2>2, <2>3, <2>4, <2>5 DEF Dispatching
  <1>2. ASSUME NEW n \in Names, Deliver(d, n) PROVE OwnInv'
    BY <1>1, <1>2 DEF Deliver
  <1>3. CASE Enter(d) \/ CheckTerminating(d) \/ AcquireGil(d)
    BY <1>1, <1>3 DEF Enter, CheckTerminating, AcquireGil
  <1>4. CASE CallHandler(d) \/ HandlerReturns(d)
    BY <1>1, <1>4 DEF CallHandler, HandlerReturns, Running
  <1>5. CASE CallFreed(d)
    BY <1>5 DEF CallFreed, NoErrorInv
  <1>6. CASE CallDone(d) \/ Unlock(d)
    BY <1>1, <1>6 DEF CallDone, Unlock
  <1>7. QED
    BY <1>2, <1>3, <1>4, <1>5, <1>6 DEF Dispatching

\* The invariant is inductive.
LEMMA StepInv == Discipline /\ IInv /\ [Next]_vars => IInv'
  <1> SUFFICES ASSUME Discipline, IInv, [Next]_vars PROVE IInv'
    OBVIOUS
  <1>1. TypeOK' /\ LocksInv'
    BY TypeStep, LocksStep DEF IInv
  <1>2. CASE UNCHANGED vars
    BY <1>1, <1>2 DEF vars, IInv, PlaceInv, ListenerInv, NoErrorInv, RunningHandles
  <1>3. CASE Next
    <2>1. OwnInv'
      BY <1>3, InterpreterInv, StartingInv, StoppingInv, AskingInv, RegisteringInv,
         DispatchingInv DEF Next
    <2>2. QED
      BY <1>1, <2>1 DEF IInv, OwnInv
  <1>4. QED
    BY <1>2, <1>3

\* Under the discipline the invariant holds throughout.
LEMMA Invariance == ASSUME Discipline PROVE Spec => []IInv
  <1>1. IInv /\ [Next]_vars => IInv'
    BY StepInv
  <1>2. QED
    BY <1>1, InitInv, PTL DEF Spec

-----------------------------------------------------------------------------
\* Every variable of the listener keeps its type, whatever the program.
THEOREM TypeCorrect == Spec => []TypeOK
  <1>1. Init => TypeOK
    BY InitInv DEF IInv
  <1>2. TypeOK /\ [Next]_vars => TypeOK'
    BY TypeStep
  <1>3. QED
    BY <1>1, <1>2, PTL DEF Spec

\* No thread follows a null or freed listener or a freed list of handlers:
\* start, stop, is_alive and call (lmiwbem_listener.cpp:187-282, 357-369).
THEOREM MemorySafe == ASSUME Discipline PROVE Spec => []NoMemoryError
  <1>1. IInv => NoMemoryError
    BY DEF IInv, NoErrorInv, NoMemoryError
  <1>2. QED
    BY <1>1, Invariance, PTL

\* When stop() has freed the listener no callback is left
\* (lmiwbem_listener.cpp:266-267).
THEOREM StopDrains == ASSUME Discipline PROVE Spec => []StoppedIsQuiet
  <1>1. IInv => StoppedIsQuiet
    BY DEF IInv, ListenerInv, StoppedIsQuiet
  <1>2. QED
    BY <1>1, Invariance, PTL

\* The listener handles what it gets unless it is being stopped (the unguarded
\* write of m_terminating in start, lmiwbem_listener.cpp:192, is harmless).
THEOREM Handles == ASSUME Discipline PROVE Spec => []RunningHandles
  <1>1. IInv => RunningHandles
    BY DEF IInv
  <1>2. QED
    BY <1>1, Invariance, PTL

-----------------------------------------------------------------------------
(* Refinement.                                                             *)

\* A thread that moves without beginning or ending the handling of an
\* indication leaves the set of those that handle one alone.
LEMMA HandlingUnchanged ==
    ASSUME TypeOK, PlaceInv, NEW t \in Threads, NEW label \in PCs, Goto(t, label),
           t \in Dispatchers =>
              (t \in Handling <=> label \notin {"idle", "enter", "locked", "unlock"})
    PROVE  Handling' = Handling
  <1>1. \A d \in Dispatchers : d # t => pc'[d] = pc[d]
    BY ConstantsAssumption DEF Goto, TypeOK, Threads
  <1>2. pc'[t] = label
    BY DEF Goto, TypeOK
  <1>3. QED
    BY <1>1, <1>2 DEF Handling

\* A step of the listener is a step of the service or leaves it alone.
LEMMA StepRefines ==
    ASSUME Discipline, IInv, [Next]_vars PROVE [Service!Next]_<<Phase, Handling>>
  <1> USE ConstantsAssumption DEF Threads, IInv, LocksInv
  <1> DEFINE Same == Phase' = Phase /\ Handling' = Handling
  <1>1. CASE UNCHANGED vars
    BY <1>1 DEF vars, Phase, Handling
  <1>2. ASSUME NEW t \in Threads, Interpreter(t) PROVE Same
    BY <1>2 DEF Interpreter, TakeGil, YieldGil, Phase, Handling
  <1>3. ASSUME NEW t \in Threads, Starting(t) PROVE Same \/ Service!Open
    <2> USE DEF Goto, PlaceInv, ListenerInv, StartPCs, StopPCs, FlightPCs
    <2>1. CASE Start(t)
      <3>1. t \notin Dispatchers
        BY <2>1 DEF Start, Calls, Running
      <3>2. QED
        BY <2>1, <3>1 DEF Start, Calls, Running, Phase, Handling, TypeOK
    <2>2. CASE CreateListener(t) \/ BindFails(t)
      BY <2>2 DEF CreateListener, BindFails, Phase, Handling, TypeOK
    <2>3. CASE Bind(t)
      BY <2>3 DEF Bind, Phase, Handling, TypeOK, Service!Open
    <2>4. CASE BindFreed(t)
      BY <2>4 DEF BindFreed
    <2>5. QED
      BY <1>3, <2>1, <2>2, <2>3, <2>4 DEF Starting
  <1>4. ASSUME NEW t \in Threads, Stopping(t)
        PROVE  Same \/ Service!BeginClosing \/ Service!Close
    <2> USE DEF Goto, PlaceInv, ListenerInv, StartPCs, StopPCs, FlightPCs
    <2>1. t \notin Dispatchers
      BY <1>4 DEF Stopping, Stop, StopFlag, StopListener, StopNull, StopWait, StopReset,
         StopReturn, Calls, Discipline, HandlersDoNotStop
    <2>2. Handling' = Handling
      BY <1>4, <2>1 DEF Stopping, Stop, StopFlag, StopListener, StopNull, StopWait,
         StopReset, StopReturn, Crash, Handling, TypeOK
    <2>3. CASE Stop(t) \/ StopReturn(t)
      BY <2>2, <2>3 DEF Stop, StopReturn, Phase
    <2>4. CASE StopFlag(t)
      <3>1. listener = "running" /\ terminating'
        BY <2>4 DEF StopFlag
      <3>2. Handling = {}
        BY <2>4 DEF StopFlag, Handling, LockInv
      <3>3. Phase' = "closing" /\ Phase \in {"open", "closing"}
        BY <2>4, <3>1 DEF StopFlag, Phase
      <3>4. QED
        BY <2>2, <3>2, <3>3 DEF Service!BeginClosing
    <2>5. CASE StopListener(t) \/ StopWait(t)
      BY <2>2, <2>5 DEF StopListener, StopWait, Phase
    <2>6. CASE StopReset(t)
      BY <2>2, <2>6 DEF StopReset, Phase, Service!Close
    <2>7. CASE StopNull(t)
      BY <2>7 DEF StopNull
    <2>8. QED
      BY <1>4, <2>3, <2>4, <2>5, <2>6, <2>7 DEF Stopping
  <1>5. ASSUME NEW t \in Threads, Asking(t) PROVE Same
    <2>1. CASE IsAlive(t)
      BY <2>1, HandlingUnchanged DEF IsAlive, Calls, Running, Handling, PCs, Phase
    <2>2. CASE IsAliveFollow(t)
      BY <2>2, HandlingUnchanged DEF IsAliveFollow, Handling, PCs, Phase
    <2>3. CASE IsAliveNull(t)
      BY <2>3 DEF IsAliveNull, ListenerInv
    <2>4. QED
      BY <1>5, <2>1, <2>2, <2>3 DEF Asking
  <1>6. ASSUME NEW t \in Threads, Registering(t) PROVE Same
    BY <1>6 DEF Registering, AddHandler, RemoveHandler, Phase, Handling
  <1>7. ASSUME NEW d \in Dispatchers, Dispatching(d)
        PROVE  Same \/ Service!BeginHandling(d) \/ Service!EndHandling(d)
    <2>1. ASSUME NEW n \in Names, Deliver(d, n) PROVE Same
      BY <2>1, HandlingUnchanged DEF Deliver, Handling, PCs, FlightPCs, Phase
    <2>2. CASE Enter(d)
      BY <2>2, HandlingUnchanged DEF Enter, Handling, PCs, FlightPCs, Phase
    <2>3. CASE AcquireGil(d)
      BY <2>3, HandlingUnchanged DEF AcquireGil, Handling, PCs, FlightPCs, Phase
    <2>4. CASE CallHandler(d)
      BY <2>4, HandlingUnchanged DEF CallHandler, Handling, PCs, Phase
    <2>5. CASE HandlerReturns(d)
      BY <2>5, HandlingUnchanged DEF HandlerReturns, Running, Handling, PCs, FlightPCs, Phase
    <2>6. CASE Unlock(d)
      BY <2>6, HandlingUnchanged DEF Unlock, Handling, PCs, Phase
    <2>7. CASE CheckTerminating(d) /\ terminating
      BY <2>7, HandlingUnchanged DEF CheckTerminating, Handling, PCs, FlightPCs, Phase
    <2>8. CASE CheckTerminating(d) /\ ~terminating
      <3>1. Phase = "open" /\ Phase' = "open"
        BY <2>8 DEF CheckTerminating, Phase, ListenerInv
      <3>2. Handling = {}
        BY <2>8 DEF CheckTerminating, Handling, LockInv
      <3>3. Handling' = {d}
        BY <2>8, <3>2 DEF CheckTerminating, Goto, Handling, TypeOK
      <3>4. QED
        BY <3>1, <3>2, <3>3 DEF Service!BeginHandling
    <2>9. CASE CallDone(d)
      <3>1. Handling = {d}
        BY <2>9 DEF CallDone, Handling, LockInv
      <3>2. Handling' = {}
        BY <2>9, <3>1 DEF CallDone, Goto, Handling, TypeOK
      <3>3. Phase' = Phase
        BY <2>9 DEF CallDone, Phase
      <3>4. QED
        BY <3>1, <3>2, <3>3 DEF Service!EndHandling
    <2>10. CASE CallFreed(d)
      BY <2>10 DEF CallFreed, NoErrorInv
    <2>11. QED
      BY <1>7, <2>1, <2>2, <2>3, <2>4, <2>5, <2>6, <2>7, <2>8, <2>9, <2>10
         DEF Dispatching
  <1>8. QED
    BY <1>1, <1>2, <1>3, <1>4, <1>5, <1>6, <1>7 DEF Next, Service!Next

\* Locks, flag and threads implement the service that drains before it closes
\* (lmiwbem_listener.cpp:90-268).
THEOREM Implementation == ASSUME Discipline PROVE Spec => ImplementsService
  <1>1. Init => Service!Init
    BY ConstantsAssumption DEF Init, Service!Init, Phase, Handling, Threads
  <1>2. IInv /\ [Next]_vars => [Service!Next]_<<Phase, Handling>>
    BY StepRefines
  <1>3. QED
    BY <1>1, <1>2, Invariance, PTL DEF Spec, ImplementsService, Service!Spec, Service!vars

=============================================================================

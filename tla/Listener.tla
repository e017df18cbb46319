------------------------------ MODULE Listener ------------------------------
(***************************************************************************)
(* CIMIndicationListener (src/src/obj/lmiwbem_listener.cpp): the object    *)
(* that Python threads start, stop and query while the threads of the      *)
(* Pegasus indication dispatcher call consumeIndication.  Two locks guard  *)
(* it: the interpreter lock (lmiwbem_gil.cpp) and m_mutex, a non-recursive *)
(* pthread mutex (lmiwbem_mutex.cpp).                                      *)
(*                                                                         *)
(* A thread's pc names the statement it executes next.  The port numbers   *)
(* that start() walks through are in module PortRetry.                     *)
(***************************************************************************)
EXTENDS Naturals

CONSTANTS
    Callers,      \* Python threads that call the listener's methods
    Dispatchers,  \* threads of the Pegasus dispatcher
    Names,        \* indication names
    NoThread,     \* "held by nobody"
    MayCall,      \* MayCall[t]: the methods the Python code of t calls; for a
                  \* dispatcher that code is the indication handlers
    LiveRemoval,  \* may remove_handler be called while a listener exists?
    MaxRetries,   \* bound on start()'s argument
    MaxHandlers,  \* bound on the handlers registered under one name
    MaxLate       \* bound on the callbacks Pegasus begins while it is stopped

Threads == Callers \cup Dispatchers

Methods == {"start", "stop", "is_alive", "add_handler", "remove_handler"}

ASSUME ConstantsAssumption ==
    /\ Callers \cap Dispatchers = {}
    /\ NoThread \notin Threads
    /\ MayCall \in [Threads -> SUBSET Methods]
    /\ LiveRemoval \in BOOLEAN
    /\ Names # {}
    /\ MaxRetries \in Nat
    /\ MaxHandlers \in Nat
    /\ MaxLate \in Nat

VARIABLES
    gil,          \* the thread that holds the interpreter lock
    mutex,        \* the thread that holds m_mutex
    terminating,  \* m_terminating
    listener,     \* m_listener and the state of the object it points to
    late,         \* callbacks a listener that is being stopped may still begin
    handlers,     \* m_handlers: how many handlers each name has
    pc,           \* what each thread executes next
    tries,        \* start(): binds left
    iter,         \* call(): the list iterator of each dispatcher
    fault         \* the first memory error, if any

vars == <<gil, mutex, terminating, listener, late, handlers, pc, tries, iter, fault>>

\* What m_listener is: "none" is the null pointer, "created" an object that is
\* not started; "stopping" is inside, "stopped" after, CIMListener::stop().
ListenerStates == {"none", "created", "running", "stopping", "stopped"}

StartPCs == {"start", "bind"}
StopPCs  == {"stop_lock", "stop_call", "stop_wait", "stop_reset", "stop_gil"}
FlightPCs == {"enter", "locked", "want_gil", "call", "unlock"}
PCs == {"idle", "python", "alive"} \cup StartPCs \cup StopPCs \cup FlightPCs

Faults == {"none", "null_listener", "freed_listener", "freed_handlers"}

\* An iterator that is not in use.  "next" is the position of the handler it
\* points to, "stale" says the list it walks has been freed.
NoIter == [name |-> CHOOSE n \in Names : TRUE, next |-> 1, stale |-> FALSE]

Init ==
    /\ gil = NoThread
    /\ mutex = NoThread
    /\ terminating = FALSE
    /\ listener = "none"
    /\ late = 0
    /\ handlers = [n \in Names |-> 0]
    /\ pc = [t \in Threads |-> IF t \in Callers THEN "python" ELSE "idle"]
    /\ tries = [t \in Threads |-> 0]
    /\ iter = [d \in Dispatchers |-> NoIter]
    /\ fault = "none"

-----------------------------------------------------------------------------
(* The interpreter.                                                        *)

\* t runs Python code: a caller's own, or a handler in a dispatcher's thread.
Running(t) == pc[t] = "python" /\ gil = t

Calls(t, method) == Running(t) /\ method \in MayCall[t]

Goto(t, label) == pc' = [pc EXCEPT ![t] = label]

\* The interpreter switches threads only between bytecodes, so a thread inside
\* a method keeps the lock unless the method itself releases it.
TakeGil(t) ==
    /\ pc[t] = "python"
    /\ gil = NoThread
    /\ gil' = t
    /\ UNCHANGED <<mutex, terminating, listener, late, handlers, pc, tries, iter, fault>>

YieldGil(t) ==
    /\ Running(t)
    /\ gil' = NoThread
    /\ UNCHANGED <<mutex, terminating, listener, late, handlers, pc, tries, iter, fault>>

\* A memory error: the run says no more about the process after it.
Crash(kind) ==
    /\ fault' = kind
    /\ UNCHANGED <<gil, mutex, terminating, listener, late, handlers, pc, tries, iter>>

-----------------------------------------------------------------------------
(* start(retries)                                                          *)

\* Mutant: start() forgets to clear the flag.
StartKeepsFlag(t) ==
    /\ Calls(t, "start")
    /\ listener = "none"
    /\ \E r \in 0..MaxRetries :
          /\ tries' = [tries EXCEPT ![t] = r]
          /\ Goto(t, IF r = 0 THEN "python" ELSE "start")
    /\ UNCHANGED <<gil, mutex, terminating, listener, late, handlers, iter, fault>>

\* With a listener present start() returns at once.  Otherwise the flag is
\* cleared, without m_mutex, before the argument is looked at; a negative
\* argument raises and is here r = 0, which binds nothing either.
Start(t) ==
    /\ Calls(t, "start")
    /\ listener = "none"
    /\ terminating' = FALSE
    /\ \E r \in 0..MaxRetries :
          /\ tries' = [tries EXCEPT ![t] = r]
          /\ Goto(t, IF r = 0 THEN "python" ELSE "start")
    /\ UNCHANGED <<gil, mutex, listener, late, handlers, iter, fault>>

CreateListener(t) ==
    /\ pc[t] = "start"
    /\ listener' = "created"
    /\ Goto(t, "bind")
    /\ UNCHANGED <<gil, mutex, terminating, late, handlers, tries, iter, fault>>

\* addConsumer() and start() on the new object.
Bind(t) ==
    /\ pc[t] = "bind"
    /\ listener = "created"
    /\ listener' = "running"
    /\ tries' = [tries EXCEPT ![t] = 0]
    /\ Goto(t, "python")
    /\ UNCHANGED <<gil, mutex, terminating, late, handlers, iter, fault>>

\* Mutant: the loop does not look at the binds that are left.
BindFailsForEver(t) ==
    /\ pc[t] = "bind"
    /\ listener = "created"
    /\ listener' = "none"
    /\ tries' = [tries EXCEPT ![t] = @ - 1]
    /\ Goto(t, "start")
    /\ UNCHANGED <<gil, mutex, terminating, late, handlers, iter, fault>>

\* The bind throws: the object is freed; the loop goes on while binds are left
\* and the next port is in range, and raises otherwise.
BindFails(t) ==
    /\ pc[t] = "bind"
    /\ listener = "created"
    /\ listener' = "none"
    /\ \/ /\ tries[t] > 1
          /\ tries' = [tries EXCEPT ![t] = @ - 1]
          /\ Goto(t, "start")
       \/ /\ tries' = [tries EXCEPT ![t] = 0]
          /\ Goto(t, "python")
    /\ UNCHANGED <<gil, mutex, terminating, late, handlers, iter, fault>>

\* A stop() that ran without the interpreter lock freed the new object.
BindFreed(t) ==
    /\ pc[t] = "bind"
    /\ listener # "created"
    /\ Crash("freed_listener")

-----------------------------------------------------------------------------
(* stop()                                                                  *)

\* Mutant: the interpreter lock is kept over stop().
StopKeepsGil(t) ==
    /\ Calls(t, "stop")
    /\ listener # "none"
    /\ Goto(t, "stop_lock")
    /\ UNCHANGED <<gil, mutex, terminating, listener, late, handlers, tries, iter, fault>>

\* Mutant: the test for a listener is dropped.
StopUntested(t) ==
    /\ Calls(t, "stop")
    /\ gil' = NoThread
    /\ Goto(t, "stop_lock")
    /\ UNCHANGED <<mutex, terminating, listener, late, handlers, tries, iter, fault>>

\* m_listener is read here, with the interpreter lock, and used in
\* StopListener and StopReset, without it.
Stop(t) ==
    /\ Calls(t, "stop")
    /\ listener # "none"
    /\ gil' = NoThread
    /\ Goto(t, "stop_lock")
    /\ UNCHANGED <<mutex, terminating, listener, late, handlers, tries, iter, fault>>

\* Mutant: the flag is set without m_mutex.
StopFlagUnlocked(t) ==
    /\ pc[t] = "stop_lock"
    /\ terminating' = TRUE
    /\ Goto(t, "stop_call")
    /\ UNCHANGED <<gil, mutex, listener, late, handlers, tries, iter, fault>>

\* The inner scope: lock, set, unlock.  No step of another thread that needs
\* m_mutex fits in between.
StopFlag(t) ==
    /\ pc[t] = "stop_lock"
    /\ mutex = NoThread
    /\ terminating' = TRUE
    /\ Goto(t, "stop_call")
    /\ UNCHANGED <<gil, mutex, listener, late, handlers, tries, iter, fault>>

\* Mutant: the listener is freed without being stopped.
StopNotCalled(t) ==
    /\ pc[t] = "stop_call"
    /\ listener # "none"
    /\ listener' = "stopped"
    /\ Goto(t, "stop_reset")
    /\ UNCHANGED <<gil, mutex, terminating, late, handlers, tries, iter, fault>>

StopListener(t) ==
    /\ pc[t] = "stop_call"
    /\ listener # "none"
    /\ listener' = "stopping"
    /\ late' = MaxLate
    /\ Goto(t, "stop_wait")
    /\ UNCHANGED <<gil, mutex, terminating, handlers, tries, iter, fault>>

StopNull(t) ==
    /\ pc[t] = "stop_call"
    /\ listener = "none"
    /\ Crash("null_listener")

\* CIMListener::stop() returns when no callback is in flight, whether or not
\* it began more of them in the meantime.
StopWait(t) ==
    /\ pc[t] = "stop_wait"
    /\ \A d \in Dispatchers : pc[d] = "idle"
    /\ listener' = "stopped"
    /\ late' = 0
    /\ Goto(t, "stop_reset")
    /\ UNCHANGED <<gil, mutex, terminating, handlers, tries, iter, fault>>

\* Another thread inside stop() of the object that is freed here is left in
\* freed memory.
StopReset(t) ==
    /\ pc[t] = "stop_reset"
    /\ listener' = "none"
    /\ Goto(t, "stop_gil")
    /\ fault' = IF \E s \in Threads : pc[s] = "stop_wait"
                  THEN "freed_listener" ELSE fault
    /\ UNCHANGED <<gil, mutex, terminating, late, handlers, tries, iter>>

StopReturn(t) ==
    /\ pc[t] = "stop_gil"
    /\ gil = NoThread
    /\ gil' = t
    /\ Goto(t, "python")
    /\ UNCHANGED <<mutex, terminating, listener, late, handlers, tries, iter, fault>>

-----------------------------------------------------------------------------
(* is_alive and uses_ssl: both test m_listener, then follow it, with the   *)
(* interpreter lock held over both.                                        *)

IsAlive(t) ==
    /\ Calls(t, "is_alive")
    /\ listener # "none"
    /\ Goto(t, "alive")
    /\ UNCHANGED <<gil, mutex, terminating, listener, late, handlers, tries, iter, fault>>

IsAliveFollow(t) ==
    /\ pc[t] = "alive"
    /\ listener # "none"
    /\ Goto(t, "python")
    /\ UNCHANGED <<gil, mutex, terminating, listener, late, handlers, tries, iter, fault>>

IsAliveNull(t) ==
    /\ pc[t] = "alive"
    /\ listener = "none"
    /\ Crash("null_listener")

-----------------------------------------------------------------------------
(* add_handler and remove_handler: under the interpreter lock alone.       *)

\* A list or tuple registers its handlers one by one, so the call leaves any
\* number of them behind when a later element is not callable.
AddHandler(t, n) ==
    /\ Calls(t, "add_handler")
    /\ \E k \in 1..MaxHandlers :
          /\ handlers[n] + k <= MaxHandlers
          /\ handlers' = [handlers EXCEPT ![n] = @ + k]
    /\ UNCHANGED <<gil, mutex, terminating, listener, late, pc, tries, iter, fault>>

\* Is d between the look-up of the name n in call() and call()'s return?
Iterating(d, n) ==
    /\ pc[d] \in {"call", "python", "alive"} \cup StartPCs \cup StopPCs
    /\ iter[d].name = n

\* erase() frees the list, and with it the nodes of every iterator on it.
RemoveHandler(t, n) ==
    /\ Calls(t, "remove_handler")
    /\ LiveRemoval \/ listener = "none"
    /\ handlers[n] > 0
    /\ handlers' = [handlers EXCEPT ![n] = 0]
    /\ iter' = [d \in Dispatchers |->
                  IF Iterating(d, n) THEN [iter[d] EXCEPT !.stale = TRUE]
                                     ELSE iter[d]]
    /\ UNCHANGED <<gil, mutex, terminating, listener, late, pc, tries, fault>>

-----------------------------------------------------------------------------
(* consumeIndication, in a dispatcher's thread                             *)

\* Pegasus calls the consumer, and while it is being stopped still does so for
\* what it has already accepted.
Deliver(d, n) ==
    /\ pc[d] = "idle"
    /\ \/ listener = "running" /\ UNCHANGED late
       \/ listener = "stopping" /\ late > 0 /\ late' = late - 1
    /\ iter' = [iter EXCEPT ![d] = [NoIter EXCEPT !.name = n]]
    /\ Goto(d, "enter")
    /\ UNCHANGED <<gil, mutex, terminating, listener, handlers, tries, fault>>

\* Mutant: consumeIndication does not wait for m_mutex.
EnterUnlocked(d) ==
    /\ pc[d] = "enter"
    /\ mutex' = d
    /\ Goto(d, "locked")
    /\ UNCHANGED <<gil, terminating, listener, late, handlers, tries, iter, fault>>

Enter(d) ==
    /\ pc[d] = "enter"
    /\ mutex = NoThread
    /\ mutex' = d
    /\ Goto(d, "locked")
    /\ UNCHANGED <<gil, terminating, listener, late, handlers, tries, iter, fault>>

\* Mutant: the flag is not looked at.
CheckNothing(d) ==
    /\ pc[d] = "locked"
    /\ Goto(d, "want_gil")
    /\ UNCHANGED <<gil, mutex, terminating, listener, late, handlers, tries, iter, fault>>

CheckTerminating(d) ==
    /\ pc[d] = "locked"
    /\ Goto(d, IF terminating THEN "unlock" ELSE "want_gil")
    /\ UNCHANGED <<gil, mutex, terminating, listener, late, handlers, tries, iter, fault>>

AcquireGil(d) ==
    /\ pc[d] = "want_gil"
    /\ gil = NoThread
    /\ gil' = d
    /\ Goto(d, "call")
    /\ UNCHANGED <<mutex, terminating, listener, late, handlers, tries, iter, fault>>

\* call(): the next handler of the list runs, as Python code ...
CallHandler(d) ==
    /\ pc[d] = "call"
    /\ ~iter[d].stale
    /\ iter[d].next <= handlers[iter[d].name]
    /\ iter' = [iter EXCEPT ![d].next = @ + 1]
    /\ Goto(d, "python")
    /\ UNCHANGED <<gil, mutex, terminating, listener, late, handlers, tries, fault>>

\* ... until it returns, or raises: the error is printed and cleared.
HandlerReturns(d) ==
    /\ Running(d)
    /\ Goto(d, "call")
    /\ UNCHANGED <<gil, mutex, terminating, listener, late, handlers, tries, iter, fault>>

CallFreed(d) ==
    /\ pc[d] = "call"
    /\ iter[d].stale
    /\ Crash("freed_handlers")

\* Mutant: the interpreter lock is not given back.
CallKeepsGil(d) ==
    /\ pc[d] = "call"
    /\ ~iter[d].stale
    /\ iter[d].next > handlers[iter[d].name]
    /\ Goto(d, "unlock")
    /\ UNCHANGED <<gil, mutex, terminating, listener, late, handlers, tries, iter, fault>>

\* The end of the list: ~ScopedGILAcquire, then ~ScopedMutex in Unlock.
CallDone(d) ==
    /\ pc[d] = "call"
    /\ ~iter[d].stale
    /\ iter[d].next > handlers[iter[d].name]
    /\ gil' = NoThread
    /\ Goto(d, "unlock")
    /\ UNCHANGED <<mutex, terminating, listener, late, handlers, tries, iter, fault>>

\* Mutant: m_mutex is not given back.
UnlockForgotten(d) ==
    /\ pc[d] = "unlock"
    /\ iter' = [iter EXCEPT ![d] = NoIter]
    /\ Goto(d, "idle")
    /\ UNCHANGED <<gil, mutex, terminating, listener, late, handlers, tries, fault>>

Unlock(d) ==
    /\ pc[d] = "unlock"
    /\ mutex' = NoThread
    /\ iter' = [iter EXCEPT ![d] = NoIter]
    /\ Goto(d, "idle")
    /\ UNCHANGED <<gil, terminating, listener, late, handlers, tries, fault>>

-----------------------------------------------------------------------------
(* The specification                                                       *)

Interpreter(t) == TakeGil(t) \/ YieldGil(t)

Starting(t) ==
    Start(t) \/ CreateListener(t) \/ Bind(t) \/ BindFails(t) \/ BindFreed(t)

Stopping(t) ==
    \/ Stop(t) \/ StopFlag(t) \/ StopListener(t) \/ StopNull(t)
    \/ StopWait(t) \/ StopReset(t) \/ StopReturn(t)

Asking(t) == IsAlive(t) \/ IsAliveFollow(t) \/ IsAliveNull(t)

Registering(t) == \E n \in Names : AddHandler(t, n) \/ RemoveHandler(t, n)

Dispatching(d) ==
    \/ \E n \in Names : Deliver(d, n)
    \/ Enter(d) \/ CheckTerminating(d) \/ AcquireGil(d)
    \/ CallHandler(d) \/ HandlerReturns(d) \/ CallFreed(d) \/ CallDone(d)
    \/ Unlock(d)

\* Nothing is said of the process after its first memory error.
Next ==
    /\ fault = "none"
    /\ \/ \E t \in Threads :
             Interpreter(t) \/ Starting(t) \/ Stopping(t) \/ Asking(t) \/ Registering(t)
       \/ \E d \in Dispatchers : Dispatching(d)

Spec == Init /\ [][Next]_vars

(***************************************************************************)
(* Fairness.  A thread that contends for a lock gets it if the lock is     *)
(* free again and again: CPython hands the interpreter lock to a waiting   *)
(* thread on a switch request, and pthread mutexes do not starve a waiter  *)
(* for ever in practice.  A thread inside stop() or consumeIndication goes *)
(* on, and handlers return, however often they lose the interpreter lock   *)
(* or call methods before (CIMListener::stop() has to see the callbacks    *)
(* gone only once): strong fairness.  Whoever holds the interpreter lock   *)
(* in Python code is made to give it up again.  Nobody has to call a       *)
(* method, and no indication has to arrive.                                *)
(***************************************************************************)
GoOnStopping(t) ==
    StopFlag(t) \/ StopListener(t) \/ StopWait(t) \/ StopReset(t) \/ StopReturn(t)

GoOnDispatching(d) ==
    \/ Enter(d) \/ CheckTerminating(d) \/ AcquireGil(d)
    \/ CallHandler(d) \/ HandlerReturns(d) \/ CallDone(d) \/ Unlock(d)

GoOnInMethod(t) ==
    CreateListener(t) \/ Bind(t) \/ BindFails(t) \/ IsAliveFollow(t)

Fairness ==
    /\ \A t \in Threads :
          "stop" \in MayCall[t] => SF_vars(fault = "none" /\ GoOnStopping(t))
    /\ \A d \in Dispatchers :
          /\ SF_vars(fault = "none" /\ GoOnDispatching(d))
          /\ SF_vars(fault = "none" /\ TakeGil(d))
    /\ SF_vars(fault = "none" /\ \E t \in Threads : YieldGil(t))
    /\ WF_vars(fault = "none" /\ \E t \in Threads : GoOnInMethod(t))

FairSpec == Spec /\ Fairness

-----------------------------------------------------------------------------
(***************************************************************************)
(* What the class relies on.  It is correct only for programs in which     *)
(* handlers do not call stop(), a single thread does, no other caller asks *)
(* is_alive, and handlers are removed only while there is no listener.     *)
(* The runs StopInHandler, TwoStoppers and LiveRemoval break one rule      *)
(* each; without the third is_alive follows a pointer that stop() resets.  *)
(***************************************************************************)
OneStopper == \A s, t \in Threads :
    "stop" \in MayCall[s] \cap MayCall[t] => s = t

HandlersDoNotStop == \A d \in Dispatchers : "stop" \notin MayCall[d]

OnlyTheStopperAsks == \A s, c \in Callers :
    "stop" \in MayCall[s] /\ "is_alive" \in MayCall[c] => s = c

Discipline ==
    /\ OneStopper
    /\ HandlersDoNotStop
    /\ OnlyTheStopperAsks
    /\ ~LiveRemoval

-----------------------------------------------------------------------------
(* Properties                                                              *)

\* Every variable has its type.
TypeOK ==
    /\ gil \in Threads \cup {NoThread}
    /\ mutex \in Threads \cup {NoThread}
    /\ terminating \in BOOLEAN
    /\ listener \in ListenerStates
    /\ late \in Nat
    /\ handlers \in [Names -> Nat]
    /\ pc \in [Threads -> PCs]
    /\ tries \in [Threads -> Nat]
    /\ iter \in [Dispatchers -> [name : Names, next : Nat, stale : BOOLEAN]]
    /\ fault \in Faults

\* The dispatchers between the test of m_terminating and the end of call():
\* those that call handlers or are about to.
Handling == {d \in Dispatchers : pc[d] \notin {"idle", "enter", "locked", "unlock"}}

\* Indications are handled one at a time: m_mutex is held while handlers run,
\* even when a handler lets the interpreter switch to another thread
\* (consumeIndication, lmiwbem_listener.cpp:95-106).
HandlersSerialised == \A d, e \in Handling : d = e

\* Once stop() has set m_terminating no handler runs and none will: the ones
\* under way have returned, and an indication that arrives later is dropped
\* (the comment in stop(), lmiwbem_listener.cpp:255-261).
TerminatingIsQuiet == terminating => Handling = {}

\* A stopped listener leaves nothing behind: when m_listener is null no
\* dispatcher is inside consumeIndication (stop(), lmiwbem_listener.cpp:266-267).
StoppedIsQuiet == listener = "none" => \A d \in Dispatchers : pc[d] = "idle"

\* A listener that runs, and that nobody has begun to stop, handles the
\* indications it gets: start() clears m_terminating outside m_mutex
\* (lmiwbem_listener.cpp:192), and no earlier stop() sets it again.
RunningHandles ==
    listener = "running" /\ terminating => \E t \in Threads : pc[t] = "stop_call"

\* Nobody follows a null m_listener, is inside an object that is freed, or
\* walks a freed list of handlers.
NoMemoryError == fault = "none"

\* t cannot go on before u does something: u holds the lock t asks for, or is
\* a callback that t, inside CIMListener::stop(), waits for.
WaitsFor(t, u) ==
    \/ pc[t] \in {"stop_lock", "enter"} /\ mutex = u
    \/ pc[t] \in {"python", "want_gil", "stop_gil"} /\ gil = u /\ t # u
    \/ pc[t] = "stop_wait" /\ u \in Dispatchers /\ pc[u] # "idle"

\* The order in which a thread may wait: for callbacks, then for m_mutex, then
\* for the interpreter lock.
Rank(t) ==
    CASE pc[t] = "stop_wait" -> 3
      [] pc[t] \in {"stop_lock", "enter"} -> 2
      [] pc[t] \in {"python", "want_gil", "stop_gil"} /\ gil # t -> 1
      [] OTHER -> 0

\* No deadlock: whoever is waited for waits, if at all, for something lower in
\* the order, so no circle of waiting threads can close.  stop() gives up the
\* interpreter lock before it asks for m_mutex for this reason
\* (lmiwbem_listener.cpp:258-262).
NoCircularWait == \A t, u \in Threads : WaitsFor(t, u) => Rank(u) < Rank(t)

\* The listener as the service it provides.
Phase ==
    CASE listener \in {"none", "created"} -> "closed"
      [] listener \notin {"none", "created"} /\ terminating -> "closing"
      [] OTHER -> "open"

Service == INSTANCE ListenerService WITH phase <- Phase, handling <- Handling

\* The locks and flags implement the service: handling is serialised, drains
\* before stop() goes on and does not begin again before the next start()
\* (consumeIndication, start and stop, lmiwbem_listener.cpp:90-268).
ImplementsService == Service!Spec

\* A call of stop() returns (lmiwbem_listener.cpp:250-268): the handlers under
\* way need the interpreter lock to finish, and get it.
StopReturns == \A t \in Threads : pc[t] = "stop_lock" ~> pc[t] = "python"

\* An indication that reached consumeIndication is handled or dropped, and the
\* dispatcher's thread comes back (lmiwbem_listener.cpp:90-107).
IndicationsComplete == \A d \in Dispatchers : pc[d] = "enter" ~> pc[d] = "idle"

-----------------------------------------------------------------------------
(* Invariants for the proofs (see ListenerProofs).                         *)

\* Who holds a lock is where the lock is held.
LockInv ==
    /\ \A t \in Threads : pc[t] \in {"start", "bind", "alive", "call"} => gil = t
    /\ \A t \in Threads : gil = t => pc[t] \in {"start", "bind", "alive", "call", "python"}
    /\ \A t \in Threads :
          mutex = t <=> t \in Dispatchers /\ pc[t] \notin {"idle", "enter"}

\* The inductive invariant of every program.
LocksInv == pc \in [Threads -> PCs] /\ LockInv /\ TerminatingIsQuiet

\* Where a thread of a disciplined program can be.
PlaceInv ==
    /\ \A c \in Callers : pc[c] \in {"python", "alive"} \cup StartPCs \cup StopPCs
    /\ \A d \in Dispatchers : pc[d] \in {"idle", "python", "alive"} \cup FlightPCs

\* Each statement of start(), stop() and is_alive finds the listener it expects.
ListenerInv ==
    /\ \A t \in Threads :
          /\ pc[t] = "start" => listener = "none" /\ ~terminating
          /\ pc[t] = "bind" => listener = "created" /\ ~terminating
          /\ pc[t] = "alive" => listener # "none" /\ "is_alive" \in MayCall[t]
          /\ pc[t] = "stop_lock" => listener = "running"
          /\ pc[t] = "stop_call" => listener = "running" /\ terminating
          /\ pc[t] = "stop_wait" => listener = "stopping" /\ terminating
          /\ pc[t] = "stop_reset" => listener = "stopped" /\ terminating
          /\ pc[t] \in StopPCs => "stop" \in MayCall[t]
    /\ listener = "created" => \E t \in Threads : pc[t] = "bind"
    /\ listener = "stopping" => \E t \in Threads : pc[t] = "stop_wait"
    /\ listener = "stopped" => \E t \in Threads : pc[t] = "stop_reset"
    /\ \A d \in Dispatchers : pc[d] # "idle" => listener \in {"running", "stopping"}

NoErrorInv ==
    /\ fault = "none"
    /\ \A d \in Dispatchers : iter[d].stale = FALSE

\* The inductive invariant of a disciplined program.
IInv == TypeOK /\ LocksInv /\ PlaceInv /\ ListenerInv /\ NoErrorInv /\ RunningHandles

=============================================================================

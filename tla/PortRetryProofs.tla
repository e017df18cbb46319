-------------------------- MODULE PortRetryProofs --------------------------
(***************************************************************************)
(* Theorems about PortRetry, for every set of first ports, of arguments    *)
(* and for every limit.  WalkInv is inductive as it stands: what start()   *)
(* leaves behind follows from where its loop is.                           *)
(***************************************************************************)
EXTENDS PortRetry, TLAPS

\* The invariant holds at first.
LEMMA InitWalk == Init => WalkInv
  <1> SUFFICES ASSUME Init PROVE WalkInv
    OBVIOUS
  <1>1. TypeOK
    <2>1. port \in Nat /\ first \in Nat
      BY PortRetryAssumption DEF Init
    <2>2. busy \subseteq Ports /\ failed \subseteq Nat /\ i \in Nat /\ retries \in Int
      BY DEF Init
    <2>3. looping \in BOOLEAN /\ outcome \in Outcomes /\ bound \in Nat \cup {NotBound}
      BY DEF Init, Outcomes
    <2>4. QED
      BY <2>1, <2>2, <2>3 DEF TypeOK
  <1>2. ~looping /\ bound = NotBound /\ outcome # "ConnectionError"
    BY DEF Init
  <1>3. LoopInv /\ RunsOnFirstFree /\ GivesUpAfterAll
    BY <1>2, Zenon DEF LoopInv, RunsOnFirstFree, GivesUpAfterAll
  <1>4. QED
    BY <1>1, <1>3 DEF WalkInv

\* A refused port extends the interval of refused ports.
LEMMA NextRefused ==
  ASSUME NEW a \in Nat, NEW n \in Nat
  PROVE  (a..(a + n - 1)) \cup {a + n} = a..(a + n)
  <1>1. \A q \in Int : q \in a..(a + n) <=> q \in a..(a + n - 1) \/ q = a + n
    OBVIOUS
  <1>2. QED
    BY <1>1

\* A call begins with nothing refused.
LEMMA StartWalk ==
  ASSUME WalkInv, NEW r \in RetryArgs, Start(r)
  PROVE  WalkInv'
  <1>1. r \in Int
    BY PortRetryAssumption
  <1>2. TypeOK'
    <2>1. looping' \in BOOLEAN /\ outcome' \in Outcomes
      BY <1>1 DEF Start, Outcomes
    <2>2. QED
      BY <1>1, <2>1 DEF Start, WalkInv, TypeOK, Ports
  <1>3. looping' => outcome' = "none" /\ 0 < r
    <2>1. 0 < r => ~(r < 0) /\ r # 0
      BY <1>1
    <2>2. looping' => 0 < r
      BY <1>1 DEF Start
    <2>3. QED
      BY <2>1, <2>2 DEF Start
  <1>4. first'..(first' + 0 - 1) = {}
    <2>1. \A a \in Nat : a..(a + 0 - 1) = {}
      OBVIOUS
    <2>2. first' \in Nat
      BY <1>2 DEF TypeOK
    <2>3. QED
      BY <2>1, <2>2
  <1>5. LoopInv'
    <2>1. /\ failed' = {} /\ i' = 0 /\ first' = port /\ port' = port
          /\ bound' = NotBound /\ retries' = r /\ looping' = (r > 0)
      BY DEF Start
    <2>2. QED
      BY <1>3, <1>4, <2>1 DEF LoopInv
  <1>6. outcome' # "ConnectionError"
    BY <1>1 DEF Start
  <1>7. RunsOnFirstFree' /\ GivesUpAfterAll'
    BY <1>6 DEF Start, RunsOnFirstFree, GivesUpAfterAll
  <1>8. QED
    BY <1>2, <1>5, <1>7 DEF WalkInv

\* A bind that succeeds ends the walk on the current port.
LEMMA SucceedWalk ==
  ASSUME WalkInv, BindSucceeds
  PROVE  WalkInv'
  <1>1. /\ port = first /\ i < retries /\ failed = first..(first + i - 1)
        /\ port \in Nat /\ i \in Nat /\ retries \in Int /\ first \in Nat
    BY DEF WalkInv, TypeOK, LoopInv, BindSucceeds
  <1>2. bound' = first + i /\ bound' \in Nat
    BY <1>1 DEF BindSucceeds
  <1>3. TypeOK'
    BY <1>1, <1>2 DEF BindSucceeds, WalkInv, TypeOK, Outcomes
  <1>4. LoopInv' /\ GivesUpAfterAll'
    BY DEF BindSucceeds, LoopInv, GivesUpAfterAll
  <1>5. bound' - 1 = first + i - 1 /\ bound' < first + retries
    BY <1>1, <1>2
  <1>6. RunsOnFirstFree'
    BY <1>1, <1>2, <1>5 DEF BindSucceeds, RunsOnFirstFree
  <1>7. QED
    BY <1>3, <1>4, <1>6 DEF WalkInv

\* A bind that fails ends the walk only when every port it may use was refused.
LEMMA FailWalk ==
  ASSUME WalkInv, BindFails
  PROVE  WalkInv'
  <1>1. /\ port = first /\ bound = NotBound /\ i < retries
        /\ failed = first..(first + i - 1) /\ outcome = "none"
        /\ port \in Nat /\ i \in Nat /\ retries \in Int /\ first \in Nat
    BY DEF WalkInv, TypeOK, LoopInv, BindFails
  <1>2. failed' = first..(first + i)
    BY <1>1, NextRefused DEF BindFails
  <1>3. i' \in Nat /\ looping' \in BOOLEAN /\ outcome' \in Outcomes
    <2>1. looping \in BOOLEAN
      BY DEF WalkInv, TypeOK
    <2>2. CASE i = retries - 1 \/ port + i >= PortLimit
      BY <1>1, <2>2 DEF BindFails, Outcomes
    <2>3. CASE ~(i = retries - 1 \/ port + i >= PortLimit)
      BY <1>1, <2>1, <2>3 DEF BindFails, Outcomes
    <2>4. QED
      BY <2>2, <2>3
  <1>4. failed' \subseteq Nat
    BY <1>1, <1>2
  <1>5. TypeOK'
    BY <1>3, <1>4 DEF BindFails, WalkInv, TypeOK, Ports
  <1>6. RunsOnFirstFree'
    BY <1>1 DEF BindFails, RunsOnFirstFree
  <1>7. CASE i = retries - 1 \/ port + i >= PortLimit
    <2>1. \A q \in Ports : q >= first /\ q < first + retries => q \in first..(first + i)
      BY <1>1, <1>7, PortRetryAssumption DEF Ports
    <2>2. GivesUpAfterAll'
      BY <2>1, <1>1, <1>2 DEF BindFails, GivesUpAfterAll, Ports
    <2>3. LoopInv'
      BY <1>7 DEF BindFails, LoopInv
    <2>4. QED
      BY <1>5, <1>6, <2>2, <2>3 DEF WalkInv
  <1>8. CASE ~(i = retries - 1 \/ port + i >= PortLimit)
    <2>1. i' = i + 1 /\ i' < retries /\ outcome' = "none"
      BY <1>1, <1>8 DEF BindFails
    <2>2. first' + i' - 1 = first + i
      BY <1>1, <2>1 DEF BindFails
    <2>3. LoopInv' /\ GivesUpAfterAll'
      BY <1>1, <1>2, <2>1, <2>2 DEF BindFails, LoopInv, GivesUpAfterAll
    <2>4. QED
      BY <1>5, <1>6, <2>3 DEF WalkInv
  <1>9. QED
    BY <1>7, <1>8

\* Every step of start(), stop() and the other programs preserves it.
LEMMA StepWalk == ASSUME WalkInv, [Next]_vars PROVE WalkInv'
  <1> USE DEF WalkInv
  <1>1. CASE Stop
    BY <1>1 DEF Stop, TypeOK, Outcomes, LoopInv, RunsOnFirstFree, GivesUpAfterAll
  <1>2. CASE OthersBind
    BY <1>2 DEF OthersBind, TypeOK, LoopInv, RunsOnFirstFree, GivesUpAfterAll, Ports
  <1>3. CASE UNCHANGED vars
    BY <1>3 DEF vars, TypeOK, LoopInv, RunsOnFirstFree, GivesUpAfterAll, Ports
  <1>4. QED
    BY <1>1, <1>2, <1>3, StartWalk, SucceedWalk, FailWalk DEF Next

\* The invariant holds throughout.
LEMMA WalkInvariance == Spec => []WalkInv
  BY InitWalk, StepWalk, PTL DEF Spec

\* Every variable has its type.
THEOREM WalkTypeCorrect == Spec => []TypeOK
  <1>1. WalkInv => TypeOK
    BY DEF WalkInv
  <1>2. QED
    BY <1>1, WalkInvariance, PTL

\* start() ends on the first port that could be bound (lmiwbem_listener.cpp:198-225).
THEOREM WalkFindsFirst == Spec => []RunsOnFirstFree
  <1>1. WalkInv => RunsOnFirstFree
    BY DEF WalkInv
  <1>2. QED
    BY <1>1, WalkInvariance, PTL

\* It gives up only after all the ports it may use were refused
\* (lmiwbem_listener.cpp:226-247).
THEOREM WalkTriesAll == Spec => []GivesUpAfterAll
  <1>1. WalkInv => GivesUpAfterAll
    BY DEF WalkInv
  <1>2. QED
    BY <1>1, WalkInvariance, PTL

=============================================================================

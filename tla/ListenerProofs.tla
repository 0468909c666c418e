--------------------------- MODULE ListenerProofs ---------------------------
(***************************************************************************)
(* What EventListener guarantees for every number of events and failures.  *)
(* The type invariant and WaitingIsAnnounced are inductive together; the   *)
(* liveness properties stay with TLC.                                      *)
(***************************************************************************)
EXTENDS EventListener, TLAPS

IInv == TypeOK /\ WaitingIsAnnounced

\* A pod starts with its catchUp, so nothing waits unannounced.
LEMMA InvInit == Init => IInv
<1> SUFFICES ASSUME Init PROVE IInv
  OBVIOUS
<1>1. committed \in 0 .. MaxEvents /\ consumed \in 0 .. committed /\ failures \in 0 .. MaxFailures
  BY ListenerAssumption DEF Init
<1>2. WaitingIsAnnounced
  BY DEF Init, WaitingIsAnnounced, CatchingUp
<1>3. TypeOK
  BY <1>1 DEF Init, TypeOK
<1> QED
  BY <1>2, <1>3 DEF IInv

\* closeConnection forgets a notification only by marking it dropped.
LEMMA CloseKeeps ==
  ASSUME NEW failed \in BOOLEAN, TypeOK, CloseConnection(failed)
  PROVE  /\ session' \in {"none", "listening", "parked"}
         /\ pending' \in BOOLEAN
         /\ dropped' \in BOOLEAN
         /\ dropped \/ failed => dropped'
         /\ pending => pending' \/ dropped'
  BY DEF CloseConnection, TypeOK

\* Every step of the thread keeps events announced.
LEMMA ThreadStepKeeps == IInv /\ ThreadStep => IInv'
<1> SUFFICES ASSUME IInv, ThreadStep PROVE IInv'
  OBVIOUS
<1> USE ListenerAssumption DEF IInv, TypeOK, WaitingIsAnnounced, CatchingUp
<1>1. CASE Project
  BY <1>1 DEF Project
<1>2. CASE CaughtUp
  BY <1>2 DEF CaughtUp
<1>3. CASE Loop
  BY <1>3 DEF Loop
<1>4. CASE EnsureConnection
  BY <1>4 DEF EnsureConnection
<1>5. CASE GetNotifications
  BY <1>5 DEF GetNotifications
<1>6. CASE PollAfterClose
  BY <1>6 DEF PollAfterClose
<1>7. CASE WakeUp
  BY <1>7 DEF WakeUp
<1> QED
  BY <1>1, <1>2, <1>3, <1>4, <1>5, <1>6, <1>7 DEF ThreadStep

\* So do the other transactions, the failures and the shutdown.
LEMMA InvNext == IInv /\ [Next]_vars => IInv'
<1> SUFFICES ASSUME IInv, [Next]_vars PROVE IInv'
  OBVIOUS
<1>1. CASE Append
  <2>1. /\ committed' \in 0 .. MaxEvents
        /\ consumed' \in 0 .. committed'
        /\ failures' \in 0 .. MaxFailures
    BY <1>1, ListenerAssumption DEF Append, IInv, TypeOK
  <2>2. unheard' \in BOOLEAN /\ pending' \in BOOLEAN /\ (pending' \/ unheard')
    BY <1>1 DEF Append, IInv, TypeOK
  <2>3. TypeOK'
    BY <1>1, <2>1, <2>2 DEF Append, IInv, TypeOK
  <2>4. WaitingIsAnnounced'
    BY <2>2 DEF WaitingIsAnnounced
  <2> QED
    BY <2>3, <2>4 DEF IInv
<1>2. CASE ThreadStep
  BY <1>2, ThreadStepKeeps
<1>3. CASE LoopFails
  <2>. DEFINE failed == thread = "catchUp" /\ consumed < committed
  <2>1. failed \in BOOLEAN /\ CloseConnection(failed)
    BY <1>3 DEF LoopFails
  <2>2. /\ session' \in {"none", "listening", "parked"}
        /\ pending' \in BOOLEAN
        /\ dropped' \in BOOLEAN
        /\ dropped \/ failed => dropped'
        /\ pending => pending' \/ dropped'
    BY <2>1, CloseKeeps DEF IInv
  <2> QED
    BY <1>3, <2>2, ListenerAssumption
    DEF LoopFails, IInv, TypeOK, WaitingIsAnnounced, CatchingUp
<1>4. CASE StartupFails
  BY <1>4, ListenerAssumption DEF StartupFails, IInv, TypeOK, WaitingIsAnnounced, CatchingUp
<1>5. CASE LowerFlag
  BY <1>5, ListenerAssumption DEF LowerFlag, IInv, TypeOK, WaitingIsAnnounced, CatchingUp
<1>6. CASE HookCloses
  <2>1. /\ session' \in {"none", "listening", "parked"}
        /\ pending' \in BOOLEAN
        /\ dropped' \in BOOLEAN
        /\ dropped => dropped'
        /\ pending => pending' \/ dropped'
    BY <1>6, CloseKeeps DEF HookCloses, IInv
  <2> QED
    BY <1>6, <2>1, ListenerAssumption
    DEF HookCloses, IInv, TypeOK, WaitingIsAnnounced, CatchingUp
<1>7. CASE UNCHANGED vars
  BY <1>7 DEF vars, IInv, TypeOK, WaitingIsAnnounced, CatchingUp
<1> QED
  BY <1>1, <1>2, <1>3, <1>4, <1>5, <1>6, <1>7 DEF Next

\* While a pod runs, an event that waits is announced or being caught up with,
\* unless it was committed unheard or its notification was dropped, for every
\* number of events and of database failures.
THEOREM NoSilentWait == Spec => []WaitingIsAnnounced
<1>1. IInv => WaitingIsAnnounced
  BY DEF IInv
<1> QED
  BY InvInit, InvNext, <1>1, PTL DEF Spec

\* The consumer's offset never passes the last committed event, and every
\* variable of the listener keeps its type.
THEOREM ListenerTyped == Spec => []TypeOK
<1>1. IInv => TypeOK
  BY DEF IInv
<1> QED
  BY InvInit, InvNext, <1>1, PTL DEF Spec
=============================================================================

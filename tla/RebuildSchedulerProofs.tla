-------------------------- MODULE RebuildSchedulerProofs --------------------------
(* What holds of RebuildScheduler for every bound: its types, and that a forced      *)
(* rebuild never outlives its request, however the four threads interleave.          *)
EXTENDS RebuildScheduler, TLAPS

(* Only the watchdogs of the printer task ask for a forced rebuild. *)
OnlyPrinterForces ==
  \A t \in Threads : want[t].forced \/ At(t, "force") => t = "printer"

(* NoOrphanForce alone is not inductive: whoever raises the force goes on to raise   *)
(* the request, and that has to be the printer task.                                 *)
IInv == TypeOK /\ OnlyPrinterForces /\ NoOrphanForce

-----------------------------------------------------------------------------------
(* The delays of the code are natural numbers. *)
LEMMA BackoffNat == \A n \in Nat : Backoff(n) \in Nat /\ StallBackoff(n) \in Nat
  BY DEF Backoff, StallBackoff, kRebuildDelayMs

LEMMA DelaysNat == Delays \subseteq Nat
  BY BackoffNat, BoundAssumption
     DEF Delays, kHintDelayMs, kRebuildDelayMs, kEstablishedCapMs

(* The program starts in a type-correct state. *)
LEMMA TypeInit == Init => TypeOK
<1>1. Init => FlagsOK
  BY Zenon DEF Init, FlagsOK
<1>2. Init => DataOK
  BY DEF Init, DataOK, Threads, Labels, NoRequest, Request, Requests, Nothing
<1>3. QED
  BY <1>1, <1>2 DEF TypeOK

(* A step leaves the flags truth values. *)
LEMMA FlagsStep == TypeOK /\ [Next]_vars => FlagsOK'
<1> SUFFICES ASSUME FlagsOK, [Next]_vars
             PROVE  FlagsOK'
  BY DEF TypeOK
<1> USE DEF FlagsOK, sched, sessionVars
<1>1. CASE UNCHANGED vars
  BY <1>1, Zenon DEF vars
<1>2. ASSUME NEW t \in Threads, ScheduleStep(t)
      PROVE  FlagsOK'
  <2>1. CASE SetForce(t) \/ Exchange(t)
    BY <2>1, Zenon DEF SetForce, Exchange
  <2>2. CASE ReadSession(t) \/ SetTick(t) \/ SetDelay(t)
    BY <2>2 DEF ReadSession, SetTick, SetDelay
  <2>3. QED
    BY <1>2, <2>1, <2>2 DEF ScheduleStep
<1>3. ASSUME NEW t \in Threads, CancelStep(t)
      PROVE  FlagsOK'
  <2>1. CASE ClearRequest(t) \/ ClearForce(t)
    BY <2>1, Zenon DEF ClearRequest, ClearForce
  <2>2. CASE ClearTick(t) \/ ClearDelay(t)
    BY <2>2 DEF ClearTick, ClearDelay
  <2>3. QED
    BY <1>3, <2>1, <2>2 DEF CancelStep
<1>4. CASE PrinterCheck
  <2>1. CASE StopClear \/ StopJoin
    BY <2>1, Zenon DEF StopClear, StopJoin
  <2>2. CASE CreateClient
    BY <2>2, Zenon DEF CreateClient
  <2>3. CASE \/ ReadRequest \/ ReadForce \/ ReadConnected \/ ReadTick \/ ReadDelay
             \/ StopHalt
    BY <2>3 DEF ReadRequest, ReadForce, ReadConnected, ReadTick, ReadDelay, StopHalt
  <2>4. QED
    BY <1>4, <2>1, <2>2, <2>3 DEF PrinterCheck
<1>5. CASE Online \/ StoreErrors \/ MqttEvent
  <2>1. CASE Online
    BY <2>1, Zenon DEF Online
  <2>2. CASE MqttDisconnected \/ MqttError
    BY <2>2, Zenon DEF MqttDisconnected, MqttError
  <2>3. CASE StoreErrors \/ MqttConnected \/ MqttSubscribedOrFirstPayload
    BY <2>3 DEF StoreErrors, MqttConnected, MqttSubscribedOrFirstPayload
  <2>4. QED
    BY <1>5, <2>1, <2>2, <2>3 DEF MqttEvent
<1>6. ASSUME NEW t \in Threads, Hint(t) \/ ReadPending(t)
      PROVE  FlagsOK'
  BY <1>6 DEF Hint, ReadPending
<1>7. CASE Watchdog \/ Age
  BY <1>7 DEF Watchdog, Age
<1>8. QED
  BY <1>1, <1>2, <1>3, <1>4, <1>5, <1>6, <1>7 DEF Next, Busy, Program, Threads

(* The arguments a thread passes to schedule_client_rebuild. *)
LEMMA RequestTyped ==
  /\ NoRequest \in Requests
  /\ Request(kHintDelayMs, FALSE) \in Requests
  /\ Request(kRebuildDelayMs, TRUE) \in Requests
  /\ \A ms \in Nat : Request(ms, FALSE) \in Requests
  BY DEF NoRequest, Request, Requests, kHintDelayMs, kRebuildDelayMs

(* A step leaves the data in their ranges. *)
LEMMA DataStep == TypeOK /\ [Next]_vars => DataOK'
<1> SUFFICES ASSUME DataOK, [Next]_vars, force \in BOOLEAN
             PROVE  DataOK'
  BY DEF TypeOK, FlagsOK
<1> USE RequestTyped DEF DataOK, sched, sessionVars, At, Goto, Labels, Threads, Unset
<1>1. CASE UNCHANGED vars
  BY <1>1 DEF vars
<1>2. ASSUME NEW t \in Threads, ScheduleStep(t)
      PROVE  DataOK'
  <2>1. CASE ReadSession(t)
    <3>1. want' \in [Threads -> Requests]
      BY <2>1 DEF ReadSession, kEstablishedCapMs, Requests
    <3>2. pc' \in [Threads -> Labels]
      BY <2>1 DEF ReadSession
    <3>3. QED
      BY <2>1, <3>1, <3>2 DEF ReadSession
  <2>2. CASE Exchange(t) \/ SetDelay(t)
    <3>1. want' \in [Threads -> Requests]
      BY <2>2 DEF Exchange, SetDelay
    <3>2. pc' \in [Threads -> Labels]
      BY <2>2 DEF Exchange, SetDelay
    <3>3. delay' \in Nat
      BY <2>2 DEF Exchange, SetDelay, Requests
    <3>4. QED
      BY <2>2, <3>1, <3>2, <3>3 DEF Exchange, SetDelay
  <2>3. CASE SetForce(t) \/ SetTick(t)
    BY <2>3 DEF SetForce, SetTick
  <2>4. QED
    BY <1>2, <2>1, <2>2, <2>3 DEF ScheduleStep
<1>3. ASSUME NEW t \in Threads, CancelStep(t)
      PROVE  DataOK'
  BY <1>3 DEF CancelStep, ClearRequest, ClearForce, ClearTick, ClearDelay
<1>4. CASE PrinterCheck
  <2>1. CASE ReadRequest \/ ReadForce \/ ReadTick \/ ReadDelay
    BY <2>1 DEF ReadRequest, ReadForce, ReadTick, ReadDelay
  <2>2. CASE ReadConnected
    <3>1. pc' \in [Threads -> Labels]
      BY <2>2 DEF ReadConnected, BeginCancel
    <3>2. then' \in [Threads -> {"idle", "online", "halt"}]
      BY <2>2 DEF ReadConnected, BeginCancel
    <3>3. saw' \in [force : BOOLEAN, age : Nat \cup {Unset}, errs : Nat]
      BY <2>2 DEF ReadConnected
    <3>4. QED
      BY <2>2, <3>1, <3>2, <3>3 DEF ReadConnected
  <2>3. CASE StopClear \/ StopHalt \/ StopJoin \/ CreateClient
    BY <2>3 DEF StopClear, StopHalt, StopJoin, CreateClient, BeginCancel
  <2>4. QED
    BY <1>4, <2>1, <2>2, <2>3 DEF PrinterCheck
<1>5. CASE Online \/ StoreErrors \/ MqttEvent
  <2>1. CASE MqttError
    <3> DEFINE n == IF errs < MaxErrors THEN errs + 1 ELSE errs
    <3>1. n \in Nat
      OBVIOUS
    <3>2. Request(Backoff(n), FALSE) \in Requests
      BY <3>1, BackoffNat
    <3>3. saw' \in [force : BOOLEAN, age : Nat \cup {Unset}, errs : Nat]
      BY <2>1, <3>1 DEF MqttError
    <3>4. want' \in [Threads -> Requests]
      BY <2>1, <3>2 DEF MqttError
    <3>5. pc' \in [Threads -> Labels]
      BY <2>1 DEF MqttError
    <3>6. QED
      BY <2>1, <3>3, <3>4, <3>5 DEF MqttError
  <2>2. CASE \/ Online \/ StoreErrors \/ MqttConnected \/ MqttDisconnected
             \/ MqttSubscribedOrFirstPayload
    BY <2>2 DEF Online, StoreErrors, MqttConnected, MqttDisconnected,
                MqttSubscribedOrFirstPayload, BeginCancel
  <2>3. QED
    BY <1>5, <2>1, <2>2 DEF MqttEvent
<1>6. ASSUME NEW t \in Threads, Hint(t) \/ ReadPending(t)
      PROVE  DataOK'
  <2>1. CASE Hint(t)
    BY <2>1 DEF Hint
  <2>2. CASE ReadPending(t)
    <3>1. want' \in [Threads -> Requests]
      BY <2>2 DEF ReadPending
    <3>2. pc' \in [Threads -> Labels]
      BY <2>2 DEF ReadPending
    <3>3. QED
      BY <2>2, <3>1, <3>2 DEF ReadPending
  <2>3. QED
    BY <1>6, <2>1, <2>2
<1>7. CASE Watchdog
  <2>1. Request(StallBackoff(errs), FALSE) \in Requests
    BY BackoffNat
  <2>2. want' \in [Threads -> Requests]
    BY <1>7, <2>1 DEF Watchdog
  <2>3. pc' \in [Threads -> Labels]
    BY <1>7 DEF Watchdog
  <2>4. QED
    BY <1>7, <2>2, <2>3 DEF Watchdog
<1>8. CASE Age
  BY <1>8, DelaysNat DEF Age
<1>9. QED
  BY <1>1, <1>2, <1>3, <1>4, <1>5, <1>6, <1>7, <1>8 DEF Next, Busy, Program

(* No step leaves the types. *)
LEMMA TypeStep == TypeOK /\ [Next]_vars => TypeOK'
  BY FlagsStep, DataStep DEF TypeOK

(* Every member and local keeps its type in every behaviour, for every bound. *)
THEOREM TypeCorrect == Spec => []TypeOK
  BY TypeInit, TypeStep, PTL DEF Spec

-----------------------------------------------------------------------------------
(* The inductive invariant. *)
LEMMA IInvInit == Init => IInv
  BY TypeInit DEF Init, IInv, OnlyPrinterForces, NoOrphanForce, At, NoRequest, Request

(* No step makes another thread than the printer task force a rebuild. *)
LEMMA OnlyPrinterForcesStep == IInv /\ [Next]_vars => OnlyPrinterForces'
<1> SUFFICES ASSUME DataOK, OnlyPrinterForces, [Next]_vars,
                    NEW u \in Threads, (want[u].forced \/ At(u, "force"))'
             PROVE  u = "printer"
  BY DEF IInv, TypeOK, OnlyPrinterForces
<1> USE DEF DataOK, OnlyPrinterForces, At, Goto, Request, NoRequest
<1>1. CASE UNCHANGED vars
  BY <1>1 DEF vars
<1>2. ASSUME NEW t \in Threads, ScheduleStep(t)
      PROVE  u = "printer"
  <2>1. CASE ReadSession(t)
    BY <2>1 DEF ReadSession, Requests
  <2>2. CASE SetForce(t) \/ Exchange(t)
    BY <2>2 DEF SetForce, Exchange
  <2>3. CASE SetTick(t) \/ SetDelay(t)
    BY <2>3 DEF SetTick, SetDelay
  <2>4. QED
    BY <1>2, <2>1, <2>2, <2>3 DEF ScheduleStep
<1>3. ASSUME NEW t \in Threads, CancelStep(t)
      PROVE  u = "printer"
  BY <1>3 DEF CancelStep, ClearRequest, ClearForce, ClearTick, ClearDelay
<1>4. CASE PrinterCheck
  BY <1>4 DEF PrinterCheck, ReadRequest, ReadForce, ReadConnected, ReadTick, ReadDelay,
              StopClear, StopHalt, StopJoin, CreateClient, BeginCancel
<1>5. CASE Online \/ StoreErrors \/ MqttEvent
  BY <1>5 DEF Online, StoreErrors, MqttEvent, MqttError, MqttConnected,
              MqttDisconnected, MqttSubscribedOrFirstPayload, BeginCancel, Threads
<1>6. ASSUME NEW t \in Threads, Hint(t) \/ ReadPending(t)
      PROVE  u = "printer"
  BY <1>6 DEF Hint, ReadPending
<1>7. CASE Watchdog \/ Age
  BY <1>7 DEF Watchdog, Age
<1>8. QED
  BY <1>1, <1>2, <1>3, <1>4, <1>5, <1>6, <1>7 DEF Next, Busy, Program, Threads

(* A thread that is not about to raise a request or to clear the force goes on to    *)
(* any label.                                                                        *)
LEMMA ElsewhereStep ==
  ASSUME DataOK, NoOrphanForce, NEW t \in Threads, NEW label \in Labels,
         Goto(t, label), ~At(t, "exchange"), ~At(t, "unforce"), UNCHANGED <<req, force>>
  PROVE  NoOrphanForce'
<1> USE DEF DataOK, At, Goto
<1>1. CASE ~force
  BY <1>1 DEF NoOrphanForce
<1>2. CASE req
  BY <1>2 DEF NoOrphanForce
<1>3. CASE At("printer", "exchange")
  BY <1>3 DEF NoOrphanForce, Threads
<1>4. ASSUME NEW u \in Threads, At(u, "unforce")
      PROVE  NoOrphanForce'
  <2>1. At(u, "unforce")'
    BY <1>4
  <2>2. QED
    BY <2>1 DEF NoOrphanForce
<1>5. QED
  BY <1>1, <1>2, <1>3, <1>4 DEF NoOrphanForce

(* No step leaves a force without a request: the printer task raises the request     *)
(* after the force, and a cancel clears the force after the request.                 *)
LEMMA NoOrphanForceStep == IInv /\ [Next]_vars => NoOrphanForce'
<1> SUFFICES ASSUME DataOK, OnlyPrinterForces, NoOrphanForce, [Next]_vars
             PROVE  NoOrphanForce'
  BY DEF IInv, TypeOK
<1>labels. /\ {"idle", "cap", "force", "exchange", "tick", "delay"} \subseteq Labels
           /\ {"unreq", "unforce", "untick", "undelay", "online"} \subseteq Labels
           /\ {"count", "pending", "readForce", "readConnected"} \subseteq Labels
           /\ {"readTick", "readDelay", "stop", "halt", "join"} \subseteq Labels
           /\ \A t \in Threads : then[t] \in Labels
           /\ {"printer", "mqtt", "cloud", "app"} \subseteq Threads
  BY DEF Labels, Threads, DataOK
<1> USE <1>labels DEF At, sched
<1>1. CASE UNCHANGED vars
  BY <1>1 DEF vars, NoOrphanForce
<1>2. ASSUME NEW t \in Threads, ScheduleStep(t)
      PROVE  NoOrphanForce'
  <2>1. CASE SetForce(t)
    BY <2>1 DEF SetForce, OnlyPrinterForces, NoOrphanForce, Goto, DataOK
  <2>2. CASE Exchange(t)
    BY <2>2 DEF Exchange, NoOrphanForce
  <2>3. CASE ReadSession(t) \/ SetTick(t) \/ SetDelay(t)
    BY <2>3, ElsewhereStep DEF ReadSession, SetTick, SetDelay
  <2>4. QED
    BY <1>2, <2>1, <2>2, <2>3 DEF ScheduleStep
<1>3. ASSUME NEW t \in Threads, CancelStep(t)
      PROVE  NoOrphanForce'
  <2>1. CASE ClearRequest(t)
    <3>1. At(t, "unforce")'
      BY <2>1 DEF ClearRequest, Goto, DataOK
    <3>2. QED
      BY <3>1 DEF NoOrphanForce
  <2>2. CASE ClearForce(t)
    BY <2>2 DEF ClearForce, NoOrphanForce
  <2>3. CASE ClearTick(t) \/ ClearDelay(t)
    BY <2>3, ElsewhereStep DEF ClearTick, ClearDelay
  <2>4. QED
    BY <1>3, <2>1, <2>2, <2>3 DEF CancelStep
<1>4. CASE PrinterCheck
  <2>1. CASE CreateClient
    BY <2>1 DEF CreateClient, NoOrphanForce
  <2>2. CASE \/ ReadRequest \/ ReadForce \/ ReadConnected \/ ReadTick \/ ReadDelay
             \/ StopClear \/ StopHalt \/ StopJoin
    BY <2>2, ElsewhereStep
       DEF ReadRequest, ReadForce, ReadConnected, ReadTick, ReadDelay, StopClear,
           StopHalt, StopJoin, BeginCancel
  <2>3. QED
    BY <1>4, <2>1, <2>2 DEF PrinterCheck
<1>5. CASE Online \/ StoreErrors \/ MqttEvent
  <2>1. CASE MqttDisconnected
    BY <2>1 DEF MqttDisconnected, NoOrphanForce
  <2>2. CASE \/ Online \/ StoreErrors \/ MqttError \/ MqttConnected
             \/ MqttSubscribedOrFirstPayload
    BY <2>2, ElsewhereStep DEF Online, StoreErrors, MqttError, MqttConnected,
                               MqttSubscribedOrFirstPayload, BeginCancel, MqttIdle
  <2>3. QED
    BY <1>5, <2>1, <2>2 DEF MqttEvent
<1>6. ASSUME NEW t \in Threads, Hint(t) \/ ReadPending(t)
      PROVE  NoOrphanForce'
  BY <1>6, ElsewhereStep DEF Hint, ReadPending
<1>7. CASE Watchdog
  BY <1>7, ElsewhereStep DEF Watchdog
<1>8. CASE Age
  BY <1>8 DEF Age, NoOrphanForce
<1>9. QED
  BY <1>1, <1>2, <1>3, <1>4, <1>5, <1>6, <1>7, <1>8 DEF Next, Busy, Program

(* A forced rebuild never outlives its request: whatever the interleaving of the     *)
(* four threads, the force is on only while the request is, or while one thread is   *)
(* between its two stores.                                                           *)
THEOREM ForceNeverOrphaned == Spec => []NoOrphanForce
<1>1. IInv /\ [Next]_vars => IInv'
  BY TypeStep, OnlyPrinterForcesStep, NoOrphanForceStep DEF IInv
<1>2. IInv => NoOrphanForce
  BY DEF IInv
<1>3. QED
  BY IInvInit, <1>1, <1>2, PTL DEF Spec
===================================================================================

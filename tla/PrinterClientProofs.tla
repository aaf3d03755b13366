--------------------------- MODULE PrinterClientProofs ---------------------------
(* What holds of PrinterClient for every set of printers and every bound: the       *)
(* types, the safety of a reconfiguration and the refinement of MqttClientApi.      *)
EXTENDS PrinterClient, TLAPS

(* Where the printer task is tells the life of the client handle, and the handle    *)
(* tells whether a broker is bound to it and whether an event can be handled.       *)
HandleByPc ==
  /\ client = "created" <=> pc = "start"
  /\ client = "stopping" <=> pc = "join"
  /\ client = "stopped" <=> pc = "destroy"
  /\ pc \in {"connect", "init", "rebuilt", "offline"} => client = "none"
  /\ pc \in {"halt", "watch"} => client = "running"
  /\ clientConn = NoConn <=> client = "none"
  /\ mqPc # "idle" => client \in {"running", "stopping"}

(* From the copy of the connection to the creation of the client, the connection    *)
(* carried along is a configured one, and a newer one is announced.                 *)
CarriedConnection ==
  /\ pc \in {"connect", "init"} => conn \in Conns
  /\ pc = "init" => active = conn
  /\ pc \in {"connect", "init"} /\ conn # desired => Reconfiguring

(* StaleClientIsPending alone is not inductive: the creation of a client needs the  *)
(* same fact about the connection it is created for, and where it stands.           *)
IInv == /\ TypeOK
        /\ HandleByPc
        /\ CarriedConnection
        /\ StaleClientIsPending

----------------------------------------------------------------------------------
(* The program starts in a type-correct state. *)
LEMMA TypeInit == Init => TypeOK
<1>1. Init => FlagsOK
  BY Zenon DEF Init, FlagsOK
<1>2. Init => DataOK
  BY SMT DEF Init, DataOK, TaskPCs
<1>3. QED
  BY <1>1, <1>2 DEF TypeOK

(* What the helpers assign to flags are truth values. *)
LEMMA RebuildFlags ==
  ASSUME req \in BOOLEAN, force \in BOOLEAN
  PROVE  /\ CancelRebuild => req' \in BOOLEAN /\ force' \in BOOLEAN
         /\ ScheduleRebuild(TRUE) => req' \in BOOLEAN /\ force' \in BOOLEAN
         /\ ScheduleRebuild(FALSE) => req' \in BOOLEAN /\ force' \in BOOLEAN
  BY Zenon DEF CancelRebuild, ScheduleRebuild

LEMMA RuntimeFlags ==
  ASSUME NEW r \in BOOLEAN
  PROVE  /\ StoreRuntime(r) => runtime' \in BOOLEAN /\ dirty' \in BOOLEAN
         /\ StoreAndPublish(r) => /\ runtime' \in BOOLEAN
                                  /\ dirty' \in BOOLEAN
                                  /\ snapshot' \in BOOLEAN
  BY Zenon DEF StoreRuntime, StoreAndPublish

LEMMA SessionFlags ==
  DropSession => connected' \in BOOLEAN /\ delayedSent' \in BOOLEAN
  BY Zenon DEF DropSession

(* No step of the printer task, of the handler or of another thread leaves the      *)
(* types.                                                                           *)
LEMMA TypeStep == TypeOK /\ [Next]_vars => TypeOK'
<1> SUFFICES ASSUME TypeOK, [Next]_vars
             PROVE  TypeOK'
  OBVIOUS
<1>a. /\ CancelRebuild => req' \in BOOLEAN /\ force' \in BOOLEAN
      /\ ScheduleRebuild(TRUE) => req' \in BOOLEAN /\ force' \in BOOLEAN
      /\ ScheduleRebuild(FALSE) => req' \in BOOLEAN /\ force' \in BOOLEAN
  BY RebuildFlags DEF TypeOK, FlagsOK
<1>b. /\ StoreAndPublish(FALSE) => /\ runtime' \in BOOLEAN
                                   /\ dirty' \in BOOLEAN
                                   /\ snapshot' \in BOOLEAN
  BY RuntimeFlags, Zenon
<1> USE DEF TypeOK, FlagsOK, DataOK, TaskPCs, configVars, taskVars, clientVars,
            linkVars, handlerVars, flagVars, timerVars, rebuildVars, runtimeVars,
            lightVars, boundVars
<1>1. CASE TaskTop
  <2>1. reconf' \in BOOLEAN /\ dirty' \in BOOLEAN
    BY <1>1, Zenon DEF TaskTop
  <2>2. QED
    BY <1>1, <2>1 DEF TaskTop
<1>2. CASE TaskRebuild
  BY <1>2, <1>a DEF TaskRebuild, CancelRebuild
<1>3. CASE StopClear
  <2>1. /\ connected' \in BOOLEAN /\ received' \in BOOLEAN
        /\ firstSeen' \in BOOLEAN /\ delayedSent' \in BOOLEAN
        /\ lightPending' \in BOOLEAN
    BY <1>3, Zenon DEF StopClear
  <2>2. QED
    BY <1>3, <1>a, <2>1 DEF StopClear, CancelRebuild
<1>4. CASE StopHalt \/ StopDestroy
  BY <1>4 DEF StopHalt, StopDestroy
<1>5. CASE StopJoin
  <2>1. alive' \in BOOLEAN
    BY <1>5, Zenon DEF StopJoin
  <2>2. QED
    BY <1>5, <2>1 DEF StopJoin
<1>6. CASE TaskRebuilt
  BY <1>6, <1>a DEF TaskRebuilt, CancelRebuild
<1>7. CASE TaskConfig
  BY <1>7 DEF TaskConfig
<1>8. CASE TaskUnconfigured \/ TaskOffline \/ TaskConnect
  BY <1>8, <1>b DEF TaskUnconfigured, TaskOffline, TaskConnect, StoreAndPublish
<1>9. CASE TaskInitOk \/ TaskInitFails
  BY <1>9, <1>b DEF TaskInitOk, TaskInitFails, StoreAndPublish
<1>10. CASE TaskStartOk \/ TaskStartFails
  BY <1>10, <1>b DEF TaskStartOk, TaskStartFails, StoreAndPublish
<1>11. CASE WatchInitialSync
  <2>1. delayedSent' \in BOOLEAN /\ lightPending' \in BOOLEAN
    BY <1>11 DEF WatchInitialSync, FinishIteration
  <2>2. QED
    BY <1>11, <1>a, <2>1 DEF WatchInitialSync, FinishIteration, ScheduleRebuild
<1>12. CASE WatchSilence
  BY <1>12, <1>a DEF WatchSilence, FinishIteration, ScheduleRebuild
<1>13. CASE WatchStall \/ WatchNothing
  <2>1. lightPending' \in BOOLEAN
    BY <1>13 DEF WatchStall, WatchNothing, FinishIteration
  <2>2. CASE WatchStall
    BY <2>1, <2>2, <1>a DEF WatchStall, FinishIteration, ScheduleRebuild
  <2>3. CASE WatchNothing
    BY <2>1, <2>3 DEF WatchNothing, FinishIteration
  <2>4. QED
    BY <1>13, <2>2, <2>3
<1>14. CASE MqttConnected \/ MqttSubscribed
  <2>1. alive' \in BOOLEAN
    BY <1>14, Zenon DEF MqttConnected, MqttSubscribed
  <2>2. QED
    BY <1>14, <1>a, <2>1 DEF MqttConnected, MqttSubscribed, CancelRebuild, HandlerFrame
<1>15. CASE ConnectedFlags \/ SubscribedFlags
  <2>1. /\ connected' \in BOOLEAN /\ received' \in BOOLEAN
        /\ firstSeen' \in BOOLEAN /\ delayedSent' \in BOOLEAN
    BY <1>15, Zenon DEF ConnectedFlags, SubscribedFlags
  <2>2. QED
    BY <1>15, <2>1 DEF ConnectedFlags, SubscribedFlags, HandlerFrame
<1>16. CASE MqttData
  <2>1. firstSeen' \in BOOLEAN
    BY <1>16, Zenon DEF MqttData
  <2>2. QED
    BY <1>16, <1>a, <2>1, PrinterAssumption DEF MqttData, CancelRebuild, HandlerFrame
<1>17. CASE MqttDisconnected \/ MqttError
  <2>1. alive' \in BOOLEAN
    BY <1>17, Zenon DEF MqttDisconnected, MqttError
  <2>2. connected' \in BOOLEAN /\ delayedSent' \in BOOLEAN
    BY <1>17, SessionFlags, Zenon DEF MqttDisconnected, MqttError
  <2>3. QED
    BY <1>17, <2>1, <2>2 DEF MqttDisconnected, MqttError, DropSession, HandlerFrame
<1>18. CASE HandlerStore
  <2>1. dirty' \in BOOLEAN
    BY <1>18, Zenon DEF HandlerStore, StoreRuntime
  <2>2. QED
    BY <1>18, <2>1 DEF HandlerStore, StoreRuntime, HandlerFrame
<1>19. CASE HandlerSchedule
  BY <1>19, <1>a DEF HandlerSchedule, ScheduleRebuild, HandlerFrame
<1>20. CASE PeerGoesSilent
  <2>1. alive' \in BOOLEAN
    BY <1>20, Zenon DEF PeerGoesSilent
  <2>2. QED
    BY <1>20, <2>1 DEF PeerGoesSilent
<1>21. CASE ConfigureStore \/ ConfigureFlag
  <2>1. reconf' \in BOOLEAN
    BY <1>21, Zenon DEF ConfigureStore, ConfigureFlag
  <2>2. QED
    BY <1>21, <2>1, BoundAssumption DEF ConfigureStore, ConfigureFlag, OtherFrame
<1>22. CASE SetNetworkReady \/ SetNetworkDown
  <2>1. netReady' \in BOOLEAN
    BY <1>22, Zenon DEF SetNetworkReady, SetNetworkDown
  <2>2. QED
    BY <1>22, <2>1 DEF SetNetworkReady, SetNetworkDown, CollapseRebuild, OtherFrame
<1>23. CASE NotifyCloudPresence
  BY <1>23, <1>a DEF NotifyCloudPresence, CollapseRebuild, ScheduleRebuild, OtherFrame
<1>24. CASE LightCheck \/ LightStore
  <2>1. dirty' \in BOOLEAN
    BY <1>24, Zenon DEF LightCheck, LightStore, StoreRuntime
  <2>2. QED
    BY <1>24, <2>1 DEF LightCheck, LightStore, StoreRuntime, OtherFrame
<1>25. CASE LightQueue \/ LightPublish
  <2>1. lightPending' \in BOOLEAN /\ appRt' \in BOOLEAN
    BY <1>25, Zenon DEF LightQueue, LightPublish
  <2>2. QED
    BY <1>25, <2>1 DEF LightQueue, LightPublish, OtherFrame
<1>26. CASE Elapse
  BY <1>26 DEF Elapse, ElapseSync, ElapseMessage, ElapseProbe, ElapseStall,
               ElapseRebuild, ElapseFrame
<1>27. CASE UNCHANGED vars
  BY <1>27 DEF vars
<1>28. QED
  BY <1>1, <1>2, <1>3, <1>4, <1>5, <1>6, <1>7, <1>8, <1>9, <1>10, <1>11, <1>12,
     <1>13, <1>14, <1>15, <1>16, <1>17, <1>18, <1>19, <1>20, <1>21, <1>22, <1>23,
     <1>24, <1>25, <1>26, <1>27
     DEF Next, PrinterTask, Stop, Watch, HandlerStep, Environment, MqttEvent,
         SetChamberLight

(* The members keep their types in every behaviour of every instance. *)
THEOREM TypeCorrect == Spec => []TypeOK
  BY TypeInit, TypeStep, PTL DEF Spec

----------------------------------------------------------------------------------
(* The inductive invariant. *)
LEMMA IInvInit == Init => IInv
  BY TypeInit, ConnAssumption
     DEF Init, IInv, HandleByPc, CarriedConnection, StaleClientIsPending

(* The steps that leave the configuration, the printer task and the handle alone,   *)
(* and start no event of a client that does not run.                                *)
LEMMA QuietStep ==
  ASSUME IInv, UNCHANGED <<configVars, taskVars, clientVars>>,
         mqPc' = mqPc \/ mqPc' = "idle" \/ client = "running" \/ mqPc # "idle"
  PROVE  HandleByPc' /\ CarriedConnection' /\ StaleClientIsPending'
  BY DEF IInv, HandleByPc, CarriedConnection, StaleClientIsPending, Reconfiguring,
         Stopping, configVars, taskVars, clientVars

(* Every step preserves the inductive invariant: only the steps of the printer task *)
(* and of configure can disturb it.                                                 *)
LEMMA IInvStep == IInv /\ [Next]_vars => IInv'
<1> SUFFICES ASSUME IInv, [Next]_vars
             PROVE  HandleByPc' /\ CarriedConnection' /\ StaleClientIsPending'
  BY TypeStep DEF IInv
<1>types. DataOK
  BY DEF IInv, TypeOK
<1> USE <1>types, ConnAssumption
    DEF IInv, DataOK, TaskPCs, HandleByPc, CarriedConnection, StaleClientIsPending,
        Reconfiguring, Stopping, configVars, taskVars, clientVars, handlerVars
<1>1. CASE TaskTop
  BY <1>1 DEF TaskTop
<1>2. CASE TaskRebuild
  BY <1>2 DEF TaskRebuild
<1>3. CASE StopClear
  BY <1>3 DEF StopClear
<1>4. CASE StopHalt
  BY <1>4 DEF StopHalt
<1>5. CASE StopJoin
  BY <1>5 DEF StopJoin
<1>6. CASE StopDestroy
  BY <1>6 DEF StopDestroy
<1>7. CASE TaskRebuilt
  BY <1>7 DEF TaskRebuilt
<1>8. CASE TaskConfig
  BY <1>8 DEF TaskConfig
<1>9. CASE TaskUnconfigured \/ TaskOffline \/ TaskConnect
  BY <1>9 DEF TaskUnconfigured, TaskOffline, TaskConnect
<1>10. CASE TaskInitOk \/ TaskInitFails
  <2>1. CASE TaskInitOk
    BY <2>1 DEF TaskInitOk
  <2>2. CASE TaskInitFails
    BY <2>2 DEF TaskInitFails
  <2>3. QED
    BY <1>10, <2>1, <2>2
<1>11. CASE TaskStartOk \/ TaskStartFails
  <2>1. CASE TaskStartOk
    BY <2>1 DEF TaskStartOk
  <2>2. CASE TaskStartFails
    BY <2>2 DEF TaskStartFails
  <2>3. QED
    BY <1>11, <2>1, <2>2
<1>12. CASE Watch
  <2>1. CASE WatchInitialSync
    BY <2>1 DEF WatchInitialSync, FinishIteration
  <2>2. CASE WatchSilence
    BY <2>2 DEF WatchSilence, FinishIteration
  <2>3. CASE WatchStall
    BY <2>3 DEF WatchStall, FinishIteration
  <2>4. CASE WatchNothing
    BY <2>4 DEF WatchNothing, FinishIteration
  <2>5. QED
    BY <1>12, <2>1, <2>2, <2>3, <2>4 DEF Watch
<1>13. CASE MqttEvent
  BY <1>13, QuietStep DEF MqttEvent, MqttConnected, MqttSubscribed, MqttData,
               MqttDisconnected, MqttError, Delivers, HandlerFrame
<1>14. CASE HandlerStep
  BY <1>14, QuietStep DEF HandlerStep, ConnectedFlags, SubscribedFlags, HandlerStore,
               HandlerSchedule, HandlerFrame
<1>15. CASE PeerGoesSilent \/ LightCheck \/ SetChamberLight \/ NotifyCloudPresence
  BY <1>15, QuietStep DEF PeerGoesSilent, LightCheck, SetChamberLight, LightQueue,
               LightStore, LightPublish, NotifyCloudPresence, OtherFrame
<1>16. CASE ConfigureStore \/ ConfigureFlag
  BY <1>16 DEF ConfigureStore, ConfigureFlag, OtherFrame
<1>17. CASE SetNetworkReady \/ SetNetworkDown
  BY <1>17 DEF SetNetworkReady, SetNetworkDown, OtherFrame
<1>18. CASE Elapse
  BY <1>18, QuietStep DEF Elapse, ElapseSync, ElapseMessage, ElapseProbe, ElapseStall,
               ElapseRebuild, ElapseFrame
<1>19. CASE UNCHANGED vars
  BY <1>19, QuietStep DEF vars
<1>20. QED
  BY <1>1, <1>2, <1>3, <1>4, <1>5, <1>6, <1>7, <1>8, <1>9, <1>10, <1>11, <1>12,
     <1>13, <1>14, <1>15, <1>16, <1>17, <1>18, <1>19
     DEF Next, PrinterTask, Stop, Environment

(* A reconfiguration is never lost, for any number of printers and of calls of      *)
(* configure: a client for another connection than the desired one exists only      *)
(* while the reconfiguration is announced or being carried out.                     *)
THEOREM ReconfigurationKept == Spec => []StaleClientIsPending
<1>1. IInv => StaleClientIsPending
  BY DEF IInv
<1>2. QED
  BY IInvInit, IInvStep, <1>1, PTL DEF Spec

----------------------------------------------------------------------------------
(* The refinement of MqttClientApi. *)
LEMMA ApiInit == Init => Api!Init
  BY DEF Init, Api!Init, Handle, Handling

(* A step that leaves the handle and the idleness of the handler alone is a stutter *)
(* of the abstract specification.                                                   *)
LEMMA ApiStutter ==
  ASSUME UNCHANGED <<client, clientConn>>, Handling' = Handling
  PROVE  UNCHANGED Api!vars
  BY DEF Handle, Api!vars

(* Every step of the implementation is a step of the abstract specification or a    *)
(* stutter.                                                                         *)
LEMMA ApiStep == IInv /\ [Next]_vars => [Api!Next]_(Api!vars)
<1> SUFFICES ASSUME IInv, [Next]_vars
             PROVE  Api!Next \/ UNCHANGED Api!vars
  BY DEF Api!vars
<1>types. DataOK
  BY DEF IInv, TypeOK
<1>shape. HandleByPc /\ CarriedConnection
  BY DEF IInv
<1> USE <1>types, <1>shape, ConnAssumption
    DEF DataOK, HandleByPc, CarriedConnection, Handle, Handling, configVars, taskVars,
        clientVars, handlerVars
<1>1. CASE TaskInitOk
  <2>1. Api!Create
    BY <1>1 DEF TaskInitOk, Api!Create
  <2>2. QED
    BY <2>1 DEF Api!Next
<1>2. CASE TaskStartOk
  <2>1. Api!Start
    BY <1>2 DEF TaskStartOk, Api!Start
  <2>2. QED
    BY <2>1 DEF Api!Next
<1>3. CASE TaskStartFails \/ StopDestroy
  <2>1. Api!Destroy
    BY <1>3 DEF TaskStartFails, StopDestroy, Api!Destroy
  <2>2. QED
    BY <2>1 DEF Api!Next
<1>4. CASE StopJoin
  <2>1. Api!Stop
    BY <1>4 DEF StopJoin, Api!Stop
  <2>2. QED
    BY <2>1 DEF Api!Next
<1>5. CASE StopHalt
  BY <1>5 DEF StopHalt, Api!vars
<1>6. CASE MqttEvent
  <2>1. Api!EnterHandler
    BY <1>6 DEF MqttEvent, MqttConnected, MqttSubscribed, MqttData, MqttDisconnected,
                MqttError, Delivers, HandlerFrame, Api!EnterHandler
  <2>2. QED
    BY <2>1 DEF Api!Next
<1>7. CASE HandlerStore \/ HandlerSchedule
  <2>1. CASE mqPc' = "idle"
    <3>1. Api!LeaveHandler
      BY <1>7, <2>1 DEF HandlerStore, HandlerSchedule, HandlerFrame, Api!LeaveHandler
    <3>2. QED
      BY <3>1 DEF Api!Next
  <2>2. CASE mqPc' # "idle"
    BY <1>7, <2>2, ApiStutter DEF HandlerStore, HandlerSchedule, HandlerFrame
  <2>3. QED
    BY <2>1, <2>2
<1>8. CASE ConnectedFlags \/ SubscribedFlags
  BY <1>8, ApiStutter DEF ConnectedFlags, SubscribedFlags, HandlerFrame
<1>9. CASE TaskTop \/ TaskRebuild \/ StopClear \/ TaskRebuilt \/ TaskConfig
  BY <1>9, ApiStutter DEF TaskTop, TaskRebuild, StopClear, TaskRebuilt, TaskConfig
<1>10. CASE TaskUnconfigured \/ TaskOffline \/ TaskConnect \/ TaskInitFails
  BY <1>10, ApiStutter DEF TaskUnconfigured, TaskOffline, TaskConnect, TaskInitFails
<1>11. CASE Watch
  BY <1>11, ApiStutter DEF Watch, WatchInitialSync, WatchSilence, WatchStall,
                           WatchNothing, FinishIteration
<1>12. CASE PeerGoesSilent \/ LightCheck \/ SetChamberLight
  BY <1>12, ApiStutter DEF PeerGoesSilent, LightCheck, SetChamberLight, LightQueue,
                           LightStore, LightPublish, OtherFrame
<1>13. CASE \/ ConfigureStore \/ ConfigureFlag
            \/ SetNetworkReady \/ SetNetworkDown \/ NotifyCloudPresence
  BY <1>13, ApiStutter DEF ConfigureStore, ConfigureFlag, SetNetworkReady,
                           SetNetworkDown, NotifyCloudPresence, OtherFrame
<1>14. CASE Elapse
  BY <1>14, ApiStutter DEF Elapse, ElapseSync, ElapseMessage, ElapseProbe,
                           ElapseStall, ElapseRebuild, ElapseFrame
<1>15. CASE UNCHANGED vars
  BY <1>15, ApiStutter DEF vars
<1>16. QED
  BY <1>1, <1>2, <1>3, <1>4, <1>5, <1>6, <1>7, <1>8, <1>9, <1>10, <1>11, <1>12,
     <1>13, <1>14, <1>15
     DEF Next, PrinterTask, Stop, HandlerStep, Environment

(* The printer task owns its esp-mqtt handle as the library requires: one handle at *)
(* a time, created for a configured printer, stopped and destroyed only when no     *)
(* event handler of it is in flight.                                                *)
THEOREM HandleDiscipline == Spec => ImplementsApi
  BY IInvInit, IInvStep, ApiInit, ApiStep, PTL DEF Spec, ImplementsApi, Api!Spec
==================================================================================

--------------------------- MODULE CameraClientProofs ---------------------------
(* What holds of CameraClient for every set of connections and callers and every    *)
(* bound: a session of another printer is about to end, and no picture of another    *)
(* printer is published once the new configuration has been seen.                    *)
EXTENDS CameraClient, TLAPS

(* The task's copy of the connection is the desired one, or a reconfiguration is     *)
(* pending: what makes StaleSessionIsPending inductive, as Connect opens a session    *)
(* for the copy.                                                                      *)
CopyFits == pc \notin {"top", "desired"} /\ conn # desired => Pending
SessionFits == tls \notin {NoConn, desired} => Pending
IInv == TypeOK /\ CopyFits /\ SessionFits

---------------------------------------------------------------------------------
(* The types hold at the start. *)
LEMMA TypeInit == Init => TypeOK
<1>1. Init => FlagsOK
  <2>1. /\ [connected |-> FALSE, frame |-> NoConn] \in [connected : BOOLEAN, frame : AnyConn]
        /\ [at |-> "read", network |-> FALSE, enabled |-> FALSE] \in
             [at : {"read", "apply"}, network : BOOLEAN, enabled : BOOLEAN]
    BY DEF AnyConn
  <2>2. QED
    BY <2>1, Zenon DEF Init, FlagsOK
<1>2. Init => DataOK
  BY BoundsAssumption, SMT DEF Init, DataOK, AnyConn, Kinds, Steps
<1>3. QED
  BY <1>1, <1>2 DEF TypeOK

(* A frame number grows below its bound only, sessions and copies are connections.  *)
LEMMA DataStep == ASSUME DataOK, [Next]_vars PROVE DataOK'
<1> USE BoundsAssumption
    DEF DataOK, Kinds, Steps, AnyConn, TaskRest, cfgVars, worldVars, taskVars
<1>1. CASE TaskTop \/ ReadDesired \/ CheckNetwork \/ CheckEnabled \/ CheckModel
  BY <1>1 DEF TaskTop, ReadDesired, CheckNetwork, CheckEnabled, CheckModel
<1>2. CASE CheckRefresh \/ Connect \/ ReadFrame
  BY <1>2 DEF CheckRefresh, Connect, ReadFrame
<1>3. CASE Received
  BY <1>3 DEF Received
<1>4. CASE Decoded \/ Publish \/ FetchFailed \/ RefreshDue
  BY <1>4 DEF Decoded, Publish, FetchFailed, RefreshDue
<1>5. CASE App \/ HandoffEnds
  BY <1>5 DEF App, AppRead, AppApply, AppRest, HandoffEnds
<1>6. CASE HandoffStarts \/ Tap \/ World
  BY <1>6 DEF HandoffStarts, Tap, World
<1>7. ASSUME NEW t \in Callers, NEW c \in AnyConn, ConfigureStore(t, c)
      PROVE  DataOK'
  BY <1>7 DEF ConfigureStore, ConfigureRest, Place
<1>8. ASSUME NEW t \in Callers, ConfigureFlag(t) \/ ConfigurePublish(t)
      PROVE  DataOK'
  BY <1>8 DEF ConfigureFlag, ConfigurePublish, ConfigureRest, Place
<1>9. CASE UNCHANGED vars
  BY <1>9 DEF vars
<1>10. QED
  BY <1>1, <1>2, <1>3, <1>4, <1>5, <1>6, <1>7, <1>8, <1>9 DEF Next, Task

(* Flags stay flags. *)
LEMMA FlagsStep == ASSUME TypeOK, [Next]_vars PROVE FlagsOK'
<1> DEFINE Shot == [connected : BOOLEAN, frame : AnyConn]
<1> DEFINE Iteration == [at : {"read", "apply"}, network : BOOLEAN, enabled : BOOLEAN]
<1> DEFINE Others == /\ reconfigure' = reconfigure /\ network' = network /\ enabled' = enabled
                     /\ tap' = tap /\ page' = page /\ wifi' = wifi
                     /\ handoff' = handoff /\ app' = app
<1>1. FlagsOK /\ tls \in AnyConn
  BY DEF TypeOK, DataOK
<1>2. [connected |-> FALSE, frame |-> NoConn] \in Shot
  BY DEF AnyConn
<1>3. NotConnected => snapshot' \in Shot
  BY <1>1 DEF NotConnected, FlagsOK
<1>4. TaskRest => Others
  BY DEF TaskRest, cfgVars, worldVars
<1>5. ASSUME TaskRest, refresh' \in BOOLEAN, idle' \in BOOLEAN, snapshot' \in Shot
      PROVE  FlagsOK'
  BY <1>1, <1>4, <1>5, Zenon DEF FlagsOK
<1>6. CASE TaskTop
  <2>1. reconfigure' \in BOOLEAN /\ refresh' \in BOOLEAN /\ idle' \in BOOLEAN
    BY <1>1, <1>6, Zenon DEF TaskTop, FlagsOK
  <2>2. /\ network' = network /\ enabled' = enabled /\ snapshot' = snapshot /\ tap' = tap /\ page' = page
        /\ wifi' = wifi /\ handoff' = handoff /\ app' = app
    BY <1>6 DEF TaskTop, worldVars
  <2>3. QED
    BY <1>1, <2>1, <2>2, Zenon DEF FlagsOK
<1>7. CASE ReadDesired
  BY <1>1, <1>3, <1>5, <1>7, Zenon DEF ReadDesired, FlagsOK
<1>8. CASE CheckNetwork
  BY <1>1, <1>3, <1>5, <1>8, Zenon DEF CheckNetwork, FlagsOK
<1>9. CASE CheckEnabled
  BY <1>1, <1>3, <1>5, <1>9, Zenon DEF CheckEnabled, FlagsOK
<1>10. CASE CheckModel
  BY <1>1, <1>2, <1>3, <1>5, <1>10, Zenon DEF CheckModel, FlagsOK
<1>11. CASE CheckRefresh
  BY <1>1, <1>3, <1>5, <1>11, Zenon DEF CheckRefresh, FlagsOK
<1>12. CASE Connect \/ ReadFrame \/ Received \/ Decoded \/ RefreshDue
  <2>1. TaskRest /\ refresh' = refresh /\ idle' = idle /\ snapshot' = snapshot
    BY <1>12 DEF Connect, ReadFrame, Received, Decoded, RefreshDue
  <2>2. QED
    BY <1>1, <1>5, <2>1, Zenon DEF FlagsOK
<1>13. CASE Publish
  <2>1. snapshot' \in Shot
    BY <1>1, <1>13 DEF Publish, FlagsOK
  <2>2. TaskRest /\ refresh' = refresh /\ idle' = idle
    BY <1>13 DEF Publish
  <2>3. QED
    BY <1>1, <1>5, <2>1, <2>2, Zenon DEF FlagsOK
<1>14. CASE FetchFailed
  BY <1>1, <1>3, <1>5, <1>14, Zenon DEF FetchFailed, FlagsOK
<1>15. CASE AppRead
  <2>1. app' \in Iteration
    BY <1>1, <1>15 DEF AppRead, FlagsOK
  <2>2. /\ reconfigure' = reconfigure /\ network' = network /\ enabled' = enabled /\ refresh' = refresh /\ idle' = idle
        /\ snapshot' = snapshot /\ tap' = tap /\ page' = page /\ wifi' = wifi /\ handoff' = handoff
    BY <1>15 DEF AppRead, AppRest, cfgVars, taskVars, worldVars
  <2>3. QED
    BY <1>1, <2>1, <2>2, Zenon DEF FlagsOK
<1>16. CASE AppApply
  <2>1. app' \in Iteration /\ network' \in BOOLEAN /\ enabled' \in BOOLEAN
    BY <1>1, <1>16 DEF AppApply, FlagsOK
  <2>2. refresh' \in BOOLEAN /\ tap' \in BOOLEAN
    BY <1>1, <1>16, Zenon DEF AppApply, FlagsOK
  <2>3. UNCHANGED <<reconfigure, idle, snapshot, page, wifi, handoff>>
    BY <1>16 DEF AppApply, AppRest, cfgVars, taskVars, worldVars
  <2>4. QED
    BY <1>1, <2>1, <2>2, <2>3, Zenon DEF FlagsOK
<1>17. CASE HandoffStarts \/ HandoffEnds \/ Tap \/ World
  <2>1. /\ enabled' \in BOOLEAN /\ tap' \in BOOLEAN
        /\ page' \in BOOLEAN /\ wifi' \in BOOLEAN /\ handoff' \in BOOLEAN
    BY <1>1, <1>17, Zenon DEF HandoffStarts, HandoffEnds, Tap, World, FlagsOK
  <2>2. /\ reconfigure' = reconfigure /\ network' = network /\ refresh' = refresh /\ idle' = idle /\ snapshot' = snapshot
        /\ app' = app
    BY <1>17 DEF HandoffStarts, HandoffEnds, Tap, World, cfgVars, taskVars
  <2>3. QED
    BY <1>1, <2>1, <2>2, Zenon DEF FlagsOK
<1>18. ASSUME NEW t \in Callers,
              (\E c \in AnyConn : ConfigureStore(t, c)) \/ ConfigureFlag(t) \/ ConfigurePublish(t)
       PROVE  FlagsOK'
  <2>1. reconfigure' \in BOOLEAN /\ snapshot' \in Shot
    BY <1>1, <1>2, <1>18 DEF ConfigureStore, ConfigureFlag, ConfigurePublish, FlagsOK
  <2>2. /\ network' = network /\ enabled' = enabled /\ refresh' = refresh /\ idle' = idle /\ tap' = tap
        /\ page' = page /\ wifi' = wifi /\ handoff' = handoff /\ app' = app
    BY <1>18 DEF ConfigureStore, ConfigureFlag, ConfigurePublish, ConfigureRest, taskVars, worldVars
  <2>3. QED
    BY <1>1, <2>1, <2>2, Zenon DEF FlagsOK
<1>19. CASE UNCHANGED vars
  BY <1>1, <1>19 DEF FlagsOK, vars, cfgVars, taskVars, worldVars
<1>20. CASE Task
  BY <1>20, <1>6, <1>7, <1>8, <1>9, <1>10, <1>11, <1>12, <1>13, <1>14, Zenon DEF Task
<1>21. QED
  BY <1>12, <1>15, <1>16, <1>17, <1>18, <1>19, <1>20, Zenon DEF Next, App

(* TypeOK: every variable keeps its type, for every constant. *)
THEOREM TypeCorrect == Spec => []TypeOK
<1>1. TypeOK /\ [Next]_vars => TypeOK'
  BY DataStep, FlagsStep DEF TypeOK
<1>2. QED
  BY TypeInit, <1>1, PTL DEF Spec

---------------------------------------------------------------------------------
(* configure leaves a reconfiguration pending at each of its steps. *)
LEMMA ConfigureKeeps ==
  ASSUME IInv, NEW t \in Callers,
         (\E c \in AnyConn : ConfigureStore(t, c)) \/ ConfigureFlag(t) \/ ConfigurePublish(t)
  PROVE  CopyFits' /\ SessionFits'
<1> USE DEF IInv, TypeOK, DataOK, CopyFits, SessionFits, Pending, Place, ConfigureRest, taskVars
<1>1. ASSUME NEW c \in AnyConn, ConfigureStore(t, c) PROVE Pending'
  BY <1>1 DEF ConfigureStore
<1>2. CASE ConfigureFlag(t)
  BY <1>2 DEF ConfigureFlag
<1>3. CASE ConfigurePublish(t)
  <2>1. \A u \in Callers : call[u].at = "stored" => call'[u].at = "stored"
    BY <1>3 DEF ConfigurePublish
  <2>2. Pending => Pending'
    BY <1>3, <2>1 DEF ConfigurePublish
  <2>3. QED
    BY <1>3, <2>2 DEF ConfigurePublish
<1>4. QED
  BY <1>1, <1>2, <1>3

(* The task clears the flag only where it has no session and no copy, and reads the  *)
(* connection after that; a session it opens is of its copy.                          *)
LEMMA TaskKeeps == ASSUME IInv, Task \/ RefreshDue PROVE CopyFits' /\ SessionFits'
<1> USE DEF IInv, CopyFits, SessionFits, Pending, TaskRest, cfgVars
<1>1. CASE TaskTop
  BY <1>1 DEF TaskTop
<1>2. CASE ReadDesired
  BY <1>2 DEF ReadDesired
<1>3. CASE CheckNetwork \/ CheckEnabled \/ CheckModel \/ CheckRefresh
  BY <1>3 DEF CheckNetwork, CheckEnabled, CheckModel, CheckRefresh
<1>4. CASE Connect
  BY <1>4 DEF Connect
<1>5. CASE ReadFrame \/ Received \/ Decoded
  BY <1>5 DEF ReadFrame, Received, Decoded
<1>6. CASE Publish \/ FetchFailed \/ RefreshDue
  BY <1>6 DEF Publish, FetchFailed, RefreshDue
<1>7. QED
  BY <1>1, <1>2, <1>3, <1>4, <1>5, <1>6 DEF Task

(* Every other step leaves connection, flag, copy and session alone. *)
LEMMA OthersKeep ==
  ASSUME IInv, App \/ HandoffStarts \/ HandoffEnds \/ Tap \/ World \/ UNCHANGED vars
  PROVE  CopyFits' /\ SessionFits'
<1>1. UNCHANGED <<cfgVars, taskVars>>
  BY DEF App, AppRead, AppApply, AppRest, HandoffStarts, HandoffEnds, Tap, World, vars
<1>2. QED
  BY <1>1 DEF IInv, CopyFits, SessionFits, Pending, cfgVars, taskVars

(* The inductive invariant holds of every behaviour. *)
LEMMA InvHolds == Spec => []IInv
<1>1. Init => IInv
  BY TypeInit DEF Init, IInv, CopyFits, SessionFits, Pending
<1>2. IInv /\ [Next]_vars => IInv'
  <2> SUFFICES ASSUME IInv, [Next]_vars PROVE IInv'
    OBVIOUS
  <2>1. TypeOK'
    BY DataStep, FlagsStep DEF IInv, TypeOK
  <2>2. CopyFits' /\ SessionFits'
    BY ConfigureKeeps, TaskKeeps, OthersKeep DEF Next
  <2>3. QED
    BY <2>1, <2>2 DEF IInv
<1>3. QED
  BY <1>1, <1>2, PTL DEF Spec

(* StaleSessionIsPending: for any number of callers of configure, a session or a     *)
(* fetch that is not of the configured printer ends at the task's next iteration.     *)
THEOREM OldSessionsEnd == Spec => []StaleSessionIsPending
<1>1. IInv => StaleSessionIsPending
  BY DEF IInv, CopyFits, SessionFits, StaleSessionIsPending, Fetching
<1>2. QED
  BY InvHolds, <1>1, PTL

(* PicturesOfThePrinter: only Publish stores a picture, it is of the session, and    *)
(* that is of the configured printer unless a reconfiguration is pending.             *)
THEOREM PicturesFit == Spec => PicturesOfThePrinter
<1>1. IInv /\ [Next]_vars =>
        [snapshot'.frame \notin {snapshot.frame, NoConn} => snapshot'.frame = desired \/ Pending]_vars
  <2> SUFFICES ASSUME IInv, Next, snapshot'.frame \notin {snapshot.frame, NoConn}
               PROVE  snapshot'.frame = desired \/ Pending
    OBVIOUS
  <2>1. CASE Publish
    BY <2>1 DEF Publish, IInv, SessionFits
  <2>2. snapshot'.frame \in {snapshot.frame, NoConn} \/ Publish
    <3> USE DEF IInv, TypeOK, FlagsOK, NotConnected, TaskRest, cfgVars, worldVars, taskVars
    <3>1. CASE Task
      BY <3>1 DEF Task, TaskTop, ReadDesired, CheckNetwork, CheckEnabled, CheckModel,
                  CheckRefresh, Connect, ReadFrame, Received, Decoded, FetchFailed
    <3>2. CASE App \/ RefreshDue \/ HandoffStarts \/ HandoffEnds \/ Tap \/ World
      BY <3>2 DEF App, AppRead, AppApply, AppRest, RefreshDue, HandoffStarts, HandoffEnds,
                  Tap, World
    <3>3. ASSUME NEW t \in Callers,
                 (\E c \in AnyConn : ConfigureStore(t, c)) \/ ConfigureFlag(t) \/ ConfigurePublish(t)
          PROVE  snapshot'.frame \in {snapshot.frame, NoConn}
      BY <3>3 DEF ConfigureStore, ConfigureFlag, ConfigurePublish, ConfigureRest
    <3>4. QED
      BY <3>1, <3>2, <3>3 DEF Next
  <2>3. QED
    BY <2>1, <2>2
<1>2. QED
  BY InvHolds, <1>1, PTL DEF Spec, PicturesOfThePrinter
=================================================================================

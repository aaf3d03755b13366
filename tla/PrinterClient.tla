------------------------------ MODULE PrinterClient ------------------------------
(* The local MQTT client of PrintSphere: src/main/src/printer_client.cpp.         *)
(*                                                                                *)
(* Threads.  The printer task runs task_loop; the esp-mqtt task (external) runs   *)
(* handle_mqtt_event; the portal or the application task calls configure,         *)
(* set_network_ready and set_chamber_light; the cloud MQTT task calls             *)
(* notify_cloud_presence.  They share the std::atomic members and, under a mutex, *)
(* the connection and the runtime state.  One action is a run of code of one      *)
(* thread between two places where another thread's step matters.                 *)
(*                                                                                *)
(* Time.  A tick_ member is a timer: "off" is the value 0, and an armed timer may *)
(* pass each of its thresholds at any moment (the Elapse actions).                *)
EXTENDS Naturals

CONSTANTS Conns,      \* printer connections that satisfy is_ready()
          NoConn,     \* the connection that does not: nothing configured
          Payloads,   \* what a connected printer sends: "status", "info"
          Failures,   \* what may fail: "transport", "refused" (by the broker), "memory"
          MaxHints,   \* bound: reconnect hints (cloud presence, Wi-Fi back)
          MaxConfigs, \* bound: calls of configure
          MaxLights   \* bound: calls of set_chamber_light

ASSUME ConnAssumption == NoConn \notin Conns
ASSUME PrinterAssumption == /\ Payloads \subseteq {"status", "info"}
                            /\ Failures \subseteq {"transport", "refused", "memory"}
ASSUME BoundAssumption == /\ MaxHints \in Nat
                          /\ MaxConfigs \in Nat
                          /\ MaxLights \in Nat

VARIABLES
  \* the configuration: desired_connection_, reconfigure_requested_, network_ready_
  desired, reconf, netReady, cfgPc,
  \* the printer task: program counter, return address of stop_client, its local
  \* copy of the connection, active_connection_
  pc, ret, conn, active,
  \* the client handle and the broker it was created for
  client, clientConn,
  \* the esp-mqtt task (external): its MQTT session, whether the peer still answers,
  \* the event in its handler and how far the handler is
  link, alive, ev, mqPc,
  \* the session flags: mqtt_connected_, received_payload_,
  \* first_payload_observed_, delayed_pushall_sent_
  connected, received, firstSeen, delayedSent,
  \* timers: initial_sync_tick_ (armed exactly while subscription_acknowledged_ and
  \* initial_sync_sent_ are true), last_message_tick_, watchdog_probe_tick_,
  \* connection_state_tick_
  sync, msg, probe, stall,
  \* the rebuild scheduler: client_rebuild_requested_, force_client_rebuild_,
  \* rebuild_request_tick_ (how long its delay is: see RebuildScheduler)
  req, force, rbTimer,
  \* local_connected in runtime_state_ and in the published snapshot, runtime_dirty_
  runtime, snapshot, dirty,
  \* chamber_light_command_pending_, the caller of set_chamber_light, its copy
  lightPending, appPc, appRt,
  \* how much of MaxHints, MaxConfigs and MaxLights is used
  hints, configs, lights

configVars == <<desired, reconf, netReady, cfgPc>>
taskVars == <<pc, ret, conn, active>>
clientVars == <<client, clientConn>>
linkVars == <<link, alive>>
handlerVars == <<ev, mqPc>>
flagVars == <<connected, received, firstSeen, delayedSent>>
timerVars == <<sync, msg, probe, stall>>
rebuildVars == <<req, force, rbTimer>>
runtimeVars == <<runtime, snapshot, dirty>>
lightVars == <<lightPending, appPc, appRt>>
boundVars == <<hints, configs, lights>>

vars == <<configVars, taskVars, clientVars, linkVars, handlerVars, flagVars,
          timerVars, rebuildVars, runtimeVars, lightVars, boundVars>>

----------------------------------------------------------------------------------
(* schedule_client_rebuild: a second request is absorbed by the pending one,       *)
(* unless it is forced.                                                            *)
ScheduleRebuild(forced) ==
  /\ req' = TRUE
  /\ force' = (force \/ forced)
  /\ rbTimer' = IF ~req \/ forced THEN "running" ELSE rbTimer

(* cancel_client_rebuild. *)
CancelRebuild ==
  /\ req' = FALSE
  /\ force' = FALSE
  /\ rbTimer' = "off"

(* A hint restarts the timer of a pending rebuild, with the shortest delay. *)
CollapseRebuild ==
  /\ rbTimer' = IF req THEN "running" ELSE rbTimer
  /\ UNCHANGED <<req, force>>

(* What the arrival of the esp-mqtt events DISCONNECTED and ERROR does to the     *)
(* session flags.                                                                 *)
DropSession ==
  /\ connected' = FALSE
  /\ sync' = "off"
  /\ delayedSent' = FALSE
  /\ stall' = "running"
  /\ probe' = "off"
  /\ UNCHANGED <<received, firstSeen, msg>>

(* store_runtime_state; with publish_runtime_snapshot right after it. *)
StoreRuntime(r) == /\ runtime' = r
                   /\ dirty' = TRUE
                   /\ UNCHANGED snapshot

StoreAndPublish(r) == /\ runtime' = r
                      /\ dirty' = TRUE
                      /\ snapshot' = r

----------------------------------------------------------------------------------
(* Application::run calls configure with the stored profile, then start. *)
Init ==
  /\ desired \in Conns \cup {NoConn} /\ reconf = TRUE /\ netReady = FALSE /\ cfgPc = "idle"
  /\ pc = "top" /\ ret = "rebuild" /\ conn = NoConn /\ active = NoConn
  /\ client = "none" /\ clientConn = NoConn
  /\ link = "down" /\ alive = TRUE /\ ev = "none" /\ mqPc = "idle"
  /\ connected = FALSE /\ received = FALSE
  /\ firstSeen = FALSE /\ delayedSent = FALSE
  /\ sync = "off" /\ msg = "off" /\ probe = "off" /\ stall = "off"
  /\ req = FALSE /\ force = FALSE /\ rbTimer = "off"
  /\ runtime = FALSE /\ snapshot = FALSE /\ dirty = FALSE
  /\ lightPending = FALSE /\ appPc = "idle" /\ appRt = FALSE
  /\ hints = 0 /\ configs = 0 /\ lights = 0

----------------------------------------------------------------------------------
(* The printer task: task_loop and stop_client.  Each action that ends in "Mutant"  *)
(* is a plausible bug of the action below it, which the checks must notice.         *)

(* Mutation: only a connected client is stopped for a reconfiguration. *)
TaskTopMutant ==
  /\ pc = "top"
  /\ dirty' = FALSE
  /\ snapshot' = IF dirty THEN runtime ELSE snapshot
  /\ reconf' = FALSE
  /\ pc' = IF reconf /\ connected THEN "clear" ELSE "rebuild"
  /\ ret' = IF reconf /\ connected THEN "rebuild" ELSE ret
  /\ UNCHANGED <<desired, netReady, cfgPc, conn, active, clientVars, linkVars,
                 handlerVars, flagVars, timerVars, rebuildVars, runtime,
                 lightVars, boundVars>>

(* Top of the loop: publish a dirty runtime, take a reconfiguration. *)
TaskTop ==
  /\ pc = "top"
  /\ dirty' = FALSE
  /\ snapshot' = IF dirty THEN runtime ELSE snapshot
  /\ reconf' = FALSE
  /\ pc' = IF reconf THEN "clear" ELSE "rebuild"
  /\ ret' = IF reconf THEN "rebuild" ELSE ret
  /\ UNCHANGED <<desired, netReady, cfgPc, conn, active, clientVars, linkVars,
                 handlerVars, flagVars, timerVars, rebuildVars, runtime,
                 lightVars, boundVars>>

(* A pending rebuild: dropped when the session is up (unless forced), executed    *)
(* when its delay is over, otherwise the task waits and starts the loop again.    *)
TaskRebuild ==
  /\ pc = "rebuild"
  /\ \/ /\ ~req
        /\ pc' = "config"
        /\ UNCHANGED <<ret, rebuildVars>>
     \/ /\ req /\ connected /\ ~force
        /\ CancelRebuild
        /\ pc' = "config"
        /\ UNCHANGED ret
     \/ /\ req /\ (~connected \/ force)
        /\ pc' = IF rbTimer # "running" THEN "clear" ELSE "top"
        /\ ret' = IF rbTimer # "running" THEN "rebuilt" ELSE ret
        /\ UNCHANGED rebuildVars
  /\ UNCHANGED <<configVars, conn, active, clientVars, linkVars, handlerVars,
                 flagVars, timerVars, runtimeVars, lightVars, boundVars>>

(* Mutation: a chamber light command survives the stop of its client. *)
StopClearMutant ==
  /\ pc = "clear"
  /\ connected' = FALSE /\ received' = FALSE
  /\ firstSeen' = FALSE /\ delayedSent' = FALSE
  /\ sync' = "off" /\ msg' = "off" /\ probe' = "off" /\ stall' = "off"
  /\ CancelRebuild
  /\ pc' = IF client = "none" THEN ret ELSE "halt"
  /\ UNCHANGED <<configVars, ret, conn, active, clientVars, linkVars, handlerVars,
                 runtimeVars, lightVars, boundVars>>

(* stop_client first clears every flag, while the esp-mqtt task is still running. *)
StopClear ==
  /\ pc = "clear"
  /\ connected' = FALSE /\ received' = FALSE
  /\ firstSeen' = FALSE /\ delayedSent' = FALSE
  /\ sync' = "off" /\ msg' = "off" /\ probe' = "off" /\ stall' = "off"
  /\ CancelRebuild
  /\ lightPending' = FALSE
  /\ pc' = IF client = "none" THEN ret ELSE "halt"
  /\ UNCHANGED <<configVars, ret, conn, active, clientVars, linkVars, handlerVars,
                 runtimeVars, appPc, appRt, boundVars>>

(* esp_mqtt_client_stop tells the esp-mqtt task to end ... *)
StopHalt ==
  /\ pc = "halt"
  /\ client' = "stopping"
  /\ pc' = "join"
  /\ UNCHANGED <<configVars, ret, conn, active, clientConn, linkVars, handlerVars,
                 flagVars, timerVars, rebuildVars, runtimeVars, lightVars,
                 boundVars>>

(* Mutation: the stop does not wait for the event handler. *)
StopJoinMutant ==
  /\ pc = "join"
  /\ client' = "stopped"
  /\ link' = "down" /\ alive' = TRUE
  /\ pc' = "destroy"
  /\ UNCHANGED <<configVars, ret, conn, active, clientConn, handlerVars, flagVars,
                 timerVars, rebuildVars, runtimeVars, lightVars, boundVars>>

(* ... and returns when that task has left the handler. *)
StopJoin ==
  /\ pc = "join"
  /\ mqPc = "idle"
  /\ client' = "stopped"
  /\ link' = "down" /\ alive' = TRUE
  /\ pc' = "destroy"
  /\ UNCHANGED <<configVars, ret, conn, active, clientConn, handlerVars, flagVars,
                 timerVars, rebuildVars, runtimeVars, lightVars, boundVars>>

(* esp_mqtt_client_destroy. *)
StopDestroy ==
  /\ pc = "destroy"
  /\ client' = "none" /\ clientConn' = NoConn
  /\ pc' = ret
  /\ UNCHANGED <<configVars, ret, conn, active, linkVars, handlerVars, flagVars,
                 timerVars, rebuildVars, runtimeVars, lightVars, boundVars>>

(* After the stop of a due rebuild: cancel_client_rebuild, then a new iteration. *)
TaskRebuilt ==
  /\ pc = "rebuilt"
  /\ CancelRebuild
  /\ pc' = "top"
  /\ UNCHANGED <<configVars, ret, conn, active, clientVars, linkVars, handlerVars,
                 flagVars, timerVars, runtimeVars, lightVars, boundVars>>

(* desired_connection() is copied and judged by is_ready(); then network_ready_:   *)
(* without it the client is stopped on every iteration.                            *)
TaskConfig ==
  /\ pc = "config"
  /\ conn' = desired
  /\ \/ /\ desired = NoConn
        /\ pc' = "unconfigured"
        /\ UNCHANGED ret
     \/ /\ desired # NoConn /\ ~netReady
        /\ pc' = "clear" /\ ret' = "offline"
     \/ /\ desired # NoConn /\ netReady
        /\ pc' = IF client = "none" THEN "connect" ELSE "watch"
        /\ UNCHANGED ret
  /\ UNCHANGED <<configVars, active, clientVars, linkVars, handlerVars, flagVars,
                 timerVars, rebuildVars, runtimeVars, lightVars, boundVars>>

(* No credentials: active_connection_ and the topics are cleared, the waiting     *)
(* snapshot is set.  The client is not stopped here.                              *)
TaskUnconfigured ==
  /\ pc = "unconfigured"
  /\ active' = NoConn
  /\ StoreAndPublish(FALSE)
  /\ pc' = "top"
  /\ UNCHANGED <<configVars, ret, conn, clientVars, linkVars, handlerVars, flagVars,
                 timerVars, rebuildVars, lightVars, boundVars>>

(* Waiting for Wi-Fi, after the stop. *)
TaskOffline ==
  /\ pc = "offline"
  /\ active' = conn
  /\ StoreAndPublish(FALSE)
  /\ pc' = "top"
  /\ UNCHANGED <<configVars, ret, conn, clientVars, linkVars, handlerVars, flagVars,
                 timerVars, rebuildVars, lightVars, boundVars>>

(* No client: what is shown is reset.  The TCP probe that follows unless           *)
(* session_ever_established_ is set is advisory: it only counts logged failures.   *)
TaskConnect ==
  /\ pc = "connect"
  /\ active' = conn
  /\ StoreAndPublish(FALSE)
  /\ pc' = "init"
  /\ UNCHANGED <<configVars, ret, conn, clientVars, linkVars, handlerVars, flagVars,
                 timerVars, rebuildVars, lightVars, boundVars>>

(* esp_mqtt_client_init from active_connection_; it may fail for lack of memory.   *)
TaskInitOk ==
  /\ pc = "init"
  /\ client' = "created" /\ clientConn' = active
  /\ pc' = "start"
  /\ UNCHANGED <<configVars, ret, conn, active, linkVars, handlerVars, flagVars,
                 timerVars, rebuildVars, runtimeVars, lightVars, boundVars>>

TaskInitFails ==
  /\ pc = "init" /\ "memory" \in Failures
  /\ StoreAndPublish(FALSE)
  /\ pc' = "top"
  /\ UNCHANGED <<configVars, ret, conn, active, clientVars, linkVars, handlerVars,
                 flagVars, timerVars, rebuildVars, lightVars, boundVars>>

(* esp_mqtt_client_start; on failure the handle is destroyed at once. *)
TaskStartOk ==
  /\ pc = "start"
  /\ client' = "running"
  /\ stall' = "running" /\ msg' = "fresh"
  /\ pc' = "watch"
  /\ UNCHANGED <<configVars, ret, conn, active, clientConn, linkVars, handlerVars,
                 flagVars, sync, probe, rebuildVars, runtimeVars, lightVars,
                 boundVars>>

TaskStartFails ==
  /\ pc = "start" /\ "memory" \in Failures
  /\ StoreAndPublish(FALSE)
  /\ client' = "none" /\ clientConn' = NoConn
  /\ pc' = "top"
  /\ UNCHANGED <<configVars, ret, conn, active, linkVars, handlerVars, flagVars,
                 timerVars, rebuildVars, lightVars, boundVars>>

(* The rest of an iteration with a client: the watchdogs, of which at most one     *)
(* applies, then process_pending_chamber_light_command and a wait.                 *)
FinishIteration ==
  /\ pc = "watch"
  /\ lightPending' = (lightPending /\ ~connected)
  /\ pc' = "top"
  /\ UNCHANGED <<configVars, ret, conn, active, clientVars, linkVars, handlerVars,
                 connected, received, firstSeen, sync, msg, stall,
                 runtimeVars, appPc, appRt, boundVars>>

(* No status payload since the subscription: a pushall after 3 s, a forced        *)
(* rebuild after 12 s.                                                            *)
WatchInitialSync ==
  LET pushed == delayedSent \/ sync # "t0" IN
  /\ connected /\ sync # "off" /\ ~received
  /\ delayedSent' = pushed
  /\ IF pushed /\ sync = "t12s"
     THEN ScheduleRebuild(TRUE)
     ELSE UNCHANGED rebuildVars
  /\ FinishIteration
  /\ UNCHANGED probe

(* Mutation: the rebuild of a silent session is not forced. *)
WatchSilenceMutant ==
  /\ connected /\ sync # "off" /\ received
  /\ probe' = IF msg # "stale" THEN "off"
              ELSE IF probe = "off" THEN "running" ELSE probe
  /\ IF msg = "stale" /\ probe = "elapsed"
     THEN ScheduleRebuild(FALSE)
     ELSE UNCHANGED rebuildVars
  /\ FinishIteration
  /\ UNCHANGED delayedSent

(* Silence after the first status: a probe after 30 s, a forced rebuild 15 s      *)
(* after the probe; anything heard disarms the probe.                             *)
WatchSilence ==
  /\ connected /\ sync # "off" /\ received
  /\ probe' = IF msg # "stale" THEN "off"
              ELSE IF probe = "off" THEN "running" ELSE probe
  /\ IF msg = "stale" /\ probe = "elapsed"
     THEN ScheduleRebuild(TRUE)
     ELSE UNCHANGED rebuildVars
  /\ FinishIteration
  /\ UNCHANGED delayedSent

(* Disconnected for 20 s: a rebuild, after the growing backoff. *)
WatchStall ==
  /\ ~connected
  /\ IF stall = "elapsed"
     THEN ScheduleRebuild(FALSE)
     ELSE UNCHANGED rebuildVars
  /\ FinishIteration
  /\ UNCHANGED <<delayedSent, probe>>

(* Connected but the subscription is not acknowledged: no watchdog applies. *)
WatchNothing ==
  /\ connected /\ sync = "off"
  /\ FinishIteration
  /\ UNCHANGED <<delayedSent, probe, rebuildVars>>

Stop == StopClear \/ StopHalt \/ StopJoin \/ StopDestroy
Watch == WatchInitialSync \/ WatchSilence \/ WatchStall \/ WatchNothing
PrinterTask ==
  \/ TaskTop \/ TaskRebuild \/ Stop \/ TaskRebuilt
  \/ TaskConfig \/ TaskUnconfigured \/ TaskOffline \/ TaskConnect
  \/ TaskInitOk \/ TaskInitFails \/ TaskStartOk \/ TaskStartFails \/ Watch

----------------------------------------------------------------------------------
(* The esp-mqtt task (external) and handle_mqtt_event, which it calls.  Its       *)
(* session is "down", "up" (CONNACK received), "asked" (subscribe sent), "sub"    *)
(* (SUBACK received) or "closing" (an ERROR was reported, its DISCONNECTED is     *)
(* due).  client_ is set and is the event's client whenever the task runs, so the *)
(* handler's guard holds.                                                         *)
Delivers == client = "running" /\ mqPc = "idle"

HandlerFrame == UNCHANGED <<configVars, taskVars, clientVars, lightVars, boundVars>>

(* CONNECTED first cancels a pending rebuild ... *)
MqttConnected ==
  /\ Delivers
  /\ link = "down"
  /\ link' = "up" /\ alive' = TRUE
  /\ ev' = "connected" /\ mqPc' = "flags"
  /\ CancelRebuild
  /\ HandlerFrame
  /\ UNCHANGED <<flagVars, timerVars, runtimeVars>>

(* ... then sets the flags and subscribes, which may fail. *)
ConnectedFlags ==
  /\ mqPc = "flags" /\ ev = "connected"
  /\ connected' = TRUE /\ received' = FALSE
  /\ firstSeen' = FALSE /\ delayedSent' = FALSE
  /\ sync' = "off" /\ stall' = "running" /\ probe' = "off" /\ msg' = "fresh"
  /\ link' \in {link, "asked"}
  /\ mqPc' = "store"
  /\ HandlerFrame
  /\ UNCHANGED <<alive, ev, rebuildVars, runtimeVars>>

(* SUBSCRIBED cancels a pending rebuild ... *)
MqttSubscribed ==
  /\ Delivers
  /\ link = "asked" /\ alive
  /\ link' = "sub"
  /\ ev' = "subscribed" /\ mqPc' = "flags"
  /\ CancelRebuild
  /\ HandlerFrame
  /\ UNCHANGED <<alive, flagVars, timerVars, runtimeVars>>

(* ... then starts the initial sync. *)
SubscribedFlags ==
  /\ mqPc = "flags" /\ ev = "subscribed"
  /\ sync' = "t0" /\ delayedSent' = FALSE /\ probe' = "off"
  /\ mqPc' = "store"
  /\ HandlerFrame
  /\ UNCHANGED <<linkVars, ev, connected, received, firstSeen, msg, stall,
                 rebuildVars, runtimeVars>>

(* DATA with the last fragment of a payload on report_topic_, which is set exactly  *)
(* when active_connection_ is: the first payload of a session cancels a pending     *)
(* rebuild.  A "status" payload holds a print object.                               *)
MqttData ==
  /\ Delivers
  /\ link = "sub" /\ alive
  /\ active # NoConn
  /\ ev' \in Payloads /\ mqPc' = "store"
  /\ firstSeen' = TRUE
  /\ IF firstSeen THEN UNCHANGED rebuildVars ELSE CancelRebuild
  /\ msg' = "fresh" /\ probe' = "off"
  /\ HandlerFrame
  /\ UNCHANGED <<linkVars, connected, received, delayedSent, sync, stall, runtimeVars>>

(* DISCONNECTED: after an ERROR, or when an established session is dropped. *)
MqttDisconnected ==
  /\ Delivers
  /\ link # "down"
  /\ link' = "down" /\ alive' = TRUE
  /\ ev' = "disconnected" /\ mqPc' = "store"
  /\ DropSession
  /\ HandlerFrame
  /\ UNCHANGED <<rebuildVars, runtimeVars>>

(* ERROR: the broker refuses the session, or the transport fails. *)
MqttError ==
  /\ Delivers
  /\ link # "closing"
  /\ ev' \in Failures \cap IF link = "down" THEN {"refused", "transport"}
                                            ELSE {"transport"}
  /\ link' = "closing" /\ alive' = TRUE
  /\ mqPc' = "store"
  /\ DropSession
  /\ HandlerFrame
  /\ UNCHANGED <<rebuildVars, runtimeVars>>

(* Mutation: ERROR leaves clearing local_connected to the DISCONNECTED that follows. *)
HandlerStoreMutant ==
  /\ mqPc = "store"
  /\ StoreRuntime(ev # "disconnected")
  /\ received' = (received \/ ev = "status")
  /\ mqPc' = IF ev \in {"refused", "transport"} THEN "schedule" ELSE "idle"
  /\ ev' = IF mqPc' = "idle" THEN "none" ELSE ev
  /\ HandlerFrame
  /\ UNCHANGED <<linkVars, connected, firstSeen, delayedSent, timerVars,
                 rebuildVars>>

(* The handler overwrites local_connected: the events of a live session set it,    *)
(* whatever mqtt_connected_ says by then.                                          *)
HandlerStore ==
  /\ mqPc = "store"
  /\ StoreRuntime(ev \in {"connected", "subscribed", "status", "info"})
  /\ received' = (received \/ ev = "status")
  /\ mqPc' = IF ev \in {"refused", "transport"} THEN "schedule" ELSE "idle"
  /\ ev' = IF mqPc' = "idle" THEN "none" ELSE ev
  /\ HandlerFrame
  /\ UNCHANGED <<linkVars, connected, firstSeen, delayedSent, timerVars,
                 rebuildVars>>

(* ERROR ends by scheduling a rebuild after the growing backoff. *)
HandlerSchedule ==
  /\ mqPc = "schedule"
  /\ ScheduleRebuild(FALSE)
  /\ mqPc' = "idle" /\ ev' = "none"
  /\ HandlerFrame
  /\ UNCHANGED <<linkVars, flagVars, timerVars, runtimeVars>>

HandlerStep == ConnectedFlags \/ SubscribedFlags \/ HandlerStore \/ HandlerSchedule
MqttEvent == \/ MqttConnected \/ MqttSubscribed \/ MqttData
             \/ MqttDisconnected \/ MqttError

(* The peer vanishes without closing the TCP connection: the session goes silent. *)
PeerGoesSilent ==
  /\ link \in {"up", "asked", "sub"} /\ alive
  /\ alive' = FALSE
  /\ UNCHANGED <<configVars, taskVars, clientVars, link, handlerVars, flagVars,
                 timerVars, rebuildVars, runtimeVars, lightVars, boundVars>>

----------------------------------------------------------------------------------
(* The other threads.                                                             *)

OtherFrame == UNCHANGED <<taskVars, clientVars, linkVars, handlerVars, flagVars,
                          timerVars>>

(* configure, called by the portal or the application: desired_connection_ first, *)
(* reconfigure_requested_ second.                                                 *)
ConfigureStore ==
  /\ cfgPc = "idle" /\ configs < MaxConfigs
  /\ desired' \in Conns \cup {NoConn}
  /\ cfgPc' = "flag"
  /\ configs' = configs + 1
  /\ OtherFrame
  /\ UNCHANGED <<reconf, netReady, rebuildVars, runtimeVars, lightVars, hints,
                 lights>>

(* Mutation: a reconfiguration is flagged only if there is a client to stop. *)
ConfigureFlagMutant ==
  /\ cfgPc = "flag"
  /\ reconf' = (reconf \/ client # "none")
  /\ cfgPc' = "idle"
  /\ OtherFrame
  /\ UNCHANGED <<desired, netReady, rebuildVars, runtimeVars, lightVars,
                 boundVars>>

ConfigureFlag ==
  /\ cfgPc = "flag"
  /\ reconf' = TRUE
  /\ cfgPc' = "idle"
  /\ OtherFrame
  /\ UNCHANGED <<desired, netReady, rebuildVars, runtimeVars, lightVars,
                 boundVars>>

(* set_network_ready: a rising edge collapses a pending backoff. *)
SetNetworkReady ==
  /\ ~netReady /\ hints < MaxHints
  /\ netReady' = TRUE
  /\ hints' = hints + 1
  /\ CollapseRebuild
  /\ OtherFrame
  /\ UNCHANGED <<desired, reconf, cfgPc, runtimeVars, lightVars, configs, lights>>

SetNetworkDown ==
  /\ netReady
  /\ netReady' = FALSE
  /\ OtherFrame
  /\ UNCHANGED <<desired, reconf, cfgPc, rebuildVars, runtimeVars, lightVars,
                 boundVars>>

(* notify_cloud_presence(true): collapses a pending backoff, or asks for a rebuild *)
(* of a client that is not connected.                                             *)
NotifyCloudPresence ==
  /\ ~connected /\ hints < MaxHints
  /\ hints' = hints + 1
  /\ IF req THEN CollapseRebuild
     ELSE IF client # "none" THEN ScheduleRebuild(FALSE)
     ELSE UNCHANGED rebuildVars
  /\ OtherFrame
  /\ UNCHANGED <<configVars, runtimeVars, lightVars, configs, lights>>

(* set_chamber_light: the check; the command and a copy of the runtime state; its  *)
(* store; the publication of a copy of the runtime state, made any time since.    *)
LightCheck ==
  /\ appPc = "idle" /\ lights < MaxLights
  /\ connected
  /\ appPc' = "queue"
  /\ lights' = lights + 1
  /\ OtherFrame
  /\ UNCHANGED <<configVars, rebuildVars, runtimeVars, lightPending, appRt,
                 hints, configs>>

LightQueue ==
  /\ appPc = "queue"
  /\ lightPending' = TRUE
  /\ appRt' = connected
  /\ appPc' = "store"
  /\ OtherFrame
  /\ UNCHANGED <<configVars, rebuildVars, runtimeVars, boundVars>>

LightStore ==
  /\ appPc = "store"
  /\ StoreRuntime(appRt)
  /\ appPc' = "publish"
  /\ OtherFrame
  /\ UNCHANGED <<configVars, rebuildVars, lightPending, appRt, boundVars>>

LightPublish ==
  /\ appPc = "publish"
  /\ snapshot' \in {appRt, runtime}
  /\ appPc' = "idle"
  /\ appRt' = FALSE
  /\ OtherFrame
  /\ UNCHANGED <<configVars, rebuildVars, runtime, dirty, lightPending,
                 boundVars>>

SetChamberLight == LightQueue \/ LightStore \/ LightPublish

----------------------------------------------------------------------------------
(* Time: an armed timer passes its next threshold.  A timer passes one only while  *)
(* the state its watchdog looks at lasts: passing it earlier changes nothing the   *)
(* code reads.                                                                     *)
ElapseFrame == UNCHANGED <<configVars, taskVars, clientVars, linkVars, handlerVars,
                           flagVars, req, force, runtimeVars,
                           lightVars, boundVars>>

ElapseSync == /\ connected /\ ~received
              /\ \/ sync = "t0" /\ sync' = "t3s"
                 \/ sync = "t3s" /\ sync' = "t12s"
              /\ ElapseFrame
              /\ UNCHANGED <<msg, probe, stall, rbTimer>>
ElapseMessage == /\ connected /\ received
                 /\ msg = "fresh" /\ msg' = "stale"
                 /\ ElapseFrame
                 /\ UNCHANGED <<sync, probe, stall, rbTimer>>
ElapseProbe == /\ probe = "running" /\ probe' = "elapsed"
               /\ ElapseFrame
               /\ UNCHANGED <<sync, msg, stall, rbTimer>>
ElapseStall == /\ ~connected
               /\ stall = "running" /\ stall' = "elapsed"
               /\ ElapseFrame
               /\ UNCHANGED <<sync, msg, probe, rbTimer>>
ElapseRebuild == /\ rbTimer = "running" /\ rbTimer' = "elapsed"
                 /\ ElapseFrame
                 /\ UNCHANGED timerVars

Elapse == ElapseSync \/ ElapseMessage \/ ElapseProbe \/ ElapseStall \/ ElapseRebuild

Environment == \/ MqttEvent \/ PeerGoesSilent
               \/ ConfigureStore \/ ConfigureFlag
               \/ SetNetworkReady \/ SetNetworkDown \/ NotifyCloudPresence
               \/ LightCheck \/ SetChamberLight

Next == PrinterTask \/ HandlerStep \/ Environment \/ Elapse

Spec == Init /\ [][Next]_vars

(* The scheduler runs every thread that has work, time passes, and the esp-mqtt    *)
(* library ends every connection attempt (network.timeout_ms) and follows every    *)
(* error with DISCONNECTED.  Nothing is assumed of the printer, of the user, or of *)
(* the library noticing a dead peer.                                              *)
MqttAttemptEnds == MqttConnected \/ (MqttError /\ link = "down")
MqttCloses == MqttDisconnected /\ link = "closing"

Fairness == /\ WF_vars(PrinterTask)
            /\ WF_vars(HandlerStep)
            /\ WF_vars(MqttAttemptEnds)
            /\ WF_vars(MqttCloses)
            /\ WF_vars(ConfigureFlag)
            /\ WF_vars(SetChamberLight)
            /\ WF_vars(ElapseSync) /\ WF_vars(ElapseMessage) /\ WF_vars(ElapseProbe)
            /\ WF_vars(ElapseStall) /\ WF_vars(ElapseRebuild)

FairSpec == Spec /\ Fairness

----------------------------------------------------------------------------------
(* Properties.                                                                    *)

(* Type correctness of every member printer_client.hpp declares and the model keeps. *)
TaskPCs == {"top", "rebuild", "clear", "halt", "join", "destroy", "rebuilt", "config",
            "unconfigured", "offline", "connect", "init", "start", "watch"}

FlagsOK ==
  /\ reconf \in BOOLEAN /\ netReady \in BOOLEAN /\ alive \in BOOLEAN
  /\ connected \in BOOLEAN /\ received \in BOOLEAN
  /\ firstSeen \in BOOLEAN /\ delayedSent \in BOOLEAN
  /\ req \in BOOLEAN /\ force \in BOOLEAN
  /\ runtime \in BOOLEAN /\ snapshot \in BOOLEAN /\ dirty \in BOOLEAN
  /\ lightPending \in BOOLEAN /\ appRt \in BOOLEAN

DataOK ==
  /\ {desired, conn, active, clientConn} \subseteq Conns \cup {NoConn}
  /\ pc \in TaskPCs /\ ret \in {"rebuild", "rebuilt", "offline"}
  /\ cfgPc \in {"idle", "flag"}
  /\ client \in {"none", "created", "running", "stopping", "stopped"}
  /\ link \in {"down", "up", "asked", "sub", "closing"}
  /\ ev \in {"none", "connected", "subscribed", "status", "info", "disconnected",
             "refused", "transport"}
  /\ mqPc \in {"idle", "flags", "store", "schedule"}
  /\ sync \in {"off", "t0", "t3s", "t12s"} /\ msg \in {"off", "fresh", "stale"}
  /\ {probe, stall, rbTimer} \subseteq {"off", "running", "elapsed"}
  /\ appPc \in {"idle", "queue", "store", "publish"}
  /\ {hints, configs, lights} \subseteq Nat

TypeOK == FlagsOK /\ DataOK

(* A reconfiguration is never lost: a client that serves another connection than   *)
(* the desired one - or is about to be created for one - exists only while         *)
(* reconfigure_requested_ is set, about to be set, or being carried out.  It rests *)
(* on configure storing the connection before the flag, and on task_loop taking    *)
(* the flag before it copies the connection.                                       *)
Stopping == pc \in {"clear", "halt", "join", "destroy"}
Reconfiguring == reconf \/ cfgPc = "flag"
StaleClientIsPending ==
  client # "none" /\ clientConn # desired => Reconfiguring \/ Stopping

(* The printer task owns its esp-mqtt handle as the library requires: one handle   *)
(* at a time, created for a configured printer, never destroyed under a running    *)
(* event handler.                                                                  *)
Handle == IF client = "stopping" THEN "running" ELSE client
Handling == mqPc # "idle"
Api == INSTANCE MqttClientApi WITH handle <- Handle, broker <- clientConn,
                                   handling <- Handling
ImplementsApi == Api!Spec

(* The session really is up: what local_connected claims. *)
SessionUp == client = "running" /\ link \in {"up", "asked", "sub"}

(* Every configuration is eventually served: a client for another connection than  *)
(* the desired one goes away.                                                      *)
ServesDesired == client = "none" \/ clientConn = desired
EventuallyDesired == ~ServesDesired ~> ServesDesired

(* The snapshot may claim a connection that is gone - an event handler in flight   *)
(* while stop_client clears the flags, or set_chamber_light storing and publishing *)
(* an old copy of the runtime state over a DISCONNECTED - but not for good: when   *)
(* no session comes up any more, what is shown settles on offline.                 *)
StaleOnlineRepaired == <>[]~SessionUp => <>[]~snapshot

(* A subscribed session whose peer fell silent is replaced by the watchdogs,       *)
(* whether or not a first status had arrived, even if the library never notices.   *)
SilentSessionReplaced == (link = "sub" /\ ~alive) ~> link # "sub"

(* A chamber light command queued for the printer task does not stay queued: it is *)
(* published by a session that stays up and dropped with a client that stays down. *)
(* (A printer that is not configured may keep it until the next configuration.)    *)
PendingLightResolved ==
  /\ []<>~(lightPending /\ connected /\ desired # NoConn)
  /\ []<>~(lightPending /\ ~connected /\ desired # NoConn)
==================================================================================

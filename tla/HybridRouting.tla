------------------------------ MODULE HybridRouting ------------------------------
(* Which source feeds the display: the routing part of Application::run            *)
(* (src/main/src/application.cpp), composed with what it steers: the cloud client  *)
(* (bambu_cloud_client.cpp: its task, its MQTT events and the snapshot it          *)
(* publishes) and the start and end of local sessions (printer_client.cpp, modelled *)
(* in full by PrinterClient).                                                      *)
(*                                                                                 *)
(* Threads: the application task runs an iteration in two steps (read, apply); the *)
(* printer task calls the handoff callback; the cloud task and the cloud client's   *)
(* esp-mqtt task call the rest.  The account's token stays valid.                  *)
EXTENDS Naturals

CONSTANTS Modes,     \* source modes: "hybrid", "cloud", "local"
          Pages,     \* pages of the display: "home", "preview", "camera"
          Setups,    \* what is configured, and how the printer model is routed
          MaxChanges \* bound: changes of mode, Wi-Fi, printer power and page

SetupRecords == [local : BOOLEAN,   \* a local printer is configured
                 cloud : BOOLEAN,   \* a cloud account is configured
                 prefers : BOOLEAN] \* printer_model_prefers_cloud_status(model)

ASSUME RoutingAssumption == /\ Modes \subseteq {"hybrid", "cloud", "local"}
                            /\ Pages \subseteq {"home", "preview", "camera"}
                            /\ Setups \subseteq SetupRecords
                            /\ MaxChanges \in Nat

VARIABLES
  \* the world: configuration, mode, Wi-Fi, printer power, page, changes so far;
  \* what the cloud service believes about the printer
  setup, mode, wifi, power, page, changes, cloudSees,
  \* the application task: program counter, what this iteration has read (between
  \* iterations: what the last one has read), hybrid_cloud_printer_online_,
  \* hybrid_local_gate_open_, the handoff deadline is not over
  pc, it, latch, gate, handoff,
  \* the switches it throws: the printer client's network_ready_, the cloud client's
  \* network_ready_, live_mqtt_enabled_ and fetch_paused_
  netReady, cloudNet, cloudLive, paused,
  \* the local session: "off", "trying" or "up" (local_connected)
  local,
  \* the cloud client: its task waits for a binding list or not, the list it gets,
  \* its esp-mqtt client, waiting_for_live_payload, rest_runtime_, live_runtime_
  \* (live_has_recent_data as fresh), the published snapshot, a dirty flag, and the
  \* presence event its esp-mqtt task is handling
  fetching, listed, mqtt, sync, rest, live, snap, dirty, presence

world == <<setup, mode, wifi, power, page, changes, cloudSees>>
app == <<pc, it, gate>>
switches == <<netReady, cloudNet, cloudLive, paused>>
cloud == <<fetching, listed, mqtt, sync, rest, live, snap, dirty, presence>>
vars == <<world, app, latch, handoff, switches, local, cloud>>

Init ==
  /\ setup \in Setups /\ mode \in Modes
  /\ wifi \in BOOLEAN /\ power \in BOOLEAN /\ page = "home" /\ changes = 0
  /\ cloudSees = power
  /\ pc = "read"
  /\ it = [mode |-> "hybrid", wifi |-> FALSE, page |-> "home", handoff |-> FALSE,
           local |-> FALSE]
  /\ latch = FALSE /\ gate = FALSE /\ handoff = FALSE
  /\ netReady = FALSE /\ cloudNet = FALSE /\ cloudLive = FALSE /\ paused = FALSE
  /\ local = "off"
  /\ fetching = FALSE /\ listed = FALSE /\ mqtt = "none" /\ sync = FALSE
  /\ rest = [ready |-> FALSE, online |-> FALSE]
  /\ live = [conn |-> FALSE, fresh |-> FALSE]
  /\ snap = [session |-> setup.cloud, online |-> FALSE]
  /\ dirty = FALSE /\ presence = "none"

----------------------------------------------------------------------------------
(* Application::run.                                                              *)

(* An iteration reads its inputs and throws the switch of the local path: there is  *)
(* no blocking call in between.  A change of mode, the loss of Wi-Fi and every other *)
(* mode than Hybrid reset what Hybrid has latched; "it" holds what the previous      *)
(* iteration read (last_source_mode_, last_wifi_connected_) until it is replaced.    *)
Reset == mode # it.mode \/ (it.wifi /\ ~wifi) \/ mode # "hybrid"

(* hybrid_cloud_online_confirmed and hybrid_cloud_says_offline, for a latch value.  *)
CloudAnswers == mode = "hybrid" /\ setup.local /\ wifi /\ setup.cloud /\ snap.session
Confirmed(latched) == CloudAnswers /\ (snap.online \/ latched)
SaysOffline(latched) == CloudAnswers /\ ~snap.online /\ ~latched

AppRead ==
  /\ pc = "read"
  /\ latch' = (latch /\ ~Reset)
  /\ gate' = LET kept == gate /\ ~Reset IN
             IF mode # "hybrid" THEN kept
             ELSE /\ wifi /\ setup.local
                  /\ Confirmed(latch') \/ (kept /\ ~SaysOffline(latch'))
  /\ netReady' = \/ mode = "local" /\ wifi
                 \/ /\ mode = "hybrid" /\ wifi /\ setup.local
                    /\ ~SaysOffline(latch')
                    /\ gate' \/ local = "up"
  /\ it' = [mode |-> mode, wifi |-> wifi, page |-> page, handoff |-> handoff,
            local |-> local = "up"]
  /\ pc' = "apply"
  /\ UNCHANGED <<world, handoff, cloudNet, cloudLive, paused, local, cloud>>

(* The switches of the cloud client.  In Hybrid the cloud gives way to a healthy    *)
(* local path, except for the cover on the preview page and for the printer models  *)
(* whose status is better in the cloud.  While the gate is open, the camera page     *)
(* and a page on the move pause its fetches.                                        *)
Hybrid == it.mode = "hybrid"
HealthyModels == Hybrid /\ netReady /\ setup.local /\ it.local /\ setup.prefers
HealthyRoute == Hybrid /\ netReady /\ setup.local /\ ~setup.prefers
Healthy == Hybrid /\ netReady /\ setup.local /\ it.local /\ ~setup.prefers

CloudAllowedMutant == it.wifi /\ ~(Healthy /\ it.page # "preview")
CloudAllowed == it.wifi /\ it.mode # "local" /\ ~(Healthy /\ it.page # "preview")

Busy == it.page \in {"camera", "moving"}
PausedMutant(net) == Hybrid /\ (Busy \/ it.handoff \/ ~net)
Paused(net) == Hybrid /\ ((gate /\ Busy) \/ it.handoff \/ ~net)

AppApply ==
  /\ pc = "apply"
  /\ cloudNet' = CloudAllowed
  /\ cloudLive' = /\ cloudNet' /\ ~it.handoff
                  /\ it.mode = "cloud" \/ (Hybrid /\ (setup.prefers \/ ~Healthy))
  /\ paused' = Paused(cloudNet')
  /\ it' = [it EXCEPT !.local = FALSE, !.page = "home"]
  /\ pc' = "read"
  /\ UNCHANGED <<world, latch, gate, handoff, netReady, local, cloud>>

App == AppRead \/ AppApply

----------------------------------------------------------------------------------
(* The printer task, as far as the routing sees it.                               *)

(* An attempt to connect starts with the handoff: for kLocalMqttHandoffCooldown    *)
(* the cloud's live MQTT and its fetches give way.    Time: the retry    *)
(* delay of the printer client outlasts the handoff and an iteration that began in *)
(* it, so the next attempt comes later.                                           *)
LocalAttempt ==
  /\ setup.local /\ netReady
  /\ local = "off"
  /\ ~handoff /\ ~it.handoff
  /\ local' = "trying"
  /\ handoff' = TRUE
  /\ cloudLive' = FALSE /\ paused' = TRUE
  /\ UNCHANGED <<world, app, latch, netReady, cloudNet, cloud>>

LocalConnects ==
  /\ local = "trying"
  /\ wifi /\ power
  /\ local' = "up"
  /\ UNCHANGED <<world, app, latch, handoff, switches, cloud>>

LocalEnds ==
  /\ local # "off"
  /\ local' = "off"
  /\ UNCHANGED <<world, app, latch, handoff, switches, cloud>>

HandoffOver ==
  /\ handoff
  /\ handoff' = FALSE
  /\ UNCHANGED <<world, app, latch, switches, local, cloud>>

----------------------------------------------------------------------------------
(* BambuCloudClient.                                                              *)

(* publish_combined_snapshot: the session and the printer as the routing sees them. *)
(* A live MQTT session of this device to the cloud counts as "printer online".      *)
Published(r, l, m) == [session |-> r.ready \/ l.conn \/ m = "up",
                       online |-> (r.ready /\ r.online) \/ l.conn \/ l.fresh]

CloudFrame == UNCHANGED <<world, app, latch, handoff, switches, local>>

(* stop_mqtt_client waits for the event handler; it leaves live_runtime_ alone.    *)
StopMqtt == /\ presence = "none"
            /\ mqtt' = "none"
            /\ sync' = FALSE

(* The cloud task without an account, or without network: the session state is     *)
(* cleared on every iteration; rest_runtime_.printer_online stays.                 *)
CloudIdle ==
  /\ ~fetching
  /\ ~setup.cloud \/ ~cloudNet
  /\ StopMqtt
  /\ rest' = [rest EXCEPT !.ready = FALSE]
  /\ live' = [conn |-> FALSE, fresh |-> FALSE]
  /\ snap' = Published(rest', live', "none")
  /\ dirty' = FALSE
  /\ CloudFrame
  /\ UNCHANGED <<fetching, listed, presence>>

PublishDirty == /\ snap' = IF dirty THEN Published(rest, live, mqtt) ELSE snap
                /\ dirty' = FALSE

(* An iteration with network: the live MQTT client follows live_mqtt_enabled_ ...   *)
CloudStopsLive ==
  /\ ~fetching /\ setup.cloud /\ cloudNet
  /\ ~cloudLive /\ mqtt # "none"
  /\ PublishDirty
  /\ StopMqtt
  /\ CloudFrame
  /\ UNCHANGED <<fetching, listed, rest, live, presence>>

CloudStartsLive ==
  /\ ~fetching /\ setup.cloud /\ cloudNet
  /\ cloudLive /\ mqtt = "none"
  /\ PublishDirty
  /\ mqtt' = "started"
  /\ CloudFrame
  /\ UNCHANGED <<fetching, listed, sync, rest, live, presence>>

(* ... is restarted when no status arrives after the subscription ...               *)
CloudRestartsLive ==
  /\ ~fetching /\ setup.cloud /\ cloudNet
  /\ cloudLive /\ mqtt = "up" /\ sync
  /\ PublishDirty
  /\ StopMqtt
  /\ CloudFrame
  /\ UNCHANGED <<fetching, listed, rest, live, presence>>

(* ... and the binding list is fetched when it is due and fetches are not paused.   *)
(* The answer may be old when it arrives.                                          *)
CloudFetches ==
  /\ ~fetching /\ setup.cloud /\ cloudNet
  /\ ~paused
  /\ PublishDirty
  /\ fetching' = TRUE
  /\ listed' = cloudSees
  /\ CloudFrame
  /\ UNCHANGED <<mqtt, sync, rest, live, presence>>

FetchStoresMutant ==
  /\ fetching /\ wifi
  /\ fetching' = FALSE /\ listed' = FALSE
  /\ rest' = [ready |-> TRUE, online |-> rest.online \/ listed]
  /\ snap' = Published(rest', live, mqtt)
  /\ CloudFrame
  /\ UNCHANGED <<mqtt, sync, live, dirty, presence>>

FetchStores ==
  /\ fetching /\ wifi
  /\ fetching' = FALSE /\ listed' = FALSE
  /\ rest' = [ready |-> TRUE, online |-> listed]
  /\ snap' = Published(rest', live, mqtt)
  /\ CloudFrame
  /\ UNCHANGED <<mqtt, sync, live, dirty, presence>>

FetchFails ==
  /\ fetching
  /\ fetching' = FALSE /\ listed' = FALSE
  /\ CloudFrame
  /\ UNCHANGED <<mqtt, sync, rest, live, snap, dirty, presence>>

CloudPublishes ==
  /\ ~fetching /\ dirty
  /\ PublishDirty
  /\ CloudFrame
  /\ UNCHANGED <<fetching, listed, mqtt, sync, rest, live, presence>>

(* handle_mqtt_event: CONNECTED and SUBSCRIBED; DISCONNECTED and ERROR; DATA with a *)
(* status of the printer.  Each store is published at once.                         *)
CloudUp ==
  /\ mqtt = "started" /\ wifi
  /\ mqtt' = "up" /\ sync' = TRUE
  /\ live' = [live EXCEPT !.conn = TRUE]
  /\ snap' = Published(rest, live', mqtt')
  /\ CloudFrame
  /\ UNCHANGED <<fetching, listed, rest, dirty, presence>>

CloudDown ==
  /\ mqtt = "up" /\ presence = "none"
  /\ mqtt' = "started" /\ sync' = FALSE
  /\ live' = [live EXCEPT !.conn = FALSE]
  /\ snap' = Published(rest, live', mqtt')
  /\ CloudFrame
  /\ UNCHANGED <<fetching, listed, rest, dirty, presence>>

CloudReport ==
  /\ mqtt = "up" /\ presence = "none"
  /\ wifi /\ power
  /\ sync' = FALSE
  /\ live' = [conn |-> TRUE, fresh |-> TRUE]
  /\ snap' = Published(rest, live', mqtt)
  /\ CloudFrame
  /\ UNCHANGED <<fetching, listed, mqtt, rest, dirty, presence>>

(* DATA with a connectivity event: the runtime is stored (published at once, or by  *)
(* the cloud task), then the presence callback sets the latch.                      *)
PresenceStore ==
  /\ presence \in {"connected", "disconnected"}
  /\ sync' = FALSE
  /\ rest' = [rest EXCEPT !.online = (presence = "connected")]
  /\ live' = [live EXCEPT !.conn = @ /\ presence = "connected"]
  /\ dirty' = TRUE
  /\ snap' = IF presence = "connected" THEN snap ELSE Published(rest', live', mqtt)
  /\ presence' = IF presence = "connected" THEN "latch on" ELSE "latch off"
  /\ CloudFrame
  /\ UNCHANGED <<fetching, listed, mqtt>>

PresenceLatch ==
  /\ presence \in {"latch on", "latch off"}
  /\ latch' = (presence = "latch on")
  /\ presence' = "none"
  /\ UNCHANGED <<world, app, handoff, switches, local, fetching, listed, mqtt, sync,
                 rest, live, snap, dirty>>

(* No report for kCloudLiveDataFreshMs; nothing is published for it.               *)
FreshnessEnds ==
  /\ live.fresh
  /\ live' = [live EXCEPT !.fresh = FALSE]
  /\ CloudFrame
  /\ UNCHANGED <<fetching, listed, mqtt, sync, rest, snap, dirty, presence>>

(* The cloud service (external) notices the printer's power, and tells a client     *)
(* that is connected.                                                              *)
CloudNotices ==
  /\ cloudSees # power
  /\ presence = "none"
  /\ cloudSees' = power
  /\ presence' = IF mqtt # "up" \/ ~wifi THEN "none"
                 ELSE IF power THEN "connected" ELSE "disconnected"
  /\ UNCHANGED <<setup, mode, wifi, power, page, changes, app, latch, handoff,
                 switches, local, fetching, listed, mqtt, sync, rest, live, snap,
                 dirty>>

CloudTask == \/ CloudIdle \/ CloudStopsLive \/ CloudStartsLive \/ CloudRestartsLive
             \/ CloudFetches \/ FetchStores \/ FetchFails \/ CloudPublishes
CloudEvents == \/ CloudUp \/ CloudDown \/ CloudReport \/ PresenceStore
               \/ PresenceLatch \/ FreshnessEnds \/ CloudNotices

----------------------------------------------------------------------------------
(* The world.                                                                     *)
WorldFrame == UNCHANGED <<setup, cloudSees, app, latch, handoff, switches, local, cloud>>

Change == /\ changes < MaxChanges
          /\ changes' = changes + 1
          /\ WorldFrame

ChangeMode == /\ Change
              /\ mode' \in Modes \ {mode}
              /\ UNCHANGED <<wifi, power, page>>
ChangeWifi == /\ Change
              /\ wifi' = ~wifi
              /\ UNCHANGED <<mode, power, page>>
ChangePower == /\ Change
               /\ power' = ~power
               /\ UNCHANGED <<mode, wifi, page>>
TurnPage == /\ Change
            /\ page # "moving" /\ Pages # {"home"}
            /\ page' = "moving"
            /\ UNCHANGED <<mode, wifi, power>>
(* "moving": a transition, or the cooldown that follows the camera page. *)
PageArrives == /\ page = "moving"
               /\ page' \in Pages
               /\ WorldFrame
               /\ UNCHANGED <<mode, wifi, power, changes>>
World == \/ ChangeMode \/ ChangeWifi \/ ChangePower \/ TurnPage \/ PageArrives

Next == \/ App
        \/ LocalAttempt \/ LocalConnects \/ LocalEnds \/ HandoffOver
        \/ CloudTask \/ CloudEvents \/ World

Spec == Init /\ [][Next]_vars

----------------------------------------------------------------------------------
(* Fairness.  Every task keeps iterating and every timer runs out.  Of the network  *)
(* it is assumed that, with Wi-Fi, one of the binding requests succeeds now and     *)
(* then and that a printer that is on is reached now and then; nothing is assumed   *)
(* of the cloud's live MQTT.                                                      *)
LocalMustEnd == LocalEnds /\ ~(netReady /\ wifi /\ power)

Fairness ==
  /\ WF_vars(App) /\ WF_vars(HandoffOver)
  /\ WF_vars(PageArrives)
  /\ WF_vars(LocalAttempt) /\ SF_vars(LocalConnects) /\ WF_vars(LocalMustEnd)
  /\ WF_vars(CloudIdle) /\ WF_vars(CloudStopsLive) /\ WF_vars(CloudPublishes)
  /\ SF_vars(CloudFetches) /\ WF_vars(FetchStores \/ FetchFails) /\ SF_vars(FetchStores)
  /\ WF_vars(PresenceStore) /\ WF_vars(PresenceLatch)
  /\ WF_vars(FreshnessEnds) /\ WF_vars(CloudNotices)

FairSpec == Spec /\ Fairness

----------------------------------------------------------------------------------
(* The variables keep their types, and a sync is awaited only of a live session. *)
WorldOK ==
  /\ setup \in Setups /\ mode \in Modes
  /\ wifi \in BOOLEAN /\ power \in BOOLEAN /\ cloudSees \in BOOLEAN
  /\ page \in Pages \cup {"home", "moving"} /\ changes \in 0..MaxChanges

AppOK ==
  /\ pc \in {"read", "apply"}
  /\ it \in [mode : {"hybrid", "cloud", "local"}, wifi : BOOLEAN,
             page : Pages \cup {"home", "moving"}, handoff : BOOLEAN, local : BOOLEAN]

SwitchesOK ==
  /\ latch \in BOOLEAN /\ gate \in BOOLEAN /\ handoff \in BOOLEAN
  /\ netReady \in BOOLEAN /\ cloudNet \in BOOLEAN
  /\ cloudLive \in BOOLEAN /\ paused \in BOOLEAN

SessionsOK ==
  /\ local \in {"off", "trying", "up"}
  /\ mqtt \in {"none", "started", "up"}
  /\ sync \in BOOLEAN /\ (sync => mqtt = "up")
  /\ presence \in {"none", "connected", "disconnected", "latch on", "latch off"}
  /\ fetching \in BOOLEAN /\ listed \in BOOLEAN /\ dirty \in BOOLEAN

StatesOK ==
  /\ rest \in [ready : BOOLEAN, online : BOOLEAN]
  /\ live \in [conn : BOOLEAN, fresh : BOOLEAN]
  /\ snap \in [session : BOOLEAN, online : BOOLEAN]

TypeOK == WorldOK /\ AppOK /\ SwitchesOK /\ SessionsOK /\ StatesOK

HybridSetUp == mode = "hybrid" /\ wifi /\ setup.local /\ setup.cloud

(* In Hybrid with both paths configured, a printer that stays on is reached locally *)
(* again and again, whatever page is shown and however the cloud client's traffic   *)
(* is interleaved: no combination of pauses, handoffs, stale lists and presence     *)
(* events keeps the gate of the local path shut (application.cpp, the gate and the  *)
(* pause of the fetches it depends on).                                           *)
LocalPathOpens == <>[](HybridSetUp /\ power) => []<>(local = "up")

(* In Hybrid, a printer that stays off stops being tried, once the cloud lists it   *)
(* as offline, unless the presence latch or this device's own live session to the   *)
(* cloud still says otherwise (application.cpp, hybrid_cloud_says_offline).         *)
LocalPathCloses ==
  <>[](HybridSetUp /\ ~power /\ ~latch /\ ~live.conn /\ page = "home") => <>[]~netReady

(* In Hybrid, a local session that stays up ends with the cloud's live MQTT client  *)
(* destroyed (one TLS session in memory), for the printer models whose status is    *)
(* read locally (application.cpp, hybrid_local_path_healthy).                       *)
CloudYields ==
  <>[](HybridSetUp /\ local = "up" /\ ~setup.prefers /\ page = "home")
    => <>[](mqtt = "none")

(* In Hybrid, when the local path stays down the cloud session takes over, even     *)
(* while every local attempt pauses the cloud client (application.cpp, the cloud    *)
(* switches).                                                                     *)
CloudCovers ==
  <>[](HybridSetUp /\ local # "up" /\ page = "home") => <>[]snap.session

(* Whatever ran before a change of mode, "Local only" ends with no live cloud       *)
(* client and "Cloud only" ends with no local session.                              *)
ModeRespected == /\ <>[](mode = "local") => <>[](mqtt = "none")
                 /\ <>[](mode = "cloud") => <>[](local = "off")

(* README.md, step 7 of the first setup: in Hybrid "connect either path first", the *)
(* other can be added later.  So a configured local path alone comes up.            *)
EitherPathFirst ==
  <>[](mode = "hybrid" /\ wifi /\ power /\ setup.local) => <>(local = "up")
==================================================================================

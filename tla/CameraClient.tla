------------------------------ MODULE CameraClient ------------------------------
(* The local chamber camera (p1s_camera_client.cpp): its task, the two callers of  *)
(* configure, and what the rest of the firmware does to it: the application loop    *)
(* that enables it while its page is shown and passes taps on, and the callback of   *)
(* the printer task that switches it off before a local MQTT handshake.              *)
(* pc is the place of the task in task_loop and fetch_frame_once; an action ends     *)
(* where the step of another thread could matter.                                    *)
EXTENDS Naturals, FiniteSets

CONSTANTS Conns,       \* printer connections that are complete (is_ready)
          NoConn,      \* an incomplete connection; also no session, no picture
          Callers,     \* threads that call configure: portal and application
          MaxConfigs,  \* bound on calls of configure
          MaxTaps,     \* bound on taps on the camera page
          MaxChanges   \* bound on changes of page, Wi-Fi, model, and on handoffs

ASSUME ConnsAssumption == NoConn \notin Conns
ASSUME BoundsAssumption == MaxConfigs \in Nat /\ MaxTaps \in Nat /\ MaxChanges \in Nat

VARIABLES
  desired, reconfigure,       \* desired_connection_, reconfigure_requested_
  network, enabled, refresh,  \* the three atomics other threads store to
  observed,                   \* camera of the observed model: "jpeg", or one not served
  snapshot,                   \* published: connected, and the printer of the picture
  pc, conn, tls, frame,       \* the task: place, copy of desired, session, frame_index
  idle, fetched,              \* idle_notified_; last_fetch_us: "never", "recent", "due"
  call,                       \* per caller of configure: place and connection
  app,                        \* the application loop: place and what it read
  page, wifi, model, handoff, \* what it reads
  tap,                        \* camera_refresh_requested_ of the display
  configs, taps, changes

cfgVars  == <<desired, reconfigure, call, configs>>
taskVars == <<pc, conn, tls, frame, idle, fetched>>
worldVars == <<page, wifi, model, handoff, taps, changes>>
vars == <<cfgVars, taskVars, worldVars, network, enabled, refresh, observed, snapshot, app, tap>>

Kinds == {"jpeg", "other"}
AnyConn == Conns \cup {NoConn}
Steps == {"top", "desired", "network", "enabled", "model", "refresh", "connect",
          "read", "received", "decoded", "publish", "failed"}
Fetching == pc \in {"connect", "read", "received", "decoded", "publish"}

Init ==
  /\ desired \in AnyConn /\ reconfigure = TRUE
  /\ network = FALSE /\ enabled = FALSE /\ refresh = FALSE /\ observed = "jpeg"
  /\ snapshot = [connected |-> FALSE, frame |-> NoConn]
  /\ pc = "top" /\ conn = NoConn /\ tls = NoConn /\ frame = 0
  /\ idle = FALSE /\ fetched = "never"
  /\ call = [t \in Callers |-> [at |-> "out", to |-> NoConn]]
  /\ app = [at |-> "read", network |-> FALSE, enabled |-> FALSE]
  /\ page \in BOOLEAN /\ wifi \in BOOLEAN /\ model \in Kinds /\ handoff = FALSE
  /\ tap = FALSE /\ configs = 0 /\ taps = 0 /\ changes = 0

---------------------------------------------------------------------------------
(* configure: store the connection, raise the flag, publish an empty snapshot.     *)

Place(t, at, to) == call' = [call EXCEPT ![t] = [at |-> at, to |-> to]]
ConfigureRest == UNCHANGED <<taskVars, worldVars, network, enabled, refresh, observed, app, tap>>

ConfigureStore(t, c) ==
  /\ call[t].at = "out" /\ configs < MaxConfigs
  /\ desired' = c /\ configs' = configs + 1 /\ Place(t, "stored", c)
  /\ UNCHANGED <<reconfigure, snapshot>> /\ ConfigureRest

ConfigureFlag(t) ==
  /\ call[t].at = "stored"
  /\ reconfigure' = TRUE /\ Place(t, "flagged", call[t].to)
  /\ UNCHANGED <<desired, configs, snapshot>> /\ ConfigureRest

ConfigurePublish(t) ==
  /\ call[t].at = "flagged"
  /\ snapshot' = [connected |-> FALSE, frame |-> NoConn] /\ Place(t, "out", NoConn)
  /\ UNCHANGED <<desired, configs, reconfigure>> /\ ConfigureRest

---------------------------------------------------------------------------------
(* task_loop                                                                        *)

TaskRest == UNCHANGED <<cfgVars, worldVars, network, enabled, observed, app, tap>>
NotConnected == snapshot' = [snapshot EXCEPT !.connected = FALSE]

(* Mutants: the session of the old connection and its refresh timer survive; a tap  *)
(* does not.                                                                        *)
TaskTopKeepsSession ==
  /\ pc = "top" /\ pc' = "desired" /\ reconfigure' = FALSE
  /\ IF reconfigure
     THEN refresh' = FALSE /\ idle' = FALSE
     ELSE UNCHANGED <<refresh, idle>>
  /\ UNCHANGED <<desired, call, configs, worldVars, network, enabled, observed, snapshot,
                 app, tap, conn, tls, frame, fetched>>

TaskTopDropsTaps ==
  /\ pc = "top" /\ pc' = "desired" /\ reconfigure' = FALSE /\ refresh' = FALSE
  /\ IF reconfigure
     THEN tls' = NoConn /\ idle' = FALSE /\ fetched' = "never"
     ELSE UNCHANGED <<tls, idle, fetched>>
  /\ UNCHANGED <<desired, call, configs, worldVars, network, enabled, observed, snapshot,
                 app, tap, conn, frame>>

TaskTop ==
  /\ pc = "top" /\ pc' = "desired"
  /\ IF reconfigure
     THEN /\ reconfigure' = FALSE /\ tls' = NoConn
          /\ refresh' = FALSE /\ idle' = FALSE /\ fetched' = "never"
     ELSE UNCHANGED <<reconfigure, tls, refresh, idle, fetched>>
  /\ UNCHANGED <<desired, call, configs, worldVars, network, enabled, observed, snapshot,
                 app, tap, conn, frame>>

ReadDesired ==
  /\ pc = "desired" /\ conn' = desired
  /\ IF desired = NoConn
     THEN pc' = "top" /\ idle' = FALSE /\ NotConnected
     ELSE pc' = "network" /\ UNCHANGED <<idle, snapshot>>
  /\ UNCHANGED <<refresh, tls, frame, fetched>> /\ TaskRest

CheckNetwork ==
  /\ pc = "network"
  /\ IF network
     THEN pc' = "enabled" /\ UNCHANGED <<tls, idle, snapshot>>
     ELSE pc' = "top" /\ tls' = NoConn /\ idle' = FALSE /\ NotConnected
  /\ UNCHANGED <<refresh, conn, frame, fetched>> /\ TaskRest

(* Mutants: the session is kept for the next visit; idle_notified_ is not reset.     *)
CheckEnabledKeepsSession ==
  /\ pc = "enabled"
  /\ IF enabled
     THEN pc' = "model" /\ idle' = FALSE /\ UNCHANGED <<tls, snapshot>>
     ELSE /\ pc' = "top" /\ idle' = TRUE /\ UNCHANGED tls
          /\ IF idle THEN UNCHANGED snapshot ELSE NotConnected
  /\ UNCHANGED <<refresh, conn, frame, fetched>> /\ TaskRest

CheckEnabledStaysIdle ==
  /\ pc = "enabled"
  /\ IF enabled
     THEN pc' = "model" /\ UNCHANGED <<tls, snapshot, idle>>
     ELSE /\ pc' = "top" /\ tls' = NoConn /\ idle' = TRUE
          /\ IF idle THEN UNCHANGED snapshot ELSE NotConnected
  /\ UNCHANGED <<refresh, conn, frame, fetched>> /\ TaskRest

CheckEnabled ==
  /\ pc = "enabled"
  /\ IF enabled
     THEN pc' = "model" /\ idle' = FALSE /\ UNCHANGED <<tls, snapshot>>
     ELSE /\ pc' = "top" /\ tls' = NoConn /\ idle' = TRUE
          /\ IF idle THEN UNCHANGED snapshot ELSE NotConnected
  /\ UNCHANGED <<refresh, conn, frame, fetched>> /\ TaskRest

CheckModel ==
  /\ pc = "model"
  /\ IF observed = "jpeg"
     THEN pc' = "refresh" /\ UNCHANGED <<tls, snapshot>>
     ELSE pc' = "top" /\ tls' = NoConn /\ snapshot' = [connected |-> FALSE, frame |-> NoConn]
  /\ UNCHANGED <<refresh, conn, frame, idle, fetched>> /\ TaskRest

CheckRefresh ==
  /\ pc = "refresh" /\ refresh' = FALSE
  /\ IF refresh \/ fetched = "due"
     THEN pc' = "connect" /\ frame' = 0 /\ NotConnected
     ELSE pc' = "top" /\ UNCHANGED <<frame, snapshot>>
  /\ UNCHANGED <<conn, tls, idle, fetched>> /\ TaskRest

(* fetch_frame_once.  A session that exists is used as it is.                       *)
Connect ==
  /\ pc = "connect"
  /\ \/ tls # NoConn /\ pc' = "read" /\ UNCHANGED tls
     \/ tls = NoConn /\ pc' = "read" /\ tls' = conn
     \/ tls = NoConn /\ pc' = "failed" /\ UNCHANGED tls
  /\ UNCHANGED <<refresh, snapshot, conn, frame, idle, fetched>> /\ TaskRest

(* Header and body of one frame; any error ends the session.                        *)
ReadFrame ==
  /\ pc = "read"
  /\ \/ frame > 0 /\ ~enabled /\ pc' = "failed" /\ UNCHANGED tls
     \/ (frame > 0 => enabled) /\ pc' = "failed" /\ tls' = NoConn
     \/ (frame > 0 => enabled) /\ pc' = "received" /\ UNCHANGED tls
  /\ UNCHANGED <<refresh, snapshot, conn, frame, idle, fetched>> /\ TaskRest

(* What was read may be no complete JPEG, or not decode: up to three frames.        *)
Received ==
  /\ pc = "received"
  /\ \/ ~enabled /\ pc' = "failed" /\ UNCHANGED frame
     \/ enabled /\ pc' = "decoded" /\ UNCHANGED frame
     \/ enabled /\ frame < 2 /\ frame' = frame + 1 /\ pc' = "read"
     \/ enabled /\ frame = 2 /\ pc' = "failed" /\ UNCHANGED frame
  /\ UNCHANGED <<refresh, snapshot, conn, tls, idle, fetched>> /\ TaskRest

Decoded ==
  /\ pc = "decoded"
  /\ pc' = IF enabled THEN "publish" ELSE "failed"
  /\ UNCHANGED <<refresh, snapshot, conn, tls, frame, idle, fetched>> /\ TaskRest

Publish ==
  /\ pc = "publish" /\ pc' = "top"
  /\ snapshot' = [connected |-> TRUE, frame |-> tls]
  /\ fetched' = "recent"
  /\ UNCHANGED <<refresh, conn, tls, frame, idle>> /\ TaskRest

FetchFailed ==
  /\ pc = "failed" /\ pc' = "top"
  /\ fetched' = "recent"
  /\ IF enabled THEN NotConnected ELSE UNCHANGED snapshot
  /\ UNCHANGED <<refresh, conn, tls, frame, idle>> /\ TaskRest

(* kAutoRefreshIntervalUs after a fetch.                                            *)
RefreshDue ==
  /\ fetched = "recent" /\ fetched' = "due"
  /\ UNCHANGED <<pc, conn, tls, frame, idle, refresh, snapshot>> /\ TaskRest

Task == \/ TaskTop \/ ReadDesired \/ CheckNetwork \/ CheckEnabled \/ CheckModel \/ CheckRefresh
        \/ Connect \/ ReadFrame \/ Received \/ Decoded \/ Publish \/ FetchFailed

---------------------------------------------------------------------------------
(* The rest of the firmware.  The loop reads page, Wi-Fi and handoff, and stores    *)
(* what follows from them later in the same iteration.                              *)

AppRest == UNCHANGED <<cfgVars, taskVars, snapshot, changes, taps, wifi, page, model, handoff>>

AppRead ==
  /\ app.at = "read"
  /\ app' = [at |-> "apply", network |-> wifi, enabled |-> wifi /\ page /\ ~handoff]
  /\ UNCHANGED <<network, enabled, refresh, observed, tap>> /\ AppRest

AppApply ==
  /\ app.at = "apply" /\ app' = [at |-> "read", network |-> FALSE, enabled |-> FALSE]
  /\ network' = app.network /\ observed' = model /\ enabled' = app.enabled
  /\ tap' = FALSE /\ refresh' = (refresh \/ tap)
  /\ AppRest

App == AppRead \/ AppApply

(* The callback of the printer task before it starts its TLS session, and the end   *)
(* of the cooldown it sets.                                                         *)
HandoffStarts ==
  /\ changes < MaxChanges /\ changes' = changes + 1
  /\ handoff' = TRUE /\ enabled' = FALSE
  /\ UNCHANGED <<cfgVars, taskVars, page, wifi, model, taps, network, refresh, observed,
                 snapshot, app, tap>>

HandoffEnds ==
  /\ handoff /\ handoff' = FALSE
  /\ UNCHANGED <<cfgVars, taskVars, page, wifi, model, taps, changes, network, enabled,
                 refresh, observed, snapshot, app, tap>>

(* A tap counts on the camera page only.                                            *)
Tap ==
  /\ page /\ taps < MaxTaps
  /\ tap' = TRUE /\ taps' = taps + 1
  /\ UNCHANGED <<cfgVars, taskVars, page, wifi, model, handoff, changes, network, enabled,
                 refresh, observed, snapshot, app>>

World ==
  /\ changes < MaxChanges /\ changes' = changes + 1
  /\ \/ page' = ~page /\ UNCHANGED <<wifi, model>>
     \/ wifi' = ~wifi /\ UNCHANGED <<page, model>>
     \/ model' \in Kinds \ {model} /\ UNCHANGED <<page, wifi>>
  /\ UNCHANGED <<cfgVars, taskVars, handoff, taps, network, enabled, refresh, observed,
                 snapshot, app, tap>>

Next == \/ Task \/ App \/ RefreshDue \/ HandoffStarts \/ HandoffEnds \/ Tap \/ World
        \/ \E t \in Callers : \/ \E c \in AnyConn : ConfigureStore(t, c)
                              \/ ConfigureFlag(t) \/ ConfigurePublish(t)

Spec == Init /\ [][Next]_vars
FairSpec == /\ Spec /\ WF_vars(Task) /\ WF_vars(App) /\ WF_vars(RefreshDue)
            /\ \A t \in Callers : WF_vars(ConfigureFlag(t) \/ ConfigurePublish(t))

---------------------------------------------------------------------------------
FlagsOK ==
  /\ reconfigure \in BOOLEAN /\ network \in BOOLEAN /\ enabled \in BOOLEAN
  /\ refresh \in BOOLEAN /\ idle \in BOOLEAN /\ tap \in BOOLEAN
  /\ page \in BOOLEAN /\ wifi \in BOOLEAN /\ handoff \in BOOLEAN
  /\ snapshot \in [connected : BOOLEAN, frame : AnyConn]
  /\ app \in [at : {"read", "apply"}, network : BOOLEAN, enabled : BOOLEAN]

DataOK ==
  /\ desired \in AnyConn /\ conn \in AnyConn /\ tls \in AnyConn
  /\ pc \in Steps /\ frame \in 0..2 /\ fetched \in {"never", "recent", "due"}
  /\ observed \in Kinds /\ model \in Kinds
  /\ call \in [Callers -> [at : {"out", "stored", "flagged"}, to : AnyConn]]
  /\ configs \in 0..MaxConfigs /\ taps \in 0..MaxTaps /\ changes \in 0..MaxChanges

TypeOK == FlagsOK /\ DataOK

(* The task has yet to see that desired changed.                                    *)
Pending == reconfigure \/ \E t \in Callers : call[t].at = "stored"

(* A camera session, or a fetch about to open one, that is not of the configured    *)
(* printer exists only while the flag that ends it is up or about to be raised:      *)
(* configure stores the connection before the flag, and the task clears the flag     *)
(* before it reads the connection.                                                   *)
StaleSessionIsPending ==
  /\ tls \notin {NoConn, desired} => Pending
  /\ Fetching /\ conn # desired => Pending

(* No picture of another printer is published once the new configuration has been   *)
(* seen: only a fetch that it overtook may still store one.                          *)
PicturesOfThePrinter ==
  [][snapshot'.frame \notin {snapshot.frame, NoConn} => snapshot'.frame = desired \/ Pending]_vars

(* The handoff: with the camera switched off for a local TLS handshake, its own      *)
(* TLS session goes, though an application iteration that read the deadline before    *)
(* may enable it once more.                                                          *)
GivesWay == handoff ~> (tls = NoConn \/ ~handoff)

(* A camera that stays switched off is not shown as connected: the idle branch       *)
(* writes the status once, and a picture published after that must make it write      *)
(* again.                                                                            *)
OffIsShown == ~enabled ~> (~snapshot.connected \/ enabled)

Usable == page /\ wifi /\ network /\ enabled /\ ~handoff /\ desired # NoConn
          /\ model = "jpeg" /\ observed = "jpeg"

(* A tap on the page leads to a fetch, unless the camera is not usable or was        *)
(* configured anew in the meantime.                                                  *)
TapAnswered == tap ~> (pc = "connect" \/ ~Usable \/ Pending)
=================================================================================

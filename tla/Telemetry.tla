----------------------------- MODULE Telemetry -----------------------------
(***************************************************************************)
(* What the display shows of a printer, end to end: the printer goes       *)
(* through a print and reports it over its own broker and over the cloud,  *)
(* in full when a session begins and otherwise by the fields that changed; *)
(* each client folds the reports into its runtime state; the application   *)
(* resolves the local one, merges both and resolves the result.            *)
(*                                                                         *)
(* Sessions break, reports get lost, sources fall silent and grow old, and *)
(* another printer is chosen.  When a session may run is the business of   *)
(* HybridRouting and PrinterClient: here sessions come and go freely, but  *)
(* for the rule that a healthy local path switches the cloud off.          *)
(***************************************************************************)
EXTENDS PrinterReports, Sequences, FiniteSets

CONSTANTS
  Modes,     \* source modes examined, of "hybrid", "cloud", "local"
  Named,     \* whether the printer names its stages, a set of BOOLEAN
  MaxMoves,  \* bound: how often the printer changes or is replaced, by source mode
  MaxUps,    \* bound: how many sessions begin, of both sources together
  MaxQueue   \* bound: reports under way, per source

ASSUME ModesAssumption == Modes \subseteq {"hybrid", "cloud", "local"}
ASSUME NamedAssumption == Named \subseteq BOOLEAN
ASSUME BoundsAssumption == MaxMoves \in [Modes -> Nat] /\ MaxUps \in Nat /\ MaxQueue \in Nat \ {0}

VARIABLES
  mode, prefers, named, \* fixed: source mode, a model that prefers the cloud, stages named
  printer,      \* [sit, gen]: the printer's situation and the percentage it reports
  local,        \* PrinterClient::runtime_state_
  localOn,      \* the session with the printer is up, and local_connected
  localFresh,   \* the last update is younger than kLocalSourceFreshMs
  localQ,       \* reports under way to the local client
  localTold,    \* what came in this session: "nothing" in full yet, all from a full
                \* report on ("all"), or something was "lost"
  cloud,        \* BambuCloudClient::live_runtime_
  snap,         \* BambuCloudClient::snapshot_
  cloudOn,      \* the cloud session is up
  cloudFresh,   \* the last update is younger than kCloudSourceFreshMs
  cloudQ, cloudTold,
  moves, ups    \* bounds

settings == <<mode, prefers, named>>
localVars == <<local, localOn, localFresh, localQ, localTold>>
cloudVars == <<cloud, snap, cloudOn, cloudFresh, cloudQ, cloudTold>>
vars == <<settings, printer, localVars, cloudVars, moves, ups>>

(***************************************************************************)
(* The printer: the situations of a print, and what it reports in each.    *)
(***************************************************************************)
Report(status, stage, err, hms, dlp, ams, tray) ==
  [status |-> status, stage |-> stage, err |-> err, hms |-> hms, gen |-> 0,
   dlp |-> dlp, ams |-> ams, tray |-> tray]

Situations ==
  [idle       |-> Report("IDLE", "idle", FALSE, FALSE, 100, FALSE, "seated"),
   preparing  |-> Report("PREPARE", "idle", FALSE, FALSE, 0, FALSE, "seated"),
   download   |-> Report("PREPARE", "model_download", FALSE, FALSE, 50, FALSE, "seated"),
   preheat    |-> Report("PREPARE", "heatbed_preheating", FALSE, FALSE, 100, FALSE, "seated"),
   started    |-> Report("RUNNING", "printing", FALSE, FALSE, 100, FALSE, "seated"),
   printing   |-> Report("RUNNING", "printing", FALSE, FALSE, 100, FALSE, "seated"),
   between    |-> Report("RUNNING", "idle", FALSE, FALSE, 100, FALSE, "seated"),
   warned     |-> Report("RUNNING", "printing", FALSE, TRUE, 100, FALSE, "seated"),
   unloading  |-> Report("RUNNING", "changing_filament", FALSE, FALSE, 100, TRUE, "leaving"),
   loading    |-> Report("RUNNING", "printing", FALSE, FALSE, 100, TRUE, "arriving"),
   prompt     |-> Report("PAUSE", "filament_loading", TRUE, FALSE, 100, FALSE, "arriving"),
   pausedUser |-> Report("PAUSE", "paused_user", FALSE, FALSE, 100, FALSE, "seated"),
   pausedIdle |-> Report("PAUSE", "idle", FALSE, FALSE, 100, FALSE, "seated"),
   fault      |-> Report("PAUSE", "paused_nozzle_clog", TRUE, FALSE, 100, FALSE, "seated"),
   broken     |-> Report("FAILED", "idle", TRUE, FALSE, 100, FALSE, "seated"),
   cancelled  |-> Report("FAILED", "idle", FALSE, FALSE, 100, FALSE, "seated"),
   finished   |-> Report("FINISH", "idle", FALSE, FALSE, 100, FALSE, "seated")]

Follows ==
  [idle |-> {"preparing"}, preparing |-> {"download"},
   download |-> {"preheat"}, preheat |-> {"started", "cancelled"},
   started |-> {"printing"},
   printing |-> {"warned", "unloading", "prompt", "pausedUser", "fault", "finished", "cancelled"},
   warned |-> {"printing", "fault"}, unloading |-> {"loading"},
   loading |-> {"printing", "between", "prompt"}, prompt |-> {"printing", "between"},
   between |-> {"printing"},
   pausedUser |-> {"printing", "between", "cancelled"}, pausedIdle |-> {"printing"},
   fault |-> {"pausedIdle", "broken"}, broken |-> {"idle", "preparing"},
   cancelled |-> {"idle", "preparing"}, finished |-> {"idle", "preparing"}]

\* The percentage of the print before stays on until the new one runs.
Percentage(gen, sit) ==
  CASE sit \in {"idle", "started"} -> 0
    [] sit = "finished" -> 100
    [] sit \in {"preparing", "download", "preheat", "cancelled"} -> gen
    [] OTHER -> 50

\* What a printer may be doing when it is first heard of.
FoundPrinters ==
  {[sit |-> sit, gen |-> Percentage(0, sit)] : sit \in {"idle", "download", "printing", "prompt"}}

Full(p) == [Situations[p.sit] EXCEPT !.gen = p.gen]
Delta(p, q) == [f \in {f \in DOMAIN Full(p) : Full(p)[f] # Full(q)[f]} |-> Full(q)[f]]
NoNews == [f \in {} |-> 0]

Local == mode # "cloud"
Cloud == mode # "local"

Sent(on, q, m) == IF on THEN Append(q, m) ELSE q

PrinterMoves ==
  /\ moves < MaxMoves[mode]
  /\ Len(localQ) < MaxQueue /\ Len(cloudQ) < MaxQueue
  /\ \E sit \in Follows[printer.sit] :
       LET q == [sit |-> sit, gen |-> Percentage(printer.gen, sit)]
       IN /\ printer' = q
          /\ localQ' = Sent(localOn, localQ, Delta(printer, q))
          /\ cloudQ' = Sent(cloudOn, cloudQ, Delta(printer, q))
  /\ moves' = moves + 1
  /\ UNCHANGED <<settings, local, localOn, localFresh, localTold, cloud, snap, cloudOn,
                 cloudFresh, cloudTold, ups>>

\* A temperature, or the answer to a request for everything.
PrinterRepeats ==
  \E m \in {NoNews, Full(printer)} :
    \/ /\ localOn /\ localQ = <<>>
       /\ localQ' = <<m>>
       /\ UNCHANGED <<settings, printer, local, localOn, localFresh, localTold, cloudVars, moves, ups>>
    \/ /\ cloudOn /\ cloudQ = <<>>
       /\ cloudQ' = <<m>>
       /\ UNCHANGED <<settings, printer, localVars, cloud, snap, cloudOn, cloudFresh, cloudTold,
                      moves, ups>>

(***************************************************************************)
(* The local client.                                                       *)
(***************************************************************************)
\* MQTT_EVENT_CONNECTED and MQTT_EVENT_SUBSCRIBED, and the request for everything.
LocalUp ==
  /\ Local /\ ~localOn /\ ups < MaxUps
  /\ local' = LocalCleared(local, "connected")
  /\ localOn' = TRUE /\ localFresh' = TRUE
  /\ localQ' = <<Full(printer)>>
  /\ localTold' = "nothing"
  /\ ups' = ups + 1
  /\ UNCHANGED <<settings, printer, cloudVars, moves>>

\* MQTT_EVENT_DISCONNECTED, a transport error: the last-known state is kept.
LocalDown ==
  /\ localOn
  /\ localOn' = FALSE /\ localQ' = <<>> /\ localTold' = "nothing"
  /\ UNCHANGED <<settings, printer, local, localFresh, cloudVars, moves, ups>>

\* A report that tells all, to a client that does not take the percentage in
\* it for that of a download which is past.
Tells(m, rt) ==
  /\ DOMAIN m = DOMAIN Full(printer)
  /\ rt.dl \/ rt.life = "preparing" => m.status = "PREPARE"

LocalDeliver ==
  /\ localQ # <<>>
  /\ local' = LocalReport(local, Head(localQ))
  /\ localFresh' = TRUE
  /\ localQ' = Tail(localQ)
  /\ localTold' = IF localTold = "nothing" /\ Tells(Head(localQ), local)
                  THEN "all" ELSE localTold
  /\ UNCHANGED <<settings, printer, localOn, cloudVars, moves, ups>>

\* Oversized, cut off, or not parsed.
LocalLost ==
  /\ localQ # <<>>
  /\ localQ' = Tail(localQ) /\ localTold' = "lost"
  /\ UNCHANGED <<settings, printer, local, localOn, localFresh, cloudVars, moves, ups>>

LocalGrowsOld ==
  /\ localFresh /\ localQ = <<>>
  /\ localFresh' = FALSE
  /\ UNCHANGED <<settings, printer, local, localOn, localQ, localTold, cloudVars, moves, ups>>

(***************************************************************************)
(* The cloud client: every change of the live state is published.          *)
(***************************************************************************)
LocalHealthy == mode = "hybrid" /\ localOn /\ ~prefers

\* MQTT_EVENT_CONNECTED and MQTT_EVENT_SUBSCRIBED
CloudUp ==
  /\ Cloud /\ ~cloudOn /\ ~LocalHealthy /\ ups < MaxUps
  /\ LET rt == [cloud EXCEPT !.connected = TRUE, !.stage = "subscribed"]
     IN cloud' = rt /\ snap' = Published(snap, rt)
  /\ cloudOn' = TRUE /\ cloudFresh' = TRUE
  /\ cloudQ' = <<Full(printer)>>
  /\ cloudTold' = FALSE
  /\ ups' = ups + 1
  /\ UNCHANGED <<settings, printer, localVars, moves>>

\* MQTT_EVENT_DISCONNECTED
CloudDown ==
  /\ cloudOn
  /\ LET rt == [cloud EXCEPT !.connected = FALSE, !.stage = ""]
     IN cloud' = rt /\ snap' = Published(snap, rt)
  /\ cloudOn' = FALSE /\ cloudQ' = <<>> /\ cloudTold' = FALSE
  /\ UNCHANGED <<settings, printer, localVars, cloudFresh, moves, ups>>

\* stop_mqtt_client: the session is gone, the live state is not touched.
CloudStop ==
  /\ cloudOn /\ LocalHealthy
  /\ cloudOn' = FALSE /\ cloudQ' = <<>> /\ cloudTold' = FALSE
  /\ UNCHANGED <<settings, printer, localVars, cloud, snap, cloudFresh, moves, ups>>

\* apply_cloud_session_state with clear_live_state
CloudClear ==
  /\ ~cloudOn /\ cloud.data # "none"
  /\ snap' = Published(snap, CloudBlank)
  /\ cloud' = CloudBlank
  /\ UNCHANGED <<settings, printer, localVars, cloudOn, cloudFresh, cloudQ, cloudTold, moves, ups>>

CloudDeliver ==
  /\ cloudQ # <<>>
  /\ LET rt == CloudReport(cloud, Head(cloudQ), named)
     IN cloud' = rt /\ snap' = Published(snap, rt)
  /\ cloudFresh' = TRUE
  /\ cloudQ' = Tail(cloudQ)
  /\ cloudTold' = (cloudTold \/ Tells(Head(cloudQ), cloud))
  /\ UNCHANGED <<settings, printer, localVars, cloudOn, moves, ups>>

CloudLost ==
  /\ cloudQ # <<>>
  /\ cloudQ' = Tail(cloudQ) /\ cloudTold' = FALSE
  /\ UNCHANGED <<settings, printer, localVars, cloud, snap, cloudOn, cloudFresh, moves, ups>>

\* Two minutes without a report, then five without any sign.
CloudDataOld ==
  /\ cloud.data = "recent" /\ cloudQ = <<>>
  /\ LET rt == [cloud EXCEPT !.data = "old"]
     IN cloud' = rt /\ snap' = Published(snap, rt)
  /\ UNCHANGED <<settings, printer, localVars, cloudOn, cloudFresh, cloudQ, cloudTold, moves, ups>>

CloudGrowsOld ==
  /\ cloudFresh /\ cloud.data # "recent" /\ cloudQ = <<>>
  /\ cloudFresh' = FALSE
  /\ UNCHANGED <<settings, printer, localVars, cloud, snap, cloudOn, cloudQ, cloudTold, moves, ups>>

(***************************************************************************)
(* Another printer is chosen: ensure_client_started takes over the new     *)
(* connection, apply_configuration that of the cloud.                      *)
(***************************************************************************)
SwitchPrinter ==
  /\ moves < MaxMoves[mode]
  /\ printer' \in FoundPrinters
  /\ local' = LocalCleared(local, "mqtt")
  /\ localOn' = FALSE /\ localQ' = <<>> /\ localTold' = "nothing"
  /\ cloud' = CloudBlank /\ snap' = CloudBlank
  /\ cloudOn' = FALSE /\ cloudQ' = <<>> /\ cloudTold' = FALSE
  /\ moves' = moves + 1
  /\ UNCHANGED <<settings, localFresh, cloudFresh, ups>>

(***************************************************************************)
(* The application: what it shows now.                                     *)
(***************************************************************************)
LocalSourceFresh == Local /\ localOn /\ localFresh
\* Mutant: a source that says it is connected is never too old.
NeverTooOld == Cloud /\ snap.connected

CloudSourceFresh == Cloud /\ snap.connected /\ cloudFresh

Shown == Resolve(Merge(mode, prefers, Resolve(local), LocalSourceFresh, snap, CloudSourceFresh))

Init ==
  /\ mode \in Modes /\ named \in IF mode = "local" THEN {FALSE} ELSE Named
  /\ prefers \in IF mode = "hybrid" THEN BOOLEAN ELSE {FALSE}
  /\ printer \in FoundPrinters
  /\ local = LocalBlank /\ localOn = FALSE /\ localFresh = FALSE /\ localQ = <<>>
  /\ localTold = "nothing"
  /\ cloud = CloudBlank /\ snap = CloudBlank /\ cloudOn = FALSE /\ cloudFresh = FALSE
  /\ cloudQ = <<>> /\ cloudTold = FALSE
  /\ moves = 0 /\ ups = 0

Next ==
  \/ PrinterMoves \/ PrinterRepeats \/ SwitchPrinter
  \/ LocalUp \/ LocalDown \/ LocalDeliver \/ LocalLost \/ LocalGrowsOld
  \/ CloudUp \/ CloudDown \/ CloudStop \/ CloudClear \/ CloudDeliver \/ CloudLost
  \/ CloudDataOld \/ CloudGrowsOld

Spec == Init /\ [][Next]_vars

(***************************************************************************)
(* Time passes, and a session that is to end is ended.  Nothing is assumed *)
(* of the printer, of reports, of losses or of sessions that begin.        *)
(***************************************************************************)
FairSpec ==
  /\ Spec
  /\ WF_vars(CloudStop) /\ WF_vars(CloudDataOld) /\ WF_vars(CloudGrowsOld)

(***************************************************************************)
(* What is shown against what the printer does.                            *)
(***************************************************************************)
\* What may be shown of a printer in each situation.  A resumed print that
\* reports no stage yet is still shown as paused (the stage of the pause is
\* kept); a filament prompt pauses the print with an error code.
MayShow(sit) ==
  CASE sit \in {"idle", "cancelled"} -> {"idle"}
    [] sit \in {"preparing", "download", "preheat"} -> {"preparing"}
    [] sit \in {"started", "printing", "warned", "unloading", "loading"} -> {"printing"}
    [] sit = "between" -> {"printing", "paused"}
    [] sit \in {"pausedUser", "pausedIdle", "prompt"} -> {"paused", "error"}
    [] sit \in {"fault", "broken"} -> {"error"}
    [] sit = "finished" -> {"finished"}

\* A source that heard all of the printer and has nothing under way.
LocalKnows == LocalSourceFresh /\ localTold = "all" /\ localQ = <<>>
CloudKnows == CloudSourceFresh /\ cloud.data = "recent" /\ cloudTold /\ cloudQ = <<>>

\* Every source that the merge takes for fresh knows, and one of them is.
Told ==
  /\ LocalKnows \/ CloudKnows
  /\ LocalSourceFresh => LocalKnows
  /\ CloudSourceFresh => CloudKnows

(***************************************************************************)
(* When every fresh source has heard all of the printer, the display shows *)
(* what the printer does: nothing of an earlier session, of an earlier     *)
(* printer, of the print before, or of a source that has grown old bleeds  *)
(* through the retained fields, the latched stages and the merge.          *)
(* (handle_report_payload of both clients, publish_combined_snapshot,      *)
(* merge_status_sources, resolve_ui_state)                                 *)
(***************************************************************************)
ToldIsShown == Told => Shown.life \in MayShow(printer.sit)

ExpectedProgress ==
  CASE printer.sit \in {"preparing", "preheat"} -> 0
    [] printer.sit = "download" -> 50
    [] OTHER -> printer.gen

(***************************************************************************)
(* The percentage is the one of this print, or of its download while there *)
(* is one: neither the download's 100 percent nor what the print before    *)
(* ended with is taken for progress of the new print.                      *)
(* (PrinterClient::handle_report_payload, its resets of the progress)      *)
(***************************************************************************)
ProgressTold ==
  LocalKnows /\ printer.sit # "cancelled" => local.prog = ExpectedProgress

(***************************************************************************)
(* A running print is shown with a filament stage exactly while filament   *)
(* is changed: the latch of ams_status keeps the stage through reports     *)
(* that name another, and lets it go once the filament is in place.        *)
(***************************************************************************)
FilamentTold ==
  LocalKnows /\ local.status = "RUNNING" =>
    (local.rawStage \in FilamentStages <=> printer.sit \in {"unloading", "loading"})

(***************************************************************************)
(* Once the local path of hybrid mode stays up and informed, the cloud's   *)
(* last word, which the end of its session leaves in place and marked      *)
(* connected, stops counting: from some time on all that counts is told,   *)
(* and by ToldIsShown it is shown.                                         *)
(***************************************************************************)
HybridHeals ==
  mode = "hybrid" /\ ~prefers /\ <>[]LocalKnows => <>[]Told
=============================================================================

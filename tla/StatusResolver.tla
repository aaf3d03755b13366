--------------------------- MODULE StatusResolver ---------------------------
(***************************************************************************)
(* How the display turns what the two sources say into what it shows:      *)
(* bambu_status.cpp and status_resolver.cpp, as operators without state.   *)
(*                                                                         *)
(* A status is a gcode_state of the printer ("" if none was told).  A      *)
(* stage is one label of each class the predicates of the code tell apart; *)
(* the labels written with a capital are the ones the program makes up.    *)
(* Time left and layers go with the progress and are not kept apart, and   *)
(* texts are left out.  A progress is one of 0, 50 and 100 percent.        *)
(***************************************************************************)
EXTENDS Integers

ActiveStatus == {"RUNNING", "PREPARE", "PAUSE"}
FilamentStages == {"changing_filament", "filament_loading", "filament_unloading"}
PreheatStages == {"heatbed_preheating"}
DownloadStages == {"model_download"}
PausedStages == {"paused_user", "paused_nozzle_clog", "Paused"}
PrintingStages == {"printing", "Printing"}
IdleStages == {"idle", "Idle"}
GenericStages == {"", "connected", "ready", "cloud", "cloud-online"}
HandoffStages == PreheatStages \union FilamentStages \union PrintingStages

\* lifecycle_from_bambu_status
Lifecycle(status, concreteError) ==
  IF concreteError THEN "error"
  ELSE CASE status = "FAILED"  -> "error"
         [] status = "PAUSE"   -> "paused"
         [] status = "PREPARE" -> "preparing"
         [] status = "RUNNING" -> "printing"
         [] status = "FINISH"  -> "finished"
         [] status = "IDLE"    -> "idle"
         [] OTHER              -> "unknown"

\* bambu_default_stage_label_for_status
DefaultStage(status, concreteError) ==
  CASE status = "RUNNING" -> "Printing"
    [] status = "PREPARE" -> "Preparing"
    [] status = "PAUSE"   -> "Paused"
    [] status = "FINISH"  -> "Finished"
    [] status = "IDLE"    -> "Idle"
    [] status = "FAILED"  -> IF concreteError THEN "Failed" ELSE "Stopped"
    [] OTHER              -> ""

(***************************************************************************)
(* A snapshot of a source, as far as the resolver reads it.                *)
(***************************************************************************)
Blank ==
  [life |-> "unknown", status |-> "", stage |-> "", rawStage |-> "",
   err |-> FALSE, hms |-> FALSE, hasErr |-> FALSE, nonErr |-> FALSE,
   prog |-> 0, dl |-> FALSE, active |-> FALSE]

\* An error, an alert, a stop: what error_usable asks of either source.
Complaint(s) == s.err \/ s.hms \/ s.hasErr \/ s.nonErr

\* is_non_error_stop
NonErrorStop(s) == s.nonErr /\ ~s.err /\ ~s.hms

\* effective_status, effective_stage
EffectiveStatus(s) ==
  IF s.status # "" THEN s.status
  ELSE CASE s.life = "preparing" -> "PREPARE"
         [] s.life = "printing"  -> "RUNNING"
         [] s.life = "paused"    -> "PAUSE"
         [] s.life = "finished"  -> "FINISH"
         [] s.life = "idle"      -> "IDLE"
         [] s.life = "error"     -> "FAILED"
         [] OTHER                -> ""

EffectiveStage(s) == IF s.rawStage # "" THEN s.rawStage ELSE s.stage

(***************************************************************************)
(* resolve_ui_state.  A stop that is no error is shown as an idle printer; *)
(* whether its banner still shows is a text, and left out.                 *)
(***************************************************************************)
Resolve(s) ==
  IF NonErrorStop(s)
  THEN [s EXCEPT !.life = "idle", !.hasErr = FALSE, !.active = FALSE,
                 !.status = "IDLE", !.rawStage = "Idle", !.stage = "Idle"]
  ELSE LET status == EffectiveStatus(s)
           stage == EffectiveStage(s)
           dl == s.dl /\ ~(s.prog = 100 /\ stage \in HandoffStages)
           filament == stage \in FilamentStages
           paused == status = "PAUSE" \/ stage \in PausedStages
           preparing == status = "PREPARE" \/ stage \in PreheatStages \union DownloadStages
           done == s.life = "finished" \/ status = "FINISH"
           hint == \/ status \in ActiveStatus
                   \/ s.prog \notin {0, 100}
                   \/ paused \/ preparing \/ filament \/ dl
                   \/ stage \in PrintingStages
           active == status # "FAILED" /\ ~done /\ hint
           hasErr == s.hasErr \/ status = "FAILED" \/ (s.err /\ ~filament)
           life == IF hasErr THEN "error"
                   ELSE IF done THEN "finished"
                   ELSE IF paused THEN "paused"
                   ELSE IF preparing THEN "preparing"
                   ELSE IF active THEN "printing"
                   ELSE IF stage \in IdleStages \/ status = "IDLE" THEN "idle"
                   ELSE s.life
       IN [s EXCEPT !.life = life, !.hasErr = hasErr, !.active = active, !.dl = dl]

(***************************************************************************)
(* merge_status_sources.  The adapters: what each source is good for.      *)
(***************************************************************************)
\* local_state_has_priority_signal
LocalSignal(l) ==
  \/ Complaint(l)
  \/ l.life \in {"error", "preparing", "printing", "paused", "finished"}
  \/ l.prog > 0 \/ l.status # "" \/ l.rawStage # ""
  \/ l.stage \notin GenericStages

\* cloud_state_has_signal, the connection apart
CloudSignal(c) ==
  \/ Complaint(c)
  \/ c.life # "unknown" \/ c.prog > 0
  \/ c.status # "" \/ c.stage # "" \/ c.rawStage # ""

\* make_cloud_source_adapter: status and metrics, and errors
CloudUsable(c, fresh) == fresh /\ CloudSignal(c)

CloudErrorUsable(c, fresh) == fresh /\ Complaint(c)

\* make_local_source_adapter, and the preference of some models for the cloud
LocalUsable(l, fresh, cloudWins) == fresh /\ LocalSignal(l) /\ ~cloudWins
LocalErrorUsable(l, fresh, cloudWins) == fresh /\ Complaint(l) /\ ~cloudWins

\* apply_base_state_for_mode
Base(mode, prefers, l, c) ==
  IF mode = "cloud" \/ (mode = "hybrid" /\ prefers)
  THEN [Blank EXCEPT !.life = c.life, !.stage = "cloud"]
  ELSE [Blank EXCEPT !.life = l.life, !.stage = l.stage]

\* apply_local_status_bundle, apply_cloud_status_bundle
StatusOf(target, source) ==
  [target EXCEPT !.life = source.life, !.status = source.status,
                 !.rawStage = source.rawStage, !.hasErr = source.hasErr,
                 !.stage = IF source.stage # "" THEN source.stage ELSE target.stage]

\* apply_local_metrics_bundle, apply_cloud_metrics_bundle
MetricsOf(target, source) == [target EXCEPT !.prog = source.prog, !.dl = source.dl]

\* apply_local_error_bundle, apply_cloud_error_bundle
ErrorOf(target, source, statusGiven) ==
  LET told == [target EXCEPT !.err = source.err, !.hms = source.hms, !.nonErr = source.nonErr]
  IN IF statusGiven THEN told ELSE StatusOf(told, source)

\* merge_status_sources
Merge(mode, prefers, l, localFresh, c, cloudFresh) ==
  LET preferred == mode = "hybrid" /\ prefers
      cu == CloudUsable(c, cloudFresh)
      ce == CloudErrorUsable(c, cloudFresh)
      lu == LocalUsable(l, localFresh, preferred /\ cu)
      le == LocalErrorUsable(l, localFresh, preferred /\ ce)
      base == Base(mode, prefers, l, c)
      told == CASE lu -> MetricsOf(StatusOf(base, l), l)
                [] ~lu /\ cu -> MetricsOf(StatusOf(base, c), c)
                [] OTHER -> base
  IN CASE le -> ErrorOf(told, l, lu \/ cu)
       [] ~le /\ ce -> ErrorOf(told, c, lu \/ cu)
       [] OTHER -> told
=============================================================================

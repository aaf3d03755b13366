--------------------------- MODULE PrinterReports ---------------------------
(***************************************************************************)
(* How a report of the printer changes what each client knows:             *)
(* PrinterClient::handle_report_payload and                                *)
(* BambuCloudClient::handle_report_payload, their part on status, stage,   *)
(* errors and progress, as operators from a runtime state and a report to  *)
(* a runtime state.                                                        *)
(*                                                                         *)
(* A report is a function on the fields it carries: a printer sends either *)
(* all of them or only those that changed.  "ams" is the filament change   *)
(* of ams_status, "tray" where the filament is as hw_switch_state, tray_now*)
(* and tray_tar tell it, "gen" the percentage of the print, "dlp" that of  *)
(* the download.  A stage of "idle" is the number -1 or 255, which is also *)
(* what the code reads when a report carries no stage.                     *)
(***************************************************************************)
EXTENDS StatusResolver

Carried(m, field, old) == IF field \in DOMAIN m THEN m[field] ELSE old

\* Mutant: the percentage of the download comes first, whatever the client does.
DownloadFirst(m, prefersDownload) ==
  IF "dlp" \in DOMAIN m
  THEN [has |-> TRUE, value |-> m.dlp, dl |-> TRUE]
  ELSE IF "gen" \in DOMAIN m
  THEN [has |-> TRUE, value |-> m.gen, dl |-> FALSE]
  ELSE [has |-> FALSE, value |-> 0, dl |-> FALSE]

\* extract_progress_percent_local, extract_live_progress_percent
Progress(m, prefersDownload) ==
  IF "dlp" \in DOMAIN m /\ (prefersDownload \/ "gen" \notin DOMAIN m)
  THEN [has |-> TRUE, value |-> m.dlp, dl |-> TRUE]
  ELSE IF "gen" \in DOMAIN m
  THEN [has |-> TRUE, value |-> m.gen, dl |-> FALSE]
  ELSE [has |-> FALSE, value |-> 0, dl |-> FALSE]

(***************************************************************************)
(* The local client.                                                       *)
(***************************************************************************)
\* What the client keeps besides its snapshot: the latch of a filament
\* change and the place of the filament.
LocalBlank ==
  [life |-> "idle", status |-> "", stage |-> "ready", rawStage |-> "",
   err |-> FALSE, hms |-> FALSE, hasErr |-> FALSE, nonErr |-> FALSE,
   prog |-> 0, dl |-> FALSE, active |-> FALSE, latch |-> FALSE, tray |-> "seated"]

\* Mutant: the stage stays, too.
StageStays(rt, stage) ==
  [rt EXCEPT !.life = "unknown", !.status = "", !.stage = stage,
             !.err = FALSE, !.hms = FALSE, !.hasErr = FALSE, !.nonErr = FALSE]

\* A session begins, or another printer is configured: the telemetry is
\* cleared, the progress, the latch and the tray stay.
LocalCleared(rt, stage) ==
  [rt EXCEPT !.life = "unknown", !.status = "", !.rawStage = "", !.stage = stage,
             !.err = FALSE, !.hms = FALSE, !.hasErr = FALSE, !.nonErr = FALSE]

\* A stage with a number of its own, after ams_status has had its say.
StageNumber(m, latch) ==
  LET stage == Carried(m, "stage", "idle")
  IN IF latch /\ stage \in {"idle", "printing"} THEN "changing_filament" ELSE stage

\* resolved_stage_from_payload
ResolvedStage(status, stage, err) ==
  CASE status = "FAILED" -> IF err THEN "Failed" ELSE "Stopped"
    [] status = "FINISH" -> "Finished"
    [] status = "IDLE"   -> "Idle"
    [] status = "PAUSE" /\ stage = "idle" -> "Paused"
    [] status \in {"RUNNING", "PREPARE"} /\ stage = "idle" -> ""
    [] OTHER -> stage

\* is_meaningful_active_stage
MeaningfulStage(stage) ==
  stage \notin {"", "idle", "Idle", "Finished", "Failed", "printing", "Printing",
                "Preparing", "Paused"}

\* Mutant: a filament stage is kept after the filament is in place.
KeptWhateverTheTray(rt, tray, latch) ==
  IF MeaningfulStage(rt.rawStage) THEN rt.rawStage ELSE ""

\* The stage kept when an active job reports none.
KeptStage(rt, tray, latch) ==
  LET filamentDone == rt.rawStage \in FilamentStages /\ tray = "seated" /\ ~latch
  IN IF MeaningfulStage(rt.rawStage) /\ ~filamentDone THEN rt.rawStage ELSE ""

\* changing_filament is told apart by where the filament is.
RefinedStage(stage, tray) ==
  IF stage # "changing_filament" THEN stage
  ELSE CASE tray = "leaving"  -> "filament_unloading"
         [] tray = "arriving" -> "filament_loading"
         [] OTHER -> stage

\* The progress, and whether it is that of a download, after a report that
\* leaves the client in the state now: what is left of a download or of the
\* print before is dropped.
LocalProgress(rt, now, m, p) ==
  LET prog == IF p.has THEN p.value ELSE rt.prog
      dl == IF p.has THEN p.dl ELSE rt.dl
      stageBefore == EffectiveStage(rt)
      stage == EffectiveStage(now)
      download == stage \in DownloadStages
      complete == dl /\ prog = 100
      leaving == stageBefore \in DownloadStages /\ ~download
      newCycle == /\ "status" \in DOMAIN m
                  /\ now.status \in ActiveStatus /\ rt.status \notin ActiveStatus
                  /\ download \/ now.life = "preparing"
                  /\ rt.life \in {"finished", "idle", "unknown", "error"}
                  /\ ~(p.has /\ download /\ p.dl)
  IN IF newCycle \/ (leaving /\ complete /\ (~p.has \/ p.dl))
     THEN [prog |-> 0, dl |-> download]
     ELSE IF (~download /\ stage \in HandoffStages /\ complete) \/ (leaving /\ ~p.has)
     THEN [prog |-> 0, dl |-> FALSE]
     ELSE [prog |-> prog, dl |-> dl]

\* PrinterClient::handle_report_payload
LocalReport(rt, m) ==
  LET status == Carried(m, "status", rt.status)
      latch == Carried(m, "ams", rt.latch)
      tray == Carried(m, "tray", rt.tray)
      err == Carried(m, "err", rt.err)
      hms == Carried(m, "hms", rt.hms)
      resolved == ResolvedStage(status, StageNumber(m, latch), err)
      raw == RefinedStage(IF resolved # "" THEN resolved ELSE KeptStage(rt, tray, latch), tray)
      prompt == raw \in FilamentStages
      pauseFault == /\ status = "PAUSE"
                    /\ \/ err \/ resolved = "paused_nozzle_clog"
                       \/ rt.hasErr /\ rt.status = "PAUSE"
      life == CASE pauseFault -> "error"
                [] ~pauseFault /\ status = "FAILED" /\ ~(err /\ ~prompt) -> "idle"
                [] OTHER -> Lifecycle(status, err /\ ~prompt)
      prefers == \/ resolved \in DownloadStages
                 \/ rt.life = "preparing" \/ rt.dl
      now == [rt EXCEPT !.status = status, !.latch = latch, !.tray = tray,
                        !.err = err, !.hms = hms, !.rawStage = raw,
                        !.stage = IF raw # "" THEN raw ELSE "idle",
                        !.hasErr = (err /\ ~prompt) \/ pauseFault,
                        !.nonErr = status = "FAILED" /\ ~err /\ ~hms,
                        !.life = life]
      p == LocalProgress(rt, now, m, Progress(m, prefers))
  IN [now EXCEPT !.prog = p.prog, !.dl = p.dl]

(***************************************************************************)
(* The cloud client.  Its reports name a stage only if the printer names   *)
(* its stages; a number alone it does not read.                            *)
(***************************************************************************)
CloudProgress(rt, m, life, download) ==
  LET p == Progress(m, download \/ life = "preparing" \/ rt.dl)
      value == IF life = "finished" THEN 100 ELSE p.value
  IN CASE p.has \/ life \in {"finished", "idle", "error"} -> [prog |-> value, dl |-> p.dl]
       [] ~p.has /\ life = "preparing" -> [prog |-> rt.prog, dl |-> rt.dl]
       [] OTHER -> [prog |-> rt.prog, dl |-> FALSE]

\* BambuCloudClient::handle_report_payload, for a report of a print
CloudReport(rt, m, named) ==
  LET status == Carried(m, "status", "")
      stageText == IF named THEN Carried(m, "stage", "") ELSE ""
      news == status # "" \/ stageText # ""
      life == Lifecycle(status, FALSE)
      begun == life \in {"preparing", "printing"} /\ life # rt.life
      stage == CASE stageText # "" -> stageText
                 [] stageText = "" /\ status # "" -> DefaultStage(status, FALSE)
                 [] OTHER -> rt.stage
      raw == IF stageText # "" THEN stageText ELSE rt.rawStage
      healthy == news /\ life \notin {"error", "unknown"}
      err == Carried(m, "err", rt.err /\ ~healthy)
      hms == Carried(m, "hms", rt.hms /\ ~healthy)
      now == IF status # "" THEN life ELSE rt.life
      nonErr == IF news THEN status = "FAILED" /\ ~err /\ ~hms ELSE rt.nonErr
      hasErr == IF news THEN (~nonErr /\ now = "error") \/ (err /\ raw \notin FilamentStages)
                ELSE rt.hasErr
      p == CloudProgress(IF begun THEN [rt EXCEPT !.prog = 0, !.dl = FALSE] ELSE rt,
                         m, life, stage \in DownloadStages)
  IN [rt EXCEPT !.status = IF status # "" THEN status ELSE rt.status,
                !.life = now, !.stage = stage, !.rawStage = raw,
                !.err = err, !.hms = hms, !.nonErr = nonErr, !.hasErr = hasErr,
                !.prog = p.prog, !.dl = p.dl, !.connected = TRUE, !.data = "recent"]

CloudBlank ==
  [life |-> "unknown", status |-> "", stage |-> "", rawStage |-> "",
   err |-> FALSE, hms |-> FALSE, hasErr |-> FALSE, nonErr |-> FALSE,
   prog |-> 0, dl |-> FALSE, active |-> FALSE, connected |-> FALSE, data |-> "none"]

\* publish_combined_snapshot: the snapshot from the one before and the live
\* state.  What is not recent is not taken, and what was taken stays.
Published(snap, rt) ==
  LET recent == rt.data = "recent"
      told == /\ rt.connected \/ recent
              /\ \/ rt.data # "none" \/ rt.prog > 0
                 \/ rt.life \in {"finished", "idle", "error"}
      Kept(field) == IF recent /\ rt[field] # "" THEN rt[field] ELSE snap[field]
  IN [snap EXCEPT !.connected = rt.connected, !.data = rt.data,
                  !.status = Kept("status"), !.rawStage = Kept("rawStage"), !.stage = Kept("stage"),
                  !.life = IF told THEN rt.life ELSE snap.life,
                  !.prog = IF told THEN rt.prog ELSE snap.prog,
                  !.dl = IF told THEN rt.dl ELSE snap.dl,
                  !.err = told /\ rt.err, !.hms = told /\ rt.hms,
                  !.hasErr = told /\ rt.hasErr, !.nonErr = told /\ rt.nonErr]
=============================================================================

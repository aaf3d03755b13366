-------------------------- MODULE TelemetryProofs --------------------------
(***************************************************************************)
(* What Telemetry's runs check on a small instance, for every bound: that  *)
(* the display shows the printer as it is once every fresh source has      *)
(* heard all of it, and that the percentage and the filament stage are     *)
(* those of the print.                                                     *)
(*                                                                         *)
(* The invariant says what a client knows.  The reports under way lead,    *)
(* one after the other, from a printer as it was to the printer as it is   *)
(* (Under); the client has heard all of the printer as it was (LocalHeard, *)
(* CloudHeard), or has heard nothing in this session and the first report  *)
(* under way is a full one, or has lost something.  A report that leads    *)
(* from p to q makes a client that has heard all of p one that has heard   *)
(* all of q, whatever it kept of earlier sessions and prints: this is the  *)
(* bulk of the module, for each client.  What is published follows the     *)
(* live state of the cloud (Says).  The end is about the resolver and the  *)
(* merge: sources that have heard all fit the printer (Fits), the merge of *)
(* sources that fit fits, and what fits is shown as what the printer does. *)
(*                                                                         *)
(* Sessions come and go freely in Telemetry; HybridRouting says when they  *)
(* may.  The types of its state are proved here too, of an instance of it: *)
(* see the last section.                                                   *)
(***************************************************************************)
EXTENDS Telemetry, TLAPS

(***************************************************************************)
(* The printer and its reports.                                            *)
(***************************************************************************)
Sits ==
  {"idle", "preparing", "download", "preheat", "started", "printing", "between", "warned",
   "unloading", "loading", "prompt", "pausedUser", "pausedIdle", "fault", "broken",
   "cancelled", "finished"}
Percents == {0, 50, 100}
Fields == {"status", "stage", "err", "hms", "gen", "dlp", "ams", "tray"}

\* What a printer may be: its percentage is the one that goes with its situation.
Printers ==
  {p \in [sit : Sits, gen : Percents] : p.gen = Percentage(p.gen, p.sit)}

\* A report that makes q of the printer p.
Leads(m, p, q) ==
  \/ p = q /\ m = Full(p)
  \/ /\ m = Delta(p, q)
     /\ \/ q = p
        \/ q.sit \in Follows[p.sit] /\ q.gen = Percentage(p.gen, q.sit)

\* Every situation has a report, with all of the fields.
LEMMA SituationsDomain ==
  /\ DOMAIN Situations = Sits /\ DOMAIN Follows = Sits
  /\ \A sit \in Sits : DOMAIN Situations[sit] = Fields
BY DEF Situations, Follows, Sits, Fields, Report

\* A full report is that of the situation, but for the percentage.
LEMMA FullFields ==
  ASSUME NEW p \in Printers
  PROVE  /\ DOMAIN Full(p) = Fields
         /\ Full(p).gen = p.gen
         /\ \A f \in Fields : f # "gen" => Full(p)[f] = Situations[p.sit][f]
BY SituationsDomain DEF Full, Printers, Fields

\* The fields of a full report, one by one.
LEMMA PrinterStatus ==
  ASSUME NEW p \in Printers
  PROVE  /\ p.sit = "idle" => Full(p).status = "IDLE"
         /\ p.sit \in {"preparing", "download", "preheat"} => Full(p).status = "PREPARE"
         /\ p.sit \in {"started", "printing", "between", "warned", "unloading", "loading"} =>
              Full(p).status = "RUNNING"
         /\ p.sit \in {"prompt", "pausedUser", "pausedIdle", "fault"} => Full(p).status = "PAUSE"
         /\ p.sit \in {"broken", "cancelled"} => Full(p).status = "FAILED"
         /\ p.sit = "finished" => Full(p).status = "FINISH"
<1>1. /\ p.sit = "idle" => Situations[p.sit].status = "IDLE"
      /\ p.sit \in {"preparing", "download", "preheat"} => Situations[p.sit].status = "PREPARE"
      /\ p.sit \in {"started", "printing", "between", "warned", "unloading", "loading"} =>
           Situations[p.sit].status = "RUNNING"
      /\ p.sit \in {"prompt", "pausedUser", "pausedIdle", "fault"} =>
           Situations[p.sit].status = "PAUSE"
      /\ p.sit \in {"broken", "cancelled"} => Situations[p.sit].status = "FAILED"
      /\ p.sit = "finished" => Situations[p.sit].status = "FINISH"
  BY DEF Situations, Sits, Report, Printers
<1>2. QED  BY <1>1, FullFields DEF Fields

LEMMA PrinterStage ==
  ASSUME NEW p \in Printers
  PROVE  /\ p.sit \in {"idle", "preparing", "between", "pausedIdle", "broken", "cancelled",
              "finished"} => Full(p).stage = "idle"
         /\ p.sit = "download" => Full(p).stage = "model_download"
         /\ p.sit = "preheat" => Full(p).stage = "heatbed_preheating"
         /\ p.sit \in {"started", "printing", "warned", "loading"} => Full(p).stage = "printing"
         /\ p.sit = "unloading" => Full(p).stage = "changing_filament"
         /\ p.sit = "prompt" => Full(p).stage = "filament_loading"
         /\ p.sit = "pausedUser" => Full(p).stage = "paused_user"
         /\ p.sit = "fault" => Full(p).stage = "paused_nozzle_clog"
<1>1. /\ p.sit \in {"idle", "preparing", "between", "pausedIdle", "broken", "cancelled",
           "finished"} => Situations[p.sit].stage = "idle"
      /\ p.sit = "download" => Situations[p.sit].stage = "model_download"
      /\ p.sit = "preheat" => Situations[p.sit].stage = "heatbed_preheating"
      /\ p.sit \in {"started", "printing", "warned", "loading"} =>
           Situations[p.sit].stage = "printing"
      /\ p.sit = "unloading" => Situations[p.sit].stage = "changing_filament"
      /\ p.sit = "prompt" => Situations[p.sit].stage = "filament_loading"
      /\ p.sit = "pausedUser" => Situations[p.sit].stage = "paused_user"
      /\ p.sit = "fault" => Situations[p.sit].stage = "paused_nozzle_clog"
  BY DEF Situations, Sits, Report, Printers
<1>2. QED  BY <1>1, FullFields DEF Fields

LEMMA PrinterErr ==
  ASSUME NEW p \in Printers
  PROVE  /\ p.sit \in {"prompt", "fault", "broken"} => Full(p).err = TRUE
         /\ p.sit \notin {"prompt", "fault", "broken"} => Full(p).err = FALSE
<1>1. /\ p.sit \in {"prompt", "fault", "broken"} => Situations[p.sit].err = TRUE
      /\ p.sit \notin {"prompt", "fault", "broken"} => Situations[p.sit].err = FALSE
  BY DEF Situations, Sits, Report, Printers
<1>2. QED  BY <1>1, FullFields DEF Fields

LEMMA PrinterHms ==
  ASSUME NEW p \in Printers
  PROVE  /\ p.sit = "warned" => Full(p).hms = TRUE
         /\ p.sit # "warned" => Full(p).hms = FALSE
<1>1. /\ p.sit = "warned" => Situations[p.sit].hms = TRUE
      /\ p.sit # "warned" => Situations[p.sit].hms = FALSE
  BY DEF Situations, Sits, Report, Printers
<1>2. QED  BY <1>1, FullFields DEF Fields

LEMMA PrinterAms ==
  ASSUME NEW p \in Printers
  PROVE  /\ p.sit \in {"unloading", "loading"} => Full(p).ams = TRUE
         /\ p.sit \notin {"unloading", "loading"} => Full(p).ams = FALSE
<1>1. /\ p.sit \in {"unloading", "loading"} => Situations[p.sit].ams = TRUE
      /\ p.sit \notin {"unloading", "loading"} => Situations[p.sit].ams = FALSE
  BY DEF Situations, Sits, Report, Printers
<1>2. QED  BY <1>1, FullFields DEF Fields

LEMMA PrinterPlace ==
  ASSUME NEW p \in Printers
  PROVE  /\ Full(p).tray = IF p.sit = "unloading" THEN "leaving"
              ELSE IF p.sit \in {"loading", "prompt"} THEN "arriving" ELSE "seated"
         /\ Full(p).dlp = IF p.sit = "preparing" THEN 0 ELSE IF p.sit = "download" THEN 50 ELSE 100
<1>1. /\ Situations[p.sit].tray = IF p.sit = "unloading" THEN "leaving"
           ELSE IF p.sit \in {"loading", "prompt"} THEN "arriving" ELSE "seated"
      /\ Situations[p.sit].dlp =
           IF p.sit = "preparing" THEN 0 ELSE IF p.sit = "download" THEN 50 ELSE 100
  BY DEF Situations, Sits, Report, Printers
<1>2. QED  BY <1>1, FullFields DEF Fields

\* The situations a printer can come from.
LEMMA Predecessors ==
  ASSUME NEW p \in Sits, NEW q \in Follows[p]
  PROVE  /\ q \in Sits /\ q # p
         /\ q = "idle" => p \in {"broken", "cancelled", "finished"}
         /\ q = "preparing" => p \in {"idle", "broken", "cancelled", "finished"}
         /\ q = "download" => p = "preparing"
         /\ q = "preheat" => p = "download"
         /\ q = "started" => p = "preheat"
         /\ q = "printing" => p \in {"started", "warned", "loading", "prompt", "between",
                                     "pausedUser", "pausedIdle"}
         /\ q = "between" => p \in {"loading", "prompt", "pausedUser"}
         /\ q = "warned" => p = "printing"
         /\ q = "unloading" => p = "printing"
         /\ q = "loading" => p = "unloading"
         /\ q = "prompt" => p \in {"printing", "loading"}
         /\ q = "pausedUser" => p = "printing"
         /\ q = "pausedIdle" => p = "fault"
         /\ q = "fault" => p \in {"printing", "warned"}
         /\ q = "broken" => p = "fault"
         /\ q = "cancelled" => p \in {"preheat", "printing", "pausedUser"}
         /\ q = "finished" => p = "printing"
BY DEF Follows, Sits

\* The same for a report, after which the situation may also be the one before.
LEMMA CameFrom ==
  ASSUME NEW p \in Printers, NEW q \in Printers,
         p = q \/ (q.sit \in Follows[p.sit] /\ p.sit \in Sits)
  PROVE  /\ q.sit = "idle" => p.sit \in {"idle", "broken", "cancelled", "finished"}
         /\ q.sit = "preparing" =>
              p.sit \in {"preparing", "idle", "broken", "cancelled", "finished"}
         /\ q.sit = "download" => p.sit \in {"download", "preparing"}
         /\ q.sit = "preheat" => p.sit \in {"preheat", "download"}
         /\ q.sit = "started" => p.sit \in {"started", "preheat"}
         /\ q.sit = "printing" =>
              p.sit \in {"printing", "started", "warned", "loading", "prompt", "between",
                         "pausedUser", "pausedIdle"}
         /\ q.sit = "between" => p.sit \in {"between", "loading", "prompt", "pausedUser"}
         /\ q.sit = "warned" => p.sit \in {"warned", "printing"}
         /\ q.sit = "prompt" => p.sit \in {"prompt", "printing", "loading"}
         /\ q.sit = "pausedUser" => p.sit \in {"pausedUser", "printing"}
         /\ q.sit = "fault" => p.sit \in {"fault", "printing", "warned"}
         /\ q.sit = "broken" => p.sit \in {"broken", "fault"}
<1>1. CASE p = q
  BY <1>1
<1>2. CASE q.sit \in Follows[p.sit] /\ p.sit \in Sits
  BY <1>2, Predecessors
<1>3. QED  BY <1>1, <1>2

\* A report that leads from p to q carries the fields of q, and with it a client that had
\* those of p has those of q.
LEMMA LeadsCarried ==
  ASSUME NEW p \in Printers, NEW q \in Printers, NEW m, Leads(m, p, q)
  PROVE  /\ DOMAIN m \subseteq Fields
         /\ \A f \in Fields :
              /\ f \in DOMAIN m => m[f] = Full(q)[f]
              /\ f \in DOMAIN m <=> (m = Full(p) /\ p = q) \/ Full(p)[f] # Full(q)[f]
              /\ Carried(m, f, Full(p)[f]) = Full(q)[f]
<1>1. CASE p = q /\ m = Full(p)
  BY <1>1, FullFields DEF Carried
<1>2. CASE m = Delta(p, q) /\ ~(p = q /\ m = Full(p))
  BY <1>2, FullFields DEF Carried, Delta
<1>3. QED  BY <1>1, <1>2 DEF Leads

(***************************************************************************)
(* What the local client has heard, but for the percentage.                *)
(***************************************************************************)
\* What a client that heard all of a printer in situation sit keeps as its stage.
KeptStages(sit) ==
  CASE sit = "idle" -> {"Idle"}
    [] sit = "preparing" -> {"", "Stopped"}
    [] sit = "download" -> {"model_download"}
    [] sit = "preheat" -> {"heatbed_preheating"}
    [] sit \in {"started", "printing", "warned"} -> {"", "printing"}
    [] sit = "between" -> {"", "paused_user"}
    [] sit = "unloading" -> {"filament_unloading"}
    [] sit = "loading" -> {"filament_loading"}
    [] sit = "prompt" -> {"Paused", "filament_loading"}
    [] sit = "pausedUser" -> {"Paused", "paused_user"}
    [] sit = "pausedIdle" -> {"Paused"}
    [] sit = "fault" -> {"Paused", "paused_nozzle_clog"}
    [] sit = "broken" -> {"Failed"}
    [] sit = "cancelled" -> {"Stopped"}
    [] sit = "finished" -> {"Finished"}

Lives == {"unknown", "idle", "preparing", "printing", "paused", "finished", "error"}
Statuses == {"", "IDLE", "PREPARE", "RUNNING", "PAUSE", "FAILED", "FINISH"}
Stages ==
  {"", "ready", "mqtt", "connected", "subscribed", "idle", "model_download",
   "heatbed_preheating", "printing", "changing_filament", "filament_loading",
   "filament_unloading", "paused_user", "paused_nozzle_clog", "Idle", "Preparing",
   "Printing", "Paused", "Finished", "Failed", "Stopped"}
Trays == {"seated", "leaving", "arriving"}

LocalStates ==
  [life : Lives, status : Statuses, stage : Stages, rawStage : Stages,
   err : BOOLEAN, hms : BOOLEAN, hasErr : BOOLEAN, nonErr : BOOLEAN,
   prog : Percents, dl : BOOLEAN, active : BOOLEAN, latch : BOOLEAN, tray : Trays]

\* A local client that heard all of p.
LocalHeard(rt, p) ==
  /\ rt.status = Full(p).status /\ rt.latch = Full(p).ams /\ rt.tray = Full(p).tray
  /\ rt.err = Full(p).err /\ rt.hms = Full(p).hms
  /\ rt.rawStage \in KeptStages(p.sit)
  /\ rt.stage = IF rt.rawStage # "" THEN rt.rawStage ELSE "idle"
  /\ p.sit \in {"prompt", "fault", "broken"} => rt.hasErr
  /\ rt.hasErr => p.sit \in {"prompt", "fault", "broken", "pausedIdle"}
  /\ rt.nonErr <=> p.sit = "cancelled"
  /\ rt.life = IF rt.hasErr THEN "error"
               ELSE IF p.sit = "cancelled" THEN "idle" ELSE Lifecycle(rt.status, FALSE)

\* A local client that has heard nothing since its session began.
LocalUntold(rt) ==
  /\ rt.status = "" /\ rt.rawStage = "" /\ rt.stage = "connected"
  /\ rt.life = "unknown" /\ ~rt.hasErr

\* LocalReport, part by part: the stage as resolved, as kept and refined, a pause that is
\* a fault, the state but for the progress, and the progress.
LocalResolved(rt, m) ==
  ResolvedStage(Carried(m, "status", rt.status),
                StageNumber(m, Carried(m, "ams", rt.latch)), Carried(m, "err", rt.err))

LocalRaw(rt, m) ==
  LET tray == Carried(m, "tray", rt.tray)
      resolved == LocalResolved(rt, m)
  IN RefinedStage(IF resolved # "" THEN resolved
                  ELSE KeptStage(rt, tray, Carried(m, "ams", rt.latch)), tray)

LocalPauseFault(rt, m) ==
  /\ Carried(m, "status", rt.status) = "PAUSE"
  /\ \/ Carried(m, "err", rt.err) \/ LocalResolved(rt, m) = "paused_nozzle_clog"
     \/ rt.hasErr /\ rt.status = "PAUSE"

LocalNow(rt, m) ==
  LET status == Carried(m, "status", rt.status)
      err == Carried(m, "err", rt.err)
      hms == Carried(m, "hms", rt.hms)
      raw == LocalRaw(rt, m)
      prompt == raw \in FilamentStages
      pauseFault == LocalPauseFault(rt, m)
  IN [rt EXCEPT !.status = status, !.latch = Carried(m, "ams", rt.latch),
                !.tray = Carried(m, "tray", rt.tray),
                !.err = err, !.hms = hms, !.rawStage = raw,
                !.stage = IF raw # "" THEN raw ELSE "idle",
                !.hasErr = (err /\ ~prompt) \/ pauseFault,
                !.nonErr = status = "FAILED" /\ ~err /\ ~hms,
                !.life = CASE pauseFault -> "error"
                           [] ~pauseFault /\ status = "FAILED" /\ ~(err /\ ~prompt) -> "idle"
                           [] OTHER -> Lifecycle(status, err /\ ~prompt)]

LocalCount(rt, m) ==
  LocalProgress(rt, LocalNow(rt, m), m,
                Progress(m, \/ LocalResolved(rt, m) \in DownloadStages
                            \/ rt.life = "preparing" \/ rt.dl))

\* LocalReport in two parts: all but the progress, and the progress.
LEMMA LocalReportIs ==
  ASSUME NEW rt, NEW m
  PROVE  LocalReport(rt, m) =
           [LocalNow(rt, m) EXCEPT !.prog = LocalCount(rt, m).prog, !.dl = LocalCount(rt, m).dl]
BY DEF LocalReport, LocalCount, LocalNow, LocalPauseFault, LocalRaw, LocalResolved

\* What a report that makes q of p is resolved to.
MayResolve(resolved, m, p, q) ==
  /\ q.sit = "idle" => resolved = "Idle"
  /\ q.sit \in {"preparing", "between"} => resolved = ""
  /\ q.sit = "finished" => resolved = "Finished"
  /\ q.sit = "broken" => resolved = "Failed"
  /\ q.sit = "cancelled" => resolved = "Stopped"
  /\ q.sit = "pausedIdle" => resolved = "Paused"
  /\ q.sit \in {"unloading", "loading"} => resolved = "changing_filament"
  /\ q.sit = "download" => resolved \in {"", "model_download"}
  /\ q.sit = "preheat" => resolved \in {"", "heatbed_preheating"}
  /\ q.sit \in {"started", "printing", "warned"} => resolved \in {"", "printing"}
  /\ q.sit = "prompt" => resolved \in {"Paused", "filament_loading"}
  /\ q.sit = "pausedUser" => resolved \in {"Paused", "paused_user"}
  /\ q.sit = "fault" => resolved \in {"Paused", "paused_nozzle_clog"}
  /\ resolved = "model_download" => q.sit = "download"
  /\ resolved = "" =>
       \/ q.sit \in {"preparing", "between"}
       \/ Full(p).stage = Full(q).stage /\ m # Full(p)

\* The stage a report is resolved to, before an earlier one is kept.
LEMMA LocalResolvedIs ==
  ASSUME NEW p \in Printers, NEW q \in Printers, NEW m, Leads(m, p, q), NEW rt,
         Carried(m, "status", rt.status) = Full(q).status,
         Carried(m, "ams", rt.latch) = Full(q).ams,
         Carried(m, "err", rt.err) = Full(q).err
  PROVE  MayResolve(LocalResolved(rt, m), m, p, q)
<1>. DEFINE number == StageNumber(m, Full(q).ams)
<1>1. \/ Carried(m, "stage", "idle") = Full(q).stage
      \/ /\ Carried(m, "stage", "idle") = "idle"
         /\ Full(p).stage = Full(q).stage /\ m # Full(p)
  BY LeadsCarried, FullFields DEF Carried, Fields
<1>2. /\ Full(q).ams =>
           number = IF Carried(m, "stage", "idle") \in {"idle", "printing"}
                    THEN "changing_filament" ELSE Carried(m, "stage", "idle")
      /\ ~Full(q).ams => number = Carried(m, "stage", "idle")
  BY DEF StageNumber
<1>3. LocalResolved(rt, m) = ResolvedStage(Full(q).status, number, Full(q).err)
  BY DEF LocalResolved
<1>4. /\ q.sit = "idle" => LocalResolved(rt, m) = "Idle"
      /\ q.sit = "finished" => LocalResolved(rt, m) = "Finished"
      /\ q.sit = "broken" => LocalResolved(rt, m) = "Failed"
      /\ q.sit = "cancelled" => LocalResolved(rt, m) = "Stopped"
  BY <1>3, PrinterStatus, PrinterErr DEF ResolvedStage
<1>5. q.sit \in {"preparing", "download", "preheat"} =>
        /\ number = Carried(m, "stage", "idle")
        /\ LocalResolved(rt, m) = IF number = "idle" THEN "" ELSE number
  BY <1>2, <1>3, PrinterStatus, PrinterAms DEF ResolvedStage
<1>6. q.sit \in {"started", "printing", "warned", "between"} =>
        /\ number = Carried(m, "stage", "idle")
        /\ LocalResolved(rt, m) = IF number = "idle" THEN "" ELSE number
  BY <1>2, <1>3, PrinterStatus, PrinterAms DEF ResolvedStage
<1>7. q.sit \in {"unloading", "loading"} => LocalResolved(rt, m) = "changing_filament"
  <2>1. SUFFICES ASSUME q.sit \in {"unloading", "loading"}
                 PROVE  LocalResolved(rt, m) = "changing_filament"
    OBVIOUS
  <2>2. Full(q).stage \in {"printing", "changing_filament"}
    BY <2>1, PrinterStage
  <2>3. Full(q).ams /\ Full(q).status = "RUNNING"
    BY <2>1, PrinterAms, PrinterStatus
  <2>4. Carried(m, "stage", "idle") \in {"idle", "printing", "changing_filament"}
    BY <1>1, <2>2
  <2>5. number = "changing_filament"
    BY <1>2, <2>3, <2>4
  <2>. HIDE DEF number
  <2>6. QED  BY <1>3, <2>3, <2>5 DEF ResolvedStage
<1>8. q.sit \in {"prompt", "pausedUser", "pausedIdle", "fault"} =>
        /\ number = Carried(m, "stage", "idle")
        /\ LocalResolved(rt, m) = IF number = "idle" THEN "Paused" ELSE number
  BY <1>2, <1>3, PrinterStatus, PrinterAms DEF ResolvedStage
<1>. HIDE DEF number
<1>9. q.sit \in Sits
  BY DEF Printers
<1>10. CASE q.sit \in {"idle", "finished", "broken", "cancelled", "unloading", "loading"}
  BY <1>4, <1>7, <1>10 DEF MayResolve
<1>11. CASE q.sit \in {"preparing", "download", "preheat"}
  BY <1>1, <1>5, <1>11, PrinterStage DEF MayResolve
<1>12. CASE q.sit \in {"started", "printing", "warned", "between"}
  BY <1>1, <1>6, <1>12, PrinterStage DEF MayResolve
<1>13. CASE q.sit \in {"prompt", "pausedUser", "pausedIdle", "fault"}
  BY <1>1, <1>8, <1>13, PrinterStage DEF MayResolve
<1>14. QED  BY <1>9, <1>10, <1>11, <1>12, <1>13 DEF Sits

\* A report changes what the client knows of p into what it knows of q.
\* The report m, of p that becomes q, to a local client that heard all of p or hears all.
LocalReports(rt, m, p, q) ==
  /\ Leads(m, p, q)
  /\ rt \in LocalStates
  /\ LocalHeard(rt, p) \/ (LocalUntold(rt) /\ m = Full(p) /\ p = q)

\* A client that heard all of p, or hears all, has the fields of q after the report.
LEMMA LocalCarried ==
  ASSUME NEW p \in Printers, NEW q \in Printers, NEW m, NEW rt, LocalReports(rt, m, p, q)
  PROVE  /\ Carried(m, "status", rt.status) = Full(q).status
         /\ Carried(m, "ams", rt.latch) = Full(q).ams
         /\ Carried(m, "tray", rt.tray) = Full(q).tray
         /\ Carried(m, "err", rt.err) = Full(q).err
         /\ Carried(m, "hms", rt.hms) = Full(q).hms
<1>1. CASE LocalHeard(rt, p)
  <2>1. /\ Carried(m, "status", Full(p).status) = Full(q).status
        /\ Carried(m, "ams", Full(p).ams) = Full(q).ams
        /\ Carried(m, "tray", Full(p).tray) = Full(q).tray
        /\ Carried(m, "err", Full(p).err) = Full(q).err
        /\ Carried(m, "hms", Full(p).hms) = Full(q).hms
    BY LeadsCarried DEF LocalReports, Fields
  <2>2. QED  BY <1>1, <2>1 DEF LocalHeard
<1>2. CASE m = Full(p) /\ p = q
  BY <1>2, FullFields DEF Carried, Fields
<1>3. QED  BY <1>1, <1>2 DEF LocalReports

\* A report leads to the same printer or to one in a situation that follows.
LEMMA Moves ==
  ASSUME NEW p \in Printers, NEW q \in Printers, NEW m, Leads(m, p, q)
  PROVE  p = q \/ (q.sit \in Follows[p.sit] /\ p.sit \in Sits)
BY DEF Leads, Printers

\* The stage after a report is one that a client which heard all may keep.
LEMMA LocalRawIs ==
  ASSUME NEW p \in Printers, NEW q \in Printers, NEW m, NEW rt, LocalReports(rt, m, p, q)
  PROVE  LocalRaw(rt, m) \in KeptStages(q.sit)
<1>. DEFINE resolved == LocalResolved(rt, m)
            kept == KeptStage(rt, Full(q).tray, Full(q).ams)
            raw == LocalRaw(rt, m)
<1>1. /\ resolved = "" => raw = RefinedStage(kept, Full(q).tray)
      /\ resolved # "" => raw = RefinedStage(resolved, Full(q).tray)
  <2>1. /\ Carried(m, "ams", rt.latch) = Full(q).ams
        /\ Carried(m, "tray", rt.tray) = Full(q).tray
    BY LocalCarried
  <2>2. CASE resolved = ""
    BY <2>1, <2>2 DEF LocalRaw
  <2>3. CASE resolved # ""
    BY <2>1, <2>3 DEF LocalRaw
  <2>4. QED  BY <2>2, <2>3
<1>2. MayResolve(resolved, m, p, q)
  <2>1. Leads(m, p, q)
    BY DEF LocalReports
  <2>2. /\ Carried(m, "status", rt.status) = Full(q).status
        /\ Carried(m, "ams", rt.latch) = Full(q).ams
        /\ Carried(m, "err", rt.err) = Full(q).err
    BY LocalCarried
  <2>3. QED  BY <2>1, <2>2, LocalResolvedIs
<1>3. /\ rt.rawStage \in KeptStages(p.sit) \/ (rt.rawStage = "" /\ m = Full(p) /\ p = q)
      /\ p = q \/ (q.sit \in Follows[p.sit] /\ p.sit \in Sits)
  BY Moves DEF LocalReports, LocalHeard, LocalUntold
<1>. HIDE DEF resolved, raw
<1>4. ASSUME resolved # ""  PROVE raw \in KeptStages(q.sit)
  <2>1. q.sit \in Sits
    BY DEF Printers
  <2>2. raw = RefinedStage(resolved, Full(q).tray)
    BY <1>1, <1>4
  <2>3. CASE q.sit \in {"unloading", "loading"}
    <3>1. resolved = "changing_filament"
      BY <1>2, <2>3 DEF MayResolve
    <3>2. QED  BY <2>2, <2>3, <3>1, PrinterPlace DEF KeptStages, RefinedStage
  <2>4. CASE q.sit \notin {"unloading", "loading"}
    <3>1. resolved # "changing_filament" /\ resolved \in KeptStages(q.sit)
      BY <1>2, <1>4, <2>1, <2>4 DEF MayResolve, KeptStages, Sits
    <3>2. raw = resolved
      BY <2>2, <3>1 DEF RefinedStage
    <3>3. QED  BY <3>1, <3>2
  <2>5. QED  BY <2>3, <2>4
<1>5. ASSUME resolved = ""  PROVE raw \in KeptStages(q.sit)
  <2>1. raw = RefinedStage(kept, Full(q).tray)
    BY <1>1, <1>5
  <2>. DEFINE done == rt.rawStage \in FilamentStages /\ Full(q).tray = "seated" /\ ~Full(q).ams
  <2>2. kept = IF MeaningfulStage(rt.rawStage) /\ ~done THEN rt.rawStage ELSE ""
    BY DEF KeptStage
  <2>. HIDE DEF kept
  <2>3. q.sit \in Sits /\ p.sit \in Sits
    BY DEF Printers
  <2>4. q.sit \in {"preparing", "download", "preheat", "started", "printing", "warned", "between"}
    BY <1>2, <1>5, <2>3 DEF Sits, MayResolve
  <2>5. CASE q.sit = "preparing"
    <3>1. p.sit \in {"preparing", "idle", "broken", "cancelled", "finished"}
      BY <2>5, <1>3, CameFrom
    <3>2. rt.rawStage \in {"", "Idle", "Failed", "Stopped", "Finished"}
      BY <3>1, <1>3 DEF KeptStages
    <3>3. kept \in {"", "Stopped"}
      BY <2>2, <2>5, <3>2, PrinterPlace, PrinterAms DEF MeaningfulStage, FilamentStages
    <3>4. QED  BY <2>1, <2>5, <3>3 DEF KeptStages, RefinedStage
  <2>6. CASE q.sit = "between"
    <3>1. p.sit \in {"between", "loading", "prompt", "pausedUser"}
      BY <2>6, <1>3, CameFrom
    <3>2. rt.rawStage \in {"", "paused_user", "filament_loading", "Paused"}
      BY <3>1, <1>3 DEF KeptStages
    <3>3. kept \in {"", "paused_user"}
      BY <2>2, <2>6, <3>2, PrinterPlace, PrinterAms DEF MeaningfulStage, FilamentStages
    <3>4. QED  BY <2>1, <2>6, <3>3 DEF KeptStages, RefinedStage
  <2>7. CASE q.sit \in {"download", "preheat"}
    <3>1. p.sit = q.sit /\ rt.rawStage \in KeptStages(p.sit)
      <4>1. Full(p).stage = Full(q).stage /\ m # Full(p)
        BY <2>7, <1>2, <1>5 DEF MayResolve
      <4>2. p.sit = q.sit
        <5>1. q.sit = "download" => p.sit \in {"download", "preparing"}
          BY <1>3, CameFrom
        <5>2. q.sit = "preheat" => p.sit \in {"preheat", "download"}
          BY <1>3, CameFrom
        <5>3. QED  BY <2>7, <4>1, <5>1, <5>2, PrinterStage
      <4>3. QED  BY <1>3, <4>1, <4>2
    <3>2. kept = rt.rawStage
      BY <2>2, <2>7, <3>1 DEF MeaningfulStage, FilamentStages, KeptStages
    <3>3. QED  BY <2>1, <2>7, <3>1, <3>2 DEF KeptStages, RefinedStage
  <2>8. CASE q.sit \in {"started", "printing", "warned"}
    <3>1. p.sit \in {"started", "printing", "warned", "loading"}
      <4>1. Full(p).stage = Full(q).stage
        BY <2>8, <1>2, <1>5 DEF MayResolve
      <4>2. Full(q).stage = "printing"
        BY <2>8, PrinterStage
      <4>3. p.sit \in {"started", "preheat", "warned", "printing", "loading", "prompt",
                       "between", "pausedUser", "pausedIdle"}
        BY <2>8, <1>3, CameFrom
      <4>4. QED  BY <4>1, <4>2, <4>3, PrinterStage
    <3>2. rt.rawStage \in {"", "printing", "filament_loading"}
      BY <3>1, <1>3 DEF KeptStages
    <3>3. kept \in {"", "printing"}
      BY <2>2, <2>8, <3>2, PrinterPlace, PrinterAms DEF MeaningfulStage, FilamentStages
    <3>4. QED  BY <2>1, <2>8, <3>3 DEF KeptStages, RefinedStage
  <2>9. QED  BY <2>4, <2>5, <2>6, <2>7, <2>8
<1>6. QED  BY <1>4, <1>5 DEF raw

\* The fields after a report, but for the progress.
LEMMA LocalNowFields ==
  ASSUME NEW rt \in LocalStates, NEW m
  PROVE  /\ LocalNow(rt, m).status = Carried(m, "status", rt.status)
         /\ LocalNow(rt, m).latch = Carried(m, "ams", rt.latch)
         /\ LocalNow(rt, m).tray = Carried(m, "tray", rt.tray)
         /\ LocalNow(rt, m).err = Carried(m, "err", rt.err)
         /\ LocalNow(rt, m).hms = Carried(m, "hms", rt.hms)
         /\ LocalNow(rt, m).rawStage = LocalRaw(rt, m)
         /\ LocalNow(rt, m).stage = IF LocalRaw(rt, m) # "" THEN LocalRaw(rt, m) ELSE "idle"
         /\ LocalNow(rt, m).active = rt.active
         /\ LocalNow(rt, m).prog = rt.prog /\ LocalNow(rt, m).dl = rt.dl
BY DEF LocalStates, LocalNow

\* The error flags and the lifecycle after a report.
LEMMA LocalNowFlags ==
  ASSUME NEW rt \in LocalStates, NEW m
  PROVE  LET now == LocalNow(rt, m)
             status == Carried(m, "status", rt.status)
             err == Carried(m, "err", rt.err)
             hms == Carried(m, "hms", rt.hms)
             prompt == LocalRaw(rt, m) \in FilamentStages
         IN /\ now.hasErr = ((err /\ ~prompt) \/ LocalPauseFault(rt, m))
            /\ now.nonErr = (status = "FAILED" /\ ~err /\ ~hms)
            /\ now.life = IF LocalPauseFault(rt, m) THEN "error"
                          ELSE IF status = "FAILED" /\ ~(err /\ ~prompt) THEN "idle"
                          ELSE Lifecycle(status, err /\ ~prompt)
BY DEF LocalStates, LocalNow

\* After a report the client has heard all of q, whatever the progress.
LEMMA LocalNowHeard ==
  ASSUME NEW p \in Printers, NEW q \in Printers, NEW m, NEW rt, LocalReports(rt, m, p, q)
  PROVE  LocalHeard(LocalNow(rt, m), q)
<1>. DEFINE now == LocalNow(rt, m)
            raw == LocalRaw(rt, m)
            prompt == raw \in FilamentStages
            fault == LocalPauseFault(rt, m)
            status == Full(q).status
<1>1. rt \in LocalStates
  BY DEF LocalReports
<1>2. /\ now.status = status /\ now.latch = Full(q).ams /\ now.tray = Full(q).tray
      /\ now.err = Full(q).err /\ now.hms = Full(q).hms
      /\ now.rawStage = raw /\ now.stage = IF now.rawStage # "" THEN now.rawStage ELSE "idle"
  <2>1. /\ Carried(m, "status", rt.status) = Full(q).status
        /\ Carried(m, "ams", rt.latch) = Full(q).ams
        /\ Carried(m, "tray", rt.tray) = Full(q).tray
        /\ Carried(m, "err", rt.err) = Full(q).err
        /\ Carried(m, "hms", rt.hms) = Full(q).hms
    BY LocalCarried
  <2>2. now.status = status /\ now.latch = Full(q).ams /\ now.tray = Full(q).tray
    BY <1>1, <2>1, LocalNowFields
  <2>3. now.err = Full(q).err /\ now.hms = Full(q).hms
    BY <1>1, <2>1, LocalNowFields
  <2>4. now.rawStage = raw /\ now.stage = IF raw # "" THEN raw ELSE "idle"
    BY <1>1, LocalNowFields
  <2>. HIDE DEF now, raw
  <2>5. QED  BY <2>2, <2>3, <2>4
<1>3. /\ now.hasErr = ((Full(q).err /\ ~prompt) \/ fault)
      /\ now.nonErr = (status = "FAILED" /\ ~Full(q).err /\ ~Full(q).hms)
      /\ now.life = IF fault THEN "error"
                    ELSE IF status = "FAILED" /\ ~(Full(q).err /\ ~prompt) THEN "idle"
                    ELSE Lifecycle(status, Full(q).err /\ ~prompt)
  BY <1>1, LocalNowFlags, LocalCarried
<1>4. raw \in KeptStages(q.sit)
  BY LocalRawIs
<1>5. /\ q.sit \in Sits /\ p.sit \in Sits
      /\ p = q \/ q.sit \in Follows[p.sit]
  BY Moves DEF Printers, LocalReports
<1>6. /\ q.sit \in {"prompt", "fault"} => fault
      /\ fault => q.sit \in {"prompt", "fault", "pausedIdle"}
  <2>1. fault <=> /\ status = "PAUSE"
                  /\ \/ Full(q).err \/ LocalResolved(rt, m) = "paused_nozzle_clog"
                     \/ rt.hasErr /\ rt.status = "PAUSE"
    BY LocalCarried DEF LocalPauseFault
  <2>2. q.sit = "pausedUser" => LocalResolved(rt, m) # "paused_nozzle_clog"
    <3>1. Leads(m, p, q)
      BY DEF LocalReports
    <3>2. /\ Carried(m, "status", rt.status) = Full(q).status
          /\ Carried(m, "ams", rt.latch) = Full(q).ams
          /\ Carried(m, "err", rt.err) = Full(q).err
      BY LocalCarried
    <3>3. QED  BY <3>1, <3>2, LocalResolvedIs DEF MayResolve
  <2>3. q.sit = "pausedUser" => ~(rt.hasErr /\ rt.status = "PAUSE")
    <3>1. SUFFICES ASSUME q.sit = "pausedUser", rt.hasErr, rt.status = "PAUSE"
                   PROVE  FALSE
      OBVIOUS
    <3>2. LocalHeard(rt, p)
      BY <3>1 DEF LocalReports, LocalUntold
    <3>3. p.sit \in {"prompt", "fault", "broken", "pausedIdle"}
      BY <3>1, <3>2 DEF LocalHeard
    <3>4. p.sit \in {"pausedUser", "printing"}
      BY <1>5, <3>1, CameFrom
    <3>5. QED  BY <3>3, <3>4
  <2>4. status = "PAUSE" => q.sit \in {"prompt", "fault", "pausedUser", "pausedIdle"}
    BY <1>5, PrinterStatus DEF Sits
  <2>. HIDE DEF fault
  <2>5. QED  BY <2>1, <2>2, <2>3, <2>4, PrinterErr, PrinterStatus
<1>. HIDE DEF raw, fault, now
<1>7. q.sit = "broken" => ~prompt
  BY <1>4 DEF KeptStages, FilamentStages
<1>8. /\ q.sit \in {"prompt", "fault", "broken"} => now.hasErr
      /\ now.hasErr => q.sit \in {"prompt", "fault", "broken", "pausedIdle"}
  BY <1>3, <1>6, <1>7, PrinterErr
<1>9. now.nonErr <=> q.sit = "cancelled"
  BY <1>3, <1>5, PrinterErr, PrinterHms, PrinterStatus DEF Sits
<1>10. now.life = IF now.hasErr THEN "error"
                  ELSE IF q.sit = "cancelled" THEN "idle" ELSE Lifecycle(now.status, FALSE)
  <2>1. status = "FAILED" <=> q.sit \in {"broken", "cancelled"}
    BY <1>5, PrinterStatus DEF Sits
  <2>2. CASE fault
    BY <2>2, <1>3
  <2>3. CASE ~fault /\ Full(q).err /\ ~prompt
    BY <2>3, <1>3 DEF Lifecycle
  <2>4. CASE ~fault /\ ~(Full(q).err /\ ~prompt)
    BY <2>1, <2>4, <1>2, <1>3, <1>8, PrinterErr DEF Lifecycle
  <2>5. QED  BY <2>2, <2>3, <2>4
<1>11. QED  BY <1>2, <1>4, <1>8, <1>9, <1>10 DEF LocalHeard, now

\* What a printer reports is of the kinds the clients keep.
LEMMA FullType ==
  ASSUME NEW p \in Printers
  PROVE  /\ Full(p).status \in Statuses /\ Full(p).stage \in Stages /\ Full(p).tray \in Trays
         /\ Full(p).err \in BOOLEAN /\ Full(p).hms \in BOOLEAN /\ Full(p).ams \in BOOLEAN
         /\ Full(p).gen \in Percents /\ Full(p).dlp \in Percents
<1>1. p.sit \in Sits /\ p.gen \in Percents
  BY DEF Printers
<1>2. Full(p).status \in Statuses /\ Full(p).stage \in Stages
  BY <1>1, PrinterStatus, PrinterStage DEF Sits, Statuses, Stages
<1>3. Full(p).err \in BOOLEAN /\ Full(p).hms \in BOOLEAN /\ Full(p).ams \in BOOLEAN
  BY PrinterErr, PrinterHms, PrinterAms
<1>4. QED  BY <1>1, <1>2, <1>3, PrinterPlace, FullFields DEF Percents, Trays

\* So are the fields of every report under way.
LEMMA ReportType ==
  ASSUME NEW p \in Printers, NEW q \in Printers, NEW m, Leads(m, p, q)
  PROVE  /\ "status" \in DOMAIN m => m["status"] \in Statuses
         /\ "stage" \in DOMAIN m => m["stage"] \in Stages
         /\ "tray" \in DOMAIN m => m["tray"] \in Trays
         /\ "err" \in DOMAIN m => m["err"] \in BOOLEAN
         /\ "hms" \in DOMAIN m => m["hms"] \in BOOLEAN
         /\ "ams" \in DOMAIN m => m["ams"] \in BOOLEAN
         /\ "gen" \in DOMAIN m => m["gen"] \in Percents
         /\ "dlp" \in DOMAIN m => m["dlp"] \in Percents
BY LeadsCarried, FullType DEF Fields

(***************************************************************************)
(* What the local client takes for the percentage.                         *)
(***************************************************************************)
DownloadShown(rt) == EffectiveStage(rt) \in DownloadStages

\* The conditions of LocalProgress for a print that begins.
LocalNewCycle(rt, now, m, told) ==
  /\ "status" \in DOMAIN m
  /\ now.status \in ActiveStatus /\ rt.status \notin ActiveStatus
  /\ DownloadShown(now) \/ now.life = "preparing"
  /\ rt.life \in {"finished", "idle", "unknown", "error"}
  /\ ~(told.has /\ DownloadShown(now) /\ told.dl)

\* The three outcomes of the progress: a new cycle, the end of a download, what was told.
LEMMA LocalProgressIs ==
  ASSUME NEW rt, NEW now, NEW m, NEW told
  PROVE  LET count == LocalProgress(rt, now, m, told)
             prog == IF told.has THEN told.value ELSE rt.prog
             dl == IF told.has THEN told.dl ELSE rt.dl
             complete == dl /\ prog = 100
             leaving == DownloadShown(rt) /\ ~DownloadShown(now)
             first == \/ LocalNewCycle(rt, now, m, told)
                      \/ leaving /\ complete /\ (~told.has \/ told.dl)
             second == \/ ~DownloadShown(now) /\ EffectiveStage(now) \in HandoffStages /\ complete
                       \/ leaving /\ ~told.has
         IN /\ first => count = [prog |-> 0, dl |-> DownloadShown(now)]
            /\ ~first /\ second => count = [prog |-> 0, dl |-> FALSE]
            /\ ~first /\ ~second => count = [prog |-> prog, dl |-> dl]
BY DEF LocalProgress, LocalNewCycle, DownloadShown

\* A report leaves the local state in its type.
LEMMA LocalType ==
  ASSUME NEW p \in Printers, NEW q \in Printers, NEW m, Leads(m, p, q), NEW rt \in LocalStates
  PROVE  /\ LocalNow(rt, m) \in LocalStates
         /\ LocalReport(rt, m) \in LocalStates
<1>. DEFINE status == Carried(m, "status", rt.status)
            tray == Carried(m, "tray", rt.tray)
            ams == Carried(m, "ams", rt.latch)
            err == Carried(m, "err", rt.err)
            hms == Carried(m, "hms", rt.hms)
            number == StageNumber(m, ams)
            resolved == LocalResolved(rt, m)
            raw == LocalRaw(rt, m)
            now == LocalNow(rt, m)
            count == LocalCount(rt, m)
<1>1. /\ status \in Statuses /\ tray \in Trays
      /\ ams \in BOOLEAN /\ err \in BOOLEAN /\ hms \in BOOLEAN
  BY ReportType DEF Carried, LocalStates
<1>2. number \in Stages
  BY ReportType DEF StageNumber, Carried, Stages
<1>3. resolved = ResolvedStage(status, number, err)
  BY DEF LocalResolved
<1>4. resolved \in Stages
  <2>. HIDE DEF status, number, err, resolved
  <2>1. QED  BY <1>1, <1>2, <1>3 DEF ResolvedStage, Stages
<1>5. KeptStage(rt, tray, ams) \in Stages
  BY DEF KeptStage, LocalStates, Stages
<1>6. raw \in Stages
  BY <1>4, <1>5 DEF LocalRaw, RefinedStage, Stages
<1>7. now.life \in Lives /\ now.hasErr \in BOOLEAN /\ now.nonErr \in BOOLEAN
  BY LocalNowFlags DEF Lifecycle, Lives
<1>8. now \in LocalStates
  <2>1. now = [rt EXCEPT !.status = now.status, !.latch = now.latch, !.tray = now.tray,
                         !.err = now.err, !.hms = now.hms, !.rawStage = now.rawStage,
                         !.stage = now.stage, !.hasErr = now.hasErr,
                         !.nonErr = now.nonErr, !.life = now.life]
    BY DEF LocalNow, LocalStates
  <2>2. /\ now.status \in Statuses /\ now.tray \in Trays /\ now.rawStage \in Stages
        /\ now.stage \in Stages
        /\ now.latch \in BOOLEAN /\ now.err \in BOOLEAN /\ now.hms \in BOOLEAN
    BY <1>1, <1>6, LocalNowFields DEF Stages
  <2>. HIDE DEF now
  <2>3. QED  BY <1>7, <2>1, <2>2 DEF LocalStates
<1>9. count.prog \in Percents /\ count.dl \in BOOLEAN
  <2>. DEFINE told == Progress(m, \/ LocalResolved(rt, m) \in DownloadStages
                                  \/ rt.life = "preparing" \/ rt.dl)
  <2>1. told.has \in BOOLEAN /\ told.value \in Percents /\ told.dl \in BOOLEAN
    BY ReportType DEF Progress, Percents
  <2>2. count = LocalProgress(rt, now, m, told)
    BY DEF LocalCount
  <2>. HIDE DEF told, now, count
  <2>. DEFINE shown == DownloadShown(now)
              prog == IF told.has THEN told.value ELSE rt.prog
              dl == IF told.has THEN told.dl ELSE rt.dl
  <2>3. \/ count = [prog |-> 0, dl |-> shown] \/ count = [prog |-> 0, dl |-> FALSE]
        \/ count = [prog |-> prog, dl |-> dl]
    BY <2>2, LocalProgressIs
  <2>4. shown \in BOOLEAN
    BY DEF DownloadShown
  <2>5. prog \in Percents /\ dl \in BOOLEAN
    BY <2>1 DEF LocalStates
  <2>. HIDE DEF shown, prog, dl
  <2>6. \A n, d : count = [prog |-> n, dl |-> d] => count.prog = n /\ count.dl = d
    OBVIOUS
  <2>7. 0 \in Percents /\ FALSE \in BOOLEAN
    BY DEF Percents
  <2>8. QED  BY <2>3, <2>4, <2>5, <2>6, <2>7, Zenon
<1>10. QED
  <2>. HIDE DEF now, count
  <2>1. LocalReport(rt, m) = [now EXCEPT !.prog = count.prog, !.dl = count.dl]
    BY LocalReportIs DEF now, count
  <2>2. QED  BY <1>8, <1>9, <2>1 DEF LocalStates, now

\* After a report the local client has heard all of q.
LEMMA LocalReportHeard ==
  ASSUME NEW p \in Printers, NEW q \in Printers, NEW m, NEW rt, LocalReports(rt, m, p, q)
  PROVE  LocalHeard(LocalReport(rt, m), q)
<1>. DEFINE now == LocalNow(rt, m)
            count == LocalCount(rt, m)
<1>1. now \in LocalStates
  BY LocalType DEF LocalReports
<1>2. LocalHeard(now, q)
  BY LocalNowHeard
<1>3. LocalReport(rt, m) = [now EXCEPT !.prog = count.prog, !.dl = count.dl]
  BY LocalReportIs
<1>. HIDE DEF now, count
<1>. DEFINE r == [now EXCEPT !.prog = count.prog, !.dl = count.dl]
<1>4. /\ r.status = now.status /\ r.latch = now.latch /\ r.tray = now.tray
      /\ r.err = now.err /\ r.hms = now.hms /\ r.rawStage = now.rawStage
      /\ r.stage = now.stage /\ r.hasErr = now.hasErr /\ r.nonErr = now.nonErr
      /\ r.life = now.life
  BY <1>1 DEF LocalStates
<1>. HIDE DEF r
<1>5. LocalHeard(r, q)
  BY <1>2, <1>4 DEF LocalHeard
<1>6. QED  BY <1>3, <1>5 DEF r

\* The percentage of the print, or of its download.
Expected(p) ==
  CASE p.sit \in {"preparing", "preheat"} -> 0
    [] p.sit = "download" -> 50
    [] OTHER -> p.gen

\* A local client that heard all of p has the percentage right, and takes it for a
\* download's only if it may be.
LocalCounted(rt, p) ==
  /\ rt.prog = Expected(p) \/ (p.sit = "cancelled" /\ rt.prog = 0)
  /\ rt.dl => p.sit \in {"download", "preparing"}
  /\ p.sit = "download" => rt.dl

\* What a client that heard all takes for a download and for a preparation.
LEMMA HeardStage ==
  ASSUME NEW p \in Printers, NEW rt, LocalHeard(rt, p)
  PROVE  /\ DownloadShown(rt) <=> p.sit = "download"
         /\ p.sit = "preheat" => EffectiveStage(rt) \in HandoffStages
         /\ p.sit \in {"preparing", "download", "preheat"} => rt.life = "preparing"
         /\ p.sit \notin {"preparing", "download", "preheat"} => rt.life # "preparing"
<1>1. p.sit \in Sits
  BY DEF Printers
<1>2. /\ rt.rawStage \in KeptStages(p.sit)
      /\ rt.stage = IF rt.rawStage # "" THEN rt.rawStage ELSE "idle"
  BY DEF LocalHeard
<1>3. EffectiveStage(rt) = rt.stage
  BY <1>2 DEF EffectiveStage
<1>4. EffectiveStage(rt) \in DownloadStages <=> p.sit = "download"
  BY <1>1, <1>2, <1>3 DEF KeptStages, DownloadStages, Sits
<1>5. p.sit = "preheat" => EffectiveStage(rt) \in HandoffStages
  BY <1>2, <1>3 DEF KeptStages, HandoffStages, PreheatStages
<1>6. /\ rt.hasErr => p.sit \in {"prompt", "fault", "broken", "pausedIdle"}
      /\ rt.life = IF rt.hasErr THEN "error"
               ELSE IF p.sit = "cancelled" THEN "idle" ELSE Lifecycle(rt.status, FALSE)
      /\ rt.status = Full(p).status
  BY DEF LocalHeard
<1>7. Full(p).status = "PREPARE" <=> p.sit \in {"preparing", "download", "preheat"}
  BY <1>1, PrinterStatus DEF Sits
<1>8. QED  BY <1>4, <1>5, <1>6, <1>7 DEF DownloadShown, Lifecycle

\* What the merge of the two percentages must leave a client with.
LocalCounts(p, count) ==
  /\ count.prog = Expected(p) \/ (p.sit = "cancelled" /\ count.prog = 0)
  /\ count.dl => p.sit \in {"download", "preparing"}
  /\ p.sit = "download" => count.dl

\* The progress as counted is the progress of the state.
LEMMA LocalCountsIt ==
  ASSUME NEW p \in Printers, NEW rt, NEW m,
         LocalNow(rt, m) \in LocalStates, LocalCounts(p, LocalCount(rt, m))
  PROVE  LocalCounted(LocalReport(rt, m), p)
<1>. DEFINE now == LocalNow(rt, m)
            count == LocalCount(rt, m)
            r == [now EXCEPT !.prog = count.prog, !.dl = count.dl]
<1>1. LocalReport(rt, m) = r
  BY LocalReportIs
<1>2. r.prog = count.prog /\ r.dl = count.dl
  <2>1. now \in LocalStates
    OBVIOUS
  <2>. HIDE DEF now, count
  <2>2. QED  BY <2>1 DEF LocalStates
<1>3. LocalCounts(p, count)
  OBVIOUS
<1>. HIDE DEF r, count
<1>4. LocalCounted(r, p)
  BY <1>2, <1>3 DEF LocalCounted, LocalCounts
<1>5. QED  BY <1>1, <1>4

\* A full report sets the percentage right, unless a client that is downloading or preparing
\* hears it of a printer that is not.
LEMMA FullCounted ==
  ASSUME NEW p \in Printers, NEW rt, LocalReports(rt, Full(p), p, p),
         rt.dl \/ rt.life = "preparing" => Full(p).status = "PREPARE"
  PROVE  LocalCounted(LocalReport(rt, Full(p)), p)
<1>. DEFINE m == Full(p)
            now == LocalNow(rt, m)
            downloading == \/ LocalResolved(rt, m) \in DownloadStages
                           \/ rt.life = "preparing" \/ rt.dl
            told == Progress(m, downloading)
            count == LocalCount(rt, m)
<1>1. /\ DownloadShown(now) <=> p.sit = "download"
      /\ p.sit = "preheat" => EffectiveStage(now) \in HandoffStages
      /\ p.sit \in {"preparing", "download", "preheat"} => now.life = "preparing"
      /\ p.sit \notin {"preparing", "download", "preheat"} => now.life # "preparing"
      /\ now.status = Full(p).status
  <2>1. LocalHeard(now, p)
    BY LocalNowHeard
  <2>. HIDE DEF now
  <2>2. QED  BY <2>1, HeardStage DEF LocalHeard
<1>2. /\ told.has = TRUE
      /\ downloading => told.value = Full(p).dlp /\ told.dl = TRUE
      /\ ~downloading => told.value = p.gen /\ told.dl = FALSE
  BY FullFields DEF Progress, Fields
<1>3. /\ p.sit = "download" => downloading
      /\ p.sit \notin {"preparing", "download", "preheat"} => ~downloading
  <2>1. Leads(m, p, p)
    BY DEF Leads
  <2>2. /\ Carried(m, "status", rt.status) = Full(p).status
        /\ Carried(m, "ams", rt.latch) = Full(p).ams
        /\ Carried(m, "err", rt.err) = Full(p).err
    BY LocalCarried
  <2>3. p.sit \in Sits
    BY DEF Printers
  <2>4. LocalResolved(rt, m) \in DownloadStages <=> p.sit = "download"
    <3>1. /\ p.sit = "download" => LocalResolved(rt, m) \in {"", "model_download"}
          /\ LocalResolved(rt, m) = "" => p.sit \in {"preparing", "between"}
          /\ LocalResolved(rt, m) = "model_download" => p.sit = "download"
      BY <2>1, <2>2, LocalResolvedIs DEF MayResolve
    <3>2. QED  BY <3>1 DEF DownloadStages
  <2>5. Full(p).status = "PREPARE" => p.sit \in {"preparing", "download", "preheat"}
    BY <2>3, PrinterStatus DEF Sits
  <2>6. QED  BY <2>4, <2>5
<1>4. LocalHeard(rt, p) \/ LocalUntold(rt)
  BY DEF LocalReports
<1>5. DownloadShown(rt) => p.sit = "download"
  BY <1>4, HeardStage DEF LocalUntold, DownloadShown, EffectiveStage, DownloadStages
<1>6. count = LocalProgress(rt, now, m, told)
  BY DEF LocalCount
<1>7. now \in LocalStates
  <2>1. Leads(m, p, p) /\ rt \in LocalStates
    BY DEF Leads, LocalReports
  <2>2. QED  BY <2>1, LocalType
<1>8. /\ "status" \in DOMAIN m
      /\ p.sit \in {"preparing", "download", "preheat"} => Full(p).status = "PREPARE"
  BY FullFields, PrinterStatus DEF Fields
<1>9. ~downloading /\ LocalHeard(rt, p) => p.sit \notin {"preparing", "download", "preheat"}
  BY HeardStage
<1>10. LocalCounts(p, count)
  <2>. HIDE DEF m, now, downloading, told, count
  <2>1. CASE p.sit = "download"
    <3>1. ~LocalNewCycle(rt, now, m, told)
      BY <1>1, <1>2, <1>3, <2>1 DEF LocalNewCycle
    <3>2. count = [prog |-> told.value, dl |-> told.dl]
      BY <1>1, <1>2, <1>3, <1>6, <2>1, <3>1, LocalProgressIs
    <3>3. told.value = 50 /\ told.dl = TRUE
      BY <1>2, <1>3, <2>1, PrinterPlace
    <3>4. count.prog = 50 /\ count.dl = TRUE
      BY <3>2, <3>3
    <3>5. QED  BY <2>1, <3>4 DEF LocalCounts, Expected
  <2>2. CASE p.sit = "preparing" /\ downloading
    <3>1. told.has = TRUE /\ told.value = 0 /\ told.dl = TRUE
      BY <1>2, <2>2, PrinterPlace
    <3>2. \/ count = [prog |-> 0, dl |-> DownloadShown(now)]
          \/ count = [prog |-> 0, dl |-> FALSE]
          \/ count = [prog |-> told.value, dl |-> told.dl]
      BY <1>6, <3>1, LocalProgressIs
    <3>3. count.prog = 0
      BY <3>1, <3>2
    <3>4. QED  BY <2>2, <3>3 DEF LocalCounts, Expected
  <2>3. CASE p.sit = "preheat" /\ downloading
    <3>1. told.has = TRUE /\ told.value = 100 /\ told.dl = TRUE
      BY <1>2, <2>3, PrinterPlace
    <3>2. \/ count = [prog |-> 0, dl |-> DownloadShown(now)]
          \/ count = [prog |-> 0, dl |-> FALSE]
      BY <1>1, <1>6, <2>3, <3>1, LocalProgressIs
    <3>3. DownloadShown(now) = FALSE
      BY <1>1, <2>3 DEF DownloadShown
    <3>4. count.prog = 0 /\ count.dl = FALSE
      BY <3>2, <3>3
    <3>5. QED  BY <2>3, <3>4 DEF LocalCounts, Expected
  <2>4. CASE p.sit \in {"preparing", "preheat"} /\ ~downloading
    <3>1. LocalUntold(rt)
      BY <1>4, <1>9, <2>4
    <3>2. LocalNewCycle(rt, now, m, told)
      BY <1>1, <1>8, <2>4, <3>1 DEF LocalNewCycle, LocalUntold, ActiveStatus
    <3>3. count = [prog |-> 0, dl |-> DownloadShown(now)]
      BY <1>6, <3>2, LocalProgressIs
    <3>4. DownloadShown(now) = FALSE
      BY <1>1, <2>4 DEF DownloadShown
    <3>5. count.prog = 0 /\ count.dl = FALSE
      BY <3>3, <3>4
    <3>6. QED  BY <2>4, <3>5 DEF LocalCounts, Expected
  <2>5. CASE p.sit \notin {"preparing", "download", "preheat"}
    <3>1. told.has = TRUE /\ told.value = p.gen /\ told.dl = FALSE
      BY <1>2, <1>3, <2>5
    <3>2. ~LocalNewCycle(rt, now, m, told)
      BY <1>1, <2>5 DEF LocalNewCycle
    <3>3. count = [prog |-> told.value, dl |-> told.dl]
      BY <1>1, <1>5, <1>6, <2>5, <3>1, <3>2, LocalProgressIs
    <3>4. count.prog = p.gen /\ count.dl = FALSE
      BY <3>1, <3>3
    <3>5. QED  BY <2>5, <3>4 DEF LocalCounts, Expected
  <2>6. QED  BY <2>1, <2>2, <2>3, <2>4, <2>5
<1>11. QED  BY <1>7, <1>10, LocalCountsIt

\* A delta carries the fields that differ, as they are now.
LEMMA DeltaFields ==
  ASSUME NEW p \in Printers, NEW q \in Printers
  PROVE  /\ DOMAIN Delta(p, q) \subseteq Fields
         /\ \A f \in Fields : f \in DOMAIN Delta(p, q) <=> Full(p)[f] # Full(q)[f]
         /\ \A f \in DOMAIN Delta(p, q) : Delta(p, q)[f] = Full(q)[f]
BY FullFields DEF Delta

\* A delta keeps the percentage right: no download and no earlier print bleeds into it.
LEMMA DeltaCounted ==
  ASSUME NEW p \in Printers, NEW q \in Printers, NEW rt, LocalReports(rt, Delta(p, q), p, q),
         LocalHeard(rt, p), LocalCounted(rt, p),
         q = p \/ (q.sit \in Follows[p.sit] /\ q.gen = Percentage(p.gen, q.sit))
  PROVE  LocalCounted(LocalReport(rt, Delta(p, q)), q)
<1>. DEFINE m == Delta(p, q)
            now == LocalNow(rt, m)
            downloading == \/ LocalResolved(rt, m) \in DownloadStages
                           \/ rt.life = "preparing" \/ rt.dl
            told == Progress(m, downloading)
            count == LocalCount(rt, m)
            preparation == {"preparing", "download", "preheat"}
<1>1. /\ DownloadShown(now) <=> q.sit = "download"
      /\ q.sit = "preheat" => EffectiveStage(now) \in HandoffStages
      /\ q.sit \in preparation => now.life = "preparing"
      /\ q.sit \notin preparation => now.life # "preparing"
      /\ DownloadShown(rt) <=> p.sit = "download"
  <2>1. LocalHeard(now, q)
    BY LocalNowHeard
  <2>. HIDE DEF now
  <2>2. QED  BY <2>1, HeardStage
<1>2. /\ "dlp" \in DOMAIN m <=> Full(p).dlp # Full(q).dlp
      /\ "gen" \in DOMAIN m <=> p.gen # q.gen
      /\ "status" \in DOMAIN m <=> Full(p).status # Full(q).status
      /\ "dlp" \in DOMAIN m => m.dlp = Full(q).dlp
      /\ "gen" \in DOMAIN m => m.gen = q.gen
  BY DeltaFields, FullFields DEF Fields
<1>3. /\ "dlp" \in DOMAIN m /\ "gen" \notin DOMAIN m =>
           told = [has |-> TRUE, value |-> Full(q).dlp, dl |-> TRUE]
      /\ "dlp" \notin DOMAIN m /\ "gen" \in DOMAIN m =>
           told = [has |-> TRUE, value |-> q.gen, dl |-> FALSE]
      /\ "dlp" \notin DOMAIN m /\ "gen" \notin DOMAIN m =>
           told = [has |-> FALSE, value |-> 0, dl |-> FALSE]
  BY <1>2 DEF Progress
<1>4. count = LocalProgress(rt, now, m, told)
  BY DEF LocalCount
<1>5. now \in LocalStates
  <2>1. Leads(m, p, q) /\ rt \in LocalStates
    BY DEF LocalReports
  <2>2. QED  BY <2>1, LocalType
<1>6. /\ p.sit \in Sits /\ q.sit \in Sits
      /\ q = p \/ q.sit \in Follows[p.sit]
      /\ q.sit \in {"preparing", "download", "preheat", "cancelled"} => q.gen = p.gen
      /\ q.sit = "started" => q.gen = 0
      /\ q.sit = "idle" => q.gen = 0
  BY DEF Printers, Percentage
<1>7. LocalCounts(q, count)
  <2>. HIDE DEF m, now, downloading, told, count
  <2>1. CASE q = p
    <3>1. told.has = FALSE
      BY <1>2, <1>3, <2>1
    <3>2. ~LocalNewCycle(rt, now, m, told)
      BY <1>2, <2>1 DEF LocalNewCycle
    <3>3. ~(rt.dl /\ rt.prog = 100)
      BY DEF LocalCounted, Expected
    <3>4. count = [prog |-> rt.prog, dl |-> rt.dl]
      BY <1>1, <1>4, <2>1, <3>1, <3>2, <3>3, LocalProgressIs
    <3>5. count.prog = rt.prog /\ count.dl = rt.dl
      BY <3>4
    <3>6. QED  BY <2>1, <3>5 DEF LocalCounts, LocalCounted
  <2>2. CASE q # p /\ q.sit = "preparing"
    <3>1. told.has = TRUE /\ told.value = 0
      BY <1>2, <1>3, <1>6, <2>2, Predecessors, PrinterPlace
    <3>2. \/ count = [prog |-> 0, dl |-> DownloadShown(now)]
          \/ count = [prog |-> 0, dl |-> FALSE]
          \/ count = [prog |-> told.value, dl |-> told.dl]
      BY <1>4, <3>1, LocalProgressIs
    <3>3. count.prog = 0
      BY <3>1, <3>2
    <3>4. QED  BY <2>2, <3>3 DEF LocalCounts, Expected
  <2>3. CASE q # p /\ q.sit = "download"
    <3>1. p.sit = "preparing"
      BY <1>6, <2>3, Predecessors
    <3>2. told.has = TRUE /\ told.value = 50 /\ told.dl = TRUE
      BY <1>2, <1>3, <1>6, <2>3, <3>1, PrinterPlace
    <3>3. ~LocalNewCycle(rt, now, m, told)
      BY <1>1, <2>3, <3>2 DEF LocalNewCycle
    <3>4. count = [prog |-> told.value, dl |-> told.dl]
      BY <1>1, <1>4, <2>3, <3>1, <3>2, <3>3, LocalProgressIs
    <3>5. count.prog = 50 /\ count.dl = TRUE
      BY <3>2, <3>4
    <3>6. QED  BY <2>3, <3>5 DEF LocalCounts, Expected
  <2>4. CASE q # p /\ q.sit = "preheat"
    <3>1. p.sit = "download"
      BY <1>6, <2>4, Predecessors
    <3>2. told = [has |-> TRUE, value |-> 100, dl |-> TRUE]
      BY <1>2, <1>3, <1>6, <2>4, <3>1, PrinterPlace
    <3>3. count = [prog |-> 0, dl |-> DownloadShown(now)]
      BY <1>1, <1>4, <2>4, <3>1, <3>2, LocalProgressIs
    <3>4. DownloadShown(now) = FALSE
      BY <1>1, <2>4 DEF DownloadShown
    <3>5. count.prog = 0 /\ count.dl = FALSE
      BY <3>3, <3>4
    <3>6. QED  BY <2>4, <3>5 DEF LocalCounts, Expected
  <2>5. CASE q # p /\ q.sit \notin {"preparing", "download", "preheat"}
    <3>1. p.sit \notin {"preparing", "download"}
      BY <1>6, <2>5, Predecessors DEF Sits
    <3>2. "dlp" \notin DOMAIN m
      BY <1>2, <2>5, <3>1, PrinterPlace
    <3>3. ~rt.dl
      BY <3>1 DEF LocalCounted
    <3>4. ~LocalNewCycle(rt, now, m, told)
      BY <1>1, <2>5 DEF LocalNewCycle
    <3>5. CASE q.gen # p.gen
      <4>1. told.has = TRUE /\ told.value = q.gen /\ told.dl = FALSE
        BY <1>2, <1>3, <3>2, <3>5
      <4>2. count = [prog |-> told.value, dl |-> told.dl]
        BY <1>1, <1>4, <2>5, <3>1, <3>4, <4>1, LocalProgressIs
      <4>3. count.prog = q.gen /\ count.dl = FALSE
        BY <4>1, <4>2
      <4>4. QED  BY <2>5, <4>3 DEF LocalCounts, Expected
    <3>6. CASE q.gen = p.gen
      <4>1. told = [has |-> FALSE, value |-> 0, dl |-> FALSE]
        BY <1>2, <1>3, <3>2, <3>6
      <4>2. count = [prog |-> rt.prog, dl |-> rt.dl]
        BY <1>1, <1>4, <2>5, <3>1, <3>3, <3>4, <4>1, LocalProgressIs
      <4>3. count.prog = rt.prog /\ count.dl = rt.dl
        BY <4>2
      <4>4. p.sit = "preheat" => q.sit \in {"started", "cancelled"}
        BY <1>6, <2>5, Predecessors DEF Sits
      <4>5. p.sit = "cancelled" => q.sit = "idle"
        BY <1>6, <2>5, Predecessors DEF Sits
      <4>6. rt.prog = p.gen \/ (p.sit \in {"preheat", "cancelled"} /\ rt.prog = 0)
        BY <3>1 DEF LocalCounted, Expected
      <4>7. rt.prog = q.gen \/ (q.sit = "cancelled" /\ rt.prog = 0)
        BY <1>6, <3>6, <4>4, <4>5, <4>6
      <4>8. QED  BY <2>5, <3>3, <4>3, <4>7 DEF LocalCounts, Expected
    <3>7. QED  BY <3>5, <3>6
  <2>6. QED  BY <2>1, <2>2, <2>3, <2>4, <2>5
<1>8. QED  BY <1>5, <1>7, LocalCountsIt

\* Only a full report has all fields: between two situations that follow each other some
\* field is the same.
LEMMA TellsInFull ==
  ASSUME NEW p \in Printers, NEW q \in Printers, NEW m, Leads(m, p, q), DOMAIN m = Fields
  PROVE  m = Full(p) /\ p = q
<1>1. SUFFICES ASSUME ~(m = Full(p) /\ p = q)
               PROVE  FALSE
  OBVIOUS
<1>2. Full(p).hms # Full(q).hms /\ Full(p).tray # Full(q).tray
  BY <1>1, LeadsCarried DEF Fields
<1>3. p # q /\ q.sit \in Follows[p.sit] /\ p.sit \in Sits
  BY <1>1, <1>2 DEF Leads, Printers
<1>4. "warned" \in {p.sit, q.sit}
  BY <1>2, PrinterHms
<1>5. p.sit \in {"unloading", "loading", "prompt"} \/ q.sit \in {"unloading", "loading", "prompt"}
  BY <1>2, PrinterPlace
<1>6. QED  BY <1>3, <1>4, <1>5, Predecessors

(***************************************************************************)
(* Reports under way: one after the other they lead from the printer as    *)
(* the client knows it to the printer as it is.                            *)
(***************************************************************************)
Reports == {Full(p) : p \in Printers} \union {Delta(p, q) : p \in Printers, q \in Printers}

Under(queue, first, last) ==
  \E path \in [0..Len(queue) -> Printers] :
    /\ path[0] = first /\ path[Len(queue)] = last
    /\ \A i \in 1..Len(queue) : Leads(queue[i], path[i - 1], path[i])

\* With nothing under way the client knows the printer as it is.
LEMMA UnderNothing ==
  ASSUME NEW p \in Printers
  PROVE  Under(<<>>, p, p)
<1>. DEFINE path == [i \in 0..0 |-> p]
<1>1. path \in [0..0 -> Printers] /\ path[0] = p
  OBVIOUS
<1>2. Len(<<>>) = 0 /\ 1..0 = {}
  OBVIOUS
<1>. HIDE DEF path
<1>3. QED  BY <1>1, <1>2 DEF Under

LEMMA NothingUnder ==
  ASSUME NEW p, NEW q, Under(<<>>, p, q)
  PROVE  p = q
BY DEF Under

\* One report that changes nothing.
LEMMA UnderOne ==
  ASSUME NEW p \in Printers, NEW m, Leads(m, p, p)
  PROVE  Under(<<m>>, p, p)
<1>. DEFINE path == [i \in 0..1 |-> p]
<1>1. path \in [0..1 -> Printers] /\ path[0] = p /\ path[1] = p
  OBVIOUS
<1>2. Len(<<m>>) = 1 /\ <<m>>[1] = m
  OBVIOUS
<1>. HIDE DEF path
<1>3. \A i \in 1..1 : Leads(<<m>>[i], path[i - 1], path[i])
  BY <1>1, <1>2
<1>4. QED  BY <1>1, <1>2, <1>3 DEF Under

\* The printer sends one more.
LEMMA UnderAppend ==
  ASSUME NEW queue \in Seq(Reports), NEW m \in Reports, NEW first, NEW p, NEW q \in Printers,
         Under(queue, first, p), Leads(m, p, q)
  PROVE  Under(Append(queue, m), first, q)
<1>. DEFINE n == Len(queue)
            longer == Append(queue, m)
<1>1. PICK path \in [0..n -> Printers] :
        /\ path[0] = first /\ path[n] = p
        /\ \A i \in 1..n : Leads(queue[i], path[i - 1], path[i])
  BY DEF Under
<1>. DEFINE further == [i \in 0..(n + 1) |-> IF i = n + 1 THEN q ELSE path[i]]
<1>2. /\ n \in Nat /\ Len(longer) = n + 1 /\ longer[n + 1] = m
      /\ \A i \in 1..n : longer[i] = queue[i]
  OBVIOUS
<1>3. further \in [0..(n + 1) -> Printers]
  BY <1>2
<1>4. further[0] = first /\ further[n] = p /\ further[n + 1] = q
  BY <1>1, <1>2
<1>5. \A i \in 0..n : further[i] = path[i]
  BY <1>2
<1>6. ASSUME NEW i \in 1..(n + 1)
      PROVE  Leads(longer[i], further[i - 1], further[i])
  <2>. HIDE DEF further, longer
  <2>1. CASE i = n + 1
    BY <1>2, <1>4, <2>1
  <2>2. CASE i \in 1..n
    <3>1. i - 1 \in 0..n /\ i \in 0..n
      BY <1>2, <2>2
    <3>2. QED  BY <1>1, <1>2, <1>5, <2>2, <3>1
  <2>3. QED  BY <1>2, <2>1, <2>2
<1>. HIDE DEF further, longer
<1>7. Under(longer, first, q)
  BY <1>2, <1>3, <1>4, <1>6 DEF Under
<1>8. QED  BY <1>7 DEF longer

\* The client takes the first, or it is lost.
LEMMA UnderTail ==
  ASSUME NEW queue \in Seq(Reports), queue # <<>>, NEW first, NEW last, Under(queue, first, last)
  PROVE  /\ first \in Printers
         /\ \E next \in Printers : Leads(Head(queue), first, next) /\ Under(Tail(queue), next, last)
<1>. DEFINE n == Len(queue)
            rest == Tail(queue)
<1>1. PICK path \in [0..n -> Printers] :
        /\ path[0] = first /\ path[n] = last
        /\ \A i \in 1..n : Leads(queue[i], path[i - 1], path[i])
  BY DEF Under
<1>2. /\ n \in Nat \ {0} /\ Len(rest) = n - 1 /\ Head(queue) = queue[1]
      /\ \A i \in 1..(n - 1) : rest[i] = queue[i + 1]
  OBVIOUS
<1>. DEFINE shorter == [i \in 0..(n - 1) |-> path[i + 1]]
<1>3. shorter \in [0..(n - 1) -> Printers]
  BY <1>2
<1>4. /\ shorter[0] = path[1] /\ shorter[n - 1] = last
      /\ \A i \in 0..(n - 1) : shorter[i] = path[i + 1]
  BY <1>1, <1>2
<1>5. ASSUME NEW i \in 1..(n - 1)
      PROVE  Leads(rest[i], shorter[i - 1], shorter[i])
  <2>. HIDE DEF shorter, rest
  <2>1. /\ i - 1 \in 0..(n - 1) /\ i \in 0..(n - 1) /\ i + 1 \in 1..n
        /\ (i - 1) + 1 = i /\ (i + 1) - 1 = i
    BY <1>2
  <2>2. Leads(queue[i + 1], path[i], path[i + 1])
    BY <1>1, <2>1
  <2>3. QED  BY <1>2, <1>4, <2>1, <2>2
<1>6. Leads(Head(queue), first, path[1]) /\ path[1] \in Printers /\ first \in Printers
  BY <1>1, <1>2
<1>. HIDE DEF shorter, rest
<1>7. Under(rest, path[1], last)
  BY <1>2, <1>3, <1>4, <1>5 DEF Under
<1>8. QED  BY <1>6, <1>7 DEF rest

(***************************************************************************)
(* What the cloud client has heard.                                        *)
(***************************************************************************)
CloudStates ==
  [life : Lives, status : Statuses, stage : Stages, rawStage : Stages,
   err : BOOLEAN, hms : BOOLEAN, hasErr : BOOLEAN, nonErr : BOOLEAN,
   prog : Percents, dl : BOOLEAN, active : BOOLEAN, connected : BOOLEAN,
   data : {"none", "recent", "old"}]

\* A cloud client that heard all of p, from a printer that names its stages or not.
CloudHeard(rt, p, names) ==
  /\ rt.status = Full(p).status /\ rt.err = Full(p).err /\ rt.hms = Full(p).hms
  /\ rt.rawStage = IF names THEN Full(p).stage ELSE ""
  /\ rt.stage = DefaultStage(rt.status, FALSE) \/ (names /\ rt.stage = Full(p).stage)
  /\ p.sit \in {"fault", "broken"} \/ (p.sit = "prompt" /\ ~names) => rt.hasErr
  /\ rt.hasErr => p.sit \in {"fault", "broken", "pausedIdle"} \/ (p.sit = "prompt" /\ ~names)
  /\ rt.nonErr <=> p.sit = "cancelled"
  /\ rt.life = Lifecycle(rt.status, FALSE)
  /\ p.sit = "idle" => rt.prog = 0 /\ ~rt.dl

\* CloudReport, part by part: what the report says, whether it clears the errors, the
\* errors and the progress after it.
CloudStatus(m) == Carried(m, "status", "")
CloudText(m, names) == IF names THEN Carried(m, "stage", "") ELSE ""
CloudNews(m, names) == CloudStatus(m) # "" \/ CloudText(m, names) # ""
CloudHealthy(m, names) ==
  CloudNews(m, names) /\ Lifecycle(CloudStatus(m), FALSE) \notin {"error", "unknown"}
CloudErr(rt, m, names) == Carried(m, "err", rt.err /\ ~CloudHealthy(m, names))
CloudHms(rt, m, names) == Carried(m, "hms", rt.hms /\ ~CloudHealthy(m, names))
CloudCount(rt, m, names) ==
  LET status == CloudStatus(m)
      text == CloudText(m, names)
      life == Lifecycle(status, FALSE)
      begun == life \in {"preparing", "printing"} /\ life # rt.life
      stage == CASE text # "" -> text
                 [] text = "" /\ status # "" -> DefaultStage(status, FALSE)
                 [] OTHER -> rt.stage
  IN CloudProgress(IF begun THEN [rt EXCEPT !.prog = 0, !.dl = FALSE] ELSE rt,
                   m, life, stage \in DownloadStages)

\* CloudReport, field by field: with a status, without, with a stage, and so on.
LEMMA CloudReportStatus ==
  ASSUME NEW rt \in CloudStates, NEW m, NEW names,
         CloudStatus(m) # ""
  PROVE  /\ CloudReport(rt, m, names).status = CloudStatus(m)
         /\ CloudReport(rt, m, names).life = Lifecycle(CloudStatus(m), FALSE)
BY DEF CloudReport, CloudStates, CloudStatus, CloudText

LEMMA CloudReportNoStatus ==
  ASSUME NEW rt \in CloudStates, NEW m, NEW names,
         CloudStatus(m) = ""
  PROVE  CloudReport(rt, m, names).status = rt.status /\ CloudReport(rt, m, names).life = rt.life
BY DEF CloudReport, CloudStates, CloudStatus, CloudText

LEMMA CloudReportText ==
  ASSUME NEW rt \in CloudStates, NEW m, NEW names,
         CloudText(m, names) # ""
  PROVE  /\ CloudReport(rt, m, names).stage = CloudText(m, names)
         /\ CloudReport(rt, m, names).rawStage = CloudText(m, names)
BY DEF CloudReport, CloudStates, CloudStatus, CloudText

LEMMA CloudReportStatusOnly ==
  ASSUME NEW rt \in CloudStates, NEW m, NEW names,
         CloudText(m, names) = "",
         CloudStatus(m) # ""
  PROVE  /\ CloudReport(rt, m, names).rawStage = rt.rawStage
         /\ CloudReport(rt, m, names).stage = DefaultStage(CloudStatus(m), FALSE)
BY DEF CloudReport, CloudStates, CloudStatus, CloudText

LEMMA CloudReportNeither ==
  ASSUME NEW rt \in CloudStates, NEW m, NEW names,
         CloudText(m, names) = "",
         CloudStatus(m) = ""
  PROVE  /\ CloudReport(rt, m, names).rawStage = rt.rawStage
         /\ CloudReport(rt, m, names).stage = rt.stage
BY DEF CloudReport, CloudStates, CloudStatus, CloudText

CloudKeeps(r, rt, m, names) ==
  /\ r.err = CloudErr(rt, m, names)
  /\ r.hms = CloudHms(rt, m, names)
  /\ CloudNews(m, names) =>
       /\ r.nonErr = (CloudStatus(m) = "FAILED" /\ ~r.err /\ ~r.hms)
       /\ r.hasErr = \/ ~r.nonErr /\ r.life = "error"
                     \/ r.err /\ r.rawStage \notin FilamentStages
  /\ ~CloudNews(m, names) => r.nonErr = rt.nonErr /\ r.hasErr = rt.hasErr
  /\ r.prog = CloudCount(rt, m, names).prog
  /\ r.dl = CloudCount(rt, m, names).dl

\* The errors and the progress after a report.
LEMMA CloudReportFields ==
  ASSUME NEW rt \in CloudStates, NEW m, NEW names, NEW r, r = CloudReport(rt, m, names)
  PROVE  CloudKeeps(r, rt, m, names)
<1>. DEFINE status == CloudStatus(m)
            text == CloudText(m, names)
            news == CloudNews(m, names)
            err == CloudErr(rt, m, names)
            hms == CloudHms(rt, m, names)
            statusNow == IF status # "" THEN status ELSE rt.status
            life == IF status # "" THEN Lifecycle(status, FALSE) ELSE rt.life
            raw == IF text # "" THEN text ELSE rt.rawStage
            nonErr == IF news THEN status = "FAILED" /\ ~err /\ ~hms ELSE rt.nonErr
            hasErr == IF news
                      THEN (~nonErr /\ life = "error") \/ (err /\ raw \notin FilamentStages)
                      ELSE rt.hasErr
            stage == CASE text # "" -> text
                       [] text = "" /\ status # "" -> DefaultStage(status, FALSE)
                       [] OTHER -> rt.stage
            prog == CloudCount(rt, m, names).prog
            dl == CloudCount(rt, m, names).dl
<1>1. r = [rt EXCEPT !.status = statusNow, !.life = life, !.stage = stage, !.rawStage = raw,
                     !.err = err, !.hms = hms, !.nonErr = nonErr, !.hasErr = hasErr,
                     !.prog = prog, !.dl = dl, !.connected = TRUE, !.data = "recent"]
  BY DEF CloudReport, CloudStatus, CloudText, CloudNews, CloudHealthy, CloudErr, CloudHms,
         CloudCount
<1>. HIDE DEF statusNow, life, stage, raw, err, hms, nonErr, hasErr, prog, dl
<1>2. /\ r.life = life /\ r.rawStage = raw /\ r.err = err /\ r.hms = hms
      /\ r.nonErr = nonErr /\ r.hasErr = hasErr /\ r.prog = prog /\ r.dl = dl
  BY <1>1 DEF CloudStates
<1>3. news => r.nonErr = (status = "FAILED" /\ ~r.err /\ ~r.hms)
  BY <1>2, Zenon DEF nonErr
<1>4. news => r.hasErr = \/ ~r.nonErr /\ r.life = "error"
                         \/ r.err /\ r.rawStage \notin FilamentStages
  BY <1>2, Zenon DEF hasErr
<1>5. ~news => r.nonErr = rt.nonErr /\ r.hasErr = rt.hasErr
  BY <1>2, Zenon DEF nonErr, hasErr
<1>6. QED  BY <1>2, <1>3, <1>4, <1>5 DEF err, hms, prog, dl, CloudKeeps

LEMMA CloudReportFacts ==
  ASSUME NEW rt \in CloudStates, NEW m, NEW names
  PROVE  /\ CloudReport(rt, m, names).err = CloudErr(rt, m, names)
         /\ CloudReport(rt, m, names).hms = CloudHms(rt, m, names)
         /\ CloudReport(rt, m, names).prog = CloudCount(rt, m, names).prog
         /\ CloudReport(rt, m, names).dl = CloudCount(rt, m, names).dl
<1>. DEFINE r == CloudReport(rt, m, names)
<1>1. CloudKeeps(r, rt, m, names)
  BY CloudReportFields
<1>. HIDE DEF r
<1>2. QED  BY <1>1 DEF CloudKeeps, r

\* The error flags change with a status or a stage,
LEMMA CloudReportFlags ==
  ASSUME NEW rt \in CloudStates, NEW m, NEW names,
         CloudNews(m, names)
  PROVE  /\ CloudReport(rt, m, names).nonErr =
              /\ CloudStatus(m) = "FAILED"
              /\ ~CloudReport(rt, m, names).err /\ ~CloudReport(rt, m, names).hms
         /\ CloudReport(rt, m, names).hasErr =
              \/ /\ ~CloudReport(rt, m, names).nonErr
                 /\ CloudReport(rt, m, names).life = "error"
              \/ /\ CloudReport(rt, m, names).err
                 /\ CloudReport(rt, m, names).rawStage \notin FilamentStages
<1>. DEFINE r == CloudReport(rt, m, names)
<1>1. CloudKeeps(r, rt, m, names)
  BY CloudReportFields
<1>. HIDE DEF r
<1>2. QED  BY <1>1 DEF CloudKeeps, r

\* and stay otherwise.
LEMMA CloudReportNoNews ==
  ASSUME NEW rt \in CloudStates, NEW m, NEW names,
         ~CloudNews(m, names)
  PROVE  /\ CloudReport(rt, m, names).nonErr = rt.nonErr
         /\ CloudReport(rt, m, names).hasErr = rt.hasErr
<1>. DEFINE r == CloudReport(rt, m, names)
<1>1. CloudKeeps(r, rt, m, names)
  BY CloudReportFields
<1>. HIDE DEF r
<1>2. QED  BY <1>1 DEF CloudKeeps, r

\* What the status of a printer says of its situation.
LEMMA StatusLife ==
  ASSUME NEW p \in Printers
  PROVE  /\ Full(p).status # ""
         /\ Lifecycle(Full(p).status, FALSE) # "unknown"
         /\ Lifecycle(Full(p).status, FALSE) = "error" <=> Full(p).status = "FAILED"
         /\ Full(p).status = "FAILED" <=> p.sit \in {"broken", "cancelled"}
         /\ Lifecycle(Full(p).status, FALSE) = "idle" <=> p.sit = "idle"
         /\ Full(p).status = "PREPARE" <=> p.sit \in {"preparing", "download", "preheat"}
<1>1. p.sit \in Sits
  BY DEF Printers
<1>2. QED  BY <1>1, PrinterStatus DEF Sits, Lifecycle

\* A printer that does not name its stages leaves the cloud client without one.
RawStages(names) == IF names THEN Stages ELSE {""}

\* After a full report the cloud client has heard all of the printer.
LEMMA CloudFullHeard ==
  ASSUME NEW p \in Printers, NEW names, NEW rt \in CloudStates,
         rt.rawStage \in RawStages(names),
         p.sit = "idle" => ~rt.dl
  PROVE  CloudHeard(CloudReport(rt, Full(p), names), p, names)
<1>. SUFFICES ASSUME NEW m, m = Full(p), NEW r, r = CloudReport(rt, m, names)
              PROVE  CloudHeard(r, p, names)
  OBVIOUS
<1>. DEFINE text == CloudText(m, names)
<1>1. /\ CloudStatus(m) = Full(p).status
      /\ text = IF names THEN Full(p).stage ELSE ""
      /\ CloudErr(rt, m, names) = Full(p).err /\ CloudHms(rt, m, names) = Full(p).hms
      /\ DOMAIN m = Fields
  BY FullFields DEF CloudStatus, CloudText, CloudErr, CloudHms, Carried, Fields
<1>2. CloudNews(m, names)
  BY <1>1, StatusLife DEF CloudNews
<1>3. Full(p).stage # ""
  BY PrinterStage DEF Printers, Sits
<1>4. /\ r.status = Full(p).status /\ r.life = Lifecycle(Full(p).status, FALSE)
      /\ r.stage = IF names THEN Full(p).stage ELSE DefaultStage(Full(p).status, FALSE)
      /\ r.rawStage = IF names THEN Full(p).stage ELSE ""
  <2>1. CloudStatus(m) # ""
    BY <1>1, StatusLife
  <2>2. r.status = CloudStatus(m) /\ r.life = Lifecycle(CloudStatus(m), FALSE)
    BY <2>1, CloudReportStatus
  <2>3. text # "" => r.stage = text /\ r.rawStage = text
    BY CloudReportText
  <2>4. ASSUME text = ""
        PROVE  r.rawStage = rt.rawStage /\ r.stage = DefaultStage(CloudStatus(m), FALSE)
    BY <2>1, <2>4, CloudReportStatusOnly
  <2>. HIDE DEF text
  <2>5. text = "" <=> ~names
    BY <1>1, <1>3
  <2>6. QED  BY <1>1, <2>2, <2>3, <2>4, <2>5 DEF RawStages
<1>5. /\ r.err = Full(p).err /\ r.hms = Full(p).hms
      /\ r.nonErr = (CloudStatus(m) = "FAILED" /\ ~r.err /\ ~r.hms)
      /\ r.hasErr = \/ ~r.nonErr /\ r.life = "error"
                    \/ r.err /\ r.rawStage \notin FilamentStages
  <2>. HIDE DEF text
  <2>1. r.err = CloudErr(rt, m, names) /\ r.hms = CloudHms(rt, m, names)
    BY CloudReportFacts
  <2>2. /\ r.nonErr = (CloudStatus(m) = "FAILED" /\ ~r.err /\ ~r.hms)
        /\ r.hasErr = \/ ~r.nonErr /\ r.life = "error"
                      \/ r.err /\ r.rawStage \notin FilamentStages
    BY <1>2, CloudReportFlags
  <2>3. QED  BY <1>1, <2>1, <2>2
<1>6. p.sit = "idle" => r.prog = 0 /\ r.dl = FALSE
  <2>. DEFINE count == CloudCount(rt, m, names)
  <2>1. SUFFICES ASSUME p.sit = "idle"
                 PROVE  r.prog = 0 /\ r.dl = FALSE
    OBVIOUS
  <2>2. /\ m.status = "IDLE" /\ m.stage = "idle" /\ m.gen = 0
        /\ CloudStatus(m) = "IDLE" /\ text \in {"", "idle"}
        /\ rt.dl = FALSE
    BY <1>1, <2>1, PrinterStatus, PrinterStage, FullFields DEF Printers, Percentage, CloudStates
  <2>. DEFINE stage == CASE text # "" -> text
                         [] text = "" /\ CloudStatus(m) # "" -> DefaultStage(CloudStatus(m), FALSE)
                         [] OTHER -> rt.stage
              downloading == stage \in DownloadStages
  <2>. HIDE DEF text
  <2>3. count = CloudProgress(rt, m, "idle", downloading) /\ downloading = FALSE
    <3>1. stage \in {"idle", "Idle"}
      BY <2>2 DEF DefaultStage
    <3>2. downloading = FALSE
      <4>. HIDE DEF stage
      <4>1. QED  BY <3>1 DEF DownloadStages
    <3>3. count = CloudProgress(rt, m, "idle", downloading)
      BY <2>2 DEF CloudCount, Lifecycle, text
    <3>4. QED  BY <3>2, <3>3
  <2>5. r.prog = count.prog /\ r.dl = count.dl
    BY CloudReportFacts
  <2>. HIDE DEF downloading, count
  <2>4. count = [prog |-> 0, dl |-> FALSE]
    BY <1>1, <2>2, <2>3 DEF CloudProgress, Progress, Fields
  <2>6. QED  BY <2>4, <2>5
<1>. HIDE DEF text
<1>7. r.nonErr <=> p.sit = "cancelled"
  BY <1>1, <1>5, StatusLife, PrinterErr, PrinterHms
<1>8. Full(p).err /\ r.rawStage \in FilamentStages <=> p.sit = "prompt" /\ names
  BY <1>4, PrinterErr, PrinterStage DEF FilamentStages
<1>9. /\ p.sit \in {"fault", "broken"} \/ (p.sit = "prompt" /\ ~names) => r.hasErr
      /\ r.hasErr => p.sit \in {"fault", "broken", "pausedIdle"} \/ (p.sit = "prompt" /\ ~names)
  BY <1>4, <1>5, <1>7, <1>8, StatusLife, PrinterErr
<1>10. QED  BY <1>4, <1>5, <1>6, <1>7, <1>9 DEF CloudHeard

\* After a delta the cloud client that had heard all of p has heard all of q.
LEMMA CloudDeltaHeard ==
  ASSUME NEW p \in Printers, NEW q \in Printers, NEW names, NEW rt \in CloudStates,
         CloudHeard(rt, p, names),
         q = p \/ (q.sit \in Follows[p.sit] /\ q.gen = Percentage(p.gen, q.sit))
  PROVE  CloudHeard(CloudReport(rt, Delta(p, q), names), q, names)
<1>. SUFFICES ASSUME NEW m, m = Delta(p, q), NEW r, r = CloudReport(rt, m, names)
              PROVE  CloudHeard(r, q, names)
  OBVIOUS
<1>. DEFINE text == CloudText(m, names)
            status == CloudStatus(m)
            news == CloudNews(m, names)
<1>1. /\ status # "" => status = Full(q).status
      /\ (status = "") <=> (Full(p).status = Full(q).status)
  <2>1. "status" \in Fields /\ Full(q).status # ""
    BY StatusLife DEF Fields
  <2>2. CASE Full(p).status = Full(q).status
    <3>1. "status" \notin DOMAIN m
      BY <2>1, <2>2, DeltaFields
    <3>2. status = ""
      BY <3>1 DEF CloudStatus, Carried
    <3>. HIDE DEF status
    <3>3. QED  BY <2>2, <3>2
  <2>3. CASE Full(p).status # Full(q).status
    <3>1. "status" \in DOMAIN m /\ m.status = Full(q).status
      <4>1. "status" \in DOMAIN m
        BY <2>1, <2>3, DeltaFields
      <4>2. QED  BY <4>1, DeltaFields
    <3>2. status = Full(q).status
      BY <3>1 DEF CloudStatus, Carried
    <3>. HIDE DEF status
    <3>3. QED  BY <2>1, <2>3, <3>2
  <2>4. QED  BY <2>2, <2>3
<1>2. /\ text # "" => names /\ text = Full(q).stage
      /\ names /\ text = "" => Full(p).stage = Full(q).stage
      /\ Full(p).stage = Full(q).stage => text = ""
  <2>1. "stage" \in Fields /\ Full(q).stage # ""
    BY PrinterStage DEF Printers, Sits, Fields
  <2>2. CASE Full(p).stage = Full(q).stage
    <3>1. "stage" \notin DOMAIN m
      BY <2>1, <2>2, DeltaFields
    <3>2. text = ""
      BY <3>1 DEF CloudText, Carried
    <3>. HIDE DEF text
    <3>3. QED  BY <2>2, <3>2
  <2>3. CASE Full(p).stage # Full(q).stage
    <3>1. "stage" \in DOMAIN m /\ m.stage = Full(q).stage
      <4>1. "stage" \in DOMAIN m
        BY <2>1, <2>3, DeltaFields
      <4>2. QED  BY <4>1, DeltaFields
    <3>2. text = IF names THEN Full(q).stage ELSE ""
      BY <3>1 DEF CloudText, Carried
    <3>. HIDE DEF text
    <3>3. QED  BY <2>1, <2>3, <3>2
  <2>4. QED  BY <2>2, <2>3
<1>3. /\ Full(p).err # Full(q).err => CloudErr(rt, m, names) = Full(q).err
      /\ Full(p).err = Full(q).err => CloudErr(rt, m, names) = (rt.err /\ ~CloudHealthy(m, names))
      /\ Full(p).hms # Full(q).hms => CloudHms(rt, m, names) = Full(q).hms
      /\ Full(p).hms = Full(q).hms => CloudHms(rt, m, names) = (rt.hms /\ ~CloudHealthy(m, names))
  BY DeltaFields DEF CloudErr, CloudHms, Carried, Fields
<1>4. news <=> status # "" \/ text # ""
  BY DEF CloudNews
<1>5. /\ status # "" => r.status = status /\ r.life = Lifecycle(status, FALSE)
      /\ status = "" => r.status = rt.status /\ r.life = rt.life
      /\ text # "" => r.stage = text /\ r.rawStage = text
      /\ text = "" /\ status # "" =>
           r.rawStage = rt.rawStage /\ r.stage = DefaultStage(status, FALSE)
      /\ text = "" /\ status = "" => r.rawStage = rt.rawStage /\ r.stage = rt.stage
  <2>1. ASSUME status # ""
        PROVE  r.status = status /\ r.life = Lifecycle(status, FALSE)
    BY <2>1, CloudReportStatus
  <2>2. ASSUME status = ""
        PROVE  r.status = rt.status /\ r.life = rt.life
    BY <2>2, CloudReportNoStatus
  <2>3. ASSUME text # ""
        PROVE  r.stage = text /\ r.rawStage = text
    BY <2>3, CloudReportText
  <2>4. ASSUME text = "", status # ""
        PROVE  r.rawStage = rt.rawStage /\ r.stage = DefaultStage(status, FALSE)
    BY <2>4, CloudReportStatusOnly
  <2>5. ASSUME text = "", status = ""
        PROVE  r.rawStage = rt.rawStage /\ r.stage = rt.stage
    BY <2>5, CloudReportNeither
  <2>. HIDE DEF text, status
  <2>6. QED  BY <2>1, <2>2, <2>3, <2>4, <2>5
<1>6. /\ r.err = CloudErr(rt, m, names) /\ r.hms = CloudHms(rt, m, names)
  BY CloudReportFacts
<1>7. /\ news => /\ r.nonErr = (status = "FAILED" /\ ~r.err /\ ~r.hms)
                 /\ r.hasErr = \/ ~r.nonErr /\ r.life = "error"
                               \/ r.err /\ r.rawStage \notin FilamentStages
      /\ ~news => r.nonErr = rt.nonErr /\ r.hasErr = rt.hasErr
  <2>1. ASSUME news
        PROVE  r.nonErr = (status = "FAILED" /\ ~r.err /\ ~r.hms)
    BY <2>1, CloudReportFlags
  <2>2. ASSUME news
        PROVE  r.hasErr = \/ ~r.nonErr /\ r.life = "error"
                          \/ r.err /\ r.rawStage \notin FilamentStages
    BY <2>2, CloudReportFlags
  <2>3. ASSUME ~news
        PROVE  r.nonErr = rt.nonErr /\ r.hasErr = rt.hasErr
    BY <2>3, CloudReportNoNews
  <2>. HIDE DEF news, status
  <2>4. QED  BY <2>1, <2>2, <2>3, Zenon
<1>8. p.sit \in Sits /\ q.sit \in Sits /\ (p = q \/ q.sit \in Follows[p.sit])
  BY DEF Printers
<1>9. CloudHealthy(m, names) => status # "" /\ status # "FAILED"
  BY DEF CloudHealthy, Lifecycle
<1>10. q.sit = "idle" => r.prog = 0 /\ r.dl = FALSE
  <2>. DEFINE count == CloudCount(rt, m, names)
              stage == CASE text # "" -> text
                         [] text = "" /\ status # "" -> DefaultStage(status, FALSE)
                         [] OTHER -> rt.stage
              downloading == stage \in DownloadStages
              life == Lifecycle(status, FALSE)
              begun == life \in {"preparing", "printing"} /\ life # rt.life
              base == IF begun THEN [rt EXCEPT !.prog = 0, !.dl = FALSE] ELSE rt
  <2>1. SUFFICES ASSUME q.sit = "idle"
                 PROVE  r.prog = 0 /\ r.dl = FALSE
    OBVIOUS
  <2>2. r.prog = count.prog /\ r.dl = count.dl
    BY CloudReportFacts
  <2>3. count = CloudProgress(base, m, life, downloading)
    BY DEF CloudCount
  <2>4. status \in {"", "IDLE"}
    BY <1>1, <2>1, PrinterStatus
  <2>5. life \in {"unknown", "idle"} /\ ~begun
    BY <2>4 DEF Lifecycle
  <2>6. base = rt
    BY <2>5
  <2>7. "dlp" \notin DOMAIN m /\ ("gen" \in DOMAIN m => m.gen = 0)
    <3>1. Full(p).dlp = Full(q).dlp
      BY <1>8, <2>1, Predecessors, PrinterPlace
    <3>2. q.gen = 0
      BY <2>1 DEF Printers, Percentage
    <3>3. QED  BY <3>1, <3>2, DeltaFields, FullFields DEF Fields
  <2>8. life = "unknown" => p = q
    BY <1>1, <1>8, <2>1, <2>4, Predecessors, PrinterStatus DEF Lifecycle
  <2>. HIDE DEF count, downloading, life, base
  <2>9. CASE life = "idle"
    <3>1. count = [prog |-> 0, dl |-> FALSE]
      BY <2>3, <2>7, <2>9 DEF CloudProgress, Progress
    <3>2. QED  BY <2>2, <3>1
  <2>10. CASE life = "unknown"
    <3>1. "gen" \notin DOMAIN m
      BY <2>8, <2>10, DeltaFields DEF Fields
    <3>2. count = [prog |-> rt.prog, dl |-> FALSE]
      BY <2>3, <2>6, <2>7, <2>10, <3>1 DEF CloudProgress, Progress
    <3>3. rt.prog = 0
      BY <2>1, <2>8, <2>10 DEF CloudHeard
    <3>4. QED  BY <2>2, <3>2, <3>3
  <2>11. QED  BY <2>5, <2>9, <2>10
<1>. HIDE DEF text, status, news
<1>11. r.status = Full(q).status /\ r.life = Lifecycle(Full(q).status, FALSE)
  BY <1>1, <1>5 DEF CloudHeard
<1>12. r.rawStage = IF names THEN Full(q).stage ELSE ""
  BY <1>2, <1>5 DEF CloudHeard
<1>13. r.stage = DefaultStage(r.status, FALSE) \/ (names /\ r.stage = Full(q).stage)
  BY <1>1, <1>2, <1>5, <1>11 DEF CloudHeard
<1>14. r.err = Full(q).err
  <2>1. CASE Full(p).err # Full(q).err
    BY <2>1, <1>3, <1>6
  <2>2. CASE Full(p).err = Full(q).err
    <3>1. rt.err = Full(q).err
      BY <2>2 DEF CloudHeard
    <3>2. Full(q).err = TRUE => ~CloudHealthy(m, names)
      <4>1. SUFFICES ASSUME Full(q).err = TRUE
                     PROVE  ~CloudHealthy(m, names)
        OBVIOUS
      <4>2. p.sit \in {"prompt", "fault", "broken"} /\ q.sit \in {"prompt", "fault", "broken"}
        BY <2>2, <4>1, PrinterErr
      <4>3. q.sit = "broken" \/ Full(p).status = Full(q).status
        <5>1. CASE q.sit = "broken"
          BY <5>1
        <5>2. CASE q.sit # "broken"
          <6>1. p.sit # "broken"
            BY <1>8, <4>2, <5>2, CameFrom
          <6>2. QED  BY <4>2, <5>2, <6>1, PrinterStatus
        <5>3. QED  BY <5>1, <5>2
      <4>4. status \in {"", "FAILED"}
        BY <1>1, <4>3, PrinterStatus
      <4>5. QED  BY <1>9, <4>4
    <3>3. Full(q).err \in BOOLEAN
      BY FullType
    <3>4. QED  BY <2>2, <3>1, <3>2, <3>3, <1>3, <1>6
  <2>3. QED  BY <2>1, <2>2
<1>15. r.hms = Full(q).hms
  <2>1. CASE Full(p).hms # Full(q).hms
    BY <2>1, <1>3, <1>6
  <2>2. CASE Full(p).hms = Full(q).hms
    <3>1. rt.hms = Full(q).hms
      BY <2>2 DEF CloudHeard
    <3>2. Full(q).hms = TRUE => ~CloudHealthy(m, names)
      <4>1. SUFFICES ASSUME Full(q).hms = TRUE
                     PROVE  ~CloudHealthy(m, names)
        OBVIOUS
      <4>2. p.sit = "warned" /\ q.sit = "warned"
        BY <2>2, <4>1, PrinterHms
      <4>3. p = q
        BY <1>8, <4>2, Predecessors
      <4>4. QED  BY <1>1, <1>9, <4>3
    <3>3. Full(q).hms \in BOOLEAN
      BY FullType
    <3>4. QED  BY <2>2, <3>1, <3>2, <3>3, <1>3, <1>6
  <2>3. QED  BY <2>1, <2>2
<1>16. p = q => ~news
  BY <1>1, <1>2, <1>4
<1>17. r.nonErr <=> q.sit = "cancelled"
  <2>1. q.sit = "cancelled" /\ p # q => status = "FAILED"
    BY <1>1, <1>8, Predecessors, PrinterStatus
  <2>2. p.sit = "cancelled" /\ p # q => status # ""
    <3>1. p.sit = "cancelled" /\ p # q => q.sit \in {"idle", "preparing"}
      BY <1>8, Predecessors DEF Sits
    <3>2. QED  BY <1>1, <3>1, PrinterStatus
  <2>3. CASE news
    <3>1. status = "FAILED" => q.sit \in {"broken", "cancelled"}
      BY <1>1, StatusLife
    <3>2. r.nonErr = (status = "FAILED" /\ ~Full(q).err /\ ~Full(q).hms)
      BY <1>7, <1>14, <1>15, <2>3
    <3>3. QED  BY <1>16, <2>1, <2>3, <3>1, <3>2, PrinterErr, PrinterHms
  <2>4. CASE ~news
    BY <1>4, <1>7, <2>1, <2>2, <2>4 DEF CloudHeard
  <2>5. QED  BY <2>3, <2>4
<1>18. /\ q.sit \in {"fault", "broken"} \/ (q.sit = "prompt" /\ ~names) => r.hasErr
       /\ r.hasErr => q.sit \in {"fault", "broken", "pausedIdle"} \/ (q.sit = "prompt" /\ ~names)
  <2>1. CASE news
    <3>1. r.hasErr = \/ ~r.nonErr /\ r.life = "error"
                     \/ r.err /\ r.rawStage \notin FilamentStages
      BY <1>7, <2>1
    <3>2. Full(q).err /\ r.rawStage \in FilamentStages <=> q.sit = "prompt" /\ names
      BY <1>12, PrinterErr, PrinterStage DEF FilamentStages
    <3>3. QED  BY <1>11, <1>14, <1>17, <3>1, <3>2, StatusLife, PrinterErr
  <2>2. CASE ~news /\ p # q
    <3>1. Full(p).status = Full(q).status /\ q.sit \in Follows[p.sit]
      BY <1>1, <1>4, <1>8, <2>2
    <3>2. q.sit \notin {"prompt", "fault", "broken"}
      BY <1>8, <3>1, Predecessors, PrinterStatus
    <3>3. p.sit \in {"fault", "broken", "pausedIdle", "prompt"} => q.sit = "pausedIdle"
      BY <1>8, <3>1, <3>2, Predecessors, PrinterStatus DEF Sits
    <3>4. r.hasErr => q.sit = "pausedIdle"
      BY <1>7, <2>2, <3>3 DEF CloudHeard
    <3>5. QED  BY <3>2, <3>4
  <2>3. CASE ~news /\ p = q
    BY <1>7, <2>3 DEF CloudHeard
  <2>4. QED  BY <2>1, <2>2, <2>3
<1>19. QED  BY <1>10, <1>11, <1>12, <1>13, <1>14, <1>15, <1>17, <1>18 DEF CloudHeard

\* A report leaves the live state of the cloud in its type, without a stage of its own if the
\* printer names none.
LEMMA CloudType ==
  ASSUME NEW p \in Printers, NEW q \in Printers, NEW m, Leads(m, p, q), NEW names,
         NEW rt \in CloudStates, rt.rawStage \in RawStages(names)
  PROVE  /\ CloudReport(rt, m, names) \in CloudStates
         /\ CloudReport(rt, m, names).rawStage \in RawStages(names)
<1>. DEFINE status == CloudStatus(m)
            text == CloudText(m, names)
            news == CloudNews(m, names)
            err == CloudErr(rt, m, names)
            hms == CloudHms(rt, m, names)
            statusNow == IF status # "" THEN status ELSE rt.status
            life == IF status # "" THEN Lifecycle(status, FALSE) ELSE rt.life
            raw == IF text # "" THEN text ELSE rt.rawStage
            nonErr == IF news THEN status = "FAILED" /\ ~err /\ ~hms ELSE rt.nonErr
            hasErr == IF news
                      THEN (~nonErr /\ life = "error") \/ (err /\ raw \notin FilamentStages)
                      ELSE rt.hasErr
            stage == CASE text # "" -> text
                       [] text = "" /\ status # "" -> DefaultStage(status, FALSE)
                       [] OTHER -> rt.stage
            prog == CloudCount(rt, m, names).prog
            dl == CloudCount(rt, m, names).dl
<1>1. CloudReport(rt, m, names) =
        [rt EXCEPT !.status = statusNow, !.life = life, !.stage = stage, !.rawStage = raw,
                   !.err = err, !.hms = hms, !.nonErr = nonErr, !.hasErr = hasErr,
                   !.prog = prog, !.dl = dl, !.connected = TRUE, !.data = "recent"]
  BY DEF CloudReport, CloudStatus, CloudText, CloudNews, CloudHealthy, CloudErr, CloudHms,
         CloudCount
<1>2. status \in Statuses
  BY ReportType DEF CloudStatus, Carried, Statuses
<1>3. /\ text \in Stages
      /\ text # "" => text \in RawStages(names)
  BY ReportType DEF CloudText, Carried, Stages, RawStages
<1>4. err \in BOOLEAN /\ hms \in BOOLEAN
  BY ReportType DEF CloudErr, CloudHms, Carried
<1>5. Lifecycle(status, FALSE) \in Lives /\ DefaultStage(status, FALSE) \in Stages
  BY DEF Lifecycle, Lives, DefaultStage, Stages
<1>6. prog \in Percents /\ dl \in BOOLEAN
  <2>. DEFINE begun == /\ Lifecycle(status, FALSE) \in {"preparing", "printing"}
                       /\ Lifecycle(status, FALSE) # rt.life
              base == IF begun THEN [rt EXCEPT !.prog = 0, !.dl = FALSE] ELSE rt
              told == Progress(m, \/ stage \in DownloadStages
                                  \/ Lifecycle(status, FALSE) = "preparing" \/ base.dl)
              value == IF Lifecycle(status, FALSE) = "finished" THEN 100 ELSE told.value
  <2>1. CloudCount(rt, m, names) =
          CloudProgress(base, m, Lifecycle(status, FALSE), stage \in DownloadStages)
    BY DEF CloudCount
  <2>2. told.value \in Percents /\ told.dl \in BOOLEAN
    BY ReportType DEF Progress, Percents
  <2>3. base.prog \in Percents /\ base.dl \in BOOLEAN
    BY DEF CloudStates, Percents
  <2>4. value \in Percents
    BY <2>2 DEF Percents
  <2>. HIDE DEF base
  <2>5. \/ CloudCount(rt, m, names) = [prog |-> value, dl |-> told.dl]
        \/ CloudCount(rt, m, names) = [prog |-> base.prog, dl |-> base.dl]
        \/ CloudCount(rt, m, names) = [prog |-> base.prog, dl |-> FALSE]
    BY <2>1 DEF CloudProgress
  <2>. DEFINE count == CloudCount(rt, m, names)
  <2>. HIDE DEF told, value
  <2>6. \A n, d : count = [prog |-> n, dl |-> d] => count.prog = n /\ count.dl = d
    <3>. HIDE DEF count
    <3>1. QED  OBVIOUS
  <2>7. QED  BY <2>2, <2>3, <2>4, <2>5, <2>6, Zenon
<1>. HIDE DEF status, text, news, err, hms, prog, dl
<1>7. statusNow \in Statuses /\ life \in Lives /\ raw \in Stages /\ raw \in RawStages(names)
  BY <1>2, <1>3, <1>5 DEF CloudStates
<1>8. stage \in Stages
  BY <1>3, <1>5 DEF CloudStates
<1>9. nonErr \in BOOLEAN
  BY <1>4 DEF CloudStates
<1>10. hasErr \in BOOLEAN
  <2>. HIDE DEF nonErr, life, raw
  <2>1. QED  BY <1>4 DEF CloudStates
<1>. HIDE DEF statusNow, life, stage, raw, nonErr, hasErr
<1>11. CloudReport(rt, m, names) \in CloudStates
  <2>. DEFINE told == [rt EXCEPT !.status = statusNow, !.life = life, !.stage = stage,
                                 !.rawStage = raw]
              cleared == [told EXCEPT !.err = err, !.hms = hms, !.nonErr = nonErr,
                                      !.hasErr = hasErr]
  <2>1. told \in CloudStates
    BY <1>7, <1>8 DEF CloudStates
  <2>2. CloudReport(rt, m, names) =
          [cleared EXCEPT !.prog = prog, !.dl = dl, !.connected = TRUE, !.data = "recent"]
    BY <1>1
  <2>. HIDE DEF told
  <2>3. cleared \in CloudStates
    BY <1>4, <1>9, <1>10, <2>1 DEF CloudStates
  <2>. HIDE DEF cleared
  <2>4. QED  BY <1>6, <2>2, <2>3 DEF CloudStates
<1>12. CloudReport(rt, m, names).rawStage = raw
  BY <1>1 DEF CloudStates
<1>13. QED  BY <1>7, <1>11, <1>12

(***************************************************************************)
(* What the cloud client publishes.                                        *)
(***************************************************************************)
\* A snapshot that says all the live state does, while that state is recent.
Says(s, rt) ==
  /\ s.connected = rt.connected /\ s.data = rt.data
  /\ rt.data = "recent" =>
       /\ s.life = rt.life /\ s.prog = rt.prog /\ s.dl = rt.dl
       /\ s.err = rt.err /\ s.hms = rt.hms /\ s.hasErr = rt.hasErr /\ s.nonErr = rt.nonErr
       /\ rt.status # "" => s.status = rt.status
       /\ rt.stage # "" => s.stage = rt.stage
       /\ rt.rawStage # "" => s.rawStage = rt.rawStage

\* What is published says what the live state does, while that is recent.
LEMMA PublishedSays ==
  ASSUME NEW s \in CloudStates, NEW rt \in CloudStates, NEW names,
         s.rawStage \in RawStages(names), rt.rawStage \in RawStages(names)
  PROVE  /\ Published(s, rt) \in CloudStates
         /\ Published(s, rt).rawStage \in RawStages(names)
         /\ Says(Published(s, rt), rt)
<1>. DEFINE recent == rt.data = "recent"
            told == /\ rt.connected \/ recent
                    /\ \/ rt.data # "none" \/ rt.prog > 0
                       \/ rt.life \in {"finished", "idle", "error"}
            status == IF recent /\ rt.status # "" THEN rt.status ELSE s.status
            raw == IF recent /\ rt.rawStage # "" THEN rt.rawStage ELSE s.rawStage
            stage == IF recent /\ rt.stage # "" THEN rt.stage ELSE s.stage
            life == IF told THEN rt.life ELSE s.life
            prog == IF told THEN rt.prog ELSE s.prog
            dl == IF told THEN rt.dl ELSE s.dl
            err == told /\ rt.err
            hms == told /\ rt.hms
            hasErr == told /\ rt.hasErr
            nonErr == told /\ rt.nonErr
<1>1. Published(s, rt) =
        [s EXCEPT !.connected = rt.connected, !.data = rt.data, !.status = status,
                  !.rawStage = raw, !.stage = stage, !.life = life, !.prog = prog, !.dl = dl,
                  !.err = err, !.hms = hms, !.hasErr = hasErr, !.nonErr = nonErr]
  BY DEF Published
<1>2. recent => told
  OBVIOUS
<1>. HIDE DEF told
<1>3. /\ status \in Statuses /\ raw \in Stages /\ raw \in RawStages(names) /\ stage \in Stages
      /\ life \in Lives /\ prog \in Percents /\ dl \in BOOLEAN
  BY DEF CloudStates
<1>4. err \in BOOLEAN /\ hms \in BOOLEAN /\ hasErr \in BOOLEAN /\ nonErr \in BOOLEAN
  OBVIOUS
<1>5. recent => /\ life = rt.life /\ prog = rt.prog /\ dl = rt.dl
                /\ err = rt.err /\ hms = rt.hms /\ hasErr = rt.hasErr /\ nonErr = rt.nonErr
                /\ rt.status # "" => status = rt.status
                /\ rt.stage # "" => stage = rt.stage
                /\ rt.rawStage # "" => raw = rt.rawStage
  BY <1>2 DEF CloudStates
<1>6. rt.connected \in BOOLEAN /\ rt.data \in {"none", "recent", "old"}
  BY DEF CloudStates
<1>. HIDE DEF status, raw, stage, life, prog, dl, err, hms, hasErr, nonErr
<1>7. Published(s, rt) \in CloudStates
  <2>. DEFINE said == [s EXCEPT !.connected = rt.connected, !.data = rt.data, !.status = status,
                                !.rawStage = raw]
              shown == [said EXCEPT !.stage = stage, !.life = life, !.prog = prog, !.dl = dl]
  <2>1. said \in CloudStates
    BY <1>3, <1>6 DEF CloudStates
  <2>2. Published(s, rt) = [shown EXCEPT !.err = err, !.hms = hms, !.hasErr = hasErr,
                                         !.nonErr = nonErr]
    BY <1>1
  <2>. HIDE DEF said
  <2>3. shown \in CloudStates
    BY <1>3, <2>1 DEF CloudStates
  <2>. HIDE DEF shown
  <2>. DEFINE marked == [shown EXCEPT !.err = err, !.hms = hms]
  <2>4. marked \in CloudStates
    BY <1>4, <2>3 DEF CloudStates
  <2>5. Published(s, rt) = [marked EXCEPT !.hasErr = hasErr, !.nonErr = nonErr]
    BY <2>2
  <2>. HIDE DEF marked
  <2>6. QED  BY <1>4, <2>4, <2>5 DEF CloudStates
<1>10. Published(s, rt).rawStage = raw
  BY <1>1 DEF CloudStates
<1>8. Says(Published(s, rt), rt)
  <2>1. /\ Published(s, rt).connected = rt.connected /\ Published(s, rt).data = rt.data
        /\ Published(s, rt).status = status /\ Published(s, rt).stage = stage
    BY <1>1 DEF CloudStates
  <2>2. /\ Published(s, rt).life = life /\ Published(s, rt).prog = prog
        /\ Published(s, rt).dl = dl
    BY <1>1 DEF CloudStates
  <2>3. /\ Published(s, rt).err = err /\ Published(s, rt).hms = hms
        /\ Published(s, rt).hasErr = hasErr /\ Published(s, rt).nonErr = nonErr
    BY <1>1 DEF CloudStates
  <2>4. QED  BY <1>5, <1>10, <2>1, <2>2, <2>3 DEF Says
<1>9. QED  BY <1>3, <1>7, <1>8, <1>10

\* So a client that heard all publishes all.
LEMMA SaysHeard ==
  ASSUME NEW p \in Printers, NEW names, NEW s \in CloudStates, NEW rt \in CloudStates,
         s.rawStage \in RawStages(names), Says(s, rt), rt.data = "recent",
         CloudHeard(rt, p, names)
  PROVE  CloudHeard(s, p, names)
<1>1. rt.status # "" /\ Full(p).stage # ""
  <2>1. p.sit \in Sits
    BY DEF Printers
  <2>2. rt.status # ""
    BY StatusLife DEF CloudHeard
  <2>3. QED  BY <2>1, <2>2, PrinterStage DEF Sits
<1>2. DefaultStage(rt.status, FALSE) # ""
  BY <1>1 DEF DefaultStage, CloudStates, Statuses
<1>3. rt.stage # ""
  BY <1>1, <1>2 DEF CloudHeard
<1>4. s.rawStage = rt.rawStage
  BY <1>1 DEF CloudHeard, Says, RawStages
<1>5. /\ s.status = rt.status /\ s.stage = rt.stage /\ s.life = rt.life
      /\ s.prog = rt.prog /\ s.dl = rt.dl
      /\ s.err = rt.err /\ s.hms = rt.hms /\ s.hasErr = rt.hasErr /\ s.nonErr = rt.nonErr
  BY <1>1, <1>3 DEF Says
<1>6. QED  BY <1>4, <1>5 DEF CloudHeard

(***************************************************************************)
(* What is shown: the resolver and the merge on sources that heard all.    *)
(***************************************************************************)
\* The fields the resolver and the merge read.
Keys ==
  {"life", "status", "stage", "rawStage", "err", "hms", "hasErr", "nonErr", "prog", "dl",
   "active"}

\* The stages a source may take a printer to be in.
FitStages(sit) ==
  CASE sit = "idle" -> IdleStages
    [] sit \in {"preparing", "download", "preheat"} -> Stages \ PausedStages
    [] sit \in {"started", "printing", "warned", "unloading", "loading"} ->
         Stages \ (PausedStages \union PreheatStages \union DownloadStages)
    [] sit = "between" -> Stages \ (PreheatStages \union DownloadStages)
    [] OTHER -> Stages

\* A state that says of the printer what it does: a source's, a resolved one, the merged one.
Fits(s, p) ==
  /\ Keys \subseteq DOMAIN s
  /\ s.status # "" /\ s.stage # ""
  /\ s.err = Full(p).err /\ s.hms = Full(p).hms
  /\ s.nonErr <=> p.sit = "cancelled"
  /\ p.sit # "cancelled" =>
       /\ s.status = Full(p).status
       /\ EffectiveStage(s) \in FitStages(p.sit)
       /\ p.sit \in {"fault", "broken"} => s.hasErr
       /\ s.hasErr => p.sit \in {"prompt", "fault", "broken", "pausedIdle"}
       /\ s.life = "finished" => p.sit = "finished"
       /\ p.sit = "idle" => s.prog = 0 /\ ~s.dl

\* What the resolver makes of a state, part by part.
ShownError(s) ==
  \/ s.hasErr \/ EffectiveStatus(s) = "FAILED"
  \/ s.err /\ EffectiveStage(s) \notin FilamentStages
ShownDone(s) == s.life = "finished" \/ EffectiveStatus(s) = "FINISH"
ShownPaused(s) == EffectiveStatus(s) = "PAUSE" \/ EffectiveStage(s) \in PausedStages
ShownPreparing(s) ==
  EffectiveStatus(s) = "PREPARE" \/ EffectiveStage(s) \in PreheatStages \union DownloadStages
ShownDownload(s) == s.dl /\ ~(s.prog = 100 /\ EffectiveStage(s) \in HandoffStages)
ShownActive(s) ==
  /\ EffectiveStatus(s) # "FAILED" /\ ~ShownDone(s)
  /\ \/ EffectiveStatus(s) \in ActiveStatus
     \/ s.prog \notin {0, 100}
     \/ ShownPaused(s) \/ ShownPreparing(s) \/ EffectiveStage(s) \in FilamentStages
     \/ ShownDownload(s)
     \/ EffectiveStage(s) \in PrintingStages
ShownLife(s) ==
  CASE ShownError(s) -> "error"
    [] ~ShownError(s) /\ ShownDone(s) -> "finished"
    [] ~ShownError(s) /\ ~ShownDone(s) /\ ShownPaused(s) -> "paused"
    [] ~ShownError(s) /\ ~ShownDone(s) /\ ~ShownPaused(s) /\ ShownPreparing(s) -> "preparing"
    [] ~ShownError(s) /\ ~ShownDone(s) /\ ~ShownPaused(s) /\ ~ShownPreparing(s)
         /\ ShownActive(s) -> "printing"
    [] OTHER -> IF EffectiveStage(s) \in IdleStages \/ EffectiveStatus(s) = "IDLE"
                THEN "idle" ELSE s.life

\* A stop that is no error is resolved to an idle printer,
LEMMA ResolveStop ==
  ASSUME NEW s, Keys \subseteq DOMAIN s, NonErrorStop(s)
  PROVE  /\ Keys \subseteq DOMAIN Resolve(s)
         /\ Resolve(s).life = "idle" /\ Resolve(s).status = "IDLE" /\ Resolve(s).stage = "Idle"
         /\ Resolve(s).err = s.err /\ Resolve(s).hms = s.hms /\ Resolve(s).nonErr = s.nonErr
BY DEF Resolve, Keys

\* and all else to the life, the error, the activity and the download worked out above.
LEMMA ResolveIs ==
  ASSUME NEW s, ~NonErrorStop(s)
  PROVE  Resolve(s) = [s EXCEPT !.life = ShownLife(s), !.hasErr = ShownError(s),
                                !.active = ShownActive(s), !.dl = ShownDownload(s)]
BY DEF Resolve, ShownLife, ShownError, ShownActive, ShownDownload, ShownDone, ShownPaused,
       ShownPreparing

LEMMA ResolveFields ==
  ASSUME NEW s, Keys \subseteq DOMAIN s, ~NonErrorStop(s)
  PROVE  /\ Keys \subseteq DOMAIN Resolve(s)
         /\ Resolve(s).life = ShownLife(s)
         /\ Resolve(s).hasErr = ShownError(s) /\ Resolve(s).dl = ShownDownload(s)
         /\ Resolve(s).status = s.status /\ Resolve(s).stage = s.stage
         /\ Resolve(s).rawStage = s.rawStage /\ Resolve(s).prog = s.prog
         /\ Resolve(s).err = s.err /\ Resolve(s).hms = s.hms /\ Resolve(s).nonErr = s.nonErr
<1>. DEFINE life == ShownLife(s)
            error == ShownError(s)
            active == ShownActive(s)
            dl == ShownDownload(s)
<1>1. Resolve(s) = [s EXCEPT !.life = life, !.hasErr = error, !.active = active, !.dl = dl]
  BY ResolveIs
<1>. HIDE DEF life, error, active, dl
<1>2. /\ Keys \subseteq DOMAIN Resolve(s)
      /\ Resolve(s).life = life
      /\ Resolve(s).hasErr = error /\ Resolve(s).dl = dl
      /\ Resolve(s).status = s.status /\ Resolve(s).stage = s.stage
      /\ Resolve(s).rawStage = s.rawStage /\ Resolve(s).prog = s.prog
      /\ Resolve(s).err = s.err /\ Resolve(s).hms = s.hms /\ Resolve(s).nonErr = s.nonErr
  BY <1>1 DEF Keys
<1>3. QED  BY <1>2 DEF life, error, dl

\* A state that fits is shown as what the printer does,
LEMMA FitsShown ==
  ASSUME NEW p \in Printers, NEW s, Fits(s, p)
  PROVE  Resolve(s).life \in MayShow(p.sit)
<1>1. p.sit \in Sits
  BY DEF Printers
<1>2. CASE p.sit = "cancelled"
  <2>1. NonErrorStop(s)
    BY <1>2, PrinterErr, PrinterHms DEF Fits, NonErrorStop
  <2>2. QED  BY <1>2, <2>1, ResolveStop DEF Fits, MayShow
<1>3. CASE p.sit # "cancelled"
  <2>. DEFINE stage == EffectiveStage(s)
  <2>1. /\ EffectiveStatus(s) = Full(p).status
        /\ s.err = Full(p).err
        /\ stage \in FitStages(p.sit)
        /\ p.sit \in {"fault", "broken"} => s.hasErr
        /\ s.hasErr => p.sit \in {"prompt", "fault", "broken", "pausedIdle"}
        /\ s.life = "finished" => p.sit = "finished"
        /\ p.sit = "idle" => s.prog = 0 /\ ~s.dl
    BY <1>3 DEF Fits, EffectiveStatus
  <2>2. Resolve(s).life = ShownLife(s)
    <3>1. ~NonErrorStop(s) /\ Keys \subseteq DOMAIN s
      BY <1>3 DEF Fits, NonErrorStop
    <3>2. QED  BY <3>1, ResolveFields
  <2>3. ShownError(s) => p.sit \in {"prompt", "fault", "broken", "pausedIdle"}
    BY <1>1, <1>3, <2>1, PrinterErr, PrinterStatus DEF ShownError, Sits
  <2>4. p.sit \in {"fault", "broken"} => ShownError(s)
    BY <2>1 DEF ShownError
  <2>5. ShownDone(s) <=> p.sit = "finished"
    BY <1>1, <1>3, <2>1, PrinterStatus DEF ShownDone, Sits
  <2>6. /\ p.sit \in {"prompt", "pausedUser", "pausedIdle"} => ShownPaused(s)
        /\ p.sit \in {"idle", "preparing", "download", "preheat", "started", "printing",
                      "warned", "unloading", "loading"} => ~ShownPaused(s)
    BY <2>1, PrinterStatus DEF ShownPaused, FitStages, IdleStages, PausedStages
  <2>7. /\ p.sit \in {"preparing", "download", "preheat"} => ShownPreparing(s)
        /\ p.sit \in {"idle", "started", "printing", "between", "warned", "unloading",
                      "loading"} => ~ShownPreparing(s)
    BY <2>1, PrinterStatus DEF ShownPreparing, FitStages, IdleStages, PreheatStages, DownloadStages
  <2>8. p.sit \in {"started", "printing", "between", "warned", "unloading", "loading"} =>
          ShownActive(s)
    BY <2>1, <2>5, PrinterStatus DEF ShownActive, ActiveStatus
  <2>9. p.sit = "idle" => ~ShownActive(s) /\ stage \in IdleStages
    BY <2>1, <2>6, <2>7, PrinterStatus
       DEF ShownActive, ActiveStatus, ShownDownload, FitStages, IdleStages, FilamentStages,
           PrintingStages
  <2>. HIDE DEF stage
  <2>10. ShownLife(s) \in MayShow(p.sit)
    BY <1>1, <1>3, <2>3, <2>4, <2>5, <2>6, <2>7, <2>8, <2>9 DEF ShownLife, MayShow, Sits, stage
  <2>11. QED  BY <2>2, <2>10
<1>4. QED  BY <1>2, <1>3

\* and resolved it fits still.
LEMMA ResolveFits ==
  ASSUME NEW p \in Printers, NEW s, Fits(s, p)
  PROVE  Fits(Resolve(s), p)
<1>1. p.sit \in Sits
  BY DEF Printers
<1>2. CASE p.sit = "cancelled"
  <2>1. NonErrorStop(s)
    BY <1>2, PrinterErr, PrinterHms DEF Fits, NonErrorStop
  <2>2. QED  BY <1>2, <2>1, ResolveStop DEF Fits
<1>3. CASE p.sit # "cancelled"
  <2>. DEFINE r == Resolve(s)
  <2>1. /\ Keys \subseteq DOMAIN r
        /\ r.hasErr = ShownError(s) /\ r.dl = ShownDownload(s)
        /\ r.status = s.status /\ r.stage = s.stage /\ r.rawStage = s.rawStage
        /\ r.prog = s.prog
        /\ r.err = s.err /\ r.hms = s.hms /\ r.nonErr = s.nonErr
    <3>1. ~NonErrorStop(s) /\ Keys \subseteq DOMAIN s
      BY <1>3 DEF Fits, NonErrorStop
    <3>2. QED  BY <3>1, ResolveFields
  <2>2. r.life = "finished" => p.sit = "finished"
    BY <1>1, FitsShown DEF MayShow, Sits
  <2>. HIDE DEF r
  <2>3. EffectiveStage(r) = EffectiveStage(s)
    BY <2>1 DEF EffectiveStage
  <2>4. EffectiveStatus(s) = Full(p).status
    BY <1>3 DEF Fits, EffectiveStatus
  <2>5. r.hasErr => p.sit \in {"prompt", "fault", "broken", "pausedIdle"}
    BY <1>1, <1>3, <2>1, <2>4, PrinterErr, PrinterStatus DEF ShownError, Sits, Fits
  <2>6. p.sit \in {"fault", "broken"} => r.hasErr
    BY <1>3, <2>1 DEF ShownError, Fits
  <2>7. p.sit = "idle" => r.prog = 0 /\ ~r.dl
    BY <2>1 DEF ShownDownload, Fits
  <2>8. Fits(r, p)
    BY <1>3, <2>1, <2>2, <2>3, <2>5, <2>6, <2>7 DEF Fits
  <2>9. QED  BY <2>8 DEF r
<1>4. QED  BY <1>2, <1>3

\* The local client that heard all fits,
LEMMA LocalFits ==
  ASSUME NEW p \in Printers, NEW rt \in LocalStates, LocalHeard(rt, p), LocalCounted(rt, p)
  PROVE  Fits(rt, p)
<1>1. p.sit \in Sits
  BY DEF Printers
<1>2. /\ rt.status = Full(p).status /\ rt.err = Full(p).err /\ rt.hms = Full(p).hms
      /\ rt.rawStage \in KeptStages(p.sit)
      /\ rt.stage = IF rt.rawStage # "" THEN rt.rawStage ELSE "idle"
      /\ p.sit \in {"fault", "broken"} => rt.hasErr
      /\ rt.hasErr => p.sit \in {"prompt", "fault", "broken", "pausedIdle"}
      /\ rt.nonErr <=> p.sit = "cancelled"
      /\ rt.life = IF rt.hasErr THEN "error"
                   ELSE IF p.sit = "cancelled" THEN "idle" ELSE Lifecycle(rt.status, FALSE)
  BY DEF LocalHeard
<1>3. rt.status # "" /\ rt.stage # "" /\ Keys \subseteq DOMAIN rt
  BY <1>2, StatusLife DEF LocalStates, Keys
<1>4. EffectiveStage(rt) = rt.stage
  BY <1>2 DEF EffectiveStage
<1>5. p.sit # "cancelled" => EffectiveStage(rt) \in FitStages(p.sit)
  <2>1. EffectiveStage(rt) \in Stages /\ FitStages(p.sit) \subseteq Stages
    BY <1>4 DEF LocalStates, FitStages, Stages, IdleStages
  <2>2. CASE p.sit = "idle"
    BY <1>2, <1>4, <2>2 DEF KeptStages, FitStages, IdleStages
  <2>3. CASE p.sit \in {"preparing", "download", "preheat"}
    BY <1>2, <1>4, <2>1, <2>3 DEF KeptStages, FitStages, PausedStages
  <2>4. CASE p.sit \in {"started", "printing", "warned", "unloading", "loading"}
    BY <1>2, <1>4, <2>1, <2>4
       DEF KeptStages, FitStages, PausedStages, PreheatStages, DownloadStages
  <2>5. CASE p.sit = "between"
    BY <1>2, <1>4, <2>1, <2>5 DEF KeptStages, FitStages, PreheatStages, DownloadStages
  <2>6. CASE p.sit \notin {"idle", "preparing", "download", "preheat", "started", "printing",
                           "warned", "unloading", "loading", "between"}
    BY <2>1, <2>6 DEF FitStages
  <2>7. QED  BY <2>2, <2>3, <2>4, <2>5, <2>6
<1>6. rt.life = "finished" => p.sit = "finished"
  BY <1>1, <1>2, PrinterStatus DEF Lifecycle, Sits
<1>7. p.sit = "idle" => rt.prog = 0 /\ ~rt.dl
  BY DEF LocalCounted, Expected, Printers, Percentage
<1>8. QED  BY <1>2, <1>3, <1>5, <1>6, <1>7 DEF Fits

\* and so does the cloud client.
LEMMA CloudFits ==
  ASSUME NEW p \in Printers, NEW names, NEW rt \in CloudStates, CloudHeard(rt, p, names)
  PROVE  Fits(rt, p)
<1>1. p.sit \in Sits
  BY DEF Printers
<1>2. /\ rt.status = Full(p).status /\ rt.err = Full(p).err /\ rt.hms = Full(p).hms
      /\ rt.rawStage \in {"", Full(p).stage}
      /\ rt.stage \in {DefaultStage(rt.status, FALSE), Full(p).stage}
      /\ p.sit \in {"fault", "broken"} => rt.hasErr
      /\ rt.hasErr => p.sit \in {"prompt", "fault", "broken", "pausedIdle"}
      /\ rt.nonErr <=> p.sit = "cancelled"
      /\ rt.life = Lifecycle(rt.status, FALSE)
      /\ p.sit = "idle" => rt.prog = 0 /\ ~rt.dl
  BY DEF CloudHeard
<1>3. rt.status # "" /\ Keys \subseteq DOMAIN rt
  BY <1>2, StatusLife DEF CloudStates, Keys
<1>4. Full(p).stage # ""
  BY <1>1, PrinterStage DEF Sits
<1>5. /\ DefaultStage(rt.status, FALSE) # ""
      /\ p.sit # "cancelled" => DefaultStage(rt.status, FALSE) \in FitStages(p.sit)
  <2>1. /\ p.sit = "idle" => DefaultStage(rt.status, FALSE) = "Idle"
        /\ p.sit \in {"preparing", "download", "preheat"} =>
             DefaultStage(rt.status, FALSE) = "Preparing"
        /\ p.sit \in {"started", "printing", "between", "warned", "unloading", "loading"} =>
             DefaultStage(rt.status, FALSE) = "Printing"
    BY <1>2, PrinterStatus DEF DefaultStage
  <2>2. /\ p.sit \in {"prompt", "pausedUser", "pausedIdle", "fault"} =>
             DefaultStage(rt.status, FALSE) = "Paused"
        /\ p.sit \in {"broken", "cancelled"} => DefaultStage(rt.status, FALSE) = "Stopped"
        /\ p.sit = "finished" => DefaultStage(rt.status, FALSE) = "Finished"
    BY <1>2, PrinterStatus DEF DefaultStage
  <2>3. DefaultStage(rt.status, FALSE) # ""
    BY <1>1, <2>1, <2>2 DEF Sits
  <2>4. CASE p.sit \in {"idle", "preparing", "download", "preheat"}
    BY <2>1, <2>3, <2>4
       DEF FitStages, Stages, IdleStages, PausedStages, PreheatStages, DownloadStages
  <2>5. CASE p.sit \in {"started", "printing", "between", "warned", "unloading", "loading"}
    BY <2>1, <2>3, <2>5
       DEF FitStages, Stages, IdleStages, PausedStages, PreheatStages, DownloadStages
  <2>6. CASE p.sit \in {"prompt", "pausedUser", "pausedIdle", "fault", "broken", "finished"}
    BY <2>2, <2>3, <2>6 DEF FitStages, Stages
  <2>7. QED  BY <1>1, <2>3, <2>4, <2>5, <2>6 DEF Sits
<1>6. p.sit # "cancelled" => Full(p).stage \in FitStages(p.sit)
  BY <1>1, PrinterStage
     DEF Sits, FitStages, Stages, IdleStages, PausedStages, PreheatStages, DownloadStages
<1>7. EffectiveStage(rt) \in {DefaultStage(rt.status, FALSE), Full(p).stage} /\ rt.stage # ""
  BY <1>2, <1>4, <1>5 DEF EffectiveStage
<1>8. rt.life = "finished" => p.sit = "finished"
  BY <1>1, <1>2, PrinterStatus DEF Lifecycle, Sits
<1>9. QED  BY <1>2, <1>3, <1>5, <1>6, <1>7, <1>8 DEF Fits

\* What the merge takes from a source that fits, before the errors.
LEMMA BundleFits ==
  ASSUME NEW p \in Printers, NEW base, Keys \subseteq DOMAIN base,
         base.err = FALSE, base.hms = FALSE, base.nonErr = FALSE,
         NEW source, Fits(source, p)
  PROVE  LET told == MetricsOf(StatusOf(base, source), source)
         IN /\ \A errs : Fits(errs, p) => Fits(ErrorOf(told, errs, TRUE), p)
            /\ ~Complaint(source) => Fits(told, p)
<1>. DEFINE told == MetricsOf(StatusOf(base, source), source)
<1>1. source.stage # ""
  BY DEF Fits
<1>2. /\ Keys \subseteq DOMAIN told
      /\ told.life = source.life /\ told.status = source.status /\ told.stage = source.stage
      /\ told.rawStage = source.rawStage /\ told.hasErr = source.hasErr
      /\ told.prog = source.prog /\ told.dl = source.dl
      /\ told.err = FALSE /\ told.hms = FALSE /\ told.nonErr = FALSE
  <2>. DEFINE status == StatusOf(base, source)
  <2>1. /\ Keys \subseteq DOMAIN status
        /\ status.life = source.life /\ status.status = source.status
        /\ status.stage = source.stage /\ status.rawStage = source.rawStage
        /\ status.hasErr = source.hasErr
        /\ status.err = FALSE /\ status.hms = FALSE /\ status.nonErr = FALSE
    BY <1>1 DEF StatusOf, Keys
  <2>2. told = MetricsOf(status, source)
    OBVIOUS
  <2>. HIDE DEF status, told
  <2>3. QED  BY <2>1, <2>2 DEF MetricsOf, Keys
<1>. HIDE DEF told
<1>3. EffectiveStage(told) = EffectiveStage(source)
  BY <1>2 DEF EffectiveStage
<1>4. ASSUME NEW errs, Fits(errs, p)
      PROVE  Fits(ErrorOf(told, errs, TRUE), p)
  <2>. DEFINE s == ErrorOf(told, errs, TRUE)
  <2>1. /\ Keys \subseteq DOMAIN s
        /\ s.err = errs.err /\ s.hms = errs.hms /\ s.nonErr = errs.nonErr
        /\ s.life = source.life /\ s.status = source.status /\ s.stage = source.stage
        /\ s.rawStage = source.rawStage /\ s.hasErr = source.hasErr
        /\ s.prog = source.prog /\ s.dl = source.dl
    BY <1>2 DEF ErrorOf, Keys
  <2>. HIDE DEF s
  <2>2. EffectiveStage(s) = EffectiveStage(source)
    BY <2>1 DEF EffectiveStage
  <2>3. Fits(s, p)
    BY <1>4, <2>1, <2>2 DEF Fits
  <2>4. QED  BY <2>3 DEF s
<1>5. ASSUME ~Complaint(source)
      PROVE  Fits(told, p)
  <2>1. /\ source.err \in BOOLEAN /\ source.hms \in BOOLEAN
        /\ source.err = FALSE /\ source.hms = FALSE /\ p.sit # "cancelled"
    BY <1>5, FullType DEF Complaint, Fits
  <2>2. QED  BY <1>2, <1>3, <2>1 DEF Fits
<1>6. QED  BY <1>4, <1>5 DEF told

\* A display whose fresh sources fit fits.
LEMMA MergeFits ==
  ASSUME NEW p \in Printers,
         LocalSourceFresh \/ CloudSourceFresh,
         LocalSourceFresh => Fits(Resolve(local), p),
         CloudSourceFresh => Fits(snap, p)
  PROVE  Fits(Merge(mode, prefers, Resolve(local), LocalSourceFresh, snap, CloudSourceFresh), p)
<1>. DEFINE l == Resolve(local)
            preferred == mode = "hybrid" /\ prefers
            cu == CloudUsable(snap, CloudSourceFresh)
            ce == CloudErrorUsable(snap, CloudSourceFresh)
            lu == LocalUsable(l, LocalSourceFresh, preferred /\ cu)
            le == LocalErrorUsable(l, LocalSourceFresh, preferred /\ ce)
            base == Base(mode, prefers, l, snap)
            localBundle == MetricsOf(StatusOf(base, l), l)
            cloudBundle == MetricsOf(StatusOf(base, snap), snap)
            shown == Merge(mode, prefers, l, LocalSourceFresh, snap, CloudSourceFresh)
<1>1. /\ Keys \subseteq DOMAIN base
      /\ base.err = FALSE /\ base.hms = FALSE /\ base.nonErr = FALSE
  BY DEF Base, Blank, Keys
<1>2. cu <=> CloudSourceFresh
  BY DEF CloudUsable, CloudSignal, Fits
<1>3. lu <=> LocalSourceFresh /\ ~(preferred /\ cu)
  BY DEF LocalUsable, LocalSignal, Fits
<1>4. ce <=> CloudSourceFresh /\ Complaint(snap)
  BY DEF CloudErrorUsable
<1>5. le <=> LocalSourceFresh /\ Complaint(l) /\ ~(preferred /\ ce)
  BY DEF LocalErrorUsable
<1>6. lu \/ cu
  BY <1>2, <1>3
<1>7. /\ lu /\ le => shown = ErrorOf(localBundle, l, TRUE)
      /\ lu /\ ~le /\ ce => shown = ErrorOf(localBundle, snap, TRUE)
      /\ lu /\ ~le /\ ~ce => shown = localBundle
      /\ ~lu /\ le => shown = ErrorOf(cloudBundle, l, TRUE)
      /\ ~lu /\ ~le /\ ce => shown = ErrorOf(cloudBundle, snap, TRUE)
      /\ ~lu /\ ~le /\ ~ce => shown = cloudBundle
  BY <1>6 DEF Merge, ErrorOf
<1>. HIDE DEF l, cu, ce, lu, le, base, preferred
<1>8. lu => /\ \A errs : Fits(errs, p) => Fits(ErrorOf(localBundle, errs, TRUE), p)
            /\ ~Complaint(l) => Fits(localBundle, p)
  BY <1>1, <1>3, BundleFits DEF l
<1>9. cu => /\ \A errs : Fits(errs, p) => Fits(ErrorOf(cloudBundle, errs, TRUE), p)
            /\ ~Complaint(snap) => Fits(cloudBundle, p)
  BY <1>1, <1>2, BundleFits
<1>. HIDE DEF localBundle, cloudBundle, shown
<1>10. /\ le => Fits(l, p)
       /\ ce => Fits(snap, p)
  BY <1>4, <1>5 DEF l
<1>11. /\ lu /\ ~le /\ ~ce => ~Complaint(l)
       /\ ~lu /\ ~le /\ ~ce => ~Complaint(snap)
  BY <1>2, <1>3, <1>4, <1>5, <1>6
<1>12. Fits(shown, p)
  <2>1. CASE lu
    BY <1>7, <1>8, <1>10, <1>11, <2>1
  <2>2. CASE ~lu
    BY <1>6, <1>7, <1>9, <1>10, <1>11, <2>2
  <2>3. QED  BY <2>1, <2>2
<1>13. QED  BY <1>12 DEF shown, l

(***************************************************************************)
(* The invariant: types, what either client knows, what is published.      *)
(***************************************************************************)
Types ==
  /\ mode \in {"hybrid", "cloud", "local"} /\ prefers \in BOOLEAN /\ named \in BOOLEAN
  /\ printer \in Printers
  /\ local \in LocalStates /\ localOn \in BOOLEAN /\ localFresh \in BOOLEAN
  /\ localQ \in Seq(Reports) /\ localTold \in {"nothing", "all", "lost"}
  /\ cloud \in CloudStates /\ snap \in CloudStates
  /\ cloudOn \in BOOLEAN /\ cloudFresh \in BOOLEAN
  /\ cloudQ \in Seq(Reports) /\ cloudTold \in BOOLEAN

\* What the local client knows of the printer as it was before the reports under way.
LocalTells(rt, queue, told, first) ==
  \/ told = "lost"
  \/ told = "nothing" /\ LocalUntold(rt) /\ queue # <<>> /\ Head(queue) = Full(first)
  \/ LocalHeard(rt, first) /\ (told = "all" => LocalCounted(rt, first))

LocalFollows ==
  /\ ~localOn => localQ = <<>>
  /\ \E first \in Printers :
       /\ Under(localQ, first, printer)
       /\ localOn => LocalTells(local, localQ, localTold, first)

CloudFollows ==
  /\ ~cloudOn => cloudQ = <<>> /\ cloudTold = FALSE
  /\ \E first \in Printers :
       /\ Under(cloudQ, first, printer)
       /\ cloudTold = TRUE => CloudHeard(cloud, first, named)

SnapFollows ==
  /\ cloud.rawStage \in RawStages(named) /\ snap.rawStage \in RawStages(named)
  /\ Says(snap, cloud)

Inv == Types /\ LocalFollows /\ CloudFollows /\ SnapFollows

\* A printer when first heard of, one that moves, one that repeats itself.
LEMMA FoundTypes ==
  FoundPrinters \subseteq Printers
BY DEF FoundPrinters, Printers, Sits, Percents, Percentage

LEMMA MoveLeads ==
  ASSUME NEW p \in Printers, NEW sit \in Follows[p.sit],
         NEW q, q = [sit |-> sit, gen |-> Percentage(p.gen, sit)]
  PROVE  /\ q \in Printers
         /\ Delta(p, q) \in Reports
         /\ Leads(Delta(p, q), p, q)
<1>1. sit \in Sits /\ p.gen \in Percents
  BY Predecessors DEF Printers
<1>2. q \in Printers
  BY <1>1 DEF Printers, Percents, Percentage
<1>3. Leads(Delta(p, q), p, q)
  BY DEF Leads
<1>4. QED  BY <1>2, <1>3 DEF Reports

LEMMA RepeatLeads ==
  ASSUME NEW p \in Printers, NEW m \in {NoNews, Full(p)}
  PROVE  m \in Reports /\ Leads(m, p, p)
<1>1. NoNews = Delta(p, p)
  BY DEF NoNews, Delta
<1>2. QED  BY <1>1 DEF Leads, Reports

\* The states sessions and clients begin with.
LEMMA ClearedUntold ==
  ASSUME NEW rt \in LocalStates, NEW stage \in {"connected", "mqtt"}
  PROVE  /\ LocalCleared(rt, stage) \in LocalStates
         /\ stage = "connected" => LocalUntold(LocalCleared(rt, stage))
<1>. DEFINE cleared == LocalCleared(rt, stage)
<1>1. stage \in Stages /\ "" \in Stages /\ "" \in Statuses /\ "unknown" \in Lives
  BY DEF Stages, Statuses, Lives
<1>2. cleared \in LocalStates
  BY <1>1 DEF LocalCleared, LocalStates
<1>3. /\ cleared.status = "" /\ cleared.rawStage = "" /\ cleared.stage = stage
      /\ cleared.life = "unknown" /\ cleared.hasErr = FALSE
  BY DEF LocalCleared, LocalStates
<1>. HIDE DEF cleared
<1>4. stage = "connected" => LocalUntold(cleared)
  BY <1>3 DEF LocalUntold
<1>5. QED  BY <1>2, <1>4 DEF cleared

LEMMA BlankTypes ==
  ASSUME NEW names
  PROVE  /\ LocalBlank \in LocalStates /\ CloudBlank \in CloudStates
         /\ CloudBlank.rawStage \in RawStages(names)
         /\ Says(CloudBlank, CloudBlank)
BY DEF LocalBlank, CloudBlank, LocalStates, CloudStates, Lives, Statuses, Stages, Percents,
       Trays, RawStages, Says

\* What becomes of what the local client knows when it hears a report.
LEMMA LocalHears ==
  ASSUME NEW p \in Printers, NEW q \in Printers, NEW m, Leads(m, p, q), NEW rt \in LocalStates,
         printer \in Printers, NEW told \in {"nothing", "all"}, NEW after,
         LocalHeard(rt, p) \/ (LocalUntold(rt) /\ m = Full(p)),
         told = "all" => LocalHeard(rt, p) /\ LocalCounted(rt, p),
         after = IF told = "nothing" /\ Tells(m, rt) THEN "all" ELSE told
  PROVE  /\ LocalHeard(LocalReport(rt, m), q)
         /\ after = "all" => LocalCounted(LocalReport(rt, m), q)
<1>1. LocalReports(rt, m, p, q)
  <2>1. CASE LocalHeard(rt, p)
    BY <2>1 DEF LocalReports
  <2>2. CASE LocalUntold(rt) /\ m = Full(p)
    <3>1. DOMAIN m = Fields
      BY <2>2, FullFields
    <3>2. p = q
      BY <3>1, TellsInFull
    <3>3. QED  BY <2>2, <3>2 DEF LocalReports
  <2>3. QED  BY <2>1, <2>2
<1>2. LocalHeard(LocalReport(rt, m), q)
  BY <1>1, LocalReportHeard
<1>3. ASSUME told = "nothing", Tells(m, rt)
      PROVE  LocalCounted(LocalReport(rt, m), q)
  <2>1. DOMAIN m = Fields /\ (rt.dl \/ rt.life = "preparing" => m.status = "PREPARE")
    BY <1>3, FullFields DEF Tells
  <2>2. m = Full(p) /\ p = q
    BY <2>1, TellsInFull
  <2>3. QED  BY <1>1, <2>1, <2>2, FullCounted
<1>4. ASSUME told = "all"
      PROVE  LocalCounted(LocalReport(rt, m), q)
  <2>1. CASE p = q /\ m = Full(p)
    <3>1. rt.dl \/ rt.life = "preparing" => Full(p).status = "PREPARE"
      BY <1>4, HeardStage, StatusLife DEF LocalCounted
    <3>2. QED  BY <1>1, <2>1, <3>1, FullCounted
  <2>2. CASE /\ m = Delta(p, q)
             /\ q = p \/ (q.sit \in Follows[p.sit] /\ q.gen = Percentage(p.gen, q.sit))
    BY <1>1, <1>4, <2>2, DeltaCounted
  <2>3. QED  BY <2>1, <2>2 DEF Leads
<1>5. QED  BY <1>2, <1>3, <1>4

\* The invariant holds at first,
LEMMA InitInv ==
  Init => Inv
<1>. SUFFICES ASSUME Init
              PROVE  Inv
  OBVIOUS
<1>1. Types
  <2>1. mode \in {"hybrid", "cloud", "local"} /\ prefers \in BOOLEAN /\ named \in BOOLEAN
    BY ModesAssumption, NamedAssumption DEF Init
  <2>2. <<>> \in Seq(Reports)
    OBVIOUS
  <2>3. printer \in Printers
    BY FoundTypes DEF Init
  <2>4. local \in LocalStates /\ cloud \in CloudStates /\ snap \in CloudStates
    BY BlankTypes DEF Init
  <2>5. QED  BY <2>1, <2>2, <2>3, <2>4 DEF Types, Init
<1>2. Under(<<>>, printer, printer) /\ printer \in Printers
  BY <1>1, UnderNothing DEF Types
<1>3. LocalFollows /\ CloudFollows
  BY <1>2 DEF Init, LocalFollows, CloudFollows
<1>4. SnapFollows
  BY BlankTypes DEF Init, SnapFollows
<1>5. QED  BY <1>1, <1>3, <1>4 DEF Inv

\* and every step keeps each part of it: the types,
LEMMA TypesStep ==
  Inv /\ [Next]_vars => Types'
<1>. SUFFICES ASSUME Inv, [Next]_vars
              PROVE  Types'
  OBVIOUS
<1>. USE DEF settings, localVars, cloudVars
<1>1. Types /\ cloud.rawStage \in RawStages(named) /\ snap.rawStage \in RawStages(named)
  BY DEF Inv, SnapFollows
<1>2. ASSUME NEW rt \in CloudStates, rt.rawStage \in RawStages(named)
      PROVE  Published(snap, rt) \in CloudStates
  BY <1>1, <1>2, PublishedSays DEF Types
<1>3. /\ <<>> \in Seq(Reports)
      /\ \A queue \in Seq(Reports) : queue # <<>> => Tail(queue) \in Seq(Reports)
  OBVIOUS
<1>4. CASE PrinterMoves
  <2>1. PICK sit \in Follows[printer.sit] :
          LET q == [sit |-> sit, gen |-> Percentage(printer.gen, sit)]
          IN /\ printer' = q
             /\ localQ' = Sent(localOn, localQ, Delta(printer, q))
             /\ cloudQ' = Sent(cloudOn, cloudQ, Delta(printer, q))
    BY <1>4 DEF PrinterMoves
  <2>2. printer' \in Printers /\ Delta(printer, printer') \in Reports
    BY <1>1, <2>1, MoveLeads DEF Types
  <2>3. localQ' \in Seq(Reports) /\ cloudQ' \in Seq(Reports)
    BY <1>1, <2>1, <2>2 DEF Sent, Types
  <2>4. QED  BY <1>1, <1>4, <2>2, <2>3 DEF PrinterMoves, Types
<1>5. CASE PrinterRepeats
  <2>1. \A m \in {NoNews, Full(printer)} : <<m>> \in Seq(Reports)
    BY <1>1, RepeatLeads DEF Types
  <2>2. localQ' \in Seq(Reports) /\ cloudQ' \in Seq(Reports)
    BY <1>1, <1>5, <2>1 DEF PrinterRepeats, Types
  <2>3. QED  BY <1>1, <1>5, <2>2 DEF PrinterRepeats, Types
<1>6. CASE SwitchPrinter
  <2>1. /\ printer' \in Printers /\ local' \in LocalStates
        /\ cloud' \in CloudStates /\ snap' \in CloudStates
    BY <1>1, <1>6, FoundTypes, BlankTypes, ClearedUntold DEF SwitchPrinter, Types
  <2>2. QED  BY <1>1, <1>3, <1>6, <2>1 DEF SwitchPrinter, Types
<1>7. CASE LocalUp
  <2>1. <<Full(printer)>> \in Seq(Reports) /\ local' \in LocalStates
    BY <1>1, <1>7, RepeatLeads, ClearedUntold DEF LocalUp, Types
  <2>2. QED  BY <1>1, <1>7, <2>1 DEF LocalUp, Types
<1>8. CASE LocalDown
  BY <1>1, <1>3, <1>8 DEF LocalDown, Types
<1>9. CASE LocalDeliver
  <2>1. PICK first \in Printers : Under(localQ, first, printer)
    BY DEF Inv, LocalFollows
  <2>2. PICK next \in Printers : Leads(Head(localQ), first, next)
    BY <1>1, <1>9, <2>1, UnderTail DEF LocalDeliver, Types
  <2>3. local' \in LocalStates
    BY <1>1, <1>9, <2>2, LocalType DEF LocalDeliver, Types
  <2>4. QED  BY <1>1, <1>3, <1>9, <2>3 DEF LocalDeliver, Types
<1>10. CASE LocalLost
  BY <1>1, <1>3, <1>10 DEF LocalLost, Types
<1>11. CASE LocalGrowsOld
  BY <1>1, <1>11 DEF LocalGrowsOld, Types
<1>12. CASE CloudUp
  <2>. DEFINE rt == [cloud EXCEPT !.connected = TRUE, !.stage = "subscribed"]
  <2>1. <<Full(printer)>> \in Seq(Reports)
    BY <1>1, RepeatLeads DEF Types
  <2>2. rt \in CloudStates /\ rt.rawStage \in RawStages(named)
    BY <1>1 DEF Types, CloudStates, Stages
  <2>3. cloud' \in CloudStates /\ snap' \in CloudStates
    BY <1>2, <1>12, <2>2 DEF CloudUp
  <2>4. QED  BY <1>1, <1>12, <2>1, <2>3 DEF CloudUp, Types
<1>13. CASE CloudDown
  <2>. DEFINE rt == [cloud EXCEPT !.connected = FALSE, !.stage = ""]
  <2>1. rt \in CloudStates /\ rt.rawStage \in RawStages(named)
    <3>1. cloud \in CloudStates /\ "" \in Stages
      BY <1>1 DEF Types, Stages
    <3>2. rt \in CloudStates
      BY <3>1 DEF CloudStates
    <3>3. rt.rawStage = cloud.rawStage
      BY <3>1 DEF CloudStates
    <3>4. QED  BY <1>1, <3>2, <3>3
  <2>2. cloud' \in CloudStates /\ snap' \in CloudStates
    BY <1>2, <1>13, <2>1 DEF CloudDown
  <2>3. QED  BY <1>1, <1>3, <1>13, <2>2 DEF CloudDown, Types
<1>14. CASE CloudStop
  BY <1>1, <1>3, <1>14 DEF CloudStop, Types
<1>15. CASE CloudClear
  <2>1. cloud' \in CloudStates /\ snap' \in CloudStates
    BY <1>2, <1>15, BlankTypes DEF CloudClear
  <2>2. QED  BY <1>1, <1>15, <2>1 DEF CloudClear, Types
<1>16. CASE CloudDeliver
  <2>. DEFINE rt == CloudReport(cloud, Head(cloudQ), named)
  <2>1. PICK first \in Printers : Under(cloudQ, first, printer)
    BY DEF Inv, CloudFollows
  <2>2. PICK next \in Printers : Leads(Head(cloudQ), first, next)
    BY <1>1, <1>16, <2>1, UnderTail DEF CloudDeliver, Types
  <2>3. rt \in CloudStates /\ rt.rawStage \in RawStages(named)
    BY <1>1, <2>2, CloudType DEF Types
  <2>4. cloud' \in CloudStates /\ snap' \in CloudStates
    BY <1>2, <1>16, <2>3 DEF CloudDeliver
  <2>5. cloudTold' \in BOOLEAN
    BY <1>16 DEF CloudDeliver
  <2>6. QED  BY <1>1, <1>3, <1>16, <2>4, <2>5 DEF CloudDeliver, Types
<1>17. CASE CloudLost
  BY <1>1, <1>3, <1>17 DEF CloudLost, Types
<1>18. CASE CloudDataOld
  <2>. DEFINE rt == [cloud EXCEPT !.data = "old"]
  <2>1. rt \in CloudStates /\ rt.rawStage \in RawStages(named)
    BY <1>1 DEF Types, CloudStates
  <2>2. cloud' \in CloudStates /\ snap' \in CloudStates
    BY <1>2, <1>18, <2>1 DEF CloudDataOld
  <2>3. QED  BY <1>1, <1>18, <2>2 DEF CloudDataOld, Types
<1>19. CASE CloudGrowsOld
  BY <1>1, <1>19 DEF CloudGrowsOld, Types
<1>20. CASE UNCHANGED vars
  BY <1>1, <1>20 DEF vars, Types
<1>21. QED
  BY <1>4, <1>5, <1>6, <1>7, <1>8, <1>9, <1>10, <1>11, <1>12, <1>13, <1>14, <1>15, <1>16,
     <1>17, <1>18, <1>19, <1>20 DEF Next

\* what the local client knows,
LEMMA LocalStep ==
  Inv /\ [Next]_vars => LocalFollows'
<1>. SUFFICES ASSUME Inv, [Next]_vars
              PROVE  LocalFollows'
  OBVIOUS
<1>. USE DEF settings, localVars, cloudVars
<1>1. Types /\ Types'
  BY TypesStep DEF Inv
<1>2. /\ printer \in Printers /\ printer' \in Printers
      /\ local \in LocalStates /\ localOn \in BOOLEAN
      /\ localQ \in Seq(Reports) /\ localTold \in {"nothing", "all", "lost"}
  BY <1>1 DEF Types
<1>3. ~localOn => localQ = <<>>
  BY DEF Inv, LocalFollows
<1>4. PICK first \in Printers :
        /\ Under(localQ, first, printer)
        /\ localOn => LocalTells(local, localQ, localTold, first)
  BY DEF Inv, LocalFollows
<1>5. localQ = <<>> => first = printer
  BY <1>2, <1>4, NothingUnder
\* No session, and nothing under way.
<1>6. ASSUME ~localOn', localQ' = <<>>
      PROVE  LocalFollows'
  BY <1>2, <1>6, UnderNothing DEF LocalFollows
<1>7. ASSUME UNCHANGED <<printer, local, localOn, localQ, localTold>>
      PROVE  LocalFollows'
  BY <1>3, <1>4, <1>7 DEF LocalFollows
<1>8. CASE PrinterMoves
  <2>1. PICK sit \in Follows[printer.sit] :
          LET q == [sit |-> sit, gen |-> Percentage(printer.gen, sit)]
          IN /\ printer' = q
             /\ localQ' = Sent(localOn, localQ, Delta(printer, q))
    BY <1>8 DEF PrinterMoves
  <2>2. /\ Delta(printer, printer') \in Reports
        /\ Leads(Delta(printer, printer'), printer, printer')
    BY <1>2, <2>1, MoveLeads
  <2>3. localOn' = localOn /\ local' = local /\ localTold' = localTold
    BY <1>8 DEF PrinterMoves
  <2>4. CASE ~localOn
    BY <1>3, <1>6, <2>1, <2>3, <2>4 DEF Sent
  <2>5. CASE localOn
    <3>1. localQ' = Append(localQ, Delta(printer, printer'))
      BY <2>1, <2>5 DEF Sent
    <3>2. Under(localQ', first, printer')
      BY <1>2, <1>4, <2>2, <3>1, UnderAppend
    <3>3. localQ # <<>> => localQ' # <<>> /\ Head(localQ') = Head(localQ)
      BY <1>2, <2>2, <3>1
    <3>4. LocalTells(local', localQ', localTold', first)
      BY <1>4, <2>3, <2>5, <3>3 DEF LocalTells
    <3>5. QED  BY <2>3, <2>5, <3>2, <3>4 DEF LocalFollows
  <2>6. QED  BY <2>4, <2>5
<1>9. CASE PrinterRepeats
  <2>1. CASE localOn /\ localQ = <<>> /\ localQ' # localQ
    <3>1. PICK m \in {NoNews, Full(printer)} : localQ' = <<m>>
      BY <1>9, <2>1 DEF PrinterRepeats
    <3>2. Leads(m, printer, printer)
      BY <1>2, RepeatLeads
    <3>3. Under(localQ', printer, printer)
      BY <1>2, <3>1, <3>2, UnderOne
    <3>4. /\ printer' = printer /\ localOn' = localOn /\ local' = local
          /\ localTold' = localTold
      BY <1>9 DEF PrinterRepeats
    <3>5. LocalTells(local, localQ', localTold, printer)
      BY <1>4, <1>5, <2>1 DEF LocalTells
    <3>6. QED  BY <1>2, <2>1, <3>3, <3>4, <3>5 DEF LocalFollows
  <2>2. CASE ~(localOn /\ localQ = <<>> /\ localQ' # localQ)
    BY <1>7, <1>9, <2>2 DEF PrinterRepeats
  <2>3. QED  BY <2>1, <2>2
<1>10. CASE SwitchPrinter
  BY <1>6, <1>10 DEF SwitchPrinter
<1>11. CASE LocalUp
  <2>1. Leads(Full(printer), printer, printer)
    BY <1>2, RepeatLeads
  <2>2. Under(localQ', printer', printer') /\ localOn'
    BY <1>2, <1>11, <2>1, UnderOne DEF LocalUp
  <2>3. LocalUntold(local') /\ localTold' = "nothing"
    BY <1>2, <1>11, ClearedUntold DEF LocalUp
  <2>4. localQ' # <<>> /\ Head(localQ') = Full(printer')
    BY <1>11 DEF LocalUp
  <2>5. QED  BY <1>2, <2>2, <2>3, <2>4 DEF LocalFollows, LocalTells
<1>12. CASE LocalDown
  BY <1>6, <1>12 DEF LocalDown
<1>13. CASE LocalDeliver
  <2>1. /\ localQ # <<>> /\ localOn
        /\ local' = LocalReport(local, Head(localQ)) /\ localQ' = Tail(localQ)
        /\ localTold' = IF localTold = "nothing" /\ Tells(Head(localQ), local)
                        THEN "all" ELSE localTold
        /\ printer' = printer /\ localOn' = localOn
    BY <1>3, <1>13 DEF LocalDeliver
  <2>2. PICK next \in Printers :
          Leads(Head(localQ), first, next) /\ Under(Tail(localQ), next, printer)
    BY <1>2, <1>4, <2>1, UnderTail
  <2>3. LocalTells(local', localQ', localTold', next)
    <3>1. CASE localTold = "lost"
      BY <2>1, <3>1 DEF LocalTells
    <3>2. CASE localTold # "lost"
      <4>1. LocalHeard(local, first) \/ (LocalUntold(local) /\ Head(localQ) = Full(first))
        BY <1>4, <2>1, <3>2 DEF LocalTells
      <4>2. localTold = "all" => LocalHeard(local, first) /\ LocalCounted(local, first)
        BY <1>4, <2>1, <3>2 DEF LocalTells
      <4>3. /\ LocalHeard(local', next)
            /\ localTold' = "all" => LocalCounted(local', next)
        BY <1>2, <2>1, <2>2, <3>2, <4>1, <4>2, LocalHears
      <4>4. QED  BY <4>3 DEF LocalTells
    <3>3. QED  BY <3>1, <3>2
  <2>4. QED  BY <2>1, <2>2, <2>3 DEF LocalFollows
<1>14. CASE LocalLost
  <2>1. /\ localQ # <<>> /\ localOn /\ localQ' = Tail(localQ) /\ localTold' = "lost"
        /\ printer' = printer /\ localOn' = localOn
    BY <1>3, <1>14 DEF LocalLost
  <2>2. PICK next \in Printers : Under(Tail(localQ), next, printer)
    BY <1>2, <1>4, <2>1, UnderTail
  <2>3. QED  BY <2>1, <2>2 DEF LocalFollows, LocalTells
<1>15. CASE LocalGrowsOld
  BY <1>7, <1>15 DEF LocalGrowsOld
<1>16. CASE \/ CloudUp \/ CloudDown \/ CloudStop \/ CloudClear \/ CloudDeliver \/ CloudLost
            \/ CloudDataOld \/ CloudGrowsOld
  BY <1>7, <1>16
     DEF CloudUp, CloudDown, CloudStop, CloudClear, CloudDeliver, CloudLost, CloudDataOld,
         CloudGrowsOld
<1>17. CASE UNCHANGED vars
  BY <1>7, <1>17 DEF vars
<1>18. QED
  BY <1>8, <1>9, <1>10, <1>11, <1>12, <1>13, <1>14, <1>15, <1>16, <1>17 DEF Next

\* What becomes of what the cloud client knows when it hears a report.
LEMMA CloudHears ==
  ASSUME NEW p \in Printers, NEW q \in Printers, NEW m, Leads(m, p, q), NEW names,
         NEW rt \in CloudStates, rt.rawStage \in RawStages(names), printer \in Printers,
         CloudHeard(rt, p, names) \/ Tells(m, rt)
  PROVE  CloudHeard(CloudReport(rt, m, names), q, names)
<1>1. CASE p = q /\ m = Full(p)
  <2>1. p.sit = "idle" => ~rt.dl
    <3>1. CASE CloudHeard(rt, p, names)
      BY <3>1 DEF CloudHeard
    <3>2. CASE Tells(m, rt)
      BY <1>1, <3>2, PrinterStatus DEF Tells
    <3>3. QED  BY <3>1, <3>2
  <2>2. QED  BY <1>1, <2>1, CloudFullHeard
<1>2. CASE ~(p = q /\ m = Full(p))
  <2>1. /\ m = Delta(p, q)
        /\ q = p \/ (q.sit \in Follows[p.sit] /\ q.gen = Percentage(p.gen, q.sit))
    BY <1>2 DEF Leads
  <2>2. ~Tells(m, rt)
    BY <1>2, TellsInFull, FullFields DEF Tells
  <2>3. QED  BY <2>1, <2>2, CloudDeltaHeard
<1>3. QED  BY <1>1, <1>2

\* what the cloud client knows,
LEMMA CloudStep ==
  Inv /\ [Next]_vars => CloudFollows'
<1>. SUFFICES ASSUME Inv, [Next]_vars
              PROVE  CloudFollows'
  OBVIOUS
<1>. USE DEF settings, localVars, cloudVars
<1>1. Types /\ Types' /\ cloud.rawStage \in RawStages(named)
  BY TypesStep DEF Inv, SnapFollows
<1>2. /\ printer \in Printers /\ printer' \in Printers
      /\ cloud \in CloudStates /\ cloudOn \in BOOLEAN
      /\ cloudQ \in Seq(Reports) /\ cloudTold \in BOOLEAN
  BY <1>1 DEF Types
<1>3. ~cloudOn => cloudQ = <<>> /\ cloudTold = FALSE
  BY DEF Inv, CloudFollows
<1>4. PICK first \in Printers :
        /\ Under(cloudQ, first, printer)
        /\ cloudTold = TRUE => CloudHeard(cloud, first, named)
  BY DEF Inv, CloudFollows
<1>5. cloudQ = <<>> => first = printer
  BY <1>2, <1>4, NothingUnder
<1>6. named' = named
  BY DEF Next, vars, PrinterMoves, PrinterRepeats, SwitchPrinter, LocalUp, LocalDown,
         LocalDeliver, LocalLost, LocalGrowsOld, CloudUp, CloudDown, CloudStop, CloudClear,
         CloudDeliver, CloudLost, CloudDataOld, CloudGrowsOld
\* Nothing told, and nothing under way.
<1>7. ASSUME cloudTold' = FALSE, cloudQ' = <<>>
      PROVE  CloudFollows'
  BY <1>2, <1>7, UnderNothing DEF CloudFollows
<1>8. ASSUME UNCHANGED <<printer, cloud, cloudOn, cloudQ, cloudTold>>
      PROVE  CloudFollows'
  BY <1>3, <1>4, <1>6, <1>8 DEF CloudFollows
<1>9. CASE PrinterMoves
  <2>1. PICK sit \in Follows[printer.sit] :
          LET q == [sit |-> sit, gen |-> Percentage(printer.gen, sit)]
          IN /\ printer' = q
             /\ cloudQ' = Sent(cloudOn, cloudQ, Delta(printer, q))
    BY <1>9 DEF PrinterMoves
  <2>2. /\ Delta(printer, printer') \in Reports
        /\ Leads(Delta(printer, printer'), printer, printer')
    BY <1>2, <2>1, MoveLeads
  <2>3. cloudOn' = cloudOn /\ cloud' = cloud /\ cloudTold' = cloudTold
    BY <1>9 DEF PrinterMoves
  <2>4. CASE ~cloudOn
    BY <1>3, <1>7, <2>1, <2>3, <2>4 DEF Sent
  <2>5. CASE cloudOn
    <3>1. cloudQ' = Append(cloudQ, Delta(printer, printer'))
      BY <2>1, <2>5 DEF Sent
    <3>2. Under(cloudQ', first, printer')
      BY <1>2, <1>4, <2>2, <3>1, UnderAppend
    <3>3. QED  BY <1>4, <1>6, <2>3, <2>5, <3>2 DEF CloudFollows
  <2>6. QED  BY <2>4, <2>5
<1>10. CASE PrinterRepeats
  <2>1. CASE cloudOn /\ cloudQ = <<>> /\ cloudQ' # cloudQ
    <3>1. PICK m \in {NoNews, Full(printer)} : cloudQ' = <<m>>
      BY <1>10, <2>1 DEF PrinterRepeats
    <3>2. Leads(m, printer, printer)
      BY <1>2, RepeatLeads
    <3>3. Under(cloudQ', printer, printer)
      BY <1>2, <3>1, <3>2, UnderOne
    <3>4. /\ printer' = printer /\ cloudOn' = cloudOn /\ cloud' = cloud
          /\ cloudTold' = cloudTold
      BY <1>10 DEF PrinterRepeats
    <3>5. QED  BY <1>2, <1>4, <1>5, <1>6, <2>1, <3>3, <3>4 DEF CloudFollows
  <2>2. CASE ~(cloudOn /\ cloudQ = <<>> /\ cloudQ' # cloudQ)
    BY <1>8, <1>10, <2>2 DEF PrinterRepeats
  <2>3. QED  BY <2>1, <2>2
<1>11. CASE SwitchPrinter
  BY <1>7, <1>11 DEF SwitchPrinter
<1>12. CASE LocalUp \/ LocalDown \/ LocalDeliver \/ LocalLost \/ LocalGrowsOld
  BY <1>8, <1>12 DEF LocalUp, LocalDown, LocalDeliver, LocalLost, LocalGrowsOld
<1>13. CASE CloudUp
  <2>1. Leads(Full(printer), printer, printer)
    BY <1>2, RepeatLeads
  <2>2. Under(cloudQ', printer', printer') /\ cloudOn' = TRUE /\ cloudTold' = FALSE
    BY <1>2, <1>13, <2>1, UnderOne DEF CloudUp
  <2>3. QED  BY <1>2, <2>2 DEF CloudFollows
<1>14. CASE CloudDown
  BY <1>7, <1>14 DEF CloudDown
<1>15. CASE CloudStop
  BY <1>7, <1>15 DEF CloudStop
<1>16. CASE CloudClear
  BY <1>3, <1>7, <1>16 DEF CloudClear
<1>17. CASE CloudDeliver
  <2>1. /\ cloudQ # <<>> /\ cloudOn
        /\ cloud' = CloudReport(cloud, Head(cloudQ), named) /\ cloudQ' = Tail(cloudQ)
        /\ cloudTold' = (cloudTold \/ Tells(Head(cloudQ), cloud))
        /\ printer' = printer /\ cloudOn' = cloudOn
    BY <1>3, <1>17 DEF CloudDeliver
  <2>2. PICK next \in Printers :
          Leads(Head(cloudQ), first, next) /\ Under(Tail(cloudQ), next, printer)
    BY <1>2, <1>4, <2>1, UnderTail
  <2>3. ASSUME cloudTold'
        PROVE  CloudHeard(cloud', next, named)
    <3>1. CloudHeard(cloud, first, named) \/ Tells(Head(cloudQ), cloud)
      BY <1>2, <1>4, <2>1, <2>3
    <3>2. QED  BY <1>1, <1>2, <2>1, <2>2, <3>1, CloudHears
  <2>4. QED  BY <1>6, <2>1, <2>2, <2>3 DEF CloudFollows
<1>18. CASE CloudLost
  <2>1. /\ cloudQ # <<>> /\ cloudOn /\ cloudQ' = Tail(cloudQ) /\ cloudTold' = FALSE
        /\ printer' = printer /\ cloudOn' = cloudOn
    BY <1>3, <1>18 DEF CloudLost
  <2>2. PICK next \in Printers : Under(Tail(cloudQ), next, printer)
    BY <1>2, <1>4, <2>1, UnderTail
  <2>3. QED  BY <2>1, <2>2 DEF CloudFollows
<1>19. CASE CloudDataOld
  <2>1. cloud' = [cloud EXCEPT !.data = "old"]
    BY <1>19 DEF CloudDataOld
  <2>2. /\ cloud'.status = cloud.status /\ cloud'.life = cloud.life
        /\ cloud'.stage = cloud.stage /\ cloud'.rawStage = cloud.rawStage
        /\ cloud'.err = cloud.err /\ cloud'.hms = cloud.hms
        /\ cloud'.hasErr = cloud.hasErr /\ cloud'.nonErr = cloud.nonErr
        /\ cloud'.prog = cloud.prog /\ cloud'.dl = cloud.dl
    BY <1>2, <2>1 DEF CloudStates
  <2>3. CloudHeard(cloud, first, named) => CloudHeard(cloud', first, named)
    BY <2>2 DEF CloudHeard
  <2>4. /\ printer' = printer /\ cloudOn' = cloudOn /\ cloudQ' = cloudQ
        /\ cloudTold' = cloudTold
    BY <1>19 DEF CloudDataOld
  <2>5. QED  BY <1>3, <1>4, <1>6, <2>3, <2>4 DEF CloudFollows
<1>20. CASE CloudGrowsOld
  BY <1>8, <1>20 DEF CloudGrowsOld
<1>21. CASE UNCHANGED vars
  BY <1>8, <1>21 DEF vars
<1>22. QED
  BY <1>9, <1>10, <1>11, <1>12, <1>13, <1>14, <1>15, <1>16, <1>17, <1>18, <1>19, <1>20, <1>21
     DEF Next

\* and what it publishes.
LEMMA SnapStep ==
  Inv /\ [Next]_vars => SnapFollows'
<1>. SUFFICES ASSUME Inv, [Next]_vars
              PROVE  SnapFollows'
  OBVIOUS
<1>. USE DEF settings, localVars, cloudVars
<1>1. Types /\ SnapFollows
  BY DEF Inv
<1>2. named' = named
  BY DEF Next, vars, PrinterMoves, PrinterRepeats, SwitchPrinter, LocalUp, LocalDown,
         LocalDeliver, LocalLost, LocalGrowsOld, CloudUp, CloudDown, CloudStop, CloudClear,
         CloudDeliver, CloudLost, CloudDataOld, CloudGrowsOld
<1>3. CASE cloud' = cloud /\ snap' = snap
  BY <1>1, <1>2, <1>3 DEF SnapFollows
\* Whatever becomes of the live state, it is published.
<1>4. ASSUME cloud' \in CloudStates, cloud'.rawStage \in RawStages(named),
             snap' = Published(snap, cloud')
      PROVE  SnapFollows'
  BY <1>1, <1>2, <1>4, PublishedSays DEF SnapFollows, Types
<1>5. CASE SwitchPrinter
  BY <1>2, <1>5, BlankTypes DEF SwitchPrinter, SnapFollows
<1>6. CASE CloudUp
  <2>1. cloud' = [cloud EXCEPT !.connected = TRUE, !.stage = "subscribed"]
    BY <1>6 DEF CloudUp
  <2>2. cloud'.rawStage = cloud.rawStage
    BY <1>1, <2>1 DEF Types, CloudStates
  <2>3. QED  BY <1>1, <1>4, <1>6, <2>2, TypesStep DEF CloudUp, SnapFollows, Types
<1>7. CASE CloudDown
  <2>1. cloud' = [cloud EXCEPT !.connected = FALSE, !.stage = ""]
    BY <1>7 DEF CloudDown
  <2>2. cloud'.rawStage = cloud.rawStage
    BY <1>1, <2>1 DEF Types, CloudStates
  <2>3. QED  BY <1>1, <1>4, <1>7, <2>2, TypesStep DEF CloudDown, SnapFollows, Types
<1>8. CASE CloudClear
  BY <1>4, <1>8, BlankTypes DEF CloudClear
<1>9. CASE CloudDeliver
  <2>1. PICK first \in Printers : Under(cloudQ, first, printer)
    BY DEF Inv, CloudFollows
  <2>2. PICK next \in Printers : Leads(Head(cloudQ), first, next)
    BY <1>1, <1>9, <2>1, UnderTail DEF CloudDeliver, Types
  <2>3. cloud' \in CloudStates /\ cloud'.rawStage \in RawStages(named)
    BY <1>1, <1>9, <2>2, CloudType DEF CloudDeliver, SnapFollows, Types
  <2>4. QED  BY <1>4, <1>9, <2>3 DEF CloudDeliver
<1>10. CASE CloudDataOld
  <2>1. cloud' = [cloud EXCEPT !.data = "old"]
    BY <1>10 DEF CloudDataOld
  <2>2. cloud'.rawStage = cloud.rawStage
    BY <1>1, <2>1 DEF Types, CloudStates
  <2>3. QED  BY <1>1, <1>4, <1>10, <2>2, TypesStep DEF CloudDataOld, SnapFollows, Types
<1>11. CASE PrinterMoves \/ PrinterRepeats
  BY <1>3, <1>11 DEF PrinterMoves, PrinterRepeats
<1>12. CASE LocalUp \/ LocalDown \/ LocalDeliver \/ LocalLost \/ LocalGrowsOld
  BY <1>3, <1>12 DEF LocalUp, LocalDown, LocalDeliver, LocalLost, LocalGrowsOld
<1>13. CASE CloudStop \/ CloudLost \/ CloudGrowsOld
  BY <1>3, <1>13 DEF CloudStop, CloudLost, CloudGrowsOld
<1>14. CASE UNCHANGED vars
  BY <1>3, <1>14 DEF vars
<1>15. QED
  BY <1>5, <1>6, <1>7, <1>8, <1>9, <1>10, <1>11, <1>12, <1>13, <1>14 DEF Next

LEMMA Invariance ==
  Spec => []Inv
<1>1. Init => Inv
  BY InitInv
<1>2. Inv /\ [Next]_vars => Inv'
  BY TypesStep, LocalStep, CloudStep, SnapStep DEF Inv
<1>3. QED  BY <1>1, <1>2, PTL DEF Spec

(***************************************************************************)
(* What a source that knows has heard, and the theorems.                   *)
(***************************************************************************)
LEMMA LocalKnowsHeard ==
  ASSUME Inv, LocalKnows
  PROVE  LocalHeard(local, printer) /\ LocalCounted(local, printer)
<1>1. localOn /\ localTold = "all" /\ localQ = <<>>
  BY DEF LocalKnows, LocalSourceFresh
<1>2. PICK first \in Printers :
        Under(localQ, first, printer) /\ LocalTells(local, localQ, localTold, first)
  BY <1>1 DEF Inv, LocalFollows
<1>3. first = printer
  BY <1>1, <1>2, NothingUnder DEF Inv, Types
<1>4. QED  BY <1>1, <1>2, <1>3 DEF LocalTells

LEMMA CloudKnowsHeard ==
  ASSUME Inv, CloudKnows
  PROVE  CloudHeard(snap, printer, named)
<1>1. cloudTold /\ cloudQ = <<>> /\ cloud.data = "recent"
  BY DEF CloudKnows
<1>2. Types /\ SnapFollows
  BY DEF Inv
<1>3. PICK first \in Printers : Under(cloudQ, first, printer) /\ CloudHeard(cloud, first, named)
  BY <1>1 DEF Inv, CloudFollows
<1>4. first = printer
  BY <1>1, <1>2, <1>3, NothingUnder DEF Types
<1>5. CloudHeard(cloud, printer, named)
  BY <1>3, <1>4
<1>6. QED  BY <1>1, <1>2, <1>5, SaysHeard DEF Types, SnapFollows

(***************************************************************************)
(* Type correctness: the states of both clients and of the snapshot, the   *)
(* printer's situation and the reports under way stay of their kinds, for  *)
(* every number of changes, sessions and reports under way.                *)
(***************************************************************************)
THEOREM TypeCorrect == Spec => []Types
BY Invariance, PTL DEF Inv

(***************************************************************************)
(* When every fresh source has heard all of the printer, the display shows *)
(* what the printer does: neither an earlier session, printer or print nor *)
(* a source that has grown old bleeds through what the two clients retain, *)
(* the published snapshot, the merge and the resolver.                     *)
(* (handle_report_payload of both clients, publish_combined_snapshot,      *)
(* merge_status_sources, resolve_ui_state)                                 *)
(***************************************************************************)
THEOREM TruthIsShown == Spec => []ToldIsShown
<1>1. Inv => ToldIsShown
  <2>1. SUFFICES ASSUME Inv, Told
                 PROVE  Shown.life \in MayShow(printer.sit)
    BY DEF ToldIsShown
  <2>2. printer \in Printers /\ local \in LocalStates /\ snap \in CloudStates
    BY <2>1 DEF Inv, Types
  <2>3. LocalSourceFresh => Fits(Resolve(local), printer)
    <3>1. SUFFICES ASSUME LocalSourceFresh
                   PROVE  Fits(Resolve(local), printer)
      OBVIOUS
    <3>2. LocalHeard(local, printer) /\ LocalCounted(local, printer)
      BY <2>1, <3>1, LocalKnowsHeard DEF Told
    <3>3. QED  BY <2>2, <3>2, LocalFits, ResolveFits
  <2>4. CloudSourceFresh => Fits(snap, printer)
    <3>1. SUFFICES ASSUME CloudSourceFresh
                   PROVE  Fits(snap, printer)
      OBVIOUS
    <3>2. CloudHeard(snap, printer, named)
      BY <2>1, <3>1, CloudKnowsHeard DEF Told
    <3>3. QED  BY <2>2, <3>2, CloudFits
  <2>5. LocalSourceFresh \/ CloudSourceFresh
    BY <2>1 DEF Told, LocalKnows, CloudKnows
  <2>6. Fits(Merge(mode, prefers, Resolve(local), LocalSourceFresh, snap, CloudSourceFresh),
             printer)
    BY <2>2, <2>3, <2>4, <2>5, MergeFits
  <2>7. QED  BY <2>2, <2>6, FitsShown DEF Shown
<1>2. QED  BY <1>1, Invariance, PTL

(***************************************************************************)
(* The local client that has heard all shows the percentage of this print, *)
(* or of its download while there is one, never what the download or the   *)
(* print before ended with.                                                *)
(* (PrinterClient::handle_report_payload, its resets of the progress)      *)
(***************************************************************************)
THEOREM ProgressOfThisPrint == Spec => []ProgressTold
<1>1. Inv => ProgressTold
  BY LocalKnowsHeard DEF ProgressTold, ExpectedProgress, LocalCounted, Expected
<1>2. QED  BY <1>1, Invariance, PTL

(***************************************************************************)
(* A running print has a filament stage in the local client exactly while  *)
(* filament is changed: the latch of ams_status neither lets go early nor  *)
(* keeps the stage once the filament is in place.                          *)
(* (PrinterClient::handle_report_payload)                                  *)
(***************************************************************************)
THEOREM FilamentStageFits == Spec => []FilamentTold
<1>1. Inv => FilamentTold
  <2>1. SUFFICES ASSUME Inv, LocalKnows, local.status = "RUNNING"
                 PROVE  local.rawStage \in FilamentStages <=>
                          printer.sit \in {"unloading", "loading"}
    BY DEF FilamentTold
  <2>2. printer \in Printers /\ printer.sit \in Sits
    BY <2>1 DEF Inv, Types, Printers
  <2>3. Full(printer).status = "RUNNING" /\ local.rawStage \in KeptStages(printer.sit)
    BY <2>1, LocalKnowsHeard DEF LocalHeard
  <2>4. printer.sit \in {"started", "printing", "between", "warned", "unloading", "loading"}
    BY <2>2, <2>3, PrinterStatus DEF Sits
  <2>5. QED  BY <2>3, <2>4 DEF KeptStages, FilamentStages
<1>2. QED  BY <1>1, Invariance, PTL

(***************************************************************************)
(* The routing of the sources.  HybridRouting is taken as an instance, as  *)
(* it has variables of the same names: its source mode, its session with   *)
(* the printer and its published snapshot are named apart from Telemetry's *)
(* here, and the assumption on its constants is a hypothesis.              *)
(*                                                                         *)
(* Its type invariant has one relation in it: a first status is awaited    *)
(* only of a live session that is up (waiting_for_live_payload).  There is *)
(* one lemma for each part of the state, as few actions disturb more than  *)
(* one.                                                                    *)
(***************************************************************************)
CONSTANTS Pages, Setups, MaxChanges

VARIABLES
  setup, routeMode, wifi, power, page, changes, cloudSees, pc, it, latch, gate, handoff,
  netReady, cloudNet, cloudLive, paused, session, fetching, listed, mqtt, sync, rest, live,
  published, dirty, presence

Routing == INSTANCE HybridRouting WITH mode <- routeMode, local <- session, snap <- published

\* RoutingAssumption of HybridRouting.
RoutingParameters ==
  /\ Modes \subseteq {"hybrid", "cloud", "local"}
  /\ Pages \subseteq {"home", "preview", "camera"}
  /\ Setups \subseteq Routing!SetupRecords
  /\ MaxChanges \in Nat

\* Configuration, Wi-Fi, printer and page change by the world's own actions only,
\* and what the cloud service believes by its notice.
LEMMA RoutingWorldStep ==
  ASSUME RoutingParameters, Routing!TypeOK, [Routing!Next]_(Routing!vars)
  PROVE  Routing!WorldOK'
<1> USE DEF Routing!TypeOK, Routing!WorldOK
<1>1. CASE Routing!World \/ Routing!CloudNotices
  <2>1. changes' \in 0..MaxChanges
    BY <1>1
       DEF RoutingParameters, Routing!World, Routing!ChangeMode, Routing!ChangeWifi,
           Routing!ChangePower, Routing!TurnPage, Routing!PageArrives, Routing!Change,
           Routing!CloudNotices
  <2>2. routeMode' \in Modes /\ page' \in Pages \cup {"home", "moving"} /\ setup' = setup
    BY <1>1
       DEF Routing!World, Routing!ChangeMode, Routing!ChangeWifi, Routing!ChangePower,
           Routing!TurnPage, Routing!PageArrives, Routing!Change, Routing!WorldFrame,
           Routing!CloudNotices
  <2>3. wifi' \in BOOLEAN /\ power' \in BOOLEAN /\ cloudSees' \in BOOLEAN
    BY <1>1, Zenon
       DEF Routing!World, Routing!ChangeMode, Routing!ChangeWifi, Routing!ChangePower,
           Routing!TurnPage, Routing!PageArrives, Routing!Change, Routing!WorldFrame,
           Routing!CloudNotices
  <2>4. QED
    BY <2>1, <2>2, <2>3
<1>2. UNCHANGED Routing!world \/ Routing!World \/ Routing!CloudNotices
  BY DEF Routing!Next, Routing!App, Routing!AppRead, Routing!AppApply, Routing!LocalAttempt,
         Routing!LocalConnects, Routing!LocalEnds, Routing!HandoffOver, Routing!CloudTask,
         Routing!CloudIdle, Routing!CloudStopsLive, Routing!CloudStartsLive,
         Routing!CloudRestartsLive, Routing!CloudFetches, Routing!FetchStores,
         Routing!FetchFails, Routing!CloudPublishes, Routing!CloudEvents, Routing!CloudUp,
         Routing!CloudDown, Routing!CloudReport, Routing!PresenceStore, Routing!PresenceLatch,
         Routing!FreshnessEnds, Routing!CloudFrame, Routing!vars
<1>3. QED
  BY <1>1, <1>2 DEF Routing!world

\* The application task's place and what it has read change by its own steps only.
LEMMA RoutingAppStep ==
  ASSUME RoutingParameters, Routing!TypeOK, [Routing!Next]_(Routing!vars)
  PROVE  Routing!AppOK'
<1> USE DEF Routing!TypeOK, Routing!AppOK
<1>1. CASE Routing!AppRead
  <2>1. routeMode \in {"hybrid", "cloud", "local"} /\ page \in Pages \cup {"home", "moving"}
    BY DEF RoutingParameters, Routing!WorldOK
  <2>2. wifi \in BOOLEAN /\ handoff \in BOOLEAN /\ (session = "up") \in BOOLEAN
    BY DEF Routing!WorldOK, Routing!SwitchesOK
  <2>3. it' \in [mode : {"hybrid", "cloud", "local"}, wifi : BOOLEAN,
                 page : Pages \cup {"home", "moving"}, handoff : BOOLEAN, local : BOOLEAN]
    BY <1>1, <2>1, <2>2 DEF Routing!AppRead
  <2>4. QED
    BY <1>1, <2>3 DEF Routing!AppRead
<1>2. CASE Routing!AppApply
  BY <1>2 DEF Routing!AppApply
<1>3. UNCHANGED <<pc, it>> \/ Routing!AppRead \/ Routing!AppApply
  BY DEF Routing!Next, Routing!App, Routing!LocalAttempt, Routing!LocalConnects,
         Routing!LocalEnds, Routing!HandoffOver, Routing!CloudTask, Routing!CloudIdle,
         Routing!CloudStopsLive, Routing!CloudStartsLive, Routing!CloudRestartsLive,
         Routing!CloudFetches, Routing!FetchStores, Routing!FetchFails, Routing!CloudPublishes,
         Routing!CloudEvents, Routing!CloudUp, Routing!CloudDown, Routing!CloudReport,
         Routing!PresenceStore, Routing!PresenceLatch, Routing!FreshnessEnds,
         Routing!CloudNotices, Routing!CloudFrame, Routing!World, Routing!ChangeMode,
         Routing!ChangeWifi, Routing!ChangePower, Routing!TurnPage, Routing!PageArrives,
         Routing!Change, Routing!WorldFrame, Routing!app, Routing!vars
<1>4. QED
  BY <1>1, <1>2, <1>3

\* The switches are thrown by the application and by the handoff; the latch is set
\* by the presence callback too.
LEMMA RoutingSwitchesStep ==
  ASSUME RoutingParameters, Routing!TypeOK, [Routing!Next]_(Routing!vars)
  PROVE  Routing!SwitchesOK'
<1> USE DEF Routing!TypeOK, Routing!SwitchesOK
<1>1. CASE Routing!AppRead
  BY <1>1, Zenon DEF Routing!AppRead
<1>2. CASE Routing!AppApply
  BY <1>2, Zenon DEF Routing!AppApply, Routing!CloudAllowed, Routing!Paused
<1>3. CASE Routing!LocalAttempt \/ Routing!HandoffOver \/ Routing!PresenceLatch
  BY <1>3, Zenon
     DEF Routing!LocalAttempt, Routing!HandoffOver, Routing!PresenceLatch, Routing!app,
         Routing!switches
<1>4. UNCHANGED <<latch, gate, handoff, Routing!switches>>
        \/ Routing!AppRead \/ Routing!AppApply \/ Routing!LocalAttempt
        \/ Routing!HandoffOver \/ Routing!PresenceLatch
  BY DEF Routing!Next, Routing!App, Routing!LocalConnects, Routing!LocalEnds, Routing!CloudTask,
         Routing!CloudIdle, Routing!CloudStopsLive, Routing!CloudStartsLive,
         Routing!CloudRestartsLive, Routing!CloudFetches, Routing!FetchStores,
         Routing!FetchFails, Routing!CloudPublishes, Routing!CloudEvents, Routing!CloudUp,
         Routing!CloudDown, Routing!CloudReport, Routing!PresenceStore, Routing!FreshnessEnds,
         Routing!CloudNotices, Routing!CloudFrame, Routing!World, Routing!ChangeMode,
         Routing!ChangeWifi, Routing!ChangePower, Routing!TurnPage, Routing!PageArrives,
         Routing!Change, Routing!WorldFrame, Routing!app, Routing!switches, Routing!vars
<1>5. QED
  BY <1>1, <1>2, <1>3, <1>4, Zenon DEF Routing!switches

\* The sessions: whatever stops the live client or loses its session also stops
\* waiting for its first status.
LEMMA RoutingSessionsStep ==
  ASSUME RoutingParameters, Routing!TypeOK, [Routing!Next]_(Routing!vars)
  PROVE  Routing!SessionsOK'
<1> USE DEF Routing!TypeOK, Routing!SessionsOK, Routing!SwitchesOK, Routing!WorldOK,
            Routing!CloudFrame, Routing!PublishDirty, Routing!StopMqtt
<1>1. CASE Routing!LocalAttempt \/ Routing!LocalConnects \/ Routing!LocalEnds
  <2>1. UNCHANGED Routing!cloud /\ session' \in {"off", "trying", "up"}
    BY <1>1 DEF Routing!LocalAttempt, Routing!LocalConnects, Routing!LocalEnds
  <2>2. QED
    BY <2>1, Zenon DEF Routing!cloud
<1>2. CASE Routing!CloudIdle
  BY <1>2, Zenon DEF Routing!CloudIdle
<1>3. CASE Routing!CloudStopsLive \/ Routing!CloudRestartsLive
  BY <1>3, Zenon DEF Routing!CloudStopsLive, Routing!CloudRestartsLive
<1>4. CASE Routing!CloudStartsLive
  <2>1. ~sync
    BY <1>4 DEF Routing!CloudStartsLive
  <2>2. QED
    BY <1>4, <2>1, Zenon DEF Routing!CloudStartsLive
<1>5. CASE \/ Routing!CloudFetches \/ Routing!FetchStores \/ Routing!FetchFails
           \/ Routing!CloudPublishes
  <2>1. UNCHANGED <<session, mqtt, sync, presence>>
    BY <1>5, Zenon
       DEF Routing!CloudFetches, Routing!FetchStores, Routing!FetchFails,
           Routing!CloudPublishes
  <2>2. fetching' \in BOOLEAN /\ listed' \in BOOLEAN /\ dirty' \in BOOLEAN
    BY <1>5, Zenon
       DEF Routing!CloudFetches, Routing!FetchStores, Routing!FetchFails,
           Routing!CloudPublishes
  <2>3. QED
    BY <2>1, <2>2, Zenon
<1>6. CASE Routing!CloudUp \/ Routing!CloudDown \/ Routing!CloudReport
  BY <1>6, Zenon DEF Routing!CloudUp, Routing!CloudDown, Routing!CloudReport
<1>7. CASE Routing!PresenceStore
  <2>1. presence' \in {"latch on", "latch off"}
    BY <1>7 DEF Routing!PresenceStore
  <2>2. UNCHANGED <<session, mqtt, fetching, listed>> /\ sync' = FALSE /\ dirty' = TRUE
    BY <1>7, Zenon DEF Routing!PresenceStore
  <2>3. QED
    BY <2>1, <2>2, Zenon
<1>8. CASE Routing!PresenceLatch \/ Routing!CloudNotices \/ Routing!FreshnessEnds
  <2>1. presence' \in {presence, "none", "connected", "disconnected"}
    BY <1>8 DEF Routing!PresenceLatch, Routing!CloudNotices, Routing!FreshnessEnds
  <2>2. presence' \in {"none", "connected", "disconnected", "latch on", "latch off"}
    BY <2>1
  <2>3. UNCHANGED <<session, mqtt, sync, fetching, listed, dirty>>
    BY <1>8, Zenon DEF Routing!PresenceLatch, Routing!CloudNotices, Routing!FreshnessEnds
  <2>4. QED
    BY <2>2, <2>3, Zenon
<1>9. CASE UNCHANGED <<session, Routing!cloud>>
  BY <1>9, Zenon DEF Routing!cloud
<1>10. QED
  BY <1>1, <1>2, <1>3, <1>4, <1>5, <1>6, <1>7, <1>8, <1>9
     DEF Routing!Next, Routing!App, Routing!AppRead, Routing!AppApply, Routing!HandoffOver,
         Routing!CloudTask, Routing!CloudEvents, Routing!World, Routing!ChangeMode,
         Routing!ChangeWifi, Routing!ChangePower, Routing!TurnPage, Routing!PageArrives,
         Routing!Change, Routing!WorldFrame, Routing!vars

\* What is published is made of Boolean parts.
LEMMA RoutingPublishedType ==
  ASSUME NEW r \in [ready : BOOLEAN, online : BOOLEAN],
         NEW l \in [conn : BOOLEAN, fresh : BOOLEAN], NEW m
  PROVE  Routing!Published(r, l, m) \in [session : BOOLEAN, online : BOOLEAN]
BY DEF Routing!Published

\* The runtime states and the snapshot made of them.
LEMMA RoutingStatesStep ==
  ASSUME RoutingParameters, Routing!TypeOK, [Routing!Next]_(Routing!vars)
  PROVE  Routing!StatesOK'
<1> USE DEF Routing!TypeOK, Routing!StatesOK
<1> DEFINE RestType == [ready : BOOLEAN, online : BOOLEAN]
           LiveType == [conn : BOOLEAN, fresh : BOOLEAN]
<1>1. CASE Routing!CloudIdle
  <2>1. rest' \in RestType /\ live' \in LiveType
    BY <1>1 DEF Routing!CloudIdle
  <2>2. QED
    BY <1>1, <2>1, RoutingPublishedType DEF Routing!CloudIdle
<1>2. CASE \/ Routing!CloudStopsLive \/ Routing!CloudStartsLive
           \/ Routing!CloudRestartsLive \/ Routing!CloudFetches \/ Routing!CloudPublishes
  BY <1>2, RoutingPublishedType
     DEF Routing!CloudStopsLive, Routing!CloudStartsLive, Routing!CloudRestartsLive,
         Routing!CloudFetches, Routing!CloudPublishes, Routing!PublishDirty
<1>3. CASE Routing!FetchStores
  <2>1. rest' \in RestType
    BY <1>3 DEF Routing!FetchStores, Routing!SessionsOK
  <2>2. QED
    BY <1>3, <2>1, RoutingPublishedType DEF Routing!FetchStores
<1>4. CASE Routing!CloudUp \/ Routing!CloudDown \/ Routing!CloudReport
  <2>1. live' \in LiveType
    <3>1. CASE Routing!CloudUp
      BY <3>1 DEF Routing!CloudUp
    <3>2. CASE Routing!CloudDown
      BY <3>2 DEF Routing!CloudDown
    <3>3. CASE Routing!CloudReport
      BY <3>3 DEF Routing!CloudReport
    <3>4. QED
      BY <1>4, <3>1, <3>2, <3>3
  <2>2. QED
    BY <1>4, <2>1, RoutingPublishedType
       DEF Routing!CloudUp, Routing!CloudDown, Routing!CloudReport
<1>5. CASE Routing!PresenceStore
  <2>1. (presence = "connected") \in BOOLEAN /\ (live.conn /\ presence = "connected") \in BOOLEAN
    OBVIOUS
  <2>2. rest' \in RestType
    BY <1>5, <2>1 DEF Routing!PresenceStore
  <2>3. live' \in LiveType
    BY <1>5, <2>1 DEF Routing!PresenceStore
  <2>4. QED
    BY <1>5, <2>2, <2>3, RoutingPublishedType DEF Routing!PresenceStore
<1>6. CASE Routing!FreshnessEnds
  BY <1>6 DEF Routing!FreshnessEnds
<1>7. CASE UNCHANGED <<rest, live, published>>
  BY <1>7
<1>8. QED
  BY <1>1, <1>2, <1>3, <1>4, <1>5, <1>6, <1>7
     DEF Routing!Next, Routing!App, Routing!AppRead, Routing!AppApply, Routing!LocalAttempt,
         Routing!LocalConnects, Routing!LocalEnds, Routing!HandoffOver, Routing!CloudTask,
         Routing!CloudEvents, Routing!FetchFails, Routing!PresenceLatch, Routing!CloudNotices,
         Routing!World, Routing!ChangeMode, Routing!ChangeWifi, Routing!ChangePower,
         Routing!TurnPage, Routing!PageArrives, Routing!Change, Routing!WorldFrame,
         Routing!cloud, Routing!vars

\* The variables keep their types in every setup and mode, and only a session that
\* is up is waiting for its first status: the restart of a silent session
\* (bambu_cloud_client.cpp, task_loop) never meets one that is stopped or starting.
THEOREM RoutingTypeCorrect ==
  ASSUME RoutingParameters
  PROVE  Routing!Spec => []Routing!TypeOK
<1>1. Routing!Init => Routing!TypeOK
  <2> SUFFICES ASSUME Routing!Init PROVE Routing!TypeOK
    OBVIOUS
  <2> USE DEF RoutingParameters, Routing!Init
  <2>1. Routing!WorldOK
    BY DEF Routing!WorldOK
  <2>2. Routing!AppOK
    BY DEF Routing!AppOK
  <2>3. Routing!SwitchesOK /\ Routing!SessionsOK
    BY DEF Routing!SwitchesOK, Routing!SessionsOK
  <2>4. setup.cloud \in BOOLEAN
    BY DEF Routing!SetupRecords
  <2>5. Routing!StatesOK
    BY <2>4 DEF Routing!StatesOK
  <2>6. QED
    BY <2>1, <2>2, <2>3, <2>5 DEF Routing!TypeOK
<1>2. Routing!TypeOK /\ [Routing!Next]_(Routing!vars) => Routing!TypeOK'
  BY RoutingWorldStep, RoutingAppStep, RoutingSwitchesStep, RoutingSessionsStep,
     RoutingStatesStep
     DEF Routing!TypeOK
<1>3. QED
  BY <1>1, <1>2, PTL DEF Routing!Spec
=============================================================================

------------------------------- MODULE WifiManager -------------------------------
(* The station and the setup access point (wifi_manager.cpp).  The application task *)
(* connects the station once, at boot; everything else happens in handlers of the    *)
(* event task.  A handler and the driver's step that it reports are one action.      *)
EXTENDS Naturals

CONSTANTS Threshold,   \* kSetupApRetryThreshold
          RetryRange,  \* values of the uint8_t counter of failures (256 in the code)
          MaxRouter    \* bound on appearances and disappearances of the router

ASSUME ThresholdAssumption == Threshold \in Nat /\ RetryRange \in Nat /\ Threshold < RetryRange
ASSUME RouterAssumption == MaxRouter \in Nat

VARIABLES
  creds,      \* Wi-Fi credentials are stored
  router,     \* a router with that name is in reach
  boot,       \* connect_station: "start", "scan", "done"
  start,      \* the event STA_START waits to be handled
  should,     \* sta_should_connect_
  config,     \* station configuration of the driver: "none", "locked" (one BSSID), "free"
  link,       \* the driver: "idle", "trying", "up"
  connected,  \* sta_connected_
  retries,    \* sta_disconnect_retries_
  ap,         \* setup_ap_active_
  moves       \* how much of MaxRouter is used

wifiVars == <<creds, router, boot, start, should, config, link, connected, retries, ap, moves>>

(* After start_setup_access_point.                                                  *)
WifiInit ==
  /\ creds \in BOOLEAN /\ router \in BOOLEAN /\ moves = 0
  /\ boot = IF creds THEN "start" ELSE "done"
  /\ start = TRUE /\ should = FALSE /\ config = "none" /\ link = "idle"
  /\ connected = FALSE /\ retries = 0 /\ ap = TRUE

(* connect_station before and after its scan, during which events are handled; the  *)
(* strongest access point found is locked.                                          *)
ConnectStation ==
  /\ boot = "start" /\ boot' = "scan"
  /\ should' = TRUE /\ connected' = FALSE /\ retries' = 0
  /\ UNCHANGED <<creds, router, start, config, link, ap, moves>>

ScanDone ==
  /\ boot = "scan" /\ boot' = "done"
  /\ config' \in IF router THEN {"locked", "free"} ELSE {"free"}
  /\ link' = "trying"
  /\ UNCHANGED <<creds, router, start, should, connected, retries, ap, moves>>

(* WIFI_EVENT_STA_START *)
StaStart ==
  /\ start /\ start' = FALSE
  /\ link' = IF should THEN "trying" ELSE link
  /\ UNCHANGED <<creds, router, boot, should, config, connected, retries, ap, moves>>

(* Mutation: StaDisconnected gives up once the setup access point is wanted.         *)
StaDisconnectedGivesUp ==
  /\ link \in {"trying", "up"}
  /\ connected' = FALSE /\ retries' = (retries + 1) % RetryRange
  /\ IF should /\ retries' < Threshold
     THEN link' = "trying" /\ config' = IF config = "locked" THEN "free" ELSE config
     ELSE link' = "idle" /\ UNCHANGED config
  /\ ap' \in IF retries' >= Threshold THEN {ap, TRUE} ELSE {ap}
  /\ UNCHANGED <<creds, router, boot, start, should, moves>>

(* WIFI_EVENT_STA_DISCONNECTED: try again without the lock, and from the third time  *)
(* on bring the access point back; the driver may refuse the change of mode.          *)
StaDisconnected ==
  /\ link \in {"trying", "up"}
  /\ connected' = FALSE /\ retries' = (retries + 1) % RetryRange
  /\ link' = IF should THEN "trying" ELSE "idle"
  /\ config' = IF should /\ config = "locked" THEN "free" ELSE config
  /\ ap' \in IF retries' >= Threshold THEN {ap, TRUE} ELSE {ap}
  /\ UNCHANGED <<creds, router, boot, start, should, moves>>

(* IP_EVENT_STA_GOT_IP *)
GotIp ==
  /\ link = "trying" /\ router /\ config # "none" /\ link' = "up"
  /\ connected' = TRUE /\ retries' = 0
  /\ ap' \in {ap, FALSE}
  /\ UNCHANGED <<creds, router, boot, start, should, config, moves>>

(* A locked access point may be gone though another one of that name is in reach:    *)
(* an attempt may fail whenever it likes.  A session needs the router.                *)
RouterMoves ==
  /\ moves < MaxRouter /\ moves' = moves + 1 /\ router' = ~router
  /\ UNCHANGED <<creds, boot, start, should, config, link, connected, retries, ap>>

WifiBoot == ConnectStation \/ ScanDone
WifiNext == WifiBoot \/ StaStart \/ StaDisconnected \/ GotIp \/ RouterMoves

WifiTypeOK ==
  /\ creds \in BOOLEAN /\ router \in BOOLEAN /\ start \in BOOLEAN /\ should \in BOOLEAN
  /\ connected \in BOOLEAN /\ ap \in BOOLEAN
  /\ boot \in {"start", "scan", "done"} /\ config \in {"none", "locked", "free"}
  /\ link \in {"idle", "trying", "up"} /\ retries \in 0..(RetryRange - 1)
  /\ moves \in 0..MaxRouter
==================================================================================

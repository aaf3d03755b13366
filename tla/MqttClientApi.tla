------------------------------ MODULE MqttClientApi ------------------------------
(* The contract of an esp-mqtt client handle, as src/ uses it: what any owner of  *)
(* such a handle promises.  One handle exists at a time; it is created for one    *)
(* broker and keeps it for life; the library's own task delivers events only      *)
(* while the client is running; the owner may stop the client at any time, but    *)
(* the stop returns only when no event handler is in flight, and only a stopped   *)
(* (or never started) client is destroyed.                                        *)
(*                                                                                *)
(* PrinterClient implements this specification (property ImplementsApi there).    *)

CONSTANTS Conns,    \* the brokers a client can be created for
          NoConn    \* no broker: the handle is null

VARIABLES handle,   \* the life of the handle
          broker,   \* the broker the live handle was created for
          handling  \* the library's task is inside the owner's event handler

vars == <<handle, broker, handling>>

HandleStates == {"none", "created", "running", "stopped"}

TypeOK == /\ handle \in HandleStates
          /\ broker \in Conns \cup {NoConn}
          /\ handling \in BOOLEAN

Init == /\ handle = "none"
        /\ broker = NoConn
        /\ handling = FALSE

(* esp_mqtt_client_init: a handle is never overwritten by a second one. *)
Create == /\ handle = "none"
          /\ handle' = "created"
          /\ broker' \in Conns
          /\ UNCHANGED handling

(* esp_mqtt_client_start starts the library's task. *)
Start == /\ handle = "created"
         /\ handle' = "running"
         /\ UNCHANGED <<broker, handling>>

(* An event is delivered to, and returns from, the registered handler. *)
EnterHandler == /\ handle = "running"
                /\ ~handling
                /\ handling' = TRUE
                /\ UNCHANGED <<handle, broker>>

LeaveHandler == /\ handling
                /\ handling' = FALSE
                /\ UNCHANGED <<handle, broker>>

(* esp_mqtt_client_stop joins the library's task. *)
Stop == /\ handle = "running"
        /\ ~handling
        /\ handle' = "stopped"
        /\ UNCHANGED <<broker, handling>>

(* esp_mqtt_client_destroy frees a handle that was stopped or failed to start. *)
Destroy == /\ handle \in {"created", "stopped"}
           /\ handle' = "none"
           /\ broker' = NoConn
           /\ UNCHANGED handling

Next == Create \/ Start \/ EnterHandler \/ LeaveHandler \/ Stop \/ Destroy

Spec == Init /\ [][Next]_vars
==================================================================================

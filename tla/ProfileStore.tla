------------------------------- MODULE ProfileStore -------------------------------
(* The printer profiles: their keys in flash (src/main/src/config_store.cpp), the    *)
(* portal's handlers that edit them (setup_portal.cpp, all on the web server's one   *)
(* task), the application's switch of printers (application.cpp) and a loss of power  *)
(* at any moment.  Every save_string is one commit; the six keys of a profile are     *)
(* reduced to serial, host and access code, and a value to the printer it belongs to, *)
(* so that a mixture of two printers shows.  Commits do not fail.                     *)
EXTENDS Integers, Sequences, FiniteSets

CONSTANTS Printers,    \* serial numbers
          None,        \* an empty string
          Legacy,      \* the printer of the flat keys of firmware 1.3
          MaxProfiles, \* kMaxPrinterProfiles
          Stored,      \* bound: profiles stored at the start
          MaxRequests, \* bound: requests to the portal
          MaxCrashes   \* bound: losses of power

ASSUME StoreAssumption == /\ None \notin Printers /\ Legacy \in Printers
                          /\ MaxProfiles \in Nat \ {0} /\ Stored \in 0..MaxProfiles
                          /\ MaxRequests \in Nat /\ MaxCrashes \in Nat

Slots == 0..MaxProfiles - 1
Values == Printers \cup {None}
Profiles == [ser : Values, host : Values, acc : Values]
Fields == {"ser", "host", "acc"}
Empty == [ser |-> None, host |-> None, acc |-> None]
WithLocal(p) == [ser |-> p, host |-> p, acc |-> p]
CloudOnly(p) == [Empty EXCEPT !.ser = p]

VARIABLES
  \* flash: the keys of the slots, prn_count, prn_active, and how many of the flat keys
  \* (host, serial, access, cleared in this order) are left
  slots, count, active, legacy,
  \* the one task that writes profiles (first the boot, then the web server): the
  \* commits it is about to make, what follows them, and the request it works on
  queue, pc, req,
  \* the application task: program counter, the index and the profile it has read;
  \* the slots on its printer cards
  app, cards,
  \* the connection given to the printer and camera clients, the serial given to the
  \* cloud client, and portal reboot_requested_
  conn, bound, reboot,
  \* bounds, and history for the properties: a crash has cut a write that turns one
  \* printer's slot into another's, or the clearing of the flat keys; how slots have lost
  \* their serials (0: none has, 1: a delete was cut, 2: a second one was, or such a slot
  \* has lost its local access too); a request has written profiles; the printer the
  \* active index must designate after the delete in progress, and the other printers
  \* that were whole when it began
  requests, crashes, cut, torn, touched, follows, others

flash == <<slots, count, active, legacy>>
clients == <<conn, bound>>
history == <<cut, torn, touched, follows, others>>
vars == <<flash, queue, pc, req, app, cards, clients, reboot, requests, crashes, history>>

NoRequest == [op |-> "none", slot |-> 0, conn |-> Empty, flag |-> FALSE]
AppOff == [pc |-> "off", idx |-> 0, conn |-> Empty]

(* A store that firmware 1.4 has written, or one to be migrated.                     *)
Init ==
  /\ count \in 0..Stored
  /\ slots \in [Slots -> {Empty} \cup {WithLocal(p) : p \in Printers}
                                 \cup {CloudOnly(p) : p \in Printers}]
  /\ \A i \in Slots : slots[i] = Empty <=> i >= count
  /\ \A i, j \in 0..count - 1 : i # j => slots[i].ser # slots[j].ser
  /\ active \in Slots /\ (active < count \/ active = 0)
  /\ legacy \in IF count = 0 THEN {0, 3} ELSE {0}
  /\ queue = <<>> /\ pc = "boot" /\ req = NoRequest
  /\ app = AppOff /\ cards = {}
  /\ conn = Empty /\ bound = None /\ reboot = FALSE
  /\ requests = 0 /\ crashes = 0
  /\ cut = FALSE /\ torn = 0 /\ touched = (legacy = 0) /\ follows = None
  /\ others = {}

----------------------------------------------------------------------------------
(* What load_printer_profiles returns (a slot without serial and host is skipped),    *)
(* and load_active_printer_profile for the index i.                                  *)
Listed == {i \in Slots : i < count /\ (slots[i].ser # None \/ slots[i].host # None)}
ActiveProfile(i) == IF i \in Listed THEN slots[i] ELSE Empty
Kept(p) == \E i \in Listed : slots[i] = WithLocal(p)
First(S) == CHOOSE i \in S : \A j \in S : i <= j

Ready(c) == \A f \in Fields : c[f] # None

(* Commits, one key each: key, slot (or number), value.                              *)
Key(k, n, v) == [key |-> k, slot |-> n, val |-> v]
PutProfile(i, p) == <<Key("ser", i, p.ser), Key("host", i, p.host), Key("acc", i, p.acc)>>

(* save_printer_profile: the count last, and only for a new slot.                    *)
SaveWrites(i, p) ==
  PutProfile(i, p) \o (IF i >= count THEN <<Key("count", i + 1, None)>> ELSE <<>>)

(* delete_printer_profile: each slot above moves down, key by key, the last one is    *)
(* emptied, and the count follows.                                                    *)
FieldNo(n) == CASE n = 0 -> "ser" [] n = 1 -> "host" [] n = 2 -> "acc"
DeleteFromAbove(i) ==
  [n \in 1..3 * (count - i) |->
     LET s == (count - 1) - ((n - 1) \div 3)
         f == FieldNo((n - 1) % 3) IN
     Key(f, s, IF s = count - 1 THEN None ELSE slots[s + 1][f])]
  \o <<Key("count", count - 1, None)>>
DeleteInPlace(i) == PutProfile(i, Empty)
DeleteWrites(i) ==
  [n \in 1..3 * (count - i) |->
     LET s == i + ((n - 1) \div 3)
         f == FieldNo((n - 1) % 3) IN
     Key(f, s, IF s = count - 1 THEN None ELSE slots[s + 1][f])]
  \o <<Key("count", count - 1, None)>>

(* migrate_legacy_printer_profile: slot 0, the active index, then the flat keys are    *)
(* emptied one by one.                                                                *)
OldProfile == [ser |-> IF legacy >= 2 THEN Legacy ELSE None,
               host |-> IF legacy = 3 THEN Legacy ELSE None,
               acc |-> Legacy]
ClearOld == [n \in 1..legacy |-> Key("legacy", legacy - n, None)]
MigrateClearFirst ==
  ClearOld \o SaveWrites(0, OldProfile) \o <<Key("active", 0, None)>>
MigrateWrites ==
  SaveWrites(0, OldProfile) \o <<Key("active", 0, None)>> \o ClearOld

(* printer_profile_mutex_ is free: saves hold it for their commits, a delete also      *)
(* while it adjusts the active index.                                                 *)
UnlockedAlways == TRUE
Unlocked == queue = <<>> /\ pc \notin {"adjust", "adjusted"}

(* The next commit.                                                                   *)
Commit ==
  /\ queue # <<>>
  /\ LET w == Head(queue) IN
       /\ slots' = IF w.key \in Fields
                   THEN [slots EXCEPT ![w.slot] = [@ EXCEPT ![w.key] = w.val]] ELSE slots
       /\ count' = IF w.key = "count" THEN w.slot ELSE count
       /\ active' = IF w.key = "active" THEN w.slot ELSE active
       /\ legacy' = IF w.key = "legacy" THEN w.slot ELSE legacy
  /\ queue' = Tail(queue)
  /\ UNCHANGED <<pc, req, app, cards, clients, reboot, requests, crashes, history>>

----------------------------------------------------------------------------------
(* Boot: ConfigStore::initialize migrates once; then the web server starts, and the    *)
(* application goes on to configure the clients for the active profile.               *)
Boot ==
  /\ pc = "boot"
  /\ queue' = IF count = 0 /\ legacy > 0 THEN MigrateWrites ELSE <<>>
  /\ pc' = "start"
  /\ UNCHANGED <<flash, req, app, cards, clients, reboot, requests, crashes, history>>

Start ==
  /\ pc = "start" /\ queue = <<>>
  /\ pc' = "idle"
  /\ app' = [app EXCEPT !.pc = "read"]
  /\ UNCHANGED <<flash, queue, req, cards, clients, reboot, requests, crashes, history>>

(* A loss of power, or the reboot that the settings form asked for.                   *)
Crash ==
  /\ reboot \/ crashes < MaxCrashes
  /\ crashes' = IF reboot THEN crashes ELSE crashes + 1
  /\ pc' = "boot" /\ queue' = <<>> /\ req' = NoRequest
  /\ app' = AppOff /\ cards' = {} /\ conn' = Empty /\ bound' = None /\ reboot' = FALSE
  /\ cut' = (cut \/ (queue # <<>> /\ req.op \in {"delete", "form"}) \/ legacy \notin {0, 3})
  /\ torn' = IF queue # <<>> /\ pc = "adjust" THEN (IF torn = 0 THEN 1 ELSE 2) ELSE torn
  /\ follows' = None /\ others' = {}
  /\ UNCHANGED <<flash, requests, touched>>

----------------------------------------------------------------------------------
(* The application: the printer cards, and the switch to the card the user touched.    *)
AppCards ==
  /\ app.pc = "idle" /\ Unlocked
  /\ cards' = Listed
  /\ UNCHANGED <<flash, queue, pc, req, app, clients, reboot, requests, crashes, history>>

AppSwitch ==
  /\ app.pc = "idle"
  /\ \E i \in cards : i # active /\ active' = i
  /\ app' = [app EXCEPT !.pc = "read"]
  /\ follows' = None
  /\ UNCHANGED <<slots, count, legacy, queue, pc, req, cards, clients, reboot, requests,
                 crashes, cut, torn, touched, others>>

(* load_active_printer_profile reads the index without the mutex, the list with it.    *)
AppRead ==
  /\ app.pc = "read"
  /\ app' = [app EXCEPT !.pc = "list", !.idx = active]
  /\ UNCHANGED <<flash, queue, pc, req, cards, clients, reboot, requests, crashes, history>>

AppList ==
  /\ app.pc = "list" /\ Unlocked
  /\ app' = [app EXCEPT !.pc = "serve", !.conn = ActiveProfile(app.idx)]
  /\ UNCHANGED <<flash, queue, pc, req, cards, clients, reboot, requests, crashes, history>>

AppServe ==
  /\ app.pc = "serve"
  /\ conn' = app.conn /\ bound' = app.conn.ser
  /\ app' = [app EXCEPT !.pc = "idle", !.idx = 0, !.conn = Empty]
  /\ UNCHANGED <<flash, queue, pc, req, cards, reboot, requests, crashes, history>>

----------------------------------------------------------------------------------
(* The portal's handlers.  A form names one printer and may leave host or access code  *)
(* empty; an empty access code is taken from the stored profile of the same serial.    *)
Forms == {f \in Profiles : /\ f.ser # None
                           /\ f.host \in {f.ser, None} /\ f.acc \in {f.ser, None}}
Merged(f) ==
  LET stored == ActiveProfile(active) IN
  IF f.acc = None /\ f.ser # None /\ f.ser = stored.ser THEN [f EXCEPT !.acc = stored.acc] ELSE f

Request ==
  /\ pc = "idle" /\ queue = <<>> /\ requests < MaxRequests
  /\ requests' = requests + 1
Working(op, i, c, flag) == req' = [op |-> op, slot |-> i, conn |-> c, flag |-> flag]

(* handle_config_post: the form is completed and checked first, and stored over what   *)
(* is then the active profile; a default profile has index 0.                         *)
FormPost ==
  /\ Request
  /\ \E f \in Forms \cup {Empty} : LET c == Merged(f) IN
       /\ Ready(c) \/ (c.host = None /\ c.acc = None)
       /\ Working("form", 0, c, FALSE)
  /\ pc' = "form"
  /\ UNCHANGED <<flash, queue, app, cards, clients, reboot, crashes, history>>

FormStore ==
  /\ pc = "form"
  /\ req' = [req EXCEPT !.slot = IF active \in Listed THEN active ELSE 0]
  /\ queue' = IF req.conn.ser = None THEN <<>> ELSE SaveWrites(req'.slot, req.conn)
  /\ pc' = "reboot" /\ touched' = (touched \/ req.conn.ser # None)
  /\ UNCHANGED <<flash, app, cards, clients, reboot, requests, crashes, cut, torn, follows,
                 others>>

FormDone ==
  /\ pc = "reboot" /\ queue = <<>>
  /\ reboot' = TRUE /\ pc' = "idle" /\ req' = NoRequest
  /\ UNCHANGED <<flash, queue, app, cards, clients, requests, crashes, history>>

(* Upsert: the first profile with this serial, or the slot after the listed ones.      *)
SlotOf(serial) ==
  LET same == {i \in Listed : slots[i].ser = serial} IN
  IF same # {} THEN First(same) ELSE Cardinality(Listed)

(* handle_local_connect; in cloud-only mode the clients are not configured.            *)
LocalConnect ==
  /\ Request
  /\ \E f \in Forms, configures \in BOOLEAN : LET c == Merged(f) IN
       /\ Ready(c)
       /\ Working("connect", SlotOf(c.ser), c, configures)
  /\ queue' = IF req'.slot < MaxProfiles THEN SaveWrites(req'.slot, req'.conn) ELSE <<>>
  /\ pc' = IF req'.slot < MaxProfiles THEN "activate" ELSE "serve"
  /\ touched' = TRUE
  /\ UNCHANGED <<flash, app, cards, clients, reboot, crashes, cut, torn, follows, others>>

(* handle_printers_save: an empty field keeps what a known profile has.                *)
Save ==
  /\ Request
  /\ \E f \in Forms : LET i == SlotOf(f.ser)
                          was == IF i \in Listed /\ slots[i].ser = f.ser
                                 THEN slots[i] ELSE Empty IN
       /\ i < MaxProfiles
       /\ Working("save", i,
                  [ser |-> f.ser,
                   host |-> IF f.host = None THEN was.host ELSE f.host,
                   acc |-> IF f.acc = None THEN was.acc ELSE f.acc], FALSE)
  /\ queue' = SaveWrites(req'.slot, req'.conn)
  /\ touched' = TRUE
  /\ UNCHANGED <<flash, pc, app, cards, clients, reboot, crashes, cut, torn, follows, others>>

(* handle_printers_select.                                                            *)
Select ==
  /\ Request
  /\ \E i \in Listed : Working("select", i, slots[i], TRUE)
  /\ pc' = "activate"
  /\ UNCHANGED <<flash, queue, app, cards, clients, reboot, crashes, history>>

(* handle_printers_delete reads the active index, then calls delete_printer_profile.   *)
Delete ==
  /\ Request
  /\ \E i \in 0..count - 1 : Working("delete", i, slots[i], i = active)
  /\ pc' = "delete" /\ touched' = TRUE
  /\ UNCHANGED <<flash, queue, app, cards, clients, reboot, crashes, cut, torn, follows, others>>

DeleteStart ==
  /\ pc = "delete"
  /\ queue' = DeleteWrites(req.slot)
  /\ pc' = "adjust"
  /\ follows' = IF active \in Listed \ {req.slot} THEN slots[active].ser ELSE None
  /\ others' = {p \in Printers \ {req.conn.ser} : Kept(p)}
  /\ UNCHANGED <<flash, req, app, cards, clients, reboot, requests, crashes, cut, torn,
                 touched>>

AfterDelete == IF req.flag THEN "drop" ELSE "idle"

Adjust ==
  /\ pc = "adjust" /\ queue = <<>>
  /\ \/ /\ active >= req.slot
        /\ pc' = "adjusted"
        /\ req' = [req EXCEPT !.slot = IF active = @ THEN 0 ELSE active - 1]
     \/ /\ active < req.slot
        /\ pc' = AfterDelete /\ UNCHANGED req
  /\ others' = {}
  /\ UNCHANGED <<flash, queue, app, cards, clients, reboot, requests, crashes, cut,
                 torn, touched, follows>>

AdjustToFirst ==
  /\ pc = "adjusted"
  /\ active' = 0 /\ pc' = AfterDelete
  /\ UNCHANGED <<slots, count, legacy, queue, req, app, cards, clients, reboot, requests,
                 crashes, history>>
AdjustWrite ==
  /\ pc = "adjusted"
  /\ active' = req.slot /\ pc' = AfterDelete
  /\ UNCHANGED <<slots, count, legacy, queue, req, app, cards, clients, reboot, requests,
                 crashes, history>>

(* The deleted profile was the active one: the clients let go of it, and the first     *)
(* remaining one takes its place.                                                     *)
Drop ==
  /\ pc = "drop"
  /\ conn' = Empty /\ bound' = None
  /\ IF Listed = {}
     THEN pc' = "idle" /\ req' = NoRequest
     ELSE pc' = "activate" /\ Working("delete", First(Listed), slots[First(Listed)], TRUE)
  /\ UNCHANGED <<flash, queue, app, cards, reboot, requests, crashes, history>>

(* handle_printers_clear_local.                                                       *)
ClearLocal ==
  /\ Request
  /\ \E i \in Listed :
       /\ Working("clear", i, [slots[i] EXCEPT !.host = None, !.acc = None], FALSE)
       /\ torn' = IF slots[i].ser = None THEN 2 ELSE torn
  /\ queue' = SaveWrites(req'.slot, req'.conn)
  /\ pc' = "cleared" /\ touched' = TRUE
  /\ UNCHANGED <<flash, app, cards, clients, reboot, crashes, cut, follows, others>>

Cleared ==
  /\ pc = "cleared" /\ queue = <<>>
  /\ conn' = IF active = req.slot THEN Empty ELSE conn
  /\ pc' = "idle" /\ req' = NoRequest
  /\ UNCHANGED <<flash, queue, app, cards, bound, reboot, requests, crashes, history>>

(* save_active_printer_index of connect, select and delete.                            *)
Activate ==
  /\ pc = "activate" /\ queue = <<>>
  /\ active' = req.slot
  /\ pc' = "serve"
  /\ UNCHANGED <<slots, count, legacy, queue, req, app, cards, clients, reboot, requests,
                 crashes, history>>

(* The clients are configured: the local ones only with a complete connection, the     *)
(* cloud client only by select and delete.                                             *)
Serve ==
  /\ pc = "serve"
  /\ conn' = IF req.flag /\ Ready(req.conn) THEN req.conn ELSE conn
  /\ bound' = IF req.op = "connect" THEN bound ELSE req.conn.ser
  /\ pc' = "idle" /\ req' = NoRequest
  /\ UNCHANGED <<flash, queue, app, cards, reboot, requests, crashes, history>>

Portal == \/ FormPost \/ FormStore \/ FormDone \/ LocalConnect \/ Save \/ Select
          \/ Delete \/ DeleteStart \/ Adjust \/ AdjustWrite \/ Drop
          \/ ClearLocal \/ Cleared \/ Activate \/ Serve
Application == AppCards \/ AppSwitch \/ AppRead \/ AppList \/ AppServe

Next == Commit \/ Boot \/ Start \/ Crash \/ Application \/ Portal

Spec == Init /\ [][Next]_vars

----------------------------------------------------------------------------------
Commits == [key : Fields, slot : Slots, val : Values]
           \cup [key : {"count"}, slot : 0..MaxProfiles, val : {None}]
           \cup [key : {"active"}, slot : Slots, val : {None}]
           \cup [key : {"legacy"}, slot : 0..3, val : {None}]

(* Types of every variable, and the writer has nothing to commit while it waits.       *)
TypeOK ==
  /\ slots \in [Slots -> Profiles] /\ count \in 0..MaxProfiles
  /\ active \in Slots /\ legacy \in 0..3
  /\ queue \in Seq(Commits)
  /\ pc \in {"boot", "start", "idle", "form", "reboot", "activate", "serve", "delete",
             "adjust", "adjusted", "drop", "cleared"}
  /\ req \in [op : {"none", "form", "connect", "save", "select", "delete", "clear"},
              slot : 0..MaxProfiles, conn : Profiles, flag : BOOLEAN]
  /\ app \in [pc : {"off", "idle", "read", "list", "serve"}, idx : Slots, conn : Profiles]
  /\ cards \subseteq Slots
  /\ conn \in Profiles /\ bound \in Values /\ reboot \in BOOLEAN
  /\ requests \in 0..MaxRequests /\ crashes \in 0..MaxCrashes
  /\ cut \in BOOLEAN /\ torn \in 0..2 /\ touched \in BOOLEAN /\ follows \in Values
  /\ others \subseteq Printers

(* No client is ever given the host or access code of one printer under the serial of  *)
(* another, whatever the application reads while the portal rewrites slots key by key   *)
(* -- unless a loss of power once cut such a rewrite, or the clearing of the flat keys,    *)
(* which can then come back as half a profile.  (printer_profile_mutex_.)                  *)
Mixed(c) == \E f, g \in Fields : c[f] # None /\ c[g] # None /\ c[f] # c[g]
NoMixedConnection == ~cut => ~Mixed(conn) /\ ~Mixed(app.conn)

(* A printer with local access that is not the one being deleted is whole in some listed  *)
(* slot after every single commit of the delete: losing power in the middle of the shift  *)
(* loses no other printer.                                                                *)
DeleteKeepsOthers == pc = "adjust" => \A p \in others : Kept(p)

(* Connecting or saving a printer that has no profile never takes the slot of another    *)
(* printer, also after a loss of power has left slots that load_printer_profiles skips:  *)
(* the number of listed profiles is a free slot.  (After two deletes, each cut, or when     *)
(* the local access of a slot that a cut delete left without serial has been cleared, a   *)
(* skipped slot can lie below a used one; then it is not.)                                *)
UpsertNeverClobbers ==
  [][(queue = <<>> /\ queue' # <<>> /\ req'.op \in {"connect", "save"} /\ torn < 2) =>
       (req'.slot \in Listed => slots[req'.slot].ser \in {None, req'.conn.ser})]_vars

(* After a delete the active index designates the printer it designated before (unless   *)
(* that one was deleted, or the user switched printers meanwhile).                       *)
ActiveFollows ==
  [][(pc \in {"adjust", "adjusted"} /\ pc' \in {"idle", "drop"} /\ follows # None) =>
       slots[active'].ser = follows]_vars

(* The printer of an upgraded device is never lost by the migration, cut as often as     *)
(* may be: until a request writes profiles it is in the flat keys or in slot 0.           *)
LegacyKept == ~touched => legacy = 3 \/ (count > 0 /\ slots[0] = WithLocal(Legacy))
=============================================================================

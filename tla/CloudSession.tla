------------------------------- MODULE CloudSession -------------------------------
(* Which Bambu account the display is logged in to: the credentials and the token in  *)
(* flash (src/main/src/config_store.cpp), the portal's requests (setup_portal.cpp),   *)
(* and the session of the cloud client (bambu_cloud_client.cpp): its task with the     *)
(* login, the binding requests and the esp-mqtt client, whose events come on a task of *)
(* their own.  An account stands for its e-mail address, for its password and for the  *)
(* token it gets, so that what belongs to whom shows.  What the session shows of the    *)
(* printer is in HybridRouting.                                                        *)
EXTENDS Naturals

CONSTANTS Accounts,     \* Bambu accounts
          Known,        \* those of them that flash may hold at first
          None,         \* an empty string
          NotLoaded,    \* no credentials (as distinct from empty ones)
          MaxConnects,  \* bound: "connect" requests to the portal
          MaxSwitches,  \* bound: switches of printers on the display
          MaxCodes,     \* bound: verification codes submitted
          MaxDenials,   \* bound: refusals of a valid token, expiries included
          MaxDrops,     \* bound: losses of the network
          MaxCrashes    \* bound: losses of power

ASSUME SessionAssumption ==
  /\ None \notin Accounts /\ Known \subseteq Accounts
  /\ \A n \in {MaxConnects, MaxSwitches, MaxCodes, MaxDenials, MaxDrops, MaxCrashes} :
       n \in Nat

VARIABLES
  \* flash: cloud_email, cloud_pass, cloud_token
  sEmail, sPass, sToken,
  \* the portal: program counter, the e-mail and password it saves, and whether
  \* save_cloud_credentials found a change
  portal,
  \* the application: the credentials it has loaded for configure, or NotLoaded
  app,
  \* requests to the cloud task: the pending credentials (or NotLoaded), reload
  pending, reload,
  \* the cloud task: program counter; credentials_, access_token_, token_expiry_us_
  \* ("never" for a token from flash), auth_mode_ and pending_verification_code_
  pc, email, pass, token, expiry, mode, code,
  \* save_cloud_credentials of the cloud task found a change
  changed,
  \* network_ready_, the token the esp-mqtt client was created with, and what its
  \* refusal leaves: recovery requested, login held back; history: this session's token was
  \* refused
  net, client, recovery, retry, refused,
  \* history: the credentials in RAM were read before the last change in flash; a loss of
  \* power cut a save, or commits of the task came after the portal had found no change
  old, torn,
  \* bounds
  connects, switches, codes, denials, drops, crashes

flash == <<sEmail, sPass, sToken>>
session == <<email, pass, token, expiry, mode, code>>
mqtt == <<client, recovery, retry, refused>>
bounds == <<connects, switches, codes, denials, drops, crashes>>
others == <<portal, app>>
vars == <<flash, portal, app, pending, reload, pc, session, changed, net, mqtt,
          old, torn, bounds>>

Strings == Accounts \cup {None}
Creds == [email : Strings, pass : Strings]
PortalIdle == [pc |-> "idle", email |-> None, pass |-> None, changed |-> FALSE]

(* Boot: the application configures the client with what the store has, and starts     *)
(* its task.                                                                           *)
Booted ==
  /\ pc' = "token" /\ email' = sEmail /\ pass' = sPass
  /\ token' = None /\ expiry' = "passed" /\ mode' = "password" /\ code' = 0
  /\ portal' = PortalIdle /\ app' = NotLoaded /\ pending' = NotLoaded /\ reload' = FALSE
  /\ changed' = FALSE /\ net' = FALSE
  /\ client' = None /\ recovery' = FALSE /\ retry' = FALSE /\ refused' = None
  /\ old' = FALSE

Init ==
  /\ \E a \in Known \cup {None} : sEmail = a /\ sPass \in {a, None} /\ sToken \in {a, None}
  /\ pc = "token" /\ email = sEmail /\ pass = sPass
  /\ token = None /\ expiry = "passed" /\ mode = "password" /\ code = 0
  /\ portal = PortalIdle /\ app = NotLoaded /\ pending = NotLoaded /\ reload = FALSE
  /\ changed = FALSE /\ net = FALSE
  /\ client = None /\ recovery = FALSE /\ retry = FALSE /\ refused = None
  /\ old = FALSE /\ torn = FALSE
  /\ connects = 0 /\ switches = 0 /\ codes = 0 /\ denials = 0 /\ drops = 0 /\ crashes = 0

Crash ==
  /\ crashes < MaxCrashes /\ crashes' = crashes + 1
  /\ Booted
  /\ torn' = (torn \/ portal.pc # "idle" \/ pc \in {"previous", "email", "pass", "clear"})
  /\ UNCHANGED <<flash, connects, switches, codes, denials, drops>>

----------------------------------------------------------------------------------
(* The portal: handle_cloud_connect with e-mail and password of an account, or with no     *)
(* password, in a mode that uses the cloud: merge_cloud_credentials takes the stored one     *)
(* for the stored e-mail, and without any a stored session must be there.                    *)
(* save_cloud_credentials compares with what was stored, commits e-mail and password, and    *)
(* clears the token if there was a change; then the client is told to reload.                *)
Connect ==
  /\ portal.pc = "idle" /\ connects < MaxConnects /\ net
  /\ connects' = connects + 1
  /\ \E a \in Accounts, p \in Strings :
       /\ \/ p = a
          \/ sEmail = a /\ p = sPass /\ (p # None \/ sToken # None)
       /\ portal' = [pc |-> "email", email |-> a, pass |-> p,
                     changed |-> sEmail # a \/ (p # None /\ sPass # p)]
  /\ UNCHANGED <<flash, app, pending, reload, pc, session, changed, net, mqtt, old, torn,
                 switches, codes, denials, drops, crashes>>

PortalSaveKeepsToken ==
  /\ \/ /\ portal.pc = "email"
        /\ sEmail' = portal.email /\ portal' = [portal EXCEPT !.pc = "pass"]
        /\ UNCHANGED <<sPass, sToken>>
     \/ /\ portal.pc = "pass"
        /\ sPass' = portal.pass
        /\ portal' = [portal EXCEPT !.pc = "reload"]
        /\ UNCHANGED <<sEmail, sToken>>
     \/ /\ portal.pc = "clear"
        /\ sToken' = None /\ portal' = [portal EXCEPT !.pc = "reload"]
        /\ UNCHANGED <<sEmail, sPass>>
  /\ UNCHANGED <<app, pending, reload, pc, session, changed, net, mqtt, old, torn,
                 bounds>>
PortalSave ==
  /\ \/ /\ portal.pc = "email"
        /\ sEmail' = portal.email /\ portal' = [portal EXCEPT !.pc = "pass"]
        /\ UNCHANGED <<sPass, sToken>>
     \/ /\ portal.pc = "pass"
        /\ sPass' = portal.pass
        /\ portal' = [portal EXCEPT !.pc = IF portal.changed THEN "clear" ELSE "reload"]
        /\ UNCHANGED <<sEmail, sToken>>
     \/ /\ portal.pc = "clear"
        /\ sToken' = None /\ portal' = [portal EXCEPT !.pc = "reload"]
        /\ UNCHANGED <<sEmail, sPass>>
  /\ UNCHANGED <<app, pending, reload, pc, session, changed, net, mqtt, old, torn,
                 bounds>>

PortalReload ==
  /\ portal.pc = "reload"
  /\ reload' = TRUE
  /\ portal' = PortalIdle
  /\ UNCHANGED <<flash, app, pending, pc, session, changed, net, mqtt, old, torn, bounds>>

(* handle_cloud_verify: submit_verification_code.                                       *)
SubmitCode ==
  /\ portal.pc = "idle" /\ codes < MaxCodes
  /\ codes' = codes + 1 /\ code' = codes'
  /\ UNCHANGED <<flash, others, pending, reload, pc, email, pass, token, expiry, mode,
                 changed, net, mqtt, old, torn, connects, switches, denials, drops, crashes>>

(* The application switches printers (and the portal selects one): it loads the            *)
(* credentials, of which a missing one is empty, then configure queues them for the cloud   *)
(* task.                                                                                  *)
SwitchLoad ==
  /\ app = NotLoaded /\ switches < MaxSwitches
  /\ switches' = switches + 1
  /\ app' = [email |-> sEmail, pass |-> sPass]
  /\ UNCHANGED <<flash, portal, pending, reload, pc, session, changed, net, mqtt,
                 old, torn, connects, codes, denials, drops, crashes>>

SwitchConfigure ==
  /\ app # NotLoaded
  /\ pending' = app /\ app' = NotLoaded
  /\ UNCHANGED <<flash, portal, reload, pc, session, changed, net, mqtt, old, torn,
                 bounds>>

(* The application sets network_ready_.                                                  *)
Network ==
  /\ net => drops < MaxDrops
  /\ drops' = IF net THEN drops + 1 ELSE drops
  /\ net' = ~net
  /\ UNCHANGED <<flash, others, pending, reload, pc, session, changed, mqtt, old, torn,
                 connects, switches, codes, denials, crashes>>

----------------------------------------------------------------------------------
(* The cloud task.                                                                      *)
CanLogin == email # None /\ pass # None
Stop == client' = None

(* apply_configuration: the session of before ends, and nothing that its esp-mqtt client  *)
(* may have asked for is left; the token is loaded last.                                  *)
ApplyKeepsRecovery(c) ==
  /\ email' = c.email /\ pass' = c.pass /\ token' = None /\ expiry' = "passed"
  /\ mode' = "password" /\ code' = 0
  /\ Stop /\ retry' = FALSE /\ refused' = None /\ UNCHANGED recovery
  /\ old' = (c.email # sEmail \/ portal.pc # "idle")
  /\ pc' = "token"
Apply(c) ==
  /\ email' = c.email /\ pass' = c.pass /\ token' = None /\ expiry' = "passed"
  /\ mode' = "password" /\ code' = 0
  /\ Stop /\ recovery' = FALSE /\ retry' = FALSE /\ refused' = None
  /\ old' = (c.email # sEmail \/ portal.pc # "idle")
  /\ pc' = "token"

TaskConfigure ==
  /\ pc = "top"
  /\ IF pending # NotLoaded
     THEN /\ Apply(pending) /\ pending' = NotLoaded
     ELSE /\ pc' = "reload" /\ UNCHANGED <<session, mqtt, old, pending>>
  /\ UNCHANGED <<flash, others, reload, changed, net, torn, bounds>>

TaskReload ==
  /\ pc = "reload"
  /\ reload' = FALSE
  /\ IF reload
     THEN Apply([email |-> sEmail, pass |-> sPass])
     ELSE pc' = "recover" /\ UNCHANGED <<session, mqtt, old>>
  /\ UNCHANGED <<flash, others, pending, changed, net, torn, bounds>>

LoadToken ==
  /\ pc = "token"
  /\ token' = sToken /\ expiry' = IF sToken = None THEN "passed" ELSE "never"
  /\ pc' = "top"
  /\ UNCHANGED <<flash, others, pending, reload, email, pass, mode, code, changed,
                 net, mqtt, old, torn, bounds>>

(* A refused esp-mqtt client is stopped (it may be refused again until it is) and the      *)
(* token dropped, from flash as well if there is no password to get another one with.       *)
TaskRecoverForgets ==
  /\ pc = "recover"
  /\ pc' = IF recovery THEN "drop" ELSE "gate"
  /\ UNCHANGED <<flash, others, pending, reload, session, changed, net, mqtt, old, torn,
                 bounds>>
TaskRecover ==
  /\ pc = "recover"
  /\ recovery' = FALSE
  /\ pc' = IF recovery THEN "drop" ELSE "gate"
  /\ UNCHANGED <<flash, others, pending, reload, session, changed, net, client, retry,
                 refused, old, torn, bounds>>

TaskDrop ==
  /\ pc = "drop" /\ pc' = "top"
  /\ Stop /\ token' = None /\ expiry' = "passed"
  /\ sToken' = IF CanLogin THEN sToken ELSE None
  /\ UNCHANGED <<sEmail, sPass, others, pending, reload, email, pass, mode, code, changed,
                 net, recovery, retry, refused, old, torn, bounds>>

(* Without a way to log in, or with the login held back, there is no client and the task    *)
(* starts over; without a network it waits there, unless a request comes.                    *)
NoLogin == token = None /\ ~CanLogin
Requested == pending # NotLoaded \/ reload \/ recovery
TaskGate ==
  /\ pc = "gate"
  /\ \/ NoLogin /\ pc' = "top" /\ Stop
     \/ ~NoLogin /\ Requested /\ pc' = "top" /\ UNCHANGED client
     \/ ~NoLogin /\ ~Requested /\ ~net /\ pc' = "gate" /\ Stop
     \/ ~NoLogin /\ ~Requested /\ net /\ retry /\ pc' = "top" /\ Stop
     \/ /\ ~NoLogin /\ ~Requested /\ net /\ ~retry
        /\ pc' = IF token = None \/ expiry = "passed" THEN "login" ELSE "mqtt"
        /\ UNCHANGED client
  /\ UNCHANGED <<flash, others, pending, reload, session, changed, net, recovery, retry,
                 refused, old, torn, bounds>>

(* A login: a code that is asked for and missing ends it, everything else sends a request.  *)
TaskLogin ==
  /\ pc = "login"
  /\ Stop
  /\ pc' = IF mode # "password" /\ code = 0 THEN "top" ELSE "posting"
  /\ UNCHANGED <<flash, others, pending, reload, session, changed, net, recovery, retry,
                 refused, old, torn, bounds>>

(* The answer to a login: a token (only for the right password); a code is wanted; the     *)
(* code is wrong or too old (an e-mail code is then forgotten, whichever is pending by     *)
(* now); any other failure.  Success forgets what the last client's refusal left.          *)
LoginSucceeds ==
  /\ pc = "posting"
  /\ mode = "password" => pass = email
  /\ token' = email /\ expiry' = "ahead"
  /\ recovery' = FALSE /\ retry' = FALSE /\ Stop /\ refused' = None
  /\ pc' = "persist"
  /\ UNCHANGED <<flash, others, pending, reload, email, pass, mode, code, changed, net, old,
                 torn, bounds>>

LoginFails ==
  /\ pc = "posting"
  /\ pc' = "top"
  /\ \/ /\ mode = "password" /\ pass = email
        /\ mode' \in {"email", "tfa"} /\ UNCHANGED code
     \/ /\ mode = "email" /\ code' = 0 /\ UNCHANGED mode
     \/ UNCHANGED <<mode, code>>
  /\ UNCHANGED <<flash, others, pending, reload, email, pass, token, expiry, changed, net,
                 mqtt, old, torn, bounds>>

(* persist_access_token, then save_cloud_credentials without the password: its commits     *)
(* are those of the portal, on another task and without a lock.                            *)
Persist ==
  /\ \/ /\ pc = "persist"
        /\ sToken' = token /\ pc' = "previous"
        /\ UNCHANGED <<sEmail, sPass, mode, code, changed, torn>>
     \/ /\ pc = "previous"
        /\ changed' = (sEmail # email) /\ pc' = "email"
        /\ UNCHANGED <<flash, mode, code, torn>>
     \/ /\ pc = "email"
        /\ sEmail' = email /\ pc' = "pass"
        /\ torn' = (torn \/ (portal.pc # "idle" /\ ~portal.changed /\ sEmail # email))
        /\ UNCHANGED <<sPass, sToken, mode, code, changed>>
     \/ /\ pc = "pass"
        /\ sPass' = None /\ pc' = "clear"
        /\ UNCHANGED <<sEmail, sToken, mode, code, changed, torn>>
     \/ /\ pc = "clear"
        /\ sToken' = IF changed THEN None ELSE sToken
        /\ mode' = "password" /\ code' = 0 /\ changed' = FALSE
        /\ pc' = "mqtt"
        /\ UNCHANGED <<sEmail, sPass, torn>>
  /\ UNCHANGED <<others, pending, reload, email, pass, token, expiry, net, mqtt, old,
                 bounds>>

(* The client is kept, stopped (another source mode, no network, another serial) or, by      *)
(* ensure_mqtt_client_started, a new one with the token of now.                               *)
Started == {client, None} \cup (IF net THEN {token} ELSE {})
TaskMqtt ==
  /\ pc = "mqtt"
  /\ client' \in Started /\ pc' = "fetch"
  /\ UNCHANGED <<flash, others, pending, reload, session, changed, net, recovery, retry,
                 refused, old, torn, bounds>>

(* The requests of a round, of which the binding list may name another printer: 401 or 403   *)
(* discard the token, in flash too, and the client.                                           *)
FetchEnds ==
  /\ pc = "fetch" /\ pc' = "top"
  /\ client' \in Started
  /\ UNCHANGED <<flash, others, pending, reload, session, changed, net, recovery, retry,
                 refused, old, torn, bounds>>

FetchDeniedKeepsClient ==
  /\ pc = "fetch" /\ pc' = "top" /\ denials < MaxDenials
  /\ denials' = denials + 1
  /\ token' = None /\ expiry' = "passed" /\ sToken' = None /\ UNCHANGED client
  /\ UNCHANGED <<sEmail, sPass, others, pending, reload, email, pass, mode, code, changed,
                 net, recovery, retry, refused, old, torn, connects, switches, codes, drops,
                 crashes>>
FetchDenied ==
  /\ pc = "fetch" /\ pc' = "top" /\ denials < MaxDenials
  /\ denials' = denials + 1
  /\ token' = None /\ expiry' = "passed" /\ sToken' = None /\ Stop
  /\ UNCHANGED <<sEmail, sPass, others, pending, reload, email, pass, mode, code, changed,
                 net, recovery, retry, refused, old, torn, connects, switches, codes, drops,
                 crashes>>

(* A token of this boot's login runs out.                                                     *)
Expire ==
  /\ expiry = "ahead" /\ denials < MaxDenials
  /\ denials' = denials + 1 /\ expiry' = "passed"
  /\ UNCHANGED <<flash, others, pending, reload, pc, email, pass, token, mode, code, changed,
                 net, mqtt, old, torn, connects, switches, codes, drops, crashes>>

(* The esp-mqtt task: CONNECTION_REFUSED asks for recovery, and holds the next login back   *)
(* if there can be one.  stop_mqtt_client joins this task.                                   *)
Refused ==
  /\ client # None /\ denials < MaxDenials
  /\ denials' = denials + 1
  /\ recovery' = TRUE /\ retry' = CanLogin /\ refused' = client
  /\ UNCHANGED <<flash, others, pending, reload, pc, session, changed, net, client, old, torn,
                 connects, switches, codes, drops, crashes>>

RetryOver ==
  /\ retry /\ retry' = FALSE
  /\ UNCHANGED <<flash, others, pending, reload, pc, session, changed, net, client, recovery,
                 refused, old, torn, bounds>>

Task == \/ TaskConfigure \/ TaskReload \/ LoadToken \/ TaskRecover \/ TaskDrop \/ TaskGate \/ TaskLogin
        \/ LoginSucceeds \/ LoginFails \/ Persist \/ TaskMqtt \/ FetchEnds \/ FetchDenied
PortalTask == Connect \/ PortalSave \/ PortalReload \/ SubmitCode

Next == \/ Task \/ PortalTask \/ SwitchLoad \/ SwitchConfigure \/ Network
        \/ Expire \/ Refused \/ RetryOver \/ Crash

Spec == Init /\ [][Next]_vars

(* The tasks run, the back-off ends, and a login with the right credentials succeeds now   *)
(* and then.                                                                               *)
FairSpec == /\ Spec
            /\ WF_vars(Task) /\ SF_vars(LoginSucceeds) /\ WF_vars(RetryOver)
            /\ WF_vars(PortalSave) /\ WF_vars(PortalReload) /\ WF_vars(SwitchConfigure)

----------------------------------------------------------------------------------
PCs == {"top", "reload", "token", "recover", "drop", "gate", "login", "posting", "persist",
        "previous", "email", "pass", "clear", "mqtt", "fetch"}

StoreTypeOK ==
  /\ sEmail \in Strings /\ sPass \in Strings /\ sToken \in Strings
  /\ portal \in [pc : {"idle", "email", "pass", "clear", "reload"}, email : Strings,
                 pass : Strings, changed : BOOLEAN]
  /\ app \in Creds \cup {NotLoaded} /\ pending \in Creds \cup {NotLoaded}
SessionTypeOK ==
  /\ pc \in PCs
  /\ email \in Strings /\ pass \in Strings /\ token \in Strings
  /\ expiry \in {"never", "ahead", "passed"}
  /\ mode \in {"password", "email", "tfa"} /\ code \in 0..MaxCodes
  /\ client \in Strings /\ refused \in Strings
FlagsTypeOK ==
  /\ reload \in BOOLEAN /\ changed \in BOOLEAN /\ net \in BOOLEAN /\ recovery \in BOOLEAN
  /\ retry \in BOOLEAN /\ old \in BOOLEAN /\ torn \in BOOLEAN
BoundsTypeOK ==
  /\ connects \in 0..MaxConnects /\ switches \in 0..MaxSwitches /\ codes \in 0..MaxCodes
  /\ denials \in 0..MaxDenials /\ drops \in 0..MaxDrops /\ crashes \in 0..MaxCrashes

(* Types of every variable.                                                               *)
TypeOK == StoreTypeOK /\ SessionTypeOK /\ FlagsTypeOK /\ BoundsTypeOK

(* The esp-mqtt client never lives on with another token than the cloud client's own: not  *)
(* after a new configuration, a new login, a token that was denied, expired or refused.     *)
OneSession == client # None => client = token

(* The token is of the account whose credentials it is kept with: in flash whenever the      *)
(* portal saves nothing and the cloud task is not between its token and its e-mail, although   *)
(* the two save without a lock; and in RAM unless the credentials there were read before the    *)
(* last change in flash (see old) -- if no power was lost in a save, and the task's save has     *)
(* not made wrong what the portal's had found out (see torn).                                  *)
SessionOfAccount ==
  ~torn =>
    /\ ~old => token \in {email, None}
    /\ (portal.pc = "idle" /\ pc \notin {"previous", "email"}) => sToken \in {sEmail, None}

(* A refusal discards only the token that was refused: one that comes late never hits the     *)
(* token of a newer configuration or login.                                                  *)
RefusalIsCurrent ==
  [][(pc = "drop" /\ token # None) => token = refused]_vars

(* A password login is taken to its end: from right credentials and with the network there,   *)
(* the task gets a token or asks for a code, whatever was refused or expired before.           *)
LoginCompletes ==
  (CanLogin /\ pass = email /\ net) ~>
    (token # None \/ mode # "password" \/ ~CanLogin \/ pass # email \/ ~net)
=============================================================================

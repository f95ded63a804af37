------------------------------ MODULE Service ------------------------------
(***************************************************************************)
(* The life of the process: cmd/emulator/main.go and the Start and Stop of *)
(* internal/scenario/executor.go with the parts they bring up and take     *)
(* down, the token refresh, the requests of the HTTP API and the           *)
(* lineMakeCall commands that go through the SIP server.                   *)
(*                                                                         *)
(* The two WebSocket clients are LineClients, which WsClient implements;   *)
(* what its goroutines can panic on is there, not here.  What a command    *)
(* does to agents and calls is in CallFlow, and what a scenario sends in   *)
(* Scenario.  Here a request of the API hands messages to SendMessage      *)
(* until one is refused or the last is sent, and a command is its use of   *)
(* the SIP server.                                                         *)
(***************************************************************************)
CONSTANTS
  Requests,   \* requests to the HTTP API that make a call
  Commands,   \* lineMakeCall commands of the CTI peer
  Self        \* the scenario that main runs when asked to

ASSUME SelfIsNoRequest == Self \notin Requests

VARIABLES
  config,      \* sip.enabled, http.enabled and the -scenario flag
  main,        \* where the main goroutine is
  cancelled,   \* e.ctx is cancelled
  cti,         \* the CTI client, a LineClient
  ari,         \* the ARI event client, a LineClient without senders
  token,       \* c.accessToken as the CTI server judges it, or "none"
  refresher,   \* tokenRefreshRoutine
  sip,         \* the SIP server: "nil", "running" or "stopped"
  wired,       \* the ARI events have a sender, the dispatcher its handlers
  http,        \* the HTTP server
  request,     \* [Requests and Self -> where it is, or how it was answered]
  command,     \* [Commands -> where it is]
  crashed      \* a goroutine has panicked

lines == <<cti, ari>>
partVars == <<sip, wired, http>>
tokenVars == <<token, refresher>>
workVars == <<request, command>>

serviceVars == <<config, main, cancelled, lines, tokenVars, partVars, workVars, crashed>>

Callers == Requests \cup {Self}

Cti == INSTANCE LineClient WITH line <- cti, HasSenders <- TRUE
Ari == INSTANCE LineClient WITH line <- ari, HasSenders <- FALSE

ServiceInit ==
  /\ config \in [sip : BOOLEAN, http : BOOLEAN, scenario : BOOLEAN]
  /\ main = "authenticate"
  /\ cancelled = FALSE
  /\ Cti!LineInit /\ Ari!LineInit
  /\ token = "none"
  /\ refresher = "off"
  /\ sip = "nil" /\ wired = FALSE /\ http = "off"
  /\ request = [r \in Callers |-> "idle"]
  /\ command = [m \in Commands |-> "idle"]
  /\ crashed = FALSE

----------------------------------------------------------------------------
(* Executor.Start.  An error of any part is fatal: the process exits.      *)

StartPcs == {"authenticate", "initSIP", "initCTI", "initHTTP", "connectCTI", "connectARI"}
StopPcs == {"cancel", "disconnectCTI", "disconnectARI", "stopSIP", "shutdown", "drain"}
EndPcs == {"fatal", "killed", "exited"}

Alive == main \notin EndPcs /\ ~crashed

At(pc) == Alive /\ main = pc

Fatal == main' = "fatal"

\* Mutant of After: the clients are connected before their handlers exist.
AfterConnectsFirst(pc) ==
  CASE pc = "authenticate" -> "initSIP"
    [] pc = "initSIP"      -> "initHTTP"
    [] pc = "initHTTP"     -> "connectCTI"
    [] pc = "connectCTI"   -> "connectARI"
    [] pc = "connectARI"   -> "initCTI"
    [] pc = "initCTI"      -> "started"

After(pc) ==
  CASE pc = "authenticate" -> "initSIP"
    [] pc = "initSIP"      -> "initCTI"
    [] pc = "initCTI"      -> "initHTTP"
    [] pc = "initHTTP"     -> "connectCTI"
    [] pc = "connectCTI"   -> "connectARI"
    [] pc = "connectARI"   -> "started"

Proceed == main' = After(main)

\* The client is made with the token Keycloak gave.
Authenticate ==
  /\ At("authenticate")
  /\ \/ token' = "valid" /\ Proceed
     \/ Fatal /\ UNCHANGED token
  /\ UNCHANGED <<config, cancelled, lines, refresher, partVars, workVars, crashed>>

\* Mutant of InitSIP: a server that cannot listen is only logged.
InitSIPLogsOnly ==
  /\ At("initSIP")
  /\ Proceed
  /\ sip' \in IF config.sip THEN {"nil", "running"} ELSE {"nil"}
  /\ UNCHANGED <<config, cancelled, lines, tokenVars, wired, http, workVars, crashed>>

\* Mutant of InitSIP: a disabled server is made, and not started.
InitSIPMakesAlways ==
  /\ At("initSIP")
  /\ \/ sip' = (IF config.sip THEN "running" ELSE "made") /\ Proceed
     \/ config.sip /\ Fatal /\ UNCHANGED sip
  /\ UNCHANGED <<config, cancelled, lines, tokenVars, wired, http, workVars, crashed>>

\* A disabled SIP server is none at all: e.sipServer stays nil.
InitSIP ==
  /\ At("initSIP")
  /\ \/ config.sip /\ sip' = "running" /\ Proceed
     \/ config.sip /\ Fatal /\ UNCHANGED sip
     \/ ~config.sip /\ Proceed /\ UNCHANGED sip
  /\ UNCHANGED <<config, cancelled, lines, tokenVars, wired, http, workVars, crashed>>

InitCTI ==
  /\ At("initCTI")
  /\ wired' = TRUE
  /\ Proceed
  /\ UNCHANGED <<config, cancelled, lines, tokenVars, sip, http, workVars, crashed>>

\* ListenAndServe runs in a goroutine of its own.
InitHTTP ==
  /\ At("initHTTP")
  /\ http' = IF config.http THEN "starting" ELSE "off"
  /\ Proceed
  /\ UNCHANGED <<config, cancelled, lines, tokenVars, sip, wired, workVars, crashed>>

\* The port may be taken, which is logged.
Listen ==
  /\ Alive
  /\ http = "starting"
  /\ http' \in {"open", "failed"}
  /\ UNCHANGED <<config, main, cancelled, lines, tokenVars, sip, wired, workVars, crashed>>

\* The CTI server lets in who has a valid token.
ConnectCTI ==
  /\ At("connectCTI")
  /\ \/ token = "valid" /\ Cti!Connect /\ Proceed
     \/ Fatal /\ UNCHANGED cti
  /\ UNCHANGED <<config, cancelled, ari, tokenVars, partVars, workVars, crashed>>

\* Mutant of ConnectARI: its failure is only logged.
ConnectARILogsOnly ==
  /\ At("connectARI")
  /\ Ari!Connect \/ UNCHANGED ari
  /\ Proceed
  /\ UNCHANGED <<config, cancelled, cti, tokenVars, partVars, workVars, crashed>>

ConnectARI ==
  /\ At("connectARI")
  /\ \/ Ari!Connect /\ Proceed
     \/ Fatal /\ UNCHANGED ari
  /\ UNCHANGED <<config, cancelled, cti, tokenVars, partVars, workVars, crashed>>

\* Start returns, with the refresh routine running.
Started ==
  /\ At("started")
  /\ refresher' = "waiting"
  /\ IF config.scenario
     THEN main' = "scenario" /\ request' = [request EXCEPT ![Self] = "sending"]
     ELSE main' = "running" /\ UNCHANGED request
  /\ UNCHANGED <<config, cancelled, lines, token, partVars, command, crashed>>

\* Success or not, main goes on to wait for a signal.
ScenarioReturns ==
  /\ At("scenario")
  /\ request[Self] \in {"ok", "error"}
  /\ main' = "running"
  /\ UNCHANGED <<config, cancelled, lines, tokenVars, partVars, workVars, crashed>>

----------------------------------------------------------------------------
(* A signal, and Executor.Stop. *)

\* Before signal.Notify a signal kills the process.
Kill ==
  /\ Alive
  /\ main \in StartPcs \cup {"started", "scenario"}
  /\ main' = "killed"
  /\ UNCHANGED <<config, cancelled, lines, tokenVars, partVars, workVars, crashed>>

Signal ==
  /\ At("running")
  /\ main' = "cancel"
  /\ UNCHANGED <<config, cancelled, lines, tokenVars, partVars, workVars, crashed>>

Cancel ==
  /\ At("cancel")
  /\ cancelled' = TRUE
  /\ main' = "disconnectCTI"
  /\ UNCHANGED <<config, lines, tokenVars, partVars, workVars, crashed>>

\* Mutant of DisconnectCTI: a client between two connections is waited for.
DisconnectCTIWaits ==
  /\ At("disconnectCTI")
  /\ cti \notin {"stuck", "down"}
  /\ \/ Cti!Disconnect
     \/ cti # "up" /\ UNCHANGED cti
  /\ main' = "disconnectARI"
  /\ UNCHANGED <<config, cancelled, ari, tokenVars, partVars, workVars, crashed>>

\* Disconnect needs the lock of the client, which a stuck one never gives.
DisconnectCTI ==
  /\ At("disconnectCTI")
  /\ cti # "stuck"
  /\ \/ Cti!Disconnect
     \/ cti # "up" /\ UNCHANGED cti
  /\ main' = "disconnectARI"
  /\ UNCHANGED <<config, cancelled, ari, tokenVars, partVars, workVars, crashed>>

DisconnectARI ==
  /\ At("disconnectARI")
  /\ \/ Ari!Disconnect
     \/ ari # "up" /\ UNCHANGED ari
  /\ main' = "stopSIP"
  /\ UNCHANGED <<config, cancelled, cti, tokenVars, partVars, workVars, crashed>>

StopSIP ==
  /\ At("stopSIP")
  /\ sip' = IF sip = "running" THEN "stopped" ELSE sip
  /\ main' = "shutdown"
  /\ UNCHANGED <<config, cancelled, lines, tokenVars, wired, http, workVars, crashed>>

\* Shutdown closes the listener, or keeps one from being opened.
Shutdown ==
  /\ At("shutdown")
  /\ http' = IF http \in {"starting", "open"} THEN "closed" ELSE http
  /\ main' = "drain"
  /\ UNCHANGED <<config, cancelled, lines, tokenVars, sip, wired, workVars, crashed>>

\* It then waits for the running requests, for five seconds at most: the
\* process may exit at any time.
Exit ==
  /\ At("drain")
  /\ main' = "exited"
  /\ UNCHANGED <<config, cancelled, lines, tokenVars, partVars, workVars, crashed>>

----------------------------------------------------------------------------
(* The token. *)

\* The CTI server judges the token when it is dialled, and only then.
Expire ==
  /\ Alive
  /\ token = "valid"
  /\ token' = "expired"
  /\ UNCHANGED <<config, main, cancelled, lines, refresher, partVars, workVars, crashed>>

Tick ==
  /\ Alive
  /\ refresher = "waiting"
  /\ refresher' = "asking"
  /\ UNCHANGED <<config, main, cancelled, lines, token, partVars, workVars, crashed>>

\* Mutant of RefreshFails: the routine returns.
RefreshGivesUp ==
  /\ Alive
  /\ refresher = "asking"
  /\ refresher' = "done"
  /\ UNCHANGED <<config, main, cancelled, lines, token, partVars, workVars, crashed>>

\* Keycloak does not answer: on to the next tick.
RefreshFails ==
  /\ Alive
  /\ refresher = "asking"
  /\ refresher' = "waiting"
  /\ UNCHANGED <<config, main, cancelled, lines, token, partVars, workVars, crashed>>

RefreshSucceeds ==
  /\ Alive
  /\ refresher = "asking"
  /\ refresher' = "update"
  /\ UNCHANGED <<config, main, cancelled, lines, token, partVars, workVars, crashed>>

\* UpdateAccessToken needs the lock of the client.
UpdateAccessToken ==
  /\ Alive
  /\ refresher = "update"
  /\ cti # "stuck"
  /\ token' = "valid"
  /\ refresher' = "waiting"
  /\ UNCHANGED <<config, main, cancelled, lines, partVars, workVars, crashed>>

RefreshReturns ==
  /\ Alive
  /\ refresher = "waiting"
  /\ cancelled
  /\ refresher' = "done"
  /\ UNCHANGED <<config, main, cancelled, lines, token, partVars, workVars, crashed>>

----------------------------------------------------------------------------
(* What becomes of the connections. *)

\* The reconnect handler dials with the token the client has by then.
ReconnectCTI ==
  /\ Alive
  /\ token = "valid"
  /\ Cti!Reconnect
  /\ UNCHANGED <<config, main, cancelled, ari, tokenVars, partVars, workVars, crashed>>

LoseCTI ==
  /\ Alive
  /\ Cti!TearDown \/ Cti!FallMute
  /\ UNCHANGED <<config, main, cancelled, ari, tokenVars, partVars, workVars, crashed>>

AriEvolves ==
  /\ Alive
  /\ Ari!TearDown \/ Ari!FallMute \/ Ari!Reconnect
  /\ UNCHANGED <<config, main, cancelled, cti, tokenVars, partVars, workVars, crashed>>

----------------------------------------------------------------------------
(* The HTTP API, and main's own scenario. *)

Accept(r) ==
  /\ Alive
  /\ http = "open"
  /\ request[r] = "idle"
  /\ request' = [request EXCEPT ![r] = "sending"]
  /\ UNCHANGED <<config, main, cancelled, lines, tokenVars, partVars, command, crashed>>

Answer(r, answer) == request' = [request EXCEPT ![r] = answer]

\* The last message; those before it change nothing here.
SendSucceeds(r) ==
  /\ Alive
  /\ request[r] = "sending"
  /\ cti = "up"
  /\ Answer(r, "ok")
  /\ UNCHANGED <<config, main, cancelled, lines, tokenVars, partVars, command, crashed>>

\* Mutant of SendRefused: a message waits until the client has reconnected.
SendRefusedOnceOff(r) ==
  /\ Alive
  /\ request[r] = "sending"
  /\ cti \in {"new", "off"}
  /\ Answer(r, "error")
  /\ UNCHANGED <<config, main, cancelled, lines, tokenVars, partVars, command, crashed>>

\* "WebSocket not connected": the scenario returns the error, whatever was
\* sent before.
SendRefused(r) ==
  /\ Alive
  /\ request[r] = "sending"
  /\ cti \notin {"up", "stuck"}
  /\ Answer(r, "error")
  /\ UNCHANGED <<config, main, cancelled, lines, tokenVars, partVars, command, crashed>>

\* A send never returns, because its write fails or stalls.  Any goroutine may
\* be the sender: a request, main's scenario, a command that is answered or an
\* event that is reported.
SendHangs ==
  /\ Alive
  /\ Cti!FallStuck
  /\ UNCHANGED <<config, main, cancelled, ari, tokenVars, partVars, workVars, crashed>>

----------------------------------------------------------------------------
(* lineMakeCall, in a goroutine the dispatcher starts. *)

Dispatch(m) ==
  /\ Alive
  /\ cti = "up"
  /\ command[m] = "idle"
  /\ command' = [command EXCEPT ![m] = "handling"]
  /\ UNCHANGED <<config, main, cancelled, lines, tokenVars, partVars, request, crashed>>

\* The adapter is never nil, so the test for nil passes; IsRunning of a nil
\* server panics.
AskRunning(m) ==
  /\ Alive
  /\ command[m] = "handling"
  /\ IF sip = "nil"
     THEN crashed' = TRUE /\ UNCHANGED command
     ELSE /\ command' = [command EXCEPT ![m] = IF sip = "running" THEN "invite" ELSE "failed"]
          /\ UNCHANGED crashed
  /\ UNCHANGED <<config, main, cancelled, lines, tokenVars, partVars, request>>

\* The INVITE has a socket of its own, and goes out whether or not the server
\* has been stopped since.
Invite(m) ==
  /\ Alive
  /\ command[m] = "invite"
  /\ command' = [command EXCEPT ![m] = "done"]
  /\ UNCHANGED <<config, main, cancelled, lines, tokenVars, partVars, request, crashed>>

----------------------------------------------------------------------------

StartStep ==
  \/ Authenticate \/ InitSIP \/ InitCTI \/ InitHTTP
  \/ ConnectCTI \/ ConnectARI \/ Started \/ ScenarioReturns

StopStep == Cancel \/ DisconnectCTI \/ DisconnectARI \/ StopSIP \/ Shutdown \/ Exit

SendReturns(r) == SendSucceeds(r) \/ SendRefused(r)

ServiceNext ==
  \/ StartStep \/ Kill \/ Signal \/ StopStep
  \/ Listen
  \/ Expire \/ Tick \/ RefreshFails \/ RefreshSucceeds \/ UpdateAccessToken \/ RefreshReturns
  \/ ReconnectCTI \/ LoseCTI \/ AriEvolves
  \/ \E r \in Requests : Accept(r)
  \/ \E r \in Callers : SendReturns(r)
  \/ SendHangs
  \/ \E m \in Commands : Dispatch(m) \/ AskRunning(m) \/ Invite(m)

ServiceSpec == ServiceInit /\ [][ServiceNext]_serviceVars

\* Goroutines run: the requests, the main goroutine and the ticker.  Nothing is
\* assumed of SendMessage, which has no timeout: a send returns, or the client
\* is stuck, and may always fall stuck instead.  Keycloak answers again and
\* again, and a reconnect handler that dials with a valid token again and again
\* gets in: the handler's pauses are of a minute at most, so some of its
\* attempts fall into the life of a token.
Fairness ==
  /\ WF_serviceVars(StartStep)
  /\ WF_serviceVars(StopStep)
  /\ \A r \in Callers : WF_serviceVars(SendReturns(r))
  /\ WF_serviceVars(Tick)
  /\ WF_serviceVars(UpdateAccessToken)
  /\ SF_serviceVars(RefreshSucceeds)
  /\ SF_serviceVars(ReconnectCTI)

FairServiceSpec == ServiceSpec /\ Fairness

----------------------------------------------------------------------------
(* Safety. *)

\* Every variable has its type.
ServiceTypeOK ==
  /\ config \in [sip : BOOLEAN, http : BOOLEAN, scenario : BOOLEAN]
  /\ main \in StartPcs \cup StopPcs \cup EndPcs \cup {"started", "scenario", "running"}
  /\ cancelled \in BOOLEAN
  /\ cti \in Cti!LineStates
  /\ ari \in Ari!LineStates \ {"stuck"}
  /\ token \in {"none", "valid", "expired"}
  /\ refresher \in {"off", "waiting", "asking", "update", "done"}
  /\ sip \in {"nil", "running", "stopped"}
  /\ wired \in BOOLEAN
  /\ http \in {"off", "starting", "open", "failed", "closed"}
  /\ request \in [Callers -> {"idle", "sending", "ok", "error"}]
  /\ command \in [Commands -> {"idle", "handling", "invite", "failed", "done"}]
  /\ crashed \in BOOLEAN

\* The event handler is made without its sender and the dispatcher without its
\* handlers; both have them before the first message or event can arrive, so
\* no command is dropped as unknown and no event goes unreported.
TrafficMeetsHandlers ==
  cti # "new" \/ ari # "new" \/ (\E m \in Commands : command[m] # "idle") => wired

\* A command panics on the SIP server only where the configuration has
\* disabled it: one that was stopped, or could not be started, never does so.
PanicOnlyWithoutSip == crashed => ~config.sip

\* A service that runs has every part whose start Start checks, although Start
\* undoes nothing when a late part fails and a part may have gone by the time
\* Start returns: both clients were connected, and no one disconnected them,
\* there is a token and a routine to refresh it, and the SIP server is there
\* exactly when the configuration asks for it.  The HTTP server is no such
\* part: a failed ListenAndServe is only logged, and the service runs without
\* its API.
CheckedPartsRun ==
  main \in {"scenario", "running"} =>
    /\ {cti, ari} \cap {"new", "off"} = {}
    /\ token # "none"
    /\ refresher \notin {"off", "done"}
    /\ sip = IF config.sip THEN "running" ELSE "nil"

----------------------------------------------------------------------------
(* Liveness. *)

\* A CTI connection that was lost is replaced although its token may have
\* expired and refreshing may fail, over and over: the running service is not
\* shut out for good.
ConnectionRecovers == (cti = "down" /\ main = "running") ~> (cti # "down" \/ main # "running" \/ crashed)

\* "Graceful shutdown": once Stop has begun the process exits, whatever
\* requests are in flight and in whatever state the clients are, unless a send
\* has locked the CTI client.
StopCompletes == main = "cancel" ~> (main = "exited" \/ crashed \/ cti = "stuck")

\* Every request is answered, also one that comes before the clients are
\* connected or while they are disconnected, unless the process ends first or
\* a send has locked the CTI client.
RequestsAnswered ==
  \A r \in Requests :
    request[r] = "sending" ~> (request[r] \in {"ok", "error"} \/ ~Alive \/ cti = "stuck")
============================================================================

--------------------------- MODULE ServiceProofs ---------------------------
(***************************************************************************)
(* Proofs about Service, for any requests and commands.                    *)
(*                                                                         *)
(* The argument: Start brings the parts up in one order and stops at the   *)
(* first that fails, so how far main has come says which parts there are   *)
(* (Brought), and nothing ever takes a part back to "new", "nil" or "off", *)
(* Stop least of all.  What Stop turns off, and what returns when the      *)
(* context is cancelled, is on as long as Stop has not begun (Unstopped).  *)
(* A command needs a connected CTI client, so it finds the handlers wired  *)
(* and a configured SIP server made (Traffic).                             *)
(***************************************************************************)
EXTENDS Service, TLAPS

\* Main has come past the steps, and not to an end.
Beyond(steps) == main \notin EndPcs \cup steps

\* What is there once main has come past a step of Start.
Brought ==
  /\ Beyond({"authenticate"}) => token # "none"
  /\ Beyond({"authenticate", "initSIP"}) => (config.sip => sip # "nil")
  /\ Beyond({"authenticate", "initSIP", "initCTI"}) => wired
  /\ Beyond(StartPcs \ {"connectCTI", "connectARI"}) => (config.http => http # "off")
  /\ Beyond(StartPcs \ {"connectARI"}) => cti # "new"
  /\ Beyond(StartPcs) => ari # "new"
  /\ Beyond(StartPcs \cup {"started"}) => refresher # "off"

\* What is as Start left it while nobody has called Stop.
Unstopped ==
  main \in StartPcs \cup {"started", "scenario", "running", "cancel"} =>
    /\ ~cancelled
    /\ refresher # "done"
    /\ cti # "off" /\ ari # "off"
    /\ sip # "stopped"

\* What a client or a command can count on.
Traffic ==
  /\ cti # "new" \/ ari # "new" => wired /\ (config.sip => sip # "nil")
  /\ (\E m \in Commands : command[m] # "idle") => cti # "new"

\* A server that is disabled is never made.
NoDisabledSip == ~config.sip => sip = "nil"

ServiceInv ==
  ServiceTypeOK /\ Brought /\ Unstopped /\ Traffic /\ NoDisabledSip /\ PanicOnlyWithoutSip

\* Nothing has been started in the beginning.
LEMMA InitServiceInv == ServiceInit => ServiceInv
  <1> SUFFICES ASSUME ServiceInit PROVE ServiceInv
    OBVIOUS
  <1>1. ServiceTypeOK
    BY DEF ServiceInit, ServiceTypeOK, Cti!LineInit, Ari!LineInit, Cti!LineStates, Ari!LineStates,
           StartPcs
  <1>2. Brought /\ Unstopped /\ Traffic /\ NoDisabledSip /\ PanicOnlyWithoutSip
    BY DEF ServiceInit, Brought, Beyond, Unstopped, Traffic, NoDisabledSip, PanicOnlyWithoutSip,
           StartPcs, EndPcs, Cti!LineInit, Ari!LineInit
  <1> QED
    BY <1>1, <1>2 DEF ServiceInv

\* Start brings up one part after the other, or main ends.
LEMMA StartKeeps ==
  ASSUME ServiceInv, StartStep
  PROVE  ServiceInv'
  <1> USE DEF ServiceInv, ServiceTypeOK, Brought, Beyond, Unstopped, Traffic, NoDisabledSip,
             PanicOnlyWithoutSip, Alive, At, StartPcs, StopPcs, EndPcs, lines, partVars, tokenVars,
             workVars, Cti!LineStates, Ari!LineStates
  <1>1. CASE Authenticate
    BY <1>1 DEF Authenticate, Proceed, After, Fatal
  <1>2. CASE InitSIP
    BY <1>2 DEF InitSIP, Proceed, After, Fatal
  <1>3. CASE InitCTI
    BY <1>3 DEF InitCTI, Proceed, After
  <1>4. CASE InitHTTP
    BY <1>4 DEF InitHTTP, Proceed, After
  <1>5. CASE ConnectCTI
    BY <1>5 DEF ConnectCTI, Proceed, After, Fatal, Cti!Connect
  <1>6. CASE ConnectARI
    BY <1>6 DEF ConnectARI, Proceed, After, Fatal, Ari!Connect
  <1>7. CASE Started
    BY <1>7 DEF Started, Callers
  <1>8. CASE ScenarioReturns
    BY <1>8 DEF ScenarioReturns
  <1> QED
    BY <1>1, <1>2, <1>3, <1>4, <1>5, <1>6, <1>7, <1>8 DEF StartStep

\* Stop turns parts off, and makes none as if it had never been.
LEMMA StopKeeps ==
  ASSUME ServiceInv, Kill \/ Signal \/ StopStep
  PROVE  ServiceInv'
  <1> USE DEF ServiceInv, ServiceTypeOK, Brought, Beyond, Unstopped, Traffic, NoDisabledSip,
             PanicOnlyWithoutSip, Alive, At, StartPcs, StopPcs, EndPcs, lines, partVars, tokenVars,
             workVars, Cti!LineStates, Ari!LineStates
  <1>1. CASE Kill
    BY <1>1 DEF Kill
  <1>2. CASE Signal
    BY <1>2 DEF Signal
  <1>3. CASE Cancel
    BY <1>3 DEF Cancel
  <1>4. CASE DisconnectCTI
    BY <1>4 DEF DisconnectCTI, Cti!Disconnect
  <1>5. CASE DisconnectARI
    BY <1>5 DEF DisconnectARI, Ari!Disconnect
  <1>6. CASE StopSIP
    BY <1>6 DEF StopSIP
  <1>7. CASE Shutdown
    BY <1>7 DEF Shutdown
  <1>8. CASE Exit
    BY <1>8 DEF Exit
  <1> QED
    BY <1>1, <1>2, <1>3, <1>4, <1>5, <1>6, <1>7, <1>8 DEF StopStep

\* The token is renewed or expires, and is never gone.
LEMMA RefreshKeeps ==
  ASSUME ServiceInv, Listen \/ Expire \/ Tick \/ RefreshFails \/ RefreshSucceeds
         \/ UpdateAccessToken \/ RefreshReturns
  PROVE  ServiceInv'
  <1> USE DEF ServiceInv, ServiceTypeOK, Brought, Beyond, Unstopped, Traffic, NoDisabledSip,
             PanicOnlyWithoutSip, Alive, At, StartPcs, StopPcs, EndPcs, lines, partVars, tokenVars,
             workVars, Cti!LineStates, Ari!LineStates
  <1>1. CASE Listen
    BY <1>1 DEF Listen
  <1>2. CASE Expire
    BY <1>2 DEF Expire
  <1>3. CASE Tick
    BY <1>3 DEF Tick
  <1>4. CASE RefreshFails
    BY <1>4 DEF RefreshFails
  <1>5. CASE RefreshSucceeds
    BY <1>5 DEF RefreshSucceeds
  <1>6. CASE UpdateAccessToken
    BY <1>6 DEF UpdateAccessToken
  <1>7. CASE RefreshReturns
    BY <1>7 DEF RefreshReturns
  <1> QED
    BY <1>1, <1>2, <1>3, <1>4, <1>5, <1>6, <1>7

\* A connection is lost and made again, or locked up: its client was connected
\* once, and is not disconnected.
LEMMA LinesKeep ==
  ASSUME ServiceInv, ReconnectCTI \/ LoseCTI \/ AriEvolves \/ SendHangs
  PROVE  ServiceInv'
  <1> USE DEF ServiceInv, ServiceTypeOK, Brought, Beyond, Unstopped, Traffic, NoDisabledSip,
             PanicOnlyWithoutSip, Alive, At, StartPcs, StopPcs, EndPcs, lines, partVars, tokenVars,
             workVars, Cti!LineStates, Ari!LineStates
  <1>1. CASE ReconnectCTI
    BY <1>1 DEF ReconnectCTI, Cti!Reconnect
  <1>2. CASE LoseCTI
    BY <1>2 DEF LoseCTI, Cti!TearDown, Cti!FallMute
  <1>3. CASE AriEvolves
    BY <1>3 DEF AriEvolves, Ari!TearDown, Ari!FallMute, Ari!Reconnect
  <1>4. CASE SendHangs
    BY <1>4 DEF SendHangs, Cti!FallStuck
  <1> QED
    BY <1>1, <1>2, <1>3, <1>4

\* The requests touch no part of the process.
LEMMA RequestsKeep ==
  ASSUME ServiceInv, NEW r \in Callers,
         (r \in Requests /\ Accept(r)) \/ SendReturns(r)
  PROVE  ServiceInv'
  <1> USE DEF ServiceInv, ServiceTypeOK, Brought, Beyond, Unstopped, Traffic, NoDisabledSip,
             PanicOnlyWithoutSip, Alive, At, StartPcs, StopPcs, EndPcs, lines, partVars, tokenVars,
             workVars, Cti!LineStates, Ari!LineStates
  <1>1. CASE r \in Requests /\ Accept(r)
    BY <1>1 DEF Accept
  <1>2. CASE SendSucceeds(r)
    BY <1>2 DEF SendSucceeds, Answer
  <1>3. CASE SendRefused(r)
    BY <1>3 DEF SendRefused, Answer
  <1> QED
    BY <1>1, <1>2, <1>3 DEF SendReturns

\* A command that is handled came over a connected client; one that panics
\* found the SIP server nil, and so disabled.
LEMMA CommandsKeep ==
  ASSUME ServiceInv, NEW m \in Commands, Dispatch(m) \/ AskRunning(m) \/ Invite(m)
  PROVE  ServiceInv'
  <1> USE DEF ServiceInv, ServiceTypeOK, Brought, Beyond, Unstopped, Traffic, NoDisabledSip,
             PanicOnlyWithoutSip, Alive, At, StartPcs, StopPcs, EndPcs, lines, partVars, tokenVars,
             workVars, Cti!LineStates, Ari!LineStates
  <1>1. CASE Dispatch(m)
    BY <1>1 DEF Dispatch
  <1>2. CASE AskRunning(m) /\ sip = "nil"
    <2>1. ~config.sip
      BY <1>2 DEF AskRunning
    <2> QED
      BY <1>2, <2>1 DEF AskRunning
  <1>3. CASE AskRunning(m) /\ sip # "nil"
    <2>1. /\ command' \in [Commands -> {"idle", "handling", "invite", "failed", "done"}]
          /\ command[m] # "idle"
      BY <1>3 DEF AskRunning
    <2>2. UNCHANGED <<config, main, cancelled, lines, tokenVars, partVars, request, crashed>>
      BY <1>3 DEF AskRunning
    <2> QED
      BY <2>1, <2>2
  <1>4. CASE Invite(m)
    BY <1>4 DEF Invite
  <1> QED
    BY <1>1, <1>2, <1>3, <1>4

\* Every step keeps the invariant.
LEMMA ServiceNextInv ==
  ASSUME ServiceInv, [ServiceNext]_serviceVars
  PROVE  ServiceInv'
  <1>1. CASE UNCHANGED serviceVars
    BY <1>1 DEF serviceVars, lines, partVars, tokenVars, workVars, ServiceInv, ServiceTypeOK,
                Brought, Beyond, Unstopped, Traffic, NoDisabledSip, PanicOnlyWithoutSip
  <1>2. CASE ServiceNext
    <2>1. ASSUME NEW r \in Requests, Accept(r) PROVE ServiceInv'
      BY <2>1, RequestsKeep DEF Callers
    <2> QED
      BY <1>2, <2>1, StartKeeps, StopKeeps, RefreshKeeps, LinesKeep, RequestsKeep, CommandsKeep
      DEF ServiceNext
  <1> QED
    BY <1>1, <1>2

\* The invariant holds in every state of the process.
THEOREM ServiceInvariance == ServiceSpec => []ServiceInv
  <1>1. ServiceInv /\ [ServiceNext]_serviceVars => ServiceInv'
    BY ServiceNextInv
  <1> QED
    BY InitServiceInv, <1>1, PTL DEF ServiceSpec

\* The process keeps its type.
THEOREM ServiceTypeCorrect == ServiceSpec => []ServiceTypeOK
  <1>1. ServiceInv => ServiceTypeOK
    BY DEF ServiceInv
  <1> QED
    BY ServiceInvariance, <1>1, PTL

\* No message or event arrives before there is a handler and a sender for it.
THEOREM HandlersComeFirst == ServiceSpec => []TrafficMeetsHandlers
  <1>1. ServiceInv => TrafficMeetsHandlers
    BY DEF ServiceInv, Traffic, TrafficMeetsHandlers
  <1> QED
    BY ServiceInvariance, <1>1, PTL

\* A command panics on a SIP server that was disabled, and on no other.
THEOREM PanicNeedsDisabledSip == ServiceSpec => []PanicOnlyWithoutSip
  <1>1. ServiceInv => PanicOnlyWithoutSip
    BY DEF ServiceInv
  <1> QED
    BY ServiceInvariance, <1>1, PTL

\* A service that runs has the parts that Start checks, and still has them.
THEOREM CheckedPartsAreUp == ServiceSpec => []CheckedPartsRun
  <1>1. ServiceInv => CheckedPartsRun
    <2> SUFFICES ASSUME ServiceInv, main \in {"scenario", "running"}
                 PROVE  /\ {cti, ari} \cap {"new", "off"} = {} /\ token # "none"
                        /\ refresher \notin {"off", "done"}
                        /\ sip = IF config.sip THEN "running" ELSE "nil"
      BY DEF CheckedPartsRun
    <2>1. Beyond(StartPcs \cup {"started"})
      BY DEF Beyond, StartPcs, EndPcs
    <2> QED
      BY <2>1 DEF ServiceInv, ServiceTypeOK, Brought, Beyond, Unstopped, NoDisabledSip, StartPcs
  <1> QED
    BY ServiceInvariance, <1>1, PTL
=============================================================================

# A verification of the call emulator

The repository is a Go service that emulates calls between a CTI server, an
Asterisk PBX and a SIP trunk. This directory holds TLA+ modules of it, from the
call store up to the process that starts and stops everything, TLC
configurations that check them on small instances, and theorems with proofs that
TLAPS checks for every instance.

## 1. Inventory

| Component | Source (`src/`) | State | Operations | Hard because |
|---|---|---|---|---|
| Call store | `internal/domain/call.go` | calls, three indexes | create, update state, bind channel, remove, clean up an agent's calls | indexes are deleted by key; any state follows any state |
| Agent registry | `internal/domain/agent.go` | agents by uuid | create, update state, clean up | objects are also written through pointers, without its mutex |
| State manager | `internal/domain/state.go` | `sm.mutex` over both | `StartCall`, `EndCall`, `CleanupAgent` | the handlers also call registry and store directly, in the middle of these |
| CTI handlers | `internal/cti/handlers.go` | `CurrentAgentID` | nine commands, five events to the peer | a goroutine per command; a command waits up to 30 s for Asterisk |
| ARI events | `internal/asterisk/ari_events.go` | none of its own | created, state change, destroyed | a goroutine per event: any order, and events may be lost |
| Dispatcher | `internal/ws/dispatcher.go` | table of handlers | register, dispatch | gives up the order of the messages |
| CTI client | `internal/ws/client.go` | connection, token channel, RWMutex | connect, disconnect, send, read, reconnect, new access token | goroutines pile up over reconnections; lock taken twice; unlocked reads |
| ARI event client | `internal/asterisk/ari_events.go` | the same | the same without send | the same |
| ARI HTTP client | `internal/asterisk/ari_client.go` | none | originate, ... | lost and late answers |
| SIP emulator | `internal/sip/server.go` | running, socket | start, stop, INVITE | one datagram, no answer is read; it may be nil behind its adapter |
| Executor | `internal/scenario/executor.go` | all of the above | start, stop, token refresh, health check | start fails half way; stop races everything |
| Scenarios, HTTP API | `internal/scenario/executor.go`, `internal/api/handlers.go` | none | send commands with pauses | time instead of answers; requests share the current agent |
| Keycloak, configuration, main | `internal/auth`, `internal/config`, `cmd/emulator` | access token; flags | one request; one file; a signal | a token expires while refreshing fails |

How they interact: main has the executor start every part in order, and stop
them on a signal. A request to the HTTP API runs a scenario, which sends
commands through the CTI client; the peer gives them back. The CTI client reads
a message and the dispatcher starts a goroutine for its handler; the handler
goes through the state manager, asks Asterisk (HTTP) or the SIP emulator (UDP)
for a channel, updates the call store and sends events through the same client.
The ARI event client reads channel events and starts a goroutine for each; it
looks the call up by channel, ends or updates it and sends events through the
CTI client.

What makes them correct: an index never leads to a stale call; a lock is
released on every path; a READY agent is used once; a call is ended by one
goroutine, announced only when it happened, and its agent freed; a client has
one connection, one reader and one reconnection; a disconnect is the end; a
service that runs has the parts whose start was checked, gets its connection
back and stops when told to; a request is answered, and one that is told it
failed made no call.
The field `hazards` of `PROJECT.json` lists what can go wrong, line by line,
with the properties that would show it.

## 2. Modules

| Module | What it models |
|---|---|
| `DomainTypes` | identifiers and states; `None` is Go's nil and the empty string |
| `CallManager` | the call store: one action per method, since each holds `cm.mutex` throughout |
| `AgentManager` | the agent registry, likewise |
| `StateManager` | `StartCall`, `EndCall`, `CleanupAgent`: one step per access to shared state, `sm.mutex` held from the first to the last. Extends the two above |
| `ReadyLease` | abstract: a READY of an agent opens at most one call; a call closes once; its outcome is announced after that |
| `CallFlow` | commands and events as goroutines over `StateManager`, with the peer and Asterisk as the environment. Implements `ReadyLease`, and `CallManager`'s specification |
| `Scenario` | the API requests that make a call and the scenarios they run, with the commands on their way through the peer. Extends `CallFlow` and implements it |
| `WsClient` | the WebSocket client with its goroutines and its RWMutex; with no senders it is the ARI event client |
| `LineClient` | abstract: what the executor sees of a client - new, up, down, off, and the two dead ends mute and stuck. `WsClient` implements it |
| `Service` | the process: main, `Start`, `Stop`, token refresh, SIP server, HTTP server, requests and commands, over two instances of `LineClient` |
| `CallManagerProofs`, `CallFlowProofs`, `ReadyLeaseProofs`, `ScenarioProofs`, `CalmProofs`, `WsClientProofs`, `WsLineProofs`, `ServiceProofs` | theorems |
| `MCCallManager`, `MCCallFlow`, `MCScenario`, `MCWsClient`, `MCService` | instances for TLC |

So there are two towers. `CallManager`, `StateManager`, `CallFlow`, `Scenario`
say what happens to agents and calls; `WsClient`, `LineClient`, `Service` what
happens to the process and its connections. They meet where a message is sent:
`Scenario` lets any send fail, and `Service` says when one does. A send may also
never return: `WsClient` says why (a failed write, or a stalled one), `Service`
what that does to the process, and `CallFlow` assumes of no send that it returns.

**State and code.** `call` is the heap of `Call` objects, `calls` the keys of
`cm.calls`, the `callsBy...` functions the indexes. `agents` is the registry.
`proc[p]` is the local state of a goroutine: where it is and the variables of
the function it runs. `sent[c]` is the sequence of messages about call `c`
handed to `SendMessage`. In `Scenario`, `scene[r]` is where the scenario of
request `r` is or how it was answered, and `inbox` holds the commands that were
sent and not yet given back. In `WsClient`, `conn`, `connected`, `token` and
`cancelled` are the fields of `Client` (a token is an element of
`reconnectChan`); `writer` and `rlocks` are the RWMutex; `socket` is the state
of every connection ever made. In `Service`, `main` is the line of `Start`,
`main()` or `Stop` the main goroutine is at, `cti` and `ari` are the states of
the clients, `token` is the access token as the CTI server judges it, and
`config` the flags that decide which parts there are.

**Where a step begins and ends.** A method under a mutex that every user of its
data takes is one step. `sm.mutex` is no such mutex, because the handlers go
around it, so the operations under it have a step per access. A goroutine that
only reads its own data between two accesses does so in the same step. `StartCall`
finds the agent's latest call once and compares its state three times, without
`cm.mutex`: three steps, between which commands and events may write that state.
Three places where two accesses are one step:

* A command reads `CurrentAgentID` and makes its first access to the managers
  in one step. Had another command changed it in between, the result would be
  that of a message that names the old agent, and such messages are modelled.
* An event's lookup of its call and the update that follows are one step: the
  binding of a channel does not change once made (`BindingSound`), and a call
  is never removed, as `RemoveCall` has no caller.
* The unlocked reads of `c.conn` in the readers: one step for the test, one for
  the use, and steps of other goroutines in between.

**Unsynchronised writes.** `StartCall` and `EndCall` write `agent.State` without
`am.mutex`. Overlapping with `UpdateAgentState` this is a data race on a
two-word string, whose outcome is either value or the pointer of one and the
length of the other: the value `TORN` (`OverlappingWrite`), which compares equal
to no state.

**Sends that do not return.** `WriteMessage` has no deadline and runs under the
read lock of the client. A write to a broken socket fails and then waits for the
lock its own goroutine holds (`WriteFails`); one to an open socket whose peer has
stopped reading stalls (`WriteStalls`). Either way nobody gets the write lock
again: the client is `LockedForGood`, the state stuck of `LineClient`. In
`Service` any send of any goroutine may do that at any time (`SendHangs`): that of
a request, of main's scenario, of a command that is answered or of an event that
is reported.

**Answers without an id.** `Originate` does not look at the id of a 200 answer.
With an empty one the handler binds nothing and goes on as after a success
(`OriginateReplyNoId`); the channel, if there is one, lives on unbound.

**Pauses.** A scenario never waits for a reply, it sleeps. In `Scenario` a sleep
takes no time, so what was sent in order takes effect in any order. Only
`SuccessMeansCall` needs more; it is about the behaviours marked `calm`, in
which a command has done its work before the next is sent and requests come one
at a time, which is what the pauses were written for. Of outbound requests one
more thing is asked there: a channel event, too, is handled before anything else
begins. A basic scenario registers an agent of its own, but an outbound one takes
an agent that had calls before. An event handled late, or in the middle of the
command that makes a call, can leave an ended call of that agent in progress
after the agent was made READY, and `StartCall` then refuses the next call
although the request was told of success.

**What is abstracted.** Destination numbers, UUIs, caller ids and the text of
messages; error replies and replies to commands that do not make a call; time
stamps, kept as their order; the length of pauses and backoffs. A `Connect` that
finds a connection is `NoNewConnection` with the result of a success.
`lineAnswerCall`, `lineSetupTransfer` and `lineCompleteSPYcalls` only reply.
A goroutine of `CallFlow` does not remember which of the two call commands it
runs; in `Scenario`, where all requests of a behaviour are of one kind, that kind
decides (`PlacedAsAsked`).
`Service` treats a request as handing messages to `SendMessage` until one is
refused or the last is sent, and a command as its use of the SIP server. The
panics of `WsClient` (`PanicsExplained`) end the process and are not repeated in
`LineClient`.

## 3. Runs

All runs finish within three minutes or so on two workers.

| Run | Bounds | Shows |
|---|---|---|
| `call_store` | 2 agents, 2 calls, 1 refId and the empty one, 2 channels | `IndexSound`, `StampsSound`, `StampsOnlyGrow` under every sequence of methods |
| `flow_calls` | 1 agent, 2 calls, 1 refId, 2 channels, 2 command goroutines, both commands, Destroyed | `LockHeldInside`, `BindingSound`, `OneEnder`, `TruthfulReports`, `ReadyLeaseSpec` |
| `flow_events` | 1 call, 1 channel, all five events | `FlowTypeOK`, `BindingSound`, `TruthfulReports` |
| `flow_liveness` | 1 call, 2 command goroutines, any send may block, no symmetry | `GoroutinesFinish`, `EveryEndIsTold`, `EveryEndFreesAgent` |
| `ws_client` | 3 connections, 2 senders, `Close` may fail, writes may stall | `OneReconnection`, `NoLostWakeup`, `NoSocketLeak`, `OneReaderPerConnection`, `DisconnectIsFinal`, `PanicsExplained`, `ShutdownDrains`, `StopHangsOnlyOnSender`, `TornDownIsReplaced`, `ImplementsLine` |
| `scenario` | 2 requests, both scenarios, 2 agents, 2 calls, 2 command goroutines, 1 channel, Destroyed | `CurrentCallIndexed`, `SuccessMeansCall`, `FailureStartsNoCall`, `ImplementsFlow` |
| `service` | 1 request and main's own scenario, 1 command, all configurations | `TrafficMeetsHandlers`, `PanicOnlyWithoutSip`, `CheckedPartsRun`, `ConnectionRecovers`, `StopCompletes`, `RequestsAnswered` |

Two calls and two command goroutines are the least with which commands race for
an agent, and one channel per call is all a call ever has; a third call adds no
new pair of actors. The events run has one call because events of different
channels touch different calls, except through the agent, which the runs with
two calls cover. `UuidLeft` is the bound on calls. Two requests with two agents
are the least in which the commands of one meet those of the other and
`getCurrentAgentID` can return the wrong agent. Of the channel
events that run has destruction, which ends calls and frees agents. What the
others do to calls is in the flow runs and, with `ImplementsFlow`, carries over;
that the two properties about answers hold with any set of events is proved.
Three connections are two reconnections: the
first adds a second handler, the second lets both compete, with readers of
earlier connections still about. `MaxConns` is the bound; when it is used up the
client can only fail to dial. `WritesMayStall` is off in the two runs that expect
a violation: their counterexamples need no stalled write. In `Service` requests
meet each other only through the state of the client, which main's own scenario and one request
already share.

The deadlock check is off where the system really rests: a client or a service
that has been stopped, and scenarios that have all been answered. `CallFlow`
never stops: an idle goroutine can always take another command.

`SYMMETRY` permutes identifiers that the modules only compare; the liveness runs
do without it.

**Where the code departs from its comments.** Five runs each check what a
comment says and find it violated; `PROJECT.json` quotes the comments.

| Run | What happens |
|---|---|
| `started_first` | callConnected before callStarted: the channel is bound before the start is sent |
| `one_outcome` | Down, then Destroyed: callEnded and callFailed for one call |
| `incoming_call` | an incoming call is bound to no channel, and never ends |
| `send_deadlock` | a failed write asks for the write lock with the read lock held |
| `stale_reader` | the old reader's deferred function marks the new connection as down |

Other behaviour that a reader of the code should know of is reachable in the
models, and stands with its line under `hazards`: an Up handled late puts an
ended call in progress again; a CREATED call is not "active", so an agent made
READY again gets a second call; a logout in the middle of a command leaves a
DIALING call; `Disconnect` during a reconnection cancels nothing; a `Close` that
fails wakes no handler, and the client is mute from then on; `Disconnect`
between a reader's test and its use of `c.conn` panics; with SIP disabled an
incoming call panics; of two requests at the same time both may be told of
success though one call is made; an outbound request may be told of success
without a call when several agents are registered, because `getCurrentAgentID`
returns any of them, where its comment (`executor.go:587`) says "the current agent
ID" (`SuccessMeansCall` excludes this with `AgentIsClear`); a server that cannot
listen leaves the service running without its API.

**Fairness.** `CallFlow` assumes strong fairness of each goroutine's own steps
except those inside `SendMessage` (`Sending`): Go runs every runnable goroutine,
its mutexes hand over to a starving waiter, and the originate request has a
timeout. No send is assumed to return, so `GoroutinesFinish` says that a goroutine
gets to its end or to a send, whatever becomes of the sends of others, and
`EveryEndIsTold` that the outcome gets as far as `SendMessage`. Nothing is assumed of
the peer or of Asterisk: commands and channel events may stop coming. `WsClient`
assumes the same of its goroutines (a read or a write returns once its socket is
broken or closed, but no message need ever arrive, and a write to an open socket
need not return), and, for the properties about reconnecting only, that a server
dialled again and again answers in the end. `Service` assumes weak fairness of the
main goroutine in `Start` and `Stop`, of the ticker and of `UpdateAccessToken`, which
are goroutines that run and calls that return or time out. Of a send it assumes
that it returns unless the client is stuck, which is what a send that does not
return makes it, and may at any time; `StopCompletes` and `RequestsAnswered`
except that state. `ConnectionRecovers` also needs strong fairness of two steps: Keycloak,
asked again and again, answers in the end; and a reconnect handler that again
and again dials with a valid token gets in. It is strong because the token may
expire between two attempts; the pause between attempts doubles to half a minute
or so, far below the half hour between refreshes, so some attempt falls into the
life of a token. Nothing is assumed of signals or requests, and a request need
not be accepted.

## 4. Proofs

All proofs hold for any values of the constants that satisfy the assumptions the
modules state: `NoneIsFresh` (nil is no identifier and no state), `FlowAssumption`
and `ProcsAreNotNone` (which goroutines there are, and that nil is none of
them), `KindsAreScenarios`, `WsAssumption` (a positive number of connections),
`SelfIsNoRequest`.

**Call store.** `CallManagerProofs`: type, `IndexSound`, `StampsSound`,
`StampsOnlyGrow`. The invariant is

    CMInv == CMTypeOK /\ IndexSound /\ StampsSound /\ UnusedClean /\ RanksTight

`IndexSound` is not inductive: an entry leading to a uuid that is yet to be
drawn would become wrong when `CreateCall` draws it, so `UnusedClean` says such
uuids are in no map. `RanksTight`, the rank of an end is at most one above that
of the start, bounds the stamps and makes the overwriting of `EndedAt` at a
logout a move forward. The argument goes through single objects
(`SoundObject`), since most methods change one.

**Flow of calls.** `CallFlowProofs`: type, `LockHeldInside`, `BindingSound`,
`OneEnder`, `TruthfulReports`, `CurrentCallIndexed`, and that the flow is a
client of the store (`FlowUsesStore`: `FlowSpec => CMSpec`), so that the store's
theorems hold in it (`FlowKeepsStore`). The invariant is

    FlowInv == CMInv /\ FlowTypes /\ (\A p \in Procs : ProcOK(p)) /\ OneOwner /\ SharedOK

`ProcOK(p)` says that the local state of goroutine `p` fits the shared state
where it is: its variables are set (`LocalSound`), it has the lock exactly
inside the operations, its call is still unbound if `p` is a command that has
not bound it, and bound to the event's channel if `p` is an event
(`BoundOrNot`), what it is about to announce has been recorded (`Recorded`), and
the call it just created is its agent's latest (`Latest`). `OneOwner`: no two
commands have the same call. Each step is shown to keep `ProcOK` of the
goroutine that takes it; that it keeps `ProcOK` of the others is the frame
lemma `OthersOK`, whose premises (nobody else's lock, bindings, records or
latest calls are disturbed) each step then has to meet. `TruthfulReports` needs
`Recorded`, `BindingSound` needs `BoundOrNot` together with `OneOwner`, and
`CurrentCallIndexed` needs `Latest` and the lock.

**Lease.** `ReadyLeaseProofs`: `FlowSpec => ReadyLeaseSpec`. No invariant beyond
`FlowInv` is needed: the goroutine that saw its agent READY is alone under
`sm.mutex` (`Alone`), so the READY it saw is still unused when it opens the call,
although the handlers write agents around that lock. The proof has a lemma per
kind of step, saying which step of the lease it is, or that it is none.

**Scenarios.** `ScenarioProofs`: `ScenarioSpec => ImplementsFlow`, from which the
lease and `CurrentCallIndexed` follow for any number of concurrent requests. The
one fact needed is that the commands on their way name agents that exist, since
agents are never deleted (`AgentsStay`).

`FailureStartsNoCall` is a count, in the same module. It is not inductive: a
command on its way becomes a goroutine in `StartCall`, and that makes a call.
`Started` counts the three together, and `AnswerInv` says that there are never
more of them than requests told of success. The last send of a scenario adds a
command and an answer in one step (`RequestCounts`); every other step moves one of
the three on or loses it (`DeliverCounts`, `StepCounts`, `EventCounts`).

**Successes.** `CalmProofs`: `SuccessMeansCall` is the other direction, that in
calm behaviours nothing is lost. Its invariant adds to `AnswerInv`

    CalmInv == Turns /\ NewAgents /\ (kind = "outbound" => OldCalls /\ Choices) /\ Counted /\ ...

`Turns`: of requests, commands, goroutines and, for outbound calls, events, one
thing is under way at a time. What can make `StartCall` refuse is an agent that
is not READY or has an active call. For a basic scenario `NewAgents` excludes
both: the agent it registered has no call yet. For an outbound one `Choices` says
that the agent a `makeCall` names is READY, as long as no other could have been
chosen (`ClearSoFar`), and `OldCalls` that an agent is READY only when its calls
are over and no event is left to move them. `Counted`: then there are no fewer
commands and calls than successes. `OldCalls` is inductive only because an event is
handled before a request or a command begins; a basic scenario needs no such order.
TLC was asked about every part of `CalmInv` before it was proved, and found
the late event of section 2.

**Client.** `WsClientProofs` proves the type and six invariants for any number of
connections and senders. The invariant adds to these: which goroutine may be
where (`Roles`); a sender inside a write has its read lock, so that nobody
changes `conn` under it (`SendersLocked`); one dialler or one token, and then no
connection (`OneDialler`); `connected` implies a connection
(`ConnectedHasConn`); and what each reader may find in `c.conn`
(`ReaderBound`). The step that needs most of it is `TriggerReconnect`: it tears
down `c.conn`, which must be the connection of the goroutine that saw it fail.
`PanicsExplained` follows from `ReaderBound`: a reader that finds nil finds a
cancelled client. `WsLineProofs` shows that the client implements `LineClient`
under the mapping `LineState`.

**Service.** `ServiceProofs`: type, `TrafficMeetsHandlers`, `PanicOnlyWithoutSip`
and `CheckedPartsRun`. They hold by how far `Start` has come: the invariant
`ServiceInv` adds what is there once main has come past each step (`Brought`), that
nothing has gone while nobody has called `Stop` (`Unstopped`), that a disabled SIP
server is never made (`NoDisabledSip`) and what a client or a command can count on
(`Traffic`). `CheckedPartsRun` says of the HTTP server nothing at all: a failed
`ListenAndServe` is logged, and the service runs without its API.

The joint with the client is in how `Service` is written: its clients change by the
actions of `LineClient` only, and may take those that are their own (a connection
torn down or made again, a client gone mute or stuck) at any moment. `WsLineProofs`
shows that whatever `WsClient` does is a step of `LineClient`, so what `Service`
leaves out of what a client may do is one thing only: the CTI client is not
connected with a token that has expired, as the server refuses it.

Every safety property of the passing runs is stated by a theorem. Only
model-checked are the liveness properties, as liveness under fairness is out of
this prover's reach (`GoroutinesFinish`, `EveryEndIsTold`, `EveryEndFreesAgent`,
`ShutdownDrains`, `StopHangsOnlyOnSender`, `TornDownIsReplaced`,
`ConnectionRecovers`, `StopCompletes`, `RequestsAnswered`), and the five runs that
expect a violation. The liveness `Service` assumes of a reconnection is what
`TornDownIsReplaced` shows of the client.

## 5. Not modelled

* Reading the configuration file, flags and logging: pure input and output. The
  settings that decide which parts there are, are `config` in `Service`.
* The JSON and HTTP of the API, of ARI and of Keycloak, and the text of the
  INVITE: encodings that keep no state. The API's requests to answer, hang up
  and transfer are stubs that change nothing.
* `healthCheckRoutine`, `Wait`, `GetSystemStatus` and the status and health
  requests: they only read.
* Code without a caller: `SetAgentCall`, `SetAgentRefID`, `RemoveAgent`,
  `UnregisterHandler`, `GetRegisteredHandlers`, `RefreshAccessToken`, and every request
  of the ARI client but `Originate`. `RemoveCall`, which has none either, is in
  `CallManager` because the indexes depend on it.
* A crash is the end of the process: nothing is kept, and a restart begins from
  the initial state.
* The torn read of the string `CurrentAgentID`, and the bytes of torn strings in
  general (`TORN` stands for them).

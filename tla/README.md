# The message distribution system for distributed training, in TLA+

This directory holds a TLA+ model of the programs under `src/`: a three tier federated
training system (centre, edge server, training clients) written with Qt. The modules are
translated from the C++ sources and model-checked with TLC on small instances. The safety
properties of every module and the safety part of every refinement are proved with TLAPS
for every value of the constants that the theorems name; liveness is model-checked.

- `PROJECT.json` lists the components, the runs, the deliberate mistakes each property
  notices ("mutants"), the source lines behind every definition ("map"), the
  disagreements found between code and its own comments ("findings"), the hazards of the
  code and the proved theorems.
- This file says how to read the modules and what the checks do and do not show.

## 1. The system

```
 web console ──HTTP 12000 / WebSocket 12001── Center ──TCP 11000── Edge ──MQTT 1883── client01
  (html page)                                    ╲──TCP 12300───╱       (EMQX broker) └─ client02
                                                   status texts
```

An operator asks for `n` rounds of training (`T E<n>`). In each round the centre sends
its current model to the edge over TCP; the edge publishes it over MQTT; each client
trains it in a child process and publishes its own model; when the edge has a model of
every client it runs an aggregation script and sends the result back over TCP. The
centre then starts the next round with that model, or, after the last one, announces it
to the console. Every process is one Qt event loop: handlers never run in parallel
within a process, but queued calls, sockets, timers, child processes and the broker
interleave freely. Nothing polls the state of a training: each message exists only
because the one before was handled.

### Components, their state and their operations

| Component | Source | State | Operations that change it |
|---|---|---|---|
| Centre `StartMission` | `src/Center/startmission.cpp` | `m_remainingTrainTimes`, `m_LastbroadcastModelPath`, queued `singleShot(0)` calls | `handleStartTrain`, `sendNextModel`, `handleModelReceived` |
| Centre `InteractionFromUI` | `src/Center/interactionfromui.cpp` | `m_currentStep`, `m_totalSteps`, HTTP sockets, download path, WebSocket clients | `handleUICommand`, `incrementProgress`, `sendProgress`, `handleUpload` |
| Centre `MyServer` | `src/Center/myserver.cpp` | `m_clients`, `m_transfers` (one record per socket) | `handleNewConnection`, `sendModel`, `processIncomingData`, `saveReceivedModel`, `handleClientDisconnected` |
| Status channel | `src/Center/mystatserver.cpp`, `src/Edge/myedgestatclient.cpp` | `blockSize`, `clientSocket`, the edge's `socket` | `sendMessage`, `onNewConnection`, `onReadyRead`, `onDisconnected` |
| Edge `StartMission` | `src/Edge/startmission.cpp` | `m_currentAggregatedModel` | `handleNewModelFromCenter`, `handleNewModelReceived`, `handleAggregationResult` |
| Edge `ModelAggregator` | `src/Edge/modelaggregator.cpp` | `m_roundModels` | `addClientModel`, `checkRoundCompletion`, `performAggregation` |
| Edge `MyEdgeServer` | `src/Edge/myedgeserver.cpp` | `m_currentRoundId`, `m_roundTimer`, chunk files | `publishModel`, `onMessageReceived` |
| Edge `MyEdgeClient` | `src/Edge/myedgeclient.cpp` | `m_transfer`, `m_currentFile`, `m_bytesSent`, `m_transferInProgress`, signal connections | `handleModelData`, `sendModel`, `onBytesWritten`, `handleBytesWritten`, `abortTransfer` |
| Client `StartMission`, `TrainModel` | `src/Client/startmission.cpp`, `trainmodel.cpp` | `m_saveFromEdgeModel`, the child process, 5 s retry timers | `saveModelPath`, `startTraining`, `onTrainingFinished` |
| Client `MyMqttClient` | `src/Client/mymqttclient.cpp` | `receivedModelData` | `onMessageReceived`, `publishModel` |
| QtMqtt, vendored | `src/Edge/include/qmqttconnection.cpp`, `qmqttclient.cpp` | client and connection state, subscriptions, pending acknowledgements, identifier and ping counters | `connectToHost`, `subscribe`, `publish`, `sendControlPingRequest`, the `finalize_*` handlers |
| Web page | `src/最终版优化版.html` | bar, history in the browser, WebSocket | commands, downloads, `updateProgress`, a record removed after a 404 |

Parts left out for good: the centre's own `ModelAggregator` and its copy of QtMqtt
(unreachable), the page's layout, the arithmetic of the training scripts.

### What is hard here, and what makes each part correct

- **Centre.** Rounds left, progress bar and the model under way are three copies of one
  fact, updated by different handlers (`startmission.cpp:75-91,149-162`,
  `interactionfromui.cpp:245`). They must stay in step through failures and repeated
  commands, and what is announced must have been trained as often as was asked.
- **Edge rounds.** A round is "whatever arrived under the same round id". Models of two
  rounds must not be mixed, a round must not be completed twice, and a failed one must
  not block the next.
- **Clients.** `QProcess::start` silently does nothing while a process runs, so a model
  must not reach a client that is still busy; a failure must be retried.
- **TCP framing.** Two hand-written length-prefixed protocols must cut a byte stream
  into the files that were sent, over reads of any size and over reconnections.
- **MQTT models.** A model is a series of messages; the clients get them with QoS 0 and
  append, the edge files them by name. What a lost message, a lost connection or a full
  disk does to this model, to the next one and to the aggregate is nowhere written down.
- **Console.** One pointer to the newest socket, one to that of the download and one
  path serve all HTTP requests, and sockets delete themselves. Which request gets which
  answer depends on the order of connecting, reading, closing and deleting, and on the
  reuse of addresses.
- **Status texts.** `blockSize` survives the connection whose frame it belongs to.
- **MQTT session.** Subscriptions, identifiers and ping counters are kept over
  connections, which may be refused, lost, or held with a silent broker.
- **Liveness.** A training goes on only if none of about a dozen hand-overs is dropped.

The "hazards" of `PROJECT.json` list these at the line where they bite, each with the
properties aimed at it.

## 2. The modules

```
 TrainingCampaign            what an operator is promised (abstract)
      ▲ implemented by
 TrainingLoop                centre + abstract edges     ── TrainingLoop_proofs
      ▲ extends MissionControl (the centre)
      ▲ implemented by
 FederatedTraining           MissionControl + EdgeRelay + ClientTrainer
      │                                                  ── FederatedTraining_proofs
      ├ TCP: whole models = ModelPipe (abstract)
      │      ▲ implemented by   ModelDownlink (centre→edge) ── ModelDownlink_proofs
      │                         ModelUplink (edge→centre)   ── ModelUplink_proofs
      └ MQTT: whole models = LossyPipe (abstract)
             ▲ implemented by   ModelExchange = ModelBroadcast (edge→clients)
                                              + RoundAssembly (clients→edge)
                                both over ModelMessages (chunks and end markers)
                                                         ── ModelExchange_proofs

 MqttSession = MqttConnection + network + broker         ── MqttSession_proofs
                             under ModelExchange's wires
 StatusChannel               beside the training         ── StatusChannel_proofs
 ConsoleServer               InteractionFromUI + page    ── ConsoleServer_proofs
```

**`MissionControl`** is the centre. A model is a number, the training rounds it has been
through; `0` is the pretrained `yolov8n.pt`. Each handler is one action: `StartTrain`
(the command resets the bar, then sends the first model in the same call chain),
`SendNextModel` (the queued `singleShot(0)` call, counted by `pending`),
`ContinueTraining` and `CompleteTraining` (the two branches of `handleModelReceived`),
and connection and disconnection of an edge. `sendModel` writes to every connected
socket and reports nothing, neither an unreadable file nor the absence of edges; the
round is counted as sent all the same, as in the code.

**`TrainingLoop`** closes the centre with an operator and with edges that take a model,
keep it for a while and return it trained once more, and adds the faults: a lost
connection (with what was on its wires), a lost round, an unreadable model file, edges
that connect late. `Impatient` lets the operator repeat a command while models move;
otherwise a command before completion is given only when nothing moves any more.

**`TrainingCampaign`** is the promise: rounds one after the other, and after the last
one a model trained exactly as often as was asked for is released, once.

**`EdgeRelay`** is the edge between its two protocols. `roundOpen` is whether
`m_currentRoundId` is set, `roundModels` is `m_roundModels` under that id. The id is
cleared by the six minute timer only, never by a completed round; models filed under an
old id stay in the map but no later message can reach them, so the model forgets them.
An aggregation succeeds (`Aggregate`), fails and leaves the round's models in place
(`AggregationFails`), or succeeds and is thrown away by an early return of
`handleAggregationResult` while the round is removed all the same (`ArchivingFails`).
The aggregate counts one round more than the least trained of its parts.

**`ClientTrainer`** is a client: the last model saved, the training process if one runs,
and the retry timers. `startTraining` does nothing while a process runs. A failed upload
is followed by nothing: `onModelPublished` is connected to a signal nobody emits.

**`FederatedTraining`** composes the three. The parts share the wires `down` and `up`
and the broker's queues `pub` and `sub`. Faults are counted against `MaxFaults` and
limited to the kinds in `MayFail`:

| Kind | What goes wrong | Where |
|---|---|---|
| `aggregation` | script error, 60 s timeout or no output file | `src/Edge/modelaggregator.cpp:118-142` |
| `archive` | the aggregate is empty or cannot be copied | `src/Edge/startmission.cpp:92-119` |
| `round` | six minutes without a message | `src/Edge/myedgeserver.cpp:33-38` |
| `start` | the training process cannot be started | `src/Client/trainmodel.cpp:21-32` |
| `upload` | a client's publication fails | `src/Client/mymqttclient.cpp:109-143` |
| `broadcast` | a client misses the edge's publication | end marker sent with QoS 0 |
| `tcp` | the connection between centre and edge is lost | `src/Center/myserver.cpp:321-330` |

Training processes that end without a model have a bound of their own,
`MaxTrainFailures`: the code does handle those, so they are not counted as faults.

**`ModelPipe`** is what either TCP direction owes the training loop: models arrive
whole, in order and once, or are lost with the connection, or by the disk they are saved
on: a disk that refuses the file loses the model, a full one keeps a part of it.

**`ModelDownlink`** is `MyServer::sendModel` and `MyEdgeClient::handleModelData` at the
level of bytes. A byte is known by its model and its position in the frame. `ReadByte`
is the reader's loop body, `AfterBytes(n)` repeats it over the next `n` bytes, and
`EdgeReads(n)` leaves the edge where that ends. `abortTransfer` drops the socket and what
it held but keeps `m_transfer`. When the size field is read from the middle of a frame,
its value is arbitrary (`Garbage`). `Saved` is what `saveReceivedModel` announces of a
complete model: it does not ask how much was written, so a full disk leaves a torn file,
and when the file cannot be opened nothing is announced, with the connection up.
`DiskChanges` is the disk's own action and limited to `DiskStates`. `OnTheWire`, the
abstract pipe, is the models whose last bytes have not been read.

**`ModelUplink`** is the other direction in units of one 64 KB chunk. `onWritten` is the
constructor's connection of `onBytesWritten`, `inProgress` is `m_transferInProgress`, so
that the first transfer has two handlers of the `bytesWritten` signal that both advance
`m_bytesSent`, as in the code. On the centre's side the branches of
`processIncomingData` are separate actions, including the early return after the size
field. After `m_transfers.remove` the code goes on with a dangling reference; what it
then reads is undefined, and the model lets the outcome be either "nothing" or an
overflow that closes the connection (fault `freed`). `OnTheWire` is the models whose last
unit is in the buffer, in the stream, queued or still to be written.

**`ModelMessages`**, **`ModelBroadcast`**, **`RoundAssembly`** and **`ModelExchange`**
are the MQTT side in messages. A model is `Chunks` chunks and an end marker. A client
appends what arrives to `receivedModelData` and saves it at the marker if the size fits;
the edge keeps one file per chunk (`chunkFiles`), merges them at the marker into
`modelFile` and announces the path, which is the same for every model of a client and
round: what the aggregator reads is what the file holds *then*. A file is the sequence
of the parts written to it, so that a torn one shows. `ModelExchange` adds the training
in between and the faults of `MayFail`: a lost chunk or marker, a disk that fails at any
of the calls that can fail, a lost connection to the broker, a training, a script or a
round timer. `lost` and `lostUp` count what was lost on each path and are read by
properties only.

**`LossyPipe`** is what `ModelBroadcast` owes the training loop, and what the queue
`pub` and the fault `broadcast` of `FederatedTraining` stand for: models arrive whole or
not at all, in order and once. Models are numbered as they are published, so what is on
the way is a set, and the oldest of it arrives next.

**`ConsoleServer`** is `InteractionFromUI` with the page and its browser. A socket has
an address, and a new one may get the address of a deleted one: `clientSocket` and the
socket of a download are addresses, and using one without an object is what reading
freed memory gives: a crash or a socket that is not connected (`InvalidPointer`).
Accepting, reading, writing and the end of each connection are actions of their own, and
fetches are preceded by the browser's OPTIONS request on another connection. A read that
brings the headers without the body handles the previous command once more. A fetch whose
connections end without an answer fails (`FetchFails`), which the page only reports, and
the next one may follow. The page's WebSocket carries progress and history entries and is
opened once; a 404 makes the page remove the record. Besides, the page resets its bar
itself, to `0/n` before it sends a command (`PageStartsTraining`) and to 0% when a
finished training is left by the stop button, of which the server is not told
(`PageStopsTraining`); `step` is the view it shows. The history is kept in the browser,
so that it may begin with models of an earlier run of the server (`OldModels`).

**`StatusChannel`** is the text channel in units of four bytes: `sendMessage`, a read of
any length, the loop of `onReadyRead` with its three ends, connections lost with what is
on them, restarts of the edge's process. After a loss the edge's client has deleted its
socket and never connects again; only a restart brings a connection, which the centre
reads with the `blockSize` it has. `Counting` counts the garbled ones among the texts
shown, and the packets of one kind in the queues of `MqttSession`.

**`MqttConnection`** is a `QMqttClient` with its `QMqttConnection`: `connectToHost`,
CONNACK and its refusal, `subscribe` and SUBACK, `publish` with QoS 1 and 0 and PUBACK,
identifiers that come round again and skip those still pending, the ping timer with its
two intervals of grace, the end of a connection with what is reset and what is not.
**`MqttSession`** adds the program, the network and a broker that refuses, falls silent
or restarts. The programs connect when they start; `startListening` and
`connectToBroker` would connect again, nothing calls them later, and the module allows
it so that what a session leaves behind meets the next one.

`MCModelDownlink`, `MCModelUplink`, `MCModelExchange`, `MCConsoleServer` and
`MCMqttSession` give the sizes, models and topics that TLC uses, and the symmetry of the
clients. The other modules take their constants from the `.cfg` files directly.

Operators called `Bug...` are deliberate mistakes, each written just before the
definition it is a mistaken form of. No specification uses them; `PROJECT.json` pairs
each property with the one that breaks it, so that a property that could not fail would
be noticed.

## 3. The runs

Each run is `tlc -config <cfg> <module>`. `Console.cfg` takes about two minutes with
two workers, all the others together about a minute.

| Run | Question | Distinct states |
|---|---|---|
| `LoopFaults.cfg` | Do rounds left, bar, queued calls and model stay in step under faults, late edges and repeated commands? | 15 104 |
| `FederatedRetries.cfg` | Do real edge and clients together behave as the abstract edge, with failing training processes? Is every command carried through? | 633 |
| `FederatedFaults.cfg` | Which promises survive two faults of any of seven kinds and one repeated command? | 179 404 |
| `FederatedUpload.cfg` | (violated) Does a campaign survive one failed upload? | 28 |
| `DownlinkModels.cfg` | Does the edge cut the byte stream into the files sent, whatever its disk does? | 12 543 |
| `DownlinkTorn.cfg` | (violated) Also when the connection is lost in the middle of a model? | about 1 000 |
| `UplinkModels.cfg` | Does the centre announce what the edge sent, in order and once? | 2 789 |
| `UplinkWholeRead.cfg` | (violated) Is a completely received model always saved? | 90 |
| `Exchange.cfg` | What can a lost message, connection or write do to models and aggregates over MQTT? | 215 783 |
| `Console.cfg` | Which request gets which answer, and does the page show the server's state? | 5 626 145 |
| `Status.cfg` | Which texts are shown after lost connections and restarts? | 15 140 |
| `Session.cfg` | Do client and broker agree after refusals, losses, silences and restarts? | 94 855 |

The number for a violated run is where TLC stops and varies a little.

### What the properties say

*Centre (`TrainingLoop`).* `Lockstep` is the inductive invariant and the conjunction of
what one wants to know: one model at most is queued, on the wires or at the edge; bar
and rounds left add up to what was asked; what an edge trains is the last model the
centre received; a full bar means that no round remains and nothing moves.
`ReleasedFullyTrained`: a model is announced only with the last step of the bar, after
at least as many rounds as asked; it may be more, because a command repeated after a
stall goes on with the last model received instead of `yolov8n.pt`. `ImplementsCampaign`
(in `FederatedRetries`) says "exactly as many" and holds when no command is repeated.

*Whole system (`FederatedTraining`).* Until a command is repeated:
`AggregatesCurrentModel` (no aggregate mixes rounds), `NoModelSkipped` (no model reaches
a busy client). Always: `NoSilentStall` (a campaign stands still only after a fault;
failed training alone never does that), `OneModelAtCenter` (two models never meet at the
centre, whatever failed) and `EveryAggregateIsFresh` (left-overs of a failed round can
enter a later aggregate, but never without a current model: progress is never lost
entirely). `RestartRecovers`: once the faults are over, a model handed to the edge
carries the campaign to its end, whatever the failures left behind in rounds, queues and
retry timers. `CampaignCompletes`: without faults every command is carried through.
`ImplementsLoop`: without faults, edge and clients refine the abstract edge, fairness
included.

*TCP links.* `ReceivedIntact` (violated in `DownlinkTorn`): every file handed out is one
that was sent. `CompleteIsSaved` (violated in `UplinkWholeRead`). `ConnectionKept`,
`SentIsReceived`: sending never costs the connection without a fault, and every model
sent is announced. `ImplementsPipe`: each link is the FIFO of whole models that the
composed system assumes, from which only a lost connection or the receiver's disk takes
anything. What the disk takes has, for the training, the effect of a fault that the
composed system has: a model the edge cannot save is like one whose publication no
client gets (in `TrainingLoop`, like a lost round), one the centre cannot save is like an
aggregate that cannot be archived. What a training makes of a torn file is up to its
script.

*MQTT models (`ModelExchange`).* `ImplementsPipes`: whatever is lost, a client saves
only whole models, in order and once, as long as no more of the messages to it are lost
than a model has chunks (with more, the chunks of two models can add up to the right
size). `LossesCostLittle`: a lost chunk or failed write
costs a client one model, a lost end marker two, and nothing costs more.
`EdgeTakesWholeModels`: in the other direction chunks are kept by name until a marker
merges them, so that chunks of two models can add up to the right size, and the promise
is weaker: what the edge announces is whole as long as at most one message of that
client was lost. `AggregatesWholeModels`: what the *script* reads is whole as long as no
chunk was lost, to the network or to a disk; the loss of one may be enough, because
`model.pt` is rewritten before its size is checked, under a path already handed on.

*Console (`ConsoleServer`).* `ProgressAgrees`: when no message is under way, a connected
page shows the server's progress or what it has reset the bar to itself (`OwnReset`): by
a stop, or by its last start, as long as the server has not read that command whole. If
the command is lost, the reset bar stays.
`OrderlyAnswersAreRight`: if the page fetches one thing at a time and requests are read
whole, a download fails, or gets the file asked for, or a 404 if there is none; with one
exception, in place of a missing directory it may get a file that an earlier download
has failed to get. The handling of that one left its path behind, which nothing but the
last byte of a written file clears.
`WrongFileOnlyForMissing`: however disorderly, the handling of a command serves a file not
asked for only in place of one whose directory is gone. It is about the command handled;
when requests are read in pieces, that may be the command before and the answer reach
another fetch. `ForgetsOnlyWhatIsGone`: an orderly page does not
remove the record of a file that can be had. A command gets no answer at all from the
server, and a download often none either: it reaches the page only if its socket happens
to get the address remembered from an earlier one (§5).

*Status texts.* `StaysInStep`: a block size is read where one was written, whatever was
left over. `GarbledByTornConnections`: each connection dropped in the middle of a text
spoils at most one text. `TextsInOrder`; `WrittenIsShown`: a text written to a
connection is shown unless the connection is lost or an earlier one was torn.

*MQTT session.* `SubscriptionsAgree`: what the client holds for subscribed the broker
serves in *this* connection's session, and the other way round once the answer is read.
`SentWasReceived`: `messageSent` is true, also when identifiers come round again.
`AlarmsAreTrue`: the keep alive never ends a connection with a broker that answers within
two ping intervals.
`SilentBrokerNoticed`: it does end one with a broker that does not.
`SubscribedInTheEnd`: each subscription is answered or the connection known to be lost.

### Bounds, and why they are enough

- Rounds 2 to 4 and two campaigns: the centre distinguishes the first, a middle and
  the last round and what one campaign leaves to the next. Three rounds have a middle
  one.
- Faults 2 to 3 and one or two repeated commands: a fault before a repeated command and
  a fault after it, in any order of kinds; the third fault of `LoopFaults` can hit the
  campaign after that.
- One edge and two clients: the deployment. `requiredClients` names the two clients in
  the code. The proofs are for any number of clients and any bounds.
- Downlink: a size field of two bytes (split or whole), files of one and three bytes
  (the second can be cut on both sides), four models, all sizes of reads, two lost
  connections, a disk that goes through its three states at any time.
- Uplink: files of one chunk (the two handlers finish it during the header), three and
  five chunks (below and above the window of `Window` + 1 queued chunks), six (refused
  as too long); three models, so that the first transfer with both handlers connected is
  followed by transfers with one.
- Exchange: two chunks, so that a first and a last one can be lost; two models, so that
  what one leaves behind meets the next; two faults, so that a loss meets a timer, a
  lost connection or a second loss. All models have one size, as the parameters of one
  network have; chunk names are padded, so that the order of names is that of the parts.
  The clients are alike, and the run uses that symmetry (it checks no liveness).
- Console: one model that can be had, announced during the run, and two that the page has
  from an earlier one: one whose directory is gone, one that cannot be opened. Trainings of
  two rounds, so that there is a first, a middle and a full bar. Two fetches, which with
  their preflights are four connections: enough for every pointer to dangle and to be
  reused, and for a fetch to fail before another one; the proofs show the same for any
  number.
- Status: texts of one and three units (the second can be cut inside), four texts, two
  restarts, so that a left-over meets a connection that is torn again.
- Session: the edge's two topics, two connections, three publications and two faults.
  Each connection can use two identifiers for subscriptions, so with `MaxId` = 5 they
  come round while lost publications still hold theirs; they never run out. The broker
  answers pings within the grace of two intervals unless it is silent, and is restarted
  only after the client has left it.
- `CHECK_DEADLOCK FALSE` everywhere: the operator stops giving commands, bounds are used
  up, and the links really may stay down; nothing reconnects the status client.

### Fairness

`Spec` has none and is what the safety properties and the proofs use. `FairSpec` adds
weak fairness for what a running process owes: queued calls and arrived messages are
handled (Qt event loops), TCP and the broker deliver what they hold, timers fire, a
training process ends. `EdgeReceives(c)` and `ClientFinishes(c)` are fair as a whole:
the code decides which of their outcomes happens, and a training process is never owed
success (`MaxTrainFailures` bounds its failures). `ModelUplink`: writes, reads and the
event loops of both ends. `StatusChannel`: the centre's `onNewConnection` and its
reading. `MqttSession`: `SocketOpens`, `ClientReads`, `PingTimerExpires` and
`BrokerReads`, the last of which a silent broker does not have enabled. No fairness is
given to the operator, to publications, to restarts, to connections being opened by the
program, to reconnections or to faults. Weak fairness is enough: once enabled, none of
these actions is disabled by another except by a fault, of which there are finitely
many.

## 4. What is proved

Eight modules with 15 004 obligations, all discharged with Z3, Zenon and LS4. Nothing is
assumed but the `ASSUME`s of the modules and what the last column of a table names. The
properties of the theorems are those of the runs: TLC shows them on a small instance, the
theorems for every value of the constants. A refinement is proved without the fairness
that some runs check with it: `Loop!Spec` and `Campaign!Spec` are the abstract
specifications' initial states and steps.

### The training loop

| Theorem | Statement | Assumptions |
|---|---|---|
| `TypeCorrect` | `Spec => []TypeOK` | none beyond the module's |
| `LockstepHolds` | `Spec => []Lockstep` | one edge, `~Impatient` |
| `ReleasedFullyTrainedHolds` | `Spec => ReleasedFullyTrained` | one edge, `~Impatient` |
| `LoopImplementsCampaign` | `Spec => Campaign!Spec` | one edge, `~Impatient`, `EdgesFirst`, no faults, no repeated command |

They hold for any number of rounds, campaigns, repeated commands and faults.

*The argument.* None of the four parts that matter is inductive alone: one model at a
time, the sum of rounds, the model that is trained, the meaning of a full bar.
`handleModelReceived` queues a send without looking at anything else, so "one model at a
time" needs to know that no second model is behind the one being handled; that a queued
send has a round left to send needs the sum of rounds; and the sum needs to know that
the bar was not full. The invariant `Lockstep` adds to the four that a queued send has a
round left and that the model's number has kept up with the bar. For one edge it says
that the training is a token in one of four places (queued call, wire down, edge, wire
up); the lemma `TokenIsLockstep` rewrites it as `TokenAt(e)`, and one lemma per group of
actions (`TokenOperatorStarts`, `TokenCenterSends`, `TokenCenterReceives`,
`TokenEdgeMoves`) moves the token. A command is given only when the token is gone, which
is where `~Impatient` is used.

*The refinement* needs one fact more (`NothingLost`): without faults the token exists
exactly while the bar is not full, and the model's number equals the bar. Then each step
of the centre is a `Start`, a `FinishRound` or a stutter of the abstract campaign.

*Why the assumptions are needed.* Without them the statements are false, as TLC finds
when the constants are changed: with `Impatient` the bar is filled by the answers to
another command; with two values in `Edges` every answer counts as a round of its own;
with a repeated command the released model has more rounds than asked for; with
`EdgesFirst = FALSE` a command given before the edge connects spends its only send and
the bar stands still.

### The rounds of the whole system

| Theorem (`FederatedTraining_proofs`) | Statement | Assumptions |
|---|---|---|
| `TypeCorrect` | `Spec => []TypeOK` | none beyond the module's |
| `OneModelAtCenterHolds` | `Spec => []OneModelAtCenter` | none |
| `NoModelSkippedHolds` | `Spec => []NoModelSkipped` | none |
| `AggregatesCurrentModelHolds` | `Spec => AggregatesCurrentModel` | none |
| `EveryAggregateIsFreshHolds` | `Spec => EveryAggregateIsFresh` | none |
| `NoSilentStallHolds` | `Spec => []NoSilentStall` | none |
| `FederationImplementsLoop` | `Spec => Loop!Spec` | `MaxFaults = 0` |
| `FederationImplementsCampaign` | `Spec => Campaign!Spec` | `MaxFaults = 0` |

They hold for any finite, non-empty set of clients, any faults of the seven kinds and
any number of repeated commands; `NoModelSkipped` and `AggregatesCurrentModel` say what
is true until the first of these.

*The argument* counts shares. The centre's is `Token`: queued calls, models on its
wires, and one if a command may be given. A client's is `Load(c)`: its models between
broadcast and aggregation, the filed one included. After a failure a client may still
hold a left-over, so a sum of one for centre and client is not invariant; `Shares` says
what is: at most two (`TwoAtMost`), and some client for which it is one, or a round
complete and waiting (`OneWaits`), so that no second aggregate comes while the centre
has a model. With it goes the sum of rounds (`RoundsAdd`). Every action of the system is
of one of four kinds (`KindsOfSteps`): nobody gains; the operator starts; the edge
relays, which turns the centre's share into one of each client; the edge aggregates,
which does the reverse. The proof of preservation is by these kinds.

That an aggregate has a least trained part needs a least element of a set of numbers; the
library's induction theorems are out of reach of the provers here, so `SmallestExists`
gets it from the pigeonhole principle.

*Until a command is repeated.* `OneEach`: the sum is one for every client, hence no model
meets a busy client. `Fresh`: every model under way is then the centre's last one,
wherever it is, hence no aggregate mixes rounds. `Unfailed`: without a fault the model is
in hand, with the centre or with every client, hence no stall.

*However often it is repeated*, an aggregate has one current part. Which client
contributes it is the one that keeps a second aggregate from being made while the centre
has a model: `OneFresh` says that this client holds nothing outdated (`Current`), or that
a round is complete and waits, and then all that moves is current. `FreshDown` says the
same of the wire to the edge.

*The refinements.* Without faults no command is ever repeated, because a command needs a
stall and `NoSilentStall` excludes it (`Undisturbed`); failing training processes are
allowed in any number. `OneEach` and `Unfailed` then say where the abstract edge's model
is: it holds one exactly while some client has its share (`OneHasIt`), takes it with the
step that relays the model and returns it with the one that aggregates; everything the
clients do in between is a stutter. The steps of the centre are those of the loop. For
the campaign the centre's rounds are in step with the bar (`KeptPace`).

### The console

| Theorem (`ConsoleServer_proofs`) | Statement |
|---|---|
| `TypeCorrect` | `Spec => []TypeOK` |
| `ProgressAgreesHolds` | `Spec => []ProgressAgrees` |
| `WrongFileOnlyForMissingHolds` | `Spec => []WrongFileOnlyForMissing` |
| `OrderlyAnswersAreRightHolds` | `Spec => []OrderlyAnswersAreRight` |
| `ForgetsOnlyWhatIsGoneHolds` | `Spec => ForgetsOnlyWhatIsGone` |

They hold for any models, whatever is gone or locked, and any number of fetches.

*The argument.* `AddressesUsed` says that the addresses given out are 1 to some number
and that a socket has one as soon as it has arrived; so a fresh address is free, and no
two objects share one (`Objects`). `ConnectedPageShows` strengthens `ProgressAgrees`:
the last progress message in the queue, or else the bar, is the server's state, or there
is none and the bar is the page's own (`OwnReset`). What the page has reset stays its own
until a command of a training is read whole (`ResetKept`), and reading it broadcasts the
server's new state.
`SourceKnown` says where the remembered path comes from: a download that asked for that
file. For the answers an orderly page takes turns (`Turn`): nothing has happened yet,
the preflight of its last fetch is on its way or answered (`Asking`), the command is
(`Commanding`), or the fetch has failed (`Failing`); all earlier connections are idle, and
a path that was left behind is one that cannot be opened or that a download has failed to
get (`Harmless`; `Excused` says which). Connections that end in between only weaken what a
turn knows (`TurnKept`), and within a turn the answer is one of those the command may get
(`MayGet`): the right one, or such a path if the directory is missing.

### The TCP links

| Theorem | Module | Statement | Assumptions |
|---|---|---|---|
| `DownlinkTyped` | `ModelDownlink_proofs` | `Spec => []TypeOK` | none |
| `DownlinkIsPipe` | `ModelDownlink_proofs` | `Spec => ImplementsPipe` | `~TornModels` |
| `ReceivedIntactHolds` | `ModelDownlink_proofs` | `Spec => []ReceivedIntact` | `~TornModels`, a disk that is never full, no file is called "torn" |
| `UplinkTyped` | `ModelUplink_proofs` | `Spec => []TypeOK` | none |
| `UplinkKeepsConnection` | `ModelUplink_proofs` | `Spec => []ConnectionKept` | none |
| `UplinkIsPipe` | `ModelUplink_proofs` | `Spec => ImplementsPipe` | none |

They hold for files and size fields of any length, any window, and reads and writes of
any length.

*Downlink.* What the socket holds is the rest of a frame and whole frames behind it
(`Ordered`), and the edge has read that frame exactly up to the first byte there
(`InStep`). `ReadNext` shows that one byte more keeps the reader in step, in each part of
a frame and on the borders between them. A read of `n` bytes is a recursive function;
`SetInduction`, again from the pigeonhole principle, makes induction over its arguments
possible where the library's theorems, which take an operator, are not. With it
`IterationExists` shows that such functions are what their equations say, `ReadsInStep`
that a whole read keeps in step and announces the models that ended in it, and
`EndingConcat` that the models of a byte string are those of its parts. `~TornModels` is
needed: with it `TRUE`, `DownlinkTorn` finds a torn file.

*Uplink.* What is on its way is one contiguous piece of a frame: the centre has read up
to `p`, the edge has written up to `q`, and the rest is queued or in the file
(`Moving(m, p, q)`). The exception is a file that came with its size field in one read:
it stays in the buffer and the next frame queues up behind it (`Stuck`), until the read
that is taken for an overflow. `Mode(w)` says which of these it is and that `w` are the
models on their way; the inductive invariant is `Typed`, `ConnectionKept` and `Mode(w)`
for some `w`, and each action takes `w` to one that a step of the pipe allows. That
`OnTheWire` is this `w` is proved from the pieces, since a frame has one last unit.

### MQTT models

| Theorem (`ModelExchange_proofs`) | Statement |
|---|---|
| `ExchangeTyped` | `Spec => []TypeOK` |
| `LossesAreCheap` | `Spec => []LossesCostLittle` |
| `AnnouncedModelsAreWhole` | `Spec => []EdgeTakesWholeModels` |
| `AggregatedModelsAreWhole` | `Spec => []AggregatesWholeModels` |
| `BroadcastIsPipe` | `Spec => ImplementsPipes` |

They hold for any finite set of clients, any number of chunks and models, and any number
of faults of every kind.

*The argument.* A path holds consecutive messages of consecutive models (`Stream`), and
`Gone` says how much of the model at its front is no longer on it: read or lost. The
invariant of a path is about values, not about actions. From the edge to a client
(`Down`): the data collected are chunks of the model at the front, as many as are gone
but for the counted losses, or else more than that model can explain (`InHand`), so that
the size check at its marker throws them away; and the model at the front is at most one
more than the models saved and the losses excuse (`LittleLost`). From a client to the
edge (`Up`): which of the chunk files are of the model at the front, depending on what
has been lost (`OnFile`). One lemma per thing that can happen to a path (a model more,
one message read or lost, a lost connection, a disk that fails) says what becomes of
these values; each action then changes the values of one client on one path. `Rounds`
ties files and round together.

### Status texts

| Theorem (`StatusChannel_proofs`) | Statement |
|---|---|
| `StatusTyped` | `Spec => []TypeOK` |
| `StaysInStepHolds` | `Spec => []StaysInStep` |
| `GarbledByTornConnectionsHolds` | `Spec => []GarbledByTornConnections` |
| `TextsInOrderHolds` | `Spec => []TextsInOrder` |

They hold for texts of any length and any number of texts, losses and restarts.

*The argument.* The units of a connection, arrived or not, are whole frames behind at
most the rest of one whose block size has been read (`Framed`, `InStep`), in the order of
their texts (`Ascending`). `Garbled` counts the garbled texts and one more for a
`blockSize` that belongs to no frame of this connection (`Leftover`): the two together are
at most the torn connections.

### The MQTT session

| Theorem (`MqttSession_proofs`) | Statement |
|---|---|
| `SessionTyped` | `Spec => []TypeOK` |
| `SubscriptionsServed` | `Spec => []SubscriptionsAgree` |
| `NoFalseAcknowledgement` | `Spec => []SentWasReceived` |
| `KeepAliveIsRight` | `Spec => AlarmsAreTrue` |

They hold for any topics, any number of identifiers, connections, publications and
faults.

*The argument.* A packet identifier in use travels at most once, as a request or as its
answer (`Once`), and with what the client keeps under it (`Subscribing`, `Publishing`);
the queues hold the CONNECT or its CONNACK and nothing else as long as the handshake
lasts (`Handshake`); and the count of unanswered pings is that of the PINGREQs and
PINGRESPs on their way while connected, and zero otherwise (`Pinging`). An identifier of
a lost publication stays taken, which is why an answer never meets a second owner.

## 5. Disagreements between the code and its own words

Three are shown by runs that TLC finds violated.

1. **A failed upload is never retried** (`FederatedUpload`). The client's log promises a
   retry after five seconds, but the handler is connected to `publishModelSingal`, which
   nothing emits. The campaign stands still until the command is repeated.
2. **An interrupted download is completed with the next model's bytes**
   (`DownlinkTorn`). `abortTransfer` leaves `m_transfer` as it was.
3. **A model that arrives in one read with its size field is not saved**
   (`UplinkWholeRead`). The branch that reads the size returns before the completeness
   check.

Others were met while modelling and are part of the models:

- `handleStartTrain` never asks whether a training is under way: the answers to the
  first command fill the bar of the second one, and the page says "训练完成" while a model
  is still moving. The loop's properties are stated for an operator who waits.
- The download's answer goes to the socket of an earlier request
  (`src/Center/interactionfromui.cpp:106` sets it after the command has been handled),
  and the disconnection of any request deletes the newest request's socket. A download
  reaches the page only because the new object often gets the old one's address; a 404
  that reaches the wrong fetch makes the page remove the record of a file that is there.
- One lost chunk of an upload can reach the aggregation although the size check notices
  it: `model.pt` is rewritten before the check, under a path already handed to the
  aggregator.
- Publications with QoS 1 ("确保送达", "ensure delivery") are not sent again by QtMqtt after
  a reconnection, and the clients subscribe with QoS 0; neither edge nor clients connect
  a second time, and there is no timeout for a CONNACK that never comes.
- The check for `+` in topic filters looks for `#` in its loop
  (`src/Edge/include/qmqtttopicfilter.cpp:176`); the filters of this system have at most
  one.

Further limits that the models show and the properties above are stated around: a first
file of at most one chunk (64 KB) makes the edge abort its own connection (`unfit`); a
client whose process cannot be started is never heard of again (`start`); after a lost
upload and a repeated command one aggregate may mix models of two rounds, which is why
`AggregatesCurrentModel` is stated for campaigns without repeated commands and
`EveryAggregateIsFresh` for all.

## 6. What is only model-checked, and what is not modelled

Only model-checked: everything about liveness under fairness (`CampaignCompletes`,
`RestartRecovers`, `SentIsReceived`, `WrittenIsShown`, `SilentBrokerNoticed`,
`SubscribedInTheEnd`, the fairness part of the refinements), which the proof system does
not treat; and the three properties that the code violates, of which `ReceivedIntact` is
proved under the condition that the violating run drops. Every invariant and every action
property of the passing runs is a theorem.

Not modelled:

- Code that nothing calls: the centre's `ModelAggregator`, `checkTransfers`, the
  heartbeat and `broadcastModel` of `MyServer`, lines 27 to 111 of
  `src/Edge/myedgeclient.cpp`.
- Of QtMqtt what edge and clients do not use or what has no bearing on the properties:
  MQTT 5 and its properties, QoS 2, `unsubscribe`, `disconnectFromHost`, TLS and
  WebSocket transports, the encoding of packets, frames that arrive in pieces, the
  dispatch of publications by topic. Its three copies are identical and are modelled
  once; the centre links its copy and does not use it. They are most of the lines of the
  repository, so that the lines mapped are a modest share of all.
- The training scripts: a training or an aggregation is one of its outcomes. The client
  runs `train02.py`, which is not in the repository.
- Two `sendModel` calls at once on the uplink, excluded by `OneModelAtCenter`.
- The early return of `handleModelReceived` when the file does not exist
  (`src/Center/startmission.cpp:69-73`): `MyServer` has just written it and the signal is
  handled at once, so only somebody else could remove it in between. The round would end
  as with a file that the centre cannot save.
- In the console, a page that is loaded again while it fetches, and a browser that gives
  up a fetch whose connection is still open.
- Blocking waits (up to 60 s for the aggregation script) are one step: the event loop
  handles nothing meanwhile. Real time appears only as timers that may fire.
- The page's layout and its guess of the remaining time; the shutdown of the processes.

## 7. What is left

1. `DownlinkIsPipe` with connections lost inside a model: what the reader does after it is
   known from `DownlinkTorn`; a weaker promise, that at most the models behind a torn one
   are affected until the next lost connection, could be stated and proved.
2. A bound, as a theorem, on how many rounds a released model may have more than were
   asked for when commands are repeated (`ReleasedFullyTrained` says "at least").
3. `FederationImplementsLoop` with the faults that the abstract edge has, too (a lost
   round, a lost connection): the mapping is the same, but `OneEach` must be replaced by
   `Shares`.

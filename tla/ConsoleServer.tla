---------------------------- MODULE ConsoleServer ----------------------------
(***************************************************************************)
(* InteractionFromUI, the centre's side of the web console, and what the   *)
(* console's page does with it.  The page fetches over HTTP: it sends      *)
(* training and download commands, each preceded by the browser's OPTIONS  *)
(* preflight on a connection of its own.  Progress and new history entries *)
(* come over a WebSocket.                                                  *)
(*                                                                         *)
(* The server keeps pointers to sockets which it deletes, so pointers are  *)
(* addresses here: a new socket may get the address of a deleted one, and  *)
(* a pointer to an address without an object crashes the server or reads   *)
(* as a socket that is not connected.                                      *)
(*                                                                         *)
(* Operators named Bug... are deliberate mistakes in the definition that   *)
(* follows them, as in MissionControl.                                     *)
(***************************************************************************)
EXTENDS Naturals, Sequences, FiniteSets, SequencesExt

CONSTANTS
    Models,      \* models announced as finished, known by their timestamps
    OldModels,   \* those announced to the page before this run of the server
    NoDirectory, \* those whose directory has been removed since
    NoFile,      \* those whose directory holds no model file
    Unreadable,  \* those whose file cannot be opened
    Times,       \* the numbers of rounds a training command may ask for
    MaxFetches   \* bound on the fetches of the page

ASSUME ModelsAssumption ==
    /\ OldModels \cup NoDirectory \cup NoFile \cup Unreadable \subseteq Models
    /\ NoDirectory \cap NoFile = {}
    /\ Times \subseteq Nat \ {0}

VARIABLES
    crashed,     \* an invalid pointer has ended the process
    sockets,     \* the connections in order of acceptance, see NewSocket
    clientSocket, m_currentClientForDownload, \* addresses, or nullptr
    m_currentModelPath, \* the model to download, as a set: {} when empty
    lastCommand, \* m_command and m_param, as a set: {} when empty
    m_currentStep, m_totalSteps,
    announced,   \* models given to addHistoryEntry
    fetches,     \* the page's fetches: command and result
    records,     \* the page's history, kept in the browser
    ws,          \* the page's WebSocket: "off" or "on"
    wsQueue,     \* messages on their way to the page
    bar,         \* the progress the page shows
    step,        \* the page's training view: "setup" (steps 1 and 2), "running"
                 \* or "finished" (step 3 without and with its end button)
    served,      \* the files written to a socket, with the model asked for
    orderly      \* so far the page has fetched one thing at a time, see Orderly

httpVars  == <<sockets, clientSocket, m_currentClientForDownload,
               m_currentModelPath, lastCommand, served>>
viewVars  == <<bar, step>>
wsVars    == <<ws, wsQueue, viewVars>>
pageVars  == <<fetches, records, orderly>>
trainingVars == <<m_currentStep, m_totalSteps, announced>>
vars == <<crashed, httpVars, trainingVars, pageVars, wsVars>>

nullptr == 0

TrainCommand(n)    == [type |-> "T", param |-> n]
DownloadCommand(m) == [type |-> "U", param |-> m]

\* A connection: the fetch it serves and how, where its object lives, whether
\* the request is still to be read or was read whole, what is written and not
\* sent.
NewSocket(r, method) ==
    [fetch |-> r, method |-> method, state |-> "arriving", address |-> nullptr,
     unread |-> TRUE, whole |-> FALSE, answered |-> FALSE, peerClosed |-> FALSE,
     out |-> << >>, closing |-> FALSE, onWritten |-> FALSE]

Init == /\ crashed = FALSE
        /\ sockets = << >>
        /\ clientSocket = nullptr /\ m_currentClientForDownload = nullptr
        /\ m_currentModelPath = {} /\ lastCommand = {}
        /\ m_currentStep = 0 /\ m_totalSteps = 0
        /\ announced = OldModels
        /\ fetches = << >> /\ records = OldModels
        /\ ws = "off" /\ wsQueue = << >>
        /\ bar = << >> /\ step = "setup"
        /\ served = {}
        /\ orderly = TRUE

-----------------------------------------------------------------------------
(* Pointers *)

\* The sockets whose object exists; a "closed" one is disconnected and was not
\* deleted.
ObjectsAt(a, socks) == {s \in DOMAIN socks : /\ socks[s].state \in {"open", "closed"}
                                             /\ socks[s].address = a}

\* An address for a new object: one that was freed, or the next fresh one.
FreeAddresses ==
    LET used == {sockets[s].address : s \in DOMAIN sockets} \ {nullptr}
    IN  {a \in used : ObjectsAt(a, sockets) = {}} \cup {Cardinality(used) + 1}

\* Following a pointer to an address without an object: the process ends, or
\* the memory still reads as a socket that is not connected.
InvalidPointer == crashed' \in BOOLEAN

-----------------------------------------------------------------------------
(* The page and its browser *)

\* The page fetches when nothing is left to read or to send on the connections
\* there are, its downloads are answered or have failed, and the browser asks
\* first.
Orderly(preflight) ==
    /\ preflight
    /\ \A s \in DOMAIN sockets : sockets[s].state \in {"arriving", "open"} =>
                                    ~sockets[s].unread /\ sockets[s].out = << >>
    /\ \A r \in DOMAIN fetches :
          fetches[r].command.type = "U" => fetches[r].result # "pending"

\* startTraining and downloadModel; the browser may spare a preflight when it
\* has had an answer to one in the last seconds.
PageFetches(cmd, preflight) ==
    /\ Len(fetches) < MaxFetches
    /\ preflight \/ \E s \in DOMAIN sockets : /\ sockets[s].method = "OPTIONS"
                                              /\ sockets[s].answered
    /\ fetches' = Append(fetches, [command |-> cmd, result |-> "pending"])
    /\ sockets' = Append(sockets, NewSocket(Len(fetches) + 1,
                                            IF preflight THEN "OPTIONS" ELSE "POST"))
    /\ orderly' = (orderly /\ Orderly(preflight))
    /\ UNCHANGED <<crashed, clientSocket, m_currentClientForDownload, m_currentModelPath,
                   lastCommand, served, trainingVars, records, ws, wsQueue>>

\* The bar is reset before the command is sent.
PageStartsTraining(preflight) ==
    /\ step = "setup"
    /\ \E n \in Times : PageFetches(TrainCommand(n), preflight) /\ bar' = <<0, n>>
    /\ step' = "running"

PageDownloads(preflight) ==
    /\ \E m \in records : PageFetches(DownloadCommand(m), preflight)
    /\ UNCHANGED viewVars

\* What stopTraining leaves of the bar: 0%, whatever was counted.
Stopped == <<0>>

\* stopTraining, by the button that a finished training shows; the server is
\* not told.
PageStopsTraining ==
    /\ step = "finished"
    /\ step' = "setup"
    /\ bar' = Stopped
    /\ UNCHANGED <<ws, wsQueue, crashed, httpVars, trainingVars, pageVars>>

\* "Connection: close": the browser closes an answered preflight's connection.
BrowserCloses(s) ==
    /\ sockets[s].method = "OPTIONS" /\ sockets[s].answered
    /\ ~sockets[s].peerClosed
    /\ sockets' = [sockets EXCEPT ![s].peerClosed = TRUE]
    /\ UNCHANGED <<crashed, clientSocket, m_currentClientForDownload, m_currentModelPath,
                   lastCommand, served, trainingVars, pageVars, wsVars>>

\* What an answer does to the page: a download answered "404" is taken off the
\* history.
PageGets(r, answer) ==
    /\ fetches' = [fetches EXCEPT ![r].result = answer]
    /\ records' = IF answer = "404" /\ fetches[r].command.type = "U"
                  THEN records \ {fetches[r].command.param}
                  ELSE records
    /\ UNCHANGED orderly

\* Nothing comes on this connection any more; an answered preflight is followed
\* by another one.
IsOver(sock) == \/ sock.state \in {"closed", "deleted"}
                \/ sock.method = "OPTIONS" /\ sock.answered

\* The fetch is rejected, which the page only reports: its connections, or the
\* server, have ended without an answer.
FetchFails(r) ==
    /\ fetches[r].result = "pending"
    /\ \/ crashed
       \/ \A s \in DOMAIN sockets : sockets[s].fetch = r => IsOver(sockets[s])
    /\ fetches' = [fetches EXCEPT ![r].result = "failed"]
    /\ UNCHANGED <<crashed, httpVars, trainingVars, records, orderly, wsVars>>

-----------------------------------------------------------------------------
(* InteractionFromUI: the connections *)

\* incomingConnection, in the order in which the browser has connected.
incomingConnection(s) ==
    /\ sockets[s].state = "arriving"
    /\ \A t \in DOMAIN sockets : t < s => sockets[t].state # "arriving"
    /\ \E a \in FreeAddresses :
          /\ sockets' = [sockets EXCEPT ![s].state = "open", ![s].address = a]
          /\ clientSocket' = a
    /\ UNCHANGED <<crashed, m_currentClientForDownload, m_currentModelPath,
                   lastCommand, served, trainingVars, pageVars, wsVars>>

\* handleDisconnected of s: the object deleted is that of clientSocket, the
\* connection accepted last.
handleDisconnected(s, socks) ==
    LET objects == ObjectsAt(clientSocket, socks)
    IN  /\ sockets' = [t \in DOMAIN socks |->
                          IF t \in objects THEN [socks[t] EXCEPT !.state = "deleted"]
                                           ELSE socks[t]]
        /\ IF objects = {} THEN InvalidPointer ELSE UNCHANGED crashed

Closed(s, socks) == [socks EXCEPT ![s].state = "closed", ![s].out = << >>]

\* The browser has closed a connection.
PeerCloses(s) ==
    /\ sockets[s].state = "open" /\ sockets[s].peerClosed
    /\ handleDisconnected(s, Closed(s, sockets))
    /\ UNCHANGED <<clientSocket, m_currentClientForDownload, m_currentModelPath,
                   lastCommand, served, trainingVars, pageVars, wsVars>>

-----------------------------------------------------------------------------
(* InteractionFromUI: the commands *)

\* readClientData of a preflight.
ReadOptions(s) ==
    /\ sockets[s].state = "open" /\ sockets[s].unread
    /\ sockets[s].method = "OPTIONS"
    /\ sockets' = [sockets EXCEPT ![s].unread = FALSE, ![s].out = Append(@, "ok")]
    /\ m_currentClientForDownload' = sockets[s].address
    /\ UNCHANGED <<crashed, clientSocket, m_currentModelPath, lastCommand, served,
                   trainingVars, pageVars, wsVars>>

broadcastMessage(msg) == wsQueue' = IF ws = "on" THEN Append(wsQueue, msg) ELSE wsQueue

Progress(current, total) == [type |-> "progress", current |-> current, total |-> total]

BugStaleFileAlways(m) ==
    IF m_currentModelPath # {} \/ m \in NoDirectory THEN m_currentModelPath
    ELSE IF m \in NoFile THEN {} ELSE {m}

\* m_currentModelPath after handleUpload: without a directory it stays.
ModelPathAfter(m) == IF m \in NoDirectory THEN m_currentModelPath
                     ELSE IF m \in NoFile THEN {} ELSE {m}

\* What the socket m_currentClientForDownload points to has written to it.
Writes(answer, socks, onWritten) ==
    LET objects == ObjectsAt(m_currentClientForDownload, socks)
        writable(t) == t \in objects /\ socks[t].state = "open" /\ ~socks[t].closing
    IN  /\ sockets' = [t \in DOMAIN socks |->
                          IF writable(t)
                          THEN [socks[t] EXCEPT !.out = Append(@, answer),
                                                !.onWritten = @ \/ onWritten,
                                                !.closing = ~onWritten]
                          ELSE socks[t]]
        /\ IF objects = {} /\ m_currentClientForDownload # nullptr
           THEN InvalidPointer ELSE UNCHANGED crashed

BugChecksPathFirst(m, socks) ==
    /\ m_currentModelPath' = ModelPathAfter(m)
    /\ IF m_currentModelPath # {} /\ m_currentClientForDownload # nullptr
       THEN \E file \in m_currentModelPath : /\ Writes(file, socks, TRUE)
                                             /\ served' = served \cup {<<m, file>>}
       ELSE Writes("404", socks, FALSE) /\ UNCHANGED served
    /\ UNCHANGED <<m_currentStep, m_totalSteps, wsQueue>>

\* handleUICommand of "U": sendFileToWebpage, or a 404.
HandleDownload(m, socks) ==
    LET path == ModelPathAfter(m)
    IN  /\ m_currentModelPath' = path
        /\ IF path # {} /\ m_currentClientForDownload # nullptr
           THEN \E file \in path :
                   /\ Writes(IF file \in Unreadable THEN "404" ELSE file, socks,
                             file \notin Unreadable)
                   /\ served' = served \cup {<<m, file>>}
           ELSE /\ Writes("404", socks, FALSE)
                /\ UNCHANGED served
    /\ UNCHANGED <<m_currentStep, m_totalSteps, wsQueue>>

\* handleUICommand of "T".
HandleTrain(n, socks) ==
    /\ m_totalSteps' = n /\ m_currentStep' = 0
    /\ broadcastMessage(Progress(0, n))
    /\ sockets' = socks
    /\ UNCHANGED <<crashed, m_currentModelPath, served>>

\* readClientData of a command.  When headers and body are read separately the
\* body is not found: the previous command is handled once more, if any.
ReadPost(s, split) ==
    /\ sockets[s].state = "open" /\ sockets[s].unread
    /\ sockets[s].method = "POST"
    /\ LET socks == [sockets EXCEPT ![s].unread = FALSE, ![s].whole = ~split]
       IN  /\ lastCommand' = IF split THEN lastCommand
                             ELSE {fetches[sockets[s].fetch].command}
           /\ IF lastCommand' = {}
              THEN /\ sockets' = socks
                   /\ UNCHANGED <<crashed, m_currentModelPath, served, m_currentStep,
                                  m_totalSteps, wsQueue>>
              ELSE \E cmd \in lastCommand' :
                     IF cmd.type = "T" THEN HandleTrain(cmd.param, socks)
                                       ELSE HandleDownload(cmd.param, socks)
    /\ m_currentClientForDownload' = sockets[s].address
    /\ orderly' = (orderly /\ ~split)
    /\ UNCHANGED <<clientSocket, announced, fetches, records, ws, viewVars>>

BugPathNotCleared(s) ==
    /\ sockets[s].state = "open" /\ sockets[s].out # << >>
    /\ LET sock  == sockets[s]
           first == sock.method = "OPTIONS" /\ ~sock.answered
           sent  == [sockets EXCEPT ![s].out = << >>, ![s].answered = TRUE]
           socks == IF first THEN Append(sent, NewSocket(sock.fetch, "POST")) ELSE sent
       IN  /\ IF sock.onWritten \/ sock.closing
              THEN handleDisconnected(s, Closed(s, socks))
              ELSE sockets' = socks /\ UNCHANGED crashed
           /\ UNCHANGED m_currentModelPath
           /\ IF sock.method = "POST" /\ fetches[sock.fetch].result = "pending"
              THEN PageGets(sock.fetch, Head(sock.out))
              ELSE UNCHANGED pageVars
    /\ UNCHANGED <<clientSocket, m_currentClientForDownload, lastCommand, served,
                   trainingVars, wsVars>>

\* What is written to s is sent.  The browser follows an answered preflight by
\* the command itself, on a new connection.  After a file or a 404 the server
\* closes the connection, and after a file the path is cleared.
BytesWritten(s) ==
    /\ sockets[s].state = "open" /\ sockets[s].out # << >>
    /\ LET sock  == sockets[s]
           first == sock.method = "OPTIONS" /\ ~sock.answered
           sent  == [sockets EXCEPT ![s].out = << >>, ![s].answered = TRUE]
           socks == IF first THEN Append(sent, NewSocket(sock.fetch, "POST")) ELSE sent
       IN  /\ IF sock.onWritten \/ sock.closing
              THEN handleDisconnected(s, Closed(s, socks))
              ELSE sockets' = socks /\ UNCHANGED crashed
           /\ m_currentModelPath' = IF sock.onWritten THEN {} ELSE m_currentModelPath
           /\ IF sock.method = "POST" /\ fetches[sock.fetch].result = "pending"
              THEN PageGets(sock.fetch, Head(sock.out))
              ELSE UNCHANGED pageVars
    /\ UNCHANGED <<clientSocket, m_currentClientForDownload, lastCommand, served,
                   trainingVars, wsVars>>

-----------------------------------------------------------------------------
(* The WebSocket *)

BugNoFirstUpdate ==
    /\ ws = "off"
    /\ ws' = "on"
    /\ UNCHANGED <<wsQueue, viewVars, crashed, httpVars, trainingVars, pageVars>>

\* onNewWebSocketConnection: the page is loaded.
WebSocketConnects ==
    /\ ws = "off"
    /\ ws' = "on"
    /\ wsQueue' = Append(wsQueue, Progress(m_currentStep, m_totalSteps))
    /\ UNCHANGED <<viewVars, crashed, httpVars, trainingVars, pageVars>>

\* The page does not connect again.
WebSocketCloses ==
    /\ ws = "on"
    /\ ws' = "lost"
    /\ wsQueue' = << >>
    /\ UNCHANGED <<viewVars, crashed, httpVars, trainingVars, pageVars>>

BugCountsBeyondTotal ==
    /\ m_totalSteps > 0
    /\ m_currentStep' = m_currentStep + 1
    /\ broadcastMessage(Progress(m_currentStep', m_totalSteps))
    /\ UNCHANGED <<m_totalSteps, announced, ws, viewVars, crashed, httpVars, pageVars>>

\* incrementProgress, when the centre receives a model.
incrementProgress ==
    /\ m_currentStep < m_totalSteps
    /\ m_currentStep' = m_currentStep + 1
    /\ broadcastMessage(Progress(m_currentStep', m_totalSteps))
    /\ UNCHANGED <<m_totalSteps, announced, ws, viewVars, crashed, httpVars, pageVars>>

\* addHistoryEntry, when a training is finished.
addHistoryEntry(m) ==
    /\ m \notin announced
    /\ announced' = announced \cup {m}
    /\ broadcastMessage([type |-> "history", model |-> m])
    /\ UNCHANGED <<m_currentStep, m_totalSteps, ws, viewVars, crashed, httpVars, pageVars>>

\* ws.onmessage.
PageReceives ==
    /\ wsQueue # << >>
    /\ wsQueue' = Tail(wsQueue)
    /\ LET msg == Head(wsQueue)
       IN  \/ /\ msg.type = "progress"
              /\ bar' = <<msg.current, msg.total>>
              /\ step' = IF step = "running" /\ msg.current >= msg.total THEN "finished"
                                                                       ELSE step
              /\ UNCHANGED records
           \/ /\ msg.type = "history"
              /\ records' = records \cup {msg.model}
              /\ UNCHANGED viewVars
    /\ UNCHANGED <<ws, fetches, orderly, crashed, httpVars, trainingVars>>

ServerStep ==
    /\ ~crashed
    /\ \/ \E s \in DOMAIN sockets : \/ incomingConnection(s) \/ PeerCloses(s)
                                    \/ ReadOptions(s) \/ BytesWritten(s)
                                    \/ \E split \in BOOLEAN : ReadPost(s, split)
       \/ WebSocketConnects \/ WebSocketCloses \/ incrementProgress
       \/ \E m \in Models : addHistoryEntry(m)

PageStep == \/ \E preflight \in BOOLEAN : \/ PageStartsTraining(preflight)
                                          \/ PageDownloads(preflight)
            \/ \E s \in DOMAIN sockets : BrowserCloses(s)
            \/ \E r \in DOMAIN fetches : FetchFails(r)
            \/ PageReceives \/ PageStopsTraining

Next == ServerStep \/ PageStep

Spec == Init /\ [][Next]_vars

-----------------------------------------------------------------------------
Answers == Models \cup {"404"}

TypeOK == /\ \A s \in DOMAIN sockets :
                /\ sockets[s].state \in {"arriving", "open", "closed", "deleted"}
                /\ sockets[s].fetch \in DOMAIN fetches
                /\ ToSet(sockets[s].out) \subseteq Answers \cup {"ok"}
                \* an object has its address for itself
                /\ sockets[s].state \in {"open", "closed"} =>
                      ObjectsAt(sockets[s].address, sockets) = {s}
          /\ m_currentModelPath \subseteq Models
          /\ m_currentStep \in 0..m_totalSteps
          /\ \A r \in DOMAIN fetches : fetches[r].result \in Answers \cup {"pending", "failed"}
          /\ records \subseteq announced

\* The bar is as the page itself has left it: after a stop, or since the last
\* start, whose command the server has not read whole.
OwnReset ==
    \/ bar = Stopped
    \/ \E r \in DOMAIN fetches :
          /\ fetches[r].command.type = "T" /\ bar = <<0, fetches[r].command.param>>
          /\ \A q \in DOMAIN fetches : q > r => fetches[q].command.type = "U"
          /\ \A s \in DOMAIN sockets : sockets[s].fetch = r => ~sockets[s].whole

\* Whenever no message is under way, the page shows the server's progress or
\* what it has reset the bar to itself.
ProgressAgrees ==
    ws = "on" /\ wsQueue = << >> => bar = <<m_currentStep, m_totalSteps>> \/ OwnReset

RightAnswer(m) == IF m \in NoDirectory \cup NoFile \cup Unreadable THEN "404" ELSE m

\* The files of downloads that have failed before fetch r.
FailedBefore(r) ==
    {m \in Models : \E q \in DOMAIN fetches :
        q < r /\ fetches[q] = [command |-> DownloadCommand(m), result |-> "failed"]}

\* As long as the page fetches one thing at a time and requests are read whole,
\* a download fails, or is answered by the file it asked for, or by a 404 if
\* there is none; only in place of a missing directory it may be answered by a
\* file that an earlier download has failed to get.
OrderlyAnswersAreRight ==
    orderly => \A r \in DOMAIN fetches :
                  LET cmd == fetches[r].command
                  IN  fetches[r].result \in
                         {"pending", "failed"} \cup
                         (IF cmd.type = "U" THEN {RightAnswer(cmd.param)} ELSE {}) \cup
                         (IF cmd.type = "U" /\ cmd.param \in NoDirectory
                          THEN FailedBefore(r) ELSE {})

\* A file that was not asked for is served only in place of one whose directory
\* is gone.
WrongFileOnlyForMissing ==
    \A p \in served : p[1] # p[2] => p[1] \in NoDirectory /\ <<p[2], p[2]>> \in served

\* The page forgets a model that is there only if it has been disorderly.
ForgetsOnlyWhatIsGone ==
    [][orderly' => \A m \in records \ records' : RightAnswer(m) = "404"]_vars

=============================================================================

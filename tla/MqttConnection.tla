--------------------------- MODULE MqttConnection ---------------------------
(***************************************************************************)
(* A QMqttClient with its QMqttConnection as edge and clients use it: MQTT *)
(* 3.1.1, a clean session, an automatic keep alive, subscriptions made by  *)
(* onConnected and publications with QoS 1 and 0.  A frame is read whole:  *)
(* processData leaves an incomplete one in m_readBuffer.                   *)
(*                                                                         *)
(* Operators named Bug... are deliberate mistakes in the definition that   *)
(* follows them, as in MissionControl.                                     *)
(***************************************************************************)
EXTENDS Naturals, Sequences, SequencesExt, FiniteSets, Counting

CONSTANTS
    Topics,  \* the filters that onConnected subscribes to, in order
    MaxId    \* the largest packet identifier

ASSUME TopicsAssumption ==
    Topics \in Seq(ToSet(Topics)) /\ Topics # << >> /\ IsInjective(Topics)
ASSUME IdAssumption == MaxId \in Nat \ {0}

Ids == 1..MaxId
Filters == ToSet(Topics)

VARIABLES
    state,            \* m_state of the client
    internal,         \* m_internalState of the connection
    error,            \* m_error
    active,           \* keys of m_activeSubscriptions
    subState,         \* state of the latest subscription of each filter
    pendingSubs,      \* m_pendingSubscriptionAck: identifier to filter
    pendingMessages,  \* m_pendingMessages: identifier to publication
    idCounter,        \* packetIdentifierCounter
    pingTimeout,      \* m_pingTimeout
    sent,             \* publications for which messageSent was emitted
    socket,           \* m_transport: "closed", "connecting" or "open"
    toBroker,         \* packets written and not read by the broker
    toClient          \* packets written by the broker and not processed

subVars == <<active, subState, pendingSubs>>
pubVars == <<pendingMessages, sent>>
clientVars == <<state, internal, error, subVars, pubVars, idCounter, pingTimeout,
                socket, toBroker, toClient>>

NoEntries == [i \in {} |-> 0]

Init == /\ state = "Disconnected"
        /\ internal = "BrokerDisconnected"
        /\ error = "NoError"
        /\ active = {}
        /\ subState = [f \in Filters |-> "Unsubscribed"]
        /\ pendingSubs = NoEntries
        /\ pendingMessages = NoEntries
        /\ idCounter = 1
        /\ pingTimeout = 0
        /\ sent = {}
        /\ socket = "closed"
        /\ toBroker = << >>
        /\ toClient = << >>

-----------------------------------------------------------------------------
Connect == [kind |-> "CONNECT"]
Subscribe(i, f) == [kind |-> "SUBSCRIBE", id |-> i, filter |-> f]
Publish(i, n) == [kind |-> "PUBLISH", id |-> i, msg |-> n]  \* i = 0: QoS 0
PingReq == [kind |-> "PINGREQ"]

Without(map, i) == [j \in DOMAIN map \ {i} |-> map[j]]

InUse == DOMAIN pendingSubs \cup DOMAIN pendingMessages

\* How many steps of the counter lead from i to j; all of them lead back to i.
Distance(i, j) == IF i < j THEN j - i ELSE j + MaxId - i

BugIdRepeats(i, counter, used) == i = counter

\* i is what unusedPacketIdentifier returns: the first after counter that is not
\* used.
IsUnused(i, counter, used) ==
    /\ i \in Ids \ used
    /\ \A j \in Ids \ used : Distance(counter, i) <= Distance(counter, j)

\* Bound: a publication that is never acknowledged keeps its identifier for
\* good; the 65 535 of them are taken not to run out.
IdsLeft(n) == Cardinality(Ids \ InUse) >= n

CleanSubscriptions ==
    /\ subState' = [f \in Filters |->
                       IF f \in active \cup Range(pendingSubs) THEN "Unsubscribed"
                                                               ELSE subState[f]]
    /\ active' = {}
    /\ pendingSubs' = NoEntries

SetStateAndError(s, e) == state' = s /\ error' = IF e = "NoError" THEN error ELSE e

BugPingsKept(e) ==
    /\ SetStateAndError("Disconnected", e)
    /\ internal' = "BrokerDisconnected"
    /\ active' = {}
    /\ socket' = "closed"
    /\ toClient' = << >>
    /\ UNCHANGED <<subState, pendingSubs, pubVars, idCounter, pingTimeout>>

BugInternalKept(e) ==
    /\ SetStateAndError("Disconnected", e)
    /\ active' = {}
    /\ pingTimeout' = 0
    /\ socket' = "closed"
    /\ toClient' = << >>
    /\ UNCHANGED <<internal, subState, pendingSubs, pubVars, idCounter>>

\* closeConnection: pending publications are kept, what was written may still
\* be read by the broker.
CloseConnection(e) ==
    /\ SetStateAndError("Disconnected", e)
    /\ internal' = "BrokerDisconnected"
    /\ active' = {}
    /\ pingTimeout' = 0
    /\ socket' = "closed"
    /\ toClient' = << >>
    /\ UNCHANGED <<subState, pendingSubs, pubVars, idCounter>>

-----------------------------------------------------------------------------
\* ensureTransport: the old socket is deleted with what it held.
NewTransport == socket' = "connecting" /\ toBroker' = << >> /\ toClient' = << >>

\* connectToHost; an earlier error is forgotten.
ConnectToHost ==
    /\ state = "Disconnected"
    /\ state' = "Connecting"
    /\ internal' = "BrokerConnecting"
    /\ error' = "NoError"
    /\ CleanSubscriptions
    /\ NewTransport
    /\ UNCHANGED <<pubVars, idCounter, pingTimeout>>

\* transportConnectionEstablished and sendControlConnect.
SendConnect ==
    /\ socket = "connecting" /\ internal = "BrokerConnecting"
    /\ socket' = "open"
    /\ internal' = "BrokerWaitForConnectAck"
    /\ toBroker' = <<Connect>>
    /\ UNCHANGED <<state, error, subVars, pubVars, idCounter, pingTimeout, toClient>>

TransportError ==
    /\ socket # "closed"
    /\ CloseConnection("TransportInvalid")
    /\ toBroker' = << >>

Arrives(kind) == toClient # << >> /\ Head(toClient).kind = kind

\* onConnected's calls of subscribe, one after the other.  None of the filters
\* is active any more, or subscribe would only return what is.
SubscribeTopics ==
    \E ids \in [DOMAIN Topics -> Ids] :
        LET before(k) == IF k = 1 THEN idCounter ELSE ids[k - 1]
            taken(k) == InUse \cup {ids[j] : j \in 1..(k - 1)}
            at(i) == CHOOSE k \in DOMAIN Topics : ids[k] = i
        IN  /\ \A k \in DOMAIN Topics : IsUnused(ids[k], before(k), taken(k))
            /\ pendingSubs' = [i \in Range(ids) |-> Topics[at(i)]]
            /\ active' = Filters
            /\ subState' = [f \in Filters |-> "SubscriptionPending"]
            /\ idCounter' = ids[Len(Topics)]
            /\ toBroker' = toBroker \o [k \in DOMAIN Topics |-> Subscribe(ids[k], Topics[k])]

\* A CONNACK that accepts: the connected signal runs onConnected, whose
\* subscriptions are written before anything else is read.
Connected ==
    /\ Arrives("CONNACK") /\ Head(toClient).ok
    /\ internal = "BrokerWaitForConnectAck"
    /\ IdsLeft(Len(Topics))
    /\ internal' = "BrokerConnected"
    /\ state' = "Connected"
    /\ SubscribeTopics
    /\ toClient' = Tail(toClient)
    /\ UNCHANGED <<error, pubVars, pingTimeout, socket>>

Rejected ==
    /\ Arrives("CONNACK") /\ ~Head(toClient).ok
    /\ internal = "BrokerWaitForConnectAck"
    /\ CloseConnection("NotAuthorized")
    /\ UNCHANGED toBroker

BugReasonIgnored ==
    /\ Arrives("SUBACK")
    /\ LET i == Head(toClient).id IN
          /\ subState' = [subState EXCEPT ![pendingSubs[i]] = "Subscribed"]
          /\ pendingSubs' = Without(pendingSubs, i)
    /\ toClient' = Tail(toClient)
    /\ UNCHANGED <<state, internal, error, active, pubVars, idCounter, pingTimeout,
                   socket, toBroker>>

BugStaysPending ==
    /\ Arrives("SUBACK")
    /\ pendingSubs' = Without(pendingSubs, Head(toClient).id)
    /\ toClient' = Tail(toClient)
    /\ UNCHANGED <<state, internal, error, active, subState, pubVars, idCounter,
                   pingTimeout, socket, toBroker>>

\* A subscription that failed stays in m_activeSubscriptions, an unknown
\* identifier is only logged.
SubAck ==
    /\ Arrives("SUBACK")
    /\ LET i == Head(toClient).id
           answer == IF Head(toClient).ok THEN "Subscribed" ELSE "Error" IN
          /\ subState' = IF i \in DOMAIN pendingSubs
                         THEN [subState EXCEPT ![pendingSubs[i]] = answer] ELSE subState
          /\ pendingSubs' = Without(pendingSubs, i)
    /\ toClient' = Tail(toClient)
    /\ UNCHANGED <<state, internal, error, active, pubVars, idCounter, pingTimeout,
                   socket, toBroker>>

\* QMqttClient::publish; it returns -1 and does nothing unless connected.
PublishMessage(n, qos) ==
    /\ state = "Connected"
    /\ IF qos = 0
       THEN /\ toBroker' = Append(toBroker, Publish(0, n))
            /\ UNCHANGED <<pendingMessages, idCounter>>
       ELSE /\ IdsLeft(1 + Len(Topics))  \* the next connection needs some, too
            /\ \E i \in Ids :
                  /\ IsUnused(i, idCounter, InUse)
                  /\ toBroker' = Append(toBroker, Publish(i, n))
                  /\ pendingMessages' = [j \in DOMAIN pendingMessages \cup {i} |->
                                            IF j = i THEN n ELSE pendingMessages[j]]
                  /\ idCounter' = i
    /\ UNCHANGED <<state, internal, error, subVars, sent, pingTimeout, socket, toClient>>

\* An identifier that is not pending is only logged.
PubAck ==
    /\ Arrives("PUBACK")
    /\ LET i == Head(toClient).id IN
          /\ sent' = IF i \in DOMAIN pendingMessages THEN sent \cup {pendingMessages[i]}
                                                     ELSE sent
          /\ pendingMessages' = Without(pendingMessages, i)
    /\ toClient' = Tail(toClient)
    /\ UNCHANGED <<state, internal, error, subVars, idCounter, pingTimeout, socket, toBroker>>

PingResp ==
    /\ Arrives("PINGRESP")
    /\ pingTimeout' = pingTimeout - 1
    /\ toClient' = Tail(toClient)
    /\ UNCHANGED <<state, internal, error, subVars, pubVars, idCounter, socket, toBroker>>

BugPingsNotCounted ==
    /\ internal = "BrokerConnected"
    /\ pingTimeout <= 1
    /\ Len(toBroker) < 4
    /\ toBroker' = Append(toBroker, PingReq)
    /\ UNCHANGED <<state, internal, error, subVars, pubVars, idCounter, pingTimeout,
                   socket, toClient>>

\* The ping timer runs while connected: one more ping, or the end of the
\* connection when two of them are unanswered.
Ping ==
    /\ internal = "BrokerConnected"
    /\ pingTimeout <= 1
    /\ toBroker' = Append(toBroker, PingReq)
    /\ pingTimeout' = pingTimeout + 1
    /\ UNCHANGED <<state, internal, error, subVars, pubVars, idCounter, socket, toClient>>

GiveUp ==
    /\ internal = "BrokerConnected"
    /\ pingTimeout > 1
    /\ CloseConnection("ServerUnavailable")
    /\ UNCHANGED toBroker

=============================================================================

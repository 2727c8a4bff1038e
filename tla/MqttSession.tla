---------------------------- MODULE MqttSession ----------------------------
(***************************************************************************)
(* An MqttConnection, the program that connects it and publishes over it,  *)
(* the network and the broker: refused connections and subscriptions, lost *)
(* connections, a broker that falls silent and is restarted.               *)
(***************************************************************************)
EXTENDS MqttConnection

CONSTANTS
    MaxConnects,      \* bound on connections
    MaxPublications,  \* bound on publications
    MaxFaults         \* bound on refusals, losses and silences

VARIABLES
    accepted,   \* the broker has accepted the session
    granted,    \* the filters the broker serves in it
    received,   \* publications the broker has got
    silent,     \* the broker neither reads nor answers
    published,  \* publications so far
    connects, faults

brokerVars == <<accepted, granted, received, silent>>
vars == <<clientVars, brokerVars, published, connects, faults>>

SessionInit == /\ Init
               /\ accepted = FALSE /\ granted = {} /\ received = {} /\ silent = FALSE
               /\ published = 0 /\ connects = 0 /\ faults = 0

Fault == faults < MaxFaults /\ faults' = faults + 1

-----------------------------------------------------------------------------
\* startListening and connectToBroker; the broker ends what is left of the
\* session before.
ProgramConnects ==
    /\ connects < MaxConnects
    /\ connects' = connects + 1
    /\ ConnectToHost
    /\ accepted' = FALSE /\ granted' = {}
    /\ UNCHANGED <<received, silent, published, faults>>

\* publishModel: chunks with QoS 1, the end marker with QoS 0.
ProgramPublishes ==
    /\ published < MaxPublications
    /\ published' = published + 1
    /\ \E qos \in {0, 1} : PublishMessage(published + 1, qos)
    /\ UNCHANGED <<brokerVars, connects, faults>>

SocketOpens == ~silent /\ SendConnect /\ UNCHANGED <<brokerVars, published, connects, faults>>

ClientReads == /\ Connected \/ Rejected \/ SubAck \/ PubAck \/ PingResp
               /\ UNCHANGED <<brokerVars, published, connects, faults>>

Pings == {PingReq, [kind |-> "PINGRESP"]}
PingsUnderWay == Count(toBroker, Pings) + Count(toClient, Pings)

\* Unless it is silent the broker answers within two keep-alive intervals.
PingTimerExpires ==
    /\ silent \/ PingsUnderWay <= 1
    /\ Ping \/ GiveUp
    /\ UNCHANGED <<brokerVars, published, connects, faults>>

ConnectionLost ==
    /\ Fault
    /\ TransportError
    /\ accepted' = FALSE /\ granted' = {}
    /\ UNCHANGED <<received, silent, published, connects>>

\* The broker takes a packet; its answer needs a connection that is still open.
BrokerTakes(kind, answers) ==
    /\ ~silent
    /\ toBroker # << >> /\ Head(toBroker).kind = kind
    /\ toBroker' = Tail(toBroker)
    /\ toClient' = IF socket = "open" THEN toClient \o answers ELSE toClient
    /\ UNCHANGED <<state, internal, error, subVars, pubVars, idCounter, pingTimeout, socket,
                   silent, published, connects>>

FineOrFault(fine) == \/ fine /\ UNCHANGED faults
                     \/ ~fine /\ Fault

BrokerAnswersConnect ==
    \E ok \in BOOLEAN :
        /\ BrokerTakes("CONNECT", <<[kind |-> "CONNACK", ok |-> ok]>>)
        /\ FineOrFault(ok)
        /\ accepted' = ok
        /\ UNCHANGED <<granted, received>>

BrokerAnswersSubscribe ==
    \E ok \in BOOLEAN :
        /\ BrokerTakes("SUBSCRIBE", <<[kind |-> "SUBACK", id |-> Head(toBroker).id, ok |-> ok]>>)
        /\ FineOrFault(ok)
        /\ granted' = IF ok THEN granted \cup {Head(toBroker).filter} ELSE granted
        /\ UNCHANGED <<accepted, received>>

BrokerTakesPublication ==
    /\ LET p == Head(toBroker) IN
          /\ BrokerTakes("PUBLISH", IF p.id = 0 THEN << >> ELSE <<[kind |-> "PUBACK", id |-> p.id]>>)
          /\ received' = received \cup {p.msg}
    /\ UNCHANGED <<accepted, granted, faults>>

BrokerAnswersPing ==
    /\ BrokerTakes("PINGREQ", <<[kind |-> "PINGRESP"]>>)
    /\ UNCHANGED <<accepted, granted, received, faults>>

BrokerReads == \/ BrokerAnswersConnect \/ BrokerAnswersSubscribe
               \/ BrokerTakesPublication \/ BrokerAnswersPing

BrokerFallsSilent ==
    /\ ~silent
    /\ Fault
    /\ silent' = TRUE
    /\ UNCHANGED <<clientVars, accepted, granted, received, published, connects>>

\* The broker is restarted after its client has left.
BrokerRestarts ==
    /\ silent /\ socket # "open"
    /\ silent' = FALSE
    /\ toBroker' = << >>
    /\ accepted' = FALSE /\ granted' = {}
    /\ UNCHANGED <<state, internal, error, subVars, pubVars, idCounter, pingTimeout, socket,
                   toClient, received, published, connects, faults>>

Next == \/ ProgramConnects \/ ProgramPublishes
        \/ SocketOpens \/ ClientReads \/ PingTimerExpires \/ ConnectionLost
        \/ BrokerReads \/ BrokerFallsSilent \/ BrokerRestarts

Spec == SessionInit /\ [][Next]_vars

\* Sockets, timers and a broker that is not silent do their work; nobody owes
\* a connection, a publication, a fault or a restart.
Fairness == /\ WF_vars(SocketOpens)
            /\ WF_vars(ClientReads)
            /\ WF_vars(PingTimerExpires)
            /\ WF_vars(BrokerReads)

FairSpec == Spec /\ Fairness

-----------------------------------------------------------------------------
SubStates == {"Unsubscribed", "SubscriptionPending", "Subscribed", "Error"}
Errors == {"NoError", "TransportInvalid", "NotAuthorized", "ServerUnavailable"}

\* Types, and what the two states of a client have to do with its socket:
\* subscribe and publish ask the one, the handlers of packets the other.
TypeOK == /\ active \subseteq Filters
          /\ subState \in [Filters -> SubStates]
          /\ DOMAIN pendingSubs \subseteq Ids /\ Range(pendingSubs) \subseteq Filters
          /\ DOMAIN pendingMessages \subseteq Ids
          /\ Range(pendingMessages) \subseteq 1..published
          /\ idCounter \in Ids
          /\ pingTimeout \in 0..2
          /\ error \in Errors
          /\ <<state, internal, socket>> \in
                {<<"Disconnected", "BrokerDisconnected", "closed">>,
                 <<"Connecting", "BrokerConnecting", "connecting">>,
                 <<"Connecting", "BrokerWaitForConnectAck", "open">>,
                 <<"Connected", "BrokerConnected", "open">>}

\* Over all reconnections, refusals and losses a subscription that the client
\* counts as made is served by the broker in the session of this connection,
\* and one that the broker serves is known as made once its SUBACK is read.
SubscriptionsAgree ==
    /\ \A f \in active : subState[f] = "Subscribed" => accepted /\ f \in granted
    /\ state = "Connected" =>
          \A f \in granted : subState[f] = "Subscribed" \/ f \in Range(pendingSubs)

\* messageSent is emitted for a publication that the broker has got, also when
\* identifiers come round again and those of lost publications stay taken.
SentWasReceived == sent \subseteq received

\* The keep alive ends a connection only when the broker has fallen silent: no
\* count of unanswered pings is carried from one connection to the next.
AlarmsAreTrue ==
    [][error' = "ServerUnavailable" /\ error # "ServerUnavailable" => silent]_vars

\* A broker that falls silent after the handshake is noticed.
SilentBrokerNoticed == silent /\ state = "Connected" ~> state = "Disconnected"

\* A client that got connected hears the answer to each of its subscriptions
\* or learns that the connection is gone.
SubscribedInTheEnd ==
    state = "Connected" ~> \/ state = "Disconnected"
                           \/ \A f \in Filters : subState[f] \in {"Subscribed", "Error"}

=============================================================================

--------------------------- MODULE MCMqttSession ---------------------------
EXTENDS MqttSession

\* The edge's two subscriptions.
EdgeTopics == <<"client01/model/#", "client02/model/#">>

=============================================================================

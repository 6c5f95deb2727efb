-------------------------- MODULE MCChannelBroker --------------------------
\* An instance of the broker for TLC; its numbers are in the configuration.
EXTENDS ChannelBroker
=============================================================================

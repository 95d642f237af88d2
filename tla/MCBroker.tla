------------------------------ MODULE MCBroker ------------------------------
(* Small instances of Broker, with requests that no client means to send.    *)
EXTENDS Broker

CONSTANTS p1, c1

MCStrayRequests ==
    {Get(<<"ping">>, 0, 0), Get(<<"channel", "?">>, 0, 0),
     Get(<<"channel", "c", "other">>, 0, 0),
     Get(<<"channel">>, 0, 0)}
=============================================================================

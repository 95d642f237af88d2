----------------------------- MODULE MCRequests -----------------------------
(* What is written and read, and what clients ask for: two parts in one run, *)
(* one or the other and never together.  An input of Codecs grows, or the    *)
(* clients of Broker use its channel.                                        *)
EXTENDS MCCodecs, MCBroker

RequestSymbols == MCSymbols @@ [broker |-> {}]
RequestMaxLength == MCMaxLength @@ [broker |-> 0]

RequestInit == CodecInit /\ Init

RequestNext ==
    \/ Grow /\ UNCHANGED vars
    \/ kind = "broker" /\ Next /\ UNCHANGED codecVars

RequestSpec == RequestInit /\ [][RequestNext]_<<codecVars, vars>>
=============================================================================

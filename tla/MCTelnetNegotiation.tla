------------------------- MODULE MCTelnetNegotiation -------------------------
(* TLC instances of TelnetNegotiation: which buckets the peer negotiates. *)
EXTENDS TelnetNegotiation

EchoAndWindow == {<<"server", "ECHO">>, <<"client", "NAWS">>}
=============================================================================

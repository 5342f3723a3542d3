------------------------------- MODULE MCBroker -------------------------------
(* A small instance of one Broker. *)
EXTENDS Broker

CONSTANTS w1, w2, a, b
=============================================================================

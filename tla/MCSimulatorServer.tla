-------------------------- MODULE MCSimulatorServer --------------------------
(* Two clients that may overlap, two lines of a client in flight.            *)
EXTENDS SimulatorServer
=============================================================================

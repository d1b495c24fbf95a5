---------------------------- MODULE MCServerMain ----------------------------
(* Instances of ServerMain for TLC: two requests, one of them cancelled, or a *)
(* request and an edit, each followed by a shutdown.                         *)
EXTENDS ServerMain

MCClients == {<<Request(1), Cancel(1), Request(2), ShutdownRequest>>,
              <<Edit, Request(1), ShutdownRequest, Cancel(1)>>}
=============================================================================

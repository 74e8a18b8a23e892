--------------------------- MODULE MCWebSocketHub ---------------------------
(* WebSocketHub with one device, "device", of one tenant, "tenant".        *)
EXTENDS WebSocketHub

OneDevice == {"device", "tenant"}
ToDevice  == [n \in Notices |-> "device"]
ToTenant  == [n \in Notices |-> "tenant"]
=============================================================================

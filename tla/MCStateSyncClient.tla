--------------------------- MODULE MCStateSyncClient ---------------------------
(* One peer to start with and one that turns up and keeps answering; the     *)
(* target moves once.                                                        *)
EXTENDS StateSyncClient
=============================================================================

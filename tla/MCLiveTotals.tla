---------------------------- MODULE MCLiveTotals ----------------------------
(* Two writers, one of them on another server, one reader, two scopes, and a  *)
(* socket on a channel that holds one event.                                  *)
EXTENDS LiveTotals
=============================================================================

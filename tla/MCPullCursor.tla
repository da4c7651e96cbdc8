---------------------------- MODULE MCPullCursor ----------------------------
(***************************************************************************)
(* A small table for PullCursor: three rows, of which a page holds two.    *)
(***************************************************************************)
EXTENDS PullCursor

MCKeys == 1..3
=============================================================================

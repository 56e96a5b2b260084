--------------------------- MODULE MCInboxOpening ---------------------------
(* Instance of InboxOpening for TLC: one process of each kind. *)
EXTENDS InboxOpening

CONSTANTS d, b, x     \* the daemon, a booted process, an external one

Listed == <<d, b, x>>
=============================================================================

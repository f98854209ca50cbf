--------------------------- MODULE MCInboxSession ---------------------------
(* A small instance of InboxSession.                                        *)
EXTENDS InboxSession

CONSTANT renewal
=============================================================================

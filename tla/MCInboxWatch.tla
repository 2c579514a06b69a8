---------------------------- MODULE MCInboxWatch ----------------------------
(* Instances of InboxWatch for TLC.                                        *)
EXTENDS InboxWatch, TLC
=============================================================================

----------------------------- MODULE MCSession -----------------------------
(***************************************************************************)
(* Model values for the runs of module Session.                            *)
(***************************************************************************)
EXTENDS Session

CONSTANTS desk, phone

MCClients == {desk, phone}
=============================================================================

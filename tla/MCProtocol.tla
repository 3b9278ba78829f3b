----------------------------- MODULE MCProtocol -----------------------------
(* Narrow types; two names, two passwords with different hashes. *)
EXTENDS Protocol, TLC

MCMoney == {-4, 0, 3}
MCAmounts == {1, 31}
MCHash == "p" :> 0 @@ "q" :> 31
=============================================================================

----------------------------- MODULE MCMailDrain -----------------------------
(* MailDrain for TLC.                                                       *)
EXTENDS MailDrain, TLC

CONSTANTS r1, r2, r3, register, reset
MCRequests == {r1, r2, r3}
MCServices == {register, reset}
MCServiceOf == (r1 :> register) @@ (r2 :> reset) @@ (r3 :> reset)
=============================================================================

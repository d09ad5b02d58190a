-------------------------- MODULE MCChatAdmission --------------------------
(* Instances of ChatAdmission for TLC.                                     *)
EXTENDS ChatAdmission, TLC

CONSTANTS c1, c2, c3, c4, a1

MCCalls == {c1, c2, c3, c4}
MCAccounts == {a1}
=============================================================================

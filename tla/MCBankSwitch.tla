---------------------------- MODULE MCBankSwitch ----------------------------
(* An instance of BankSwitch: bank 0, two mapped banks with a board each,  *)
(* a bank no file maps, one beyond the range and one of the LSBs that the  *)
(* firmware keeps for itself.                                              *)
EXTENDS BankSwitch, TLC

MCRomOf == (0 :> "boardA") @@ (1 :> "boardA") @@ (2 :> "boardB")
MCLsbs == {0, 1, 2, 3, 80, 100}
MCForwarded == {80}
=============================================================================

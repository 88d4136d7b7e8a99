---------------------------- MODULE UserAccounts ----------------------------
(* The users table with the requests that write its rows and those that      *)
(* switch two-factor authentication on and off.                              *)
EXTENDS TwoFactor

accountVars == <<directoryVars, twoFactorVars>>

Init == DirectoryInit /\ TwoFactorInit

DirectoryStep == DirectoryNext /\ Cross /\ UNCHANGED <<setup, drawn, torn>>
TwoFactorStep == TwoFactorNext /\ UNCHANGED <<users, sponsor, nextId, req, notes>>

Next == DirectoryStep \/ TwoFactorStep

Spec == Init /\ [][Next]_accountVars

TypeOK == DirectoryTypeOK /\ TwoFactorTypeOK
=============================================================================

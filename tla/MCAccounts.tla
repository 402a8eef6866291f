------------------------------ MODULE MCAccounts ------------------------------
(* Instances of Accounts for TLC. *)
EXTENDS Accounts

\* Two of the three roles: only "admin" is told apart from the others.
MCRole == {"admin", "operator"}

\* Every user is an admin: only deletes can take one away.
OnlyAdmins == {"admin"}
=============================================================================

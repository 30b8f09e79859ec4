-------------------------- MODULE MCOfflineSync --------------------------
(* Instances of OfflineSync for TLC. *)
EXTENDS OfflineSync

\* An account in use: one entry of each kind is stored already.
Established == <<"notice", "group", "mark", "chat">>

\* A first login: nothing is stored, nothing logged.
Empty == << >>
=============================================================================

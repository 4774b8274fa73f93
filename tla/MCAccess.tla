------------------------------ MODULE MCAccess ------------------------------
(* Access with three usernames, one of them in two spellings.              *)
EXTENDS Access

McKey == [name \in Names |-> IF name = "Ann" THEN "ann" ELSE name]

McMixes == {{"login", "setup", "logout"}, {"create", "revoke", "use", "logout"}}
=============================================================================

------------------------------ MODULE MCAccounts ------------------------------
(* Two registrations that want one name with different e-mails, a reader of the       *)
(* profile, and one token at a time that a request presents while it is revoked,      *)
(* expires and is issued anew.                                                        *)
EXTENDS Accounts

CONSTANTS n1, e1, e2, r1, r2

OneName == [r \in {r1, r2} |-> {<<n1, IF r = r1 THEN e1 ELSE e2>>}]
==============================================================================

---------------------------- MODULE MCAuthSession ----------------------------
EXTENDS AuthSession

CONSTANTS t1, client1

RoleOfClient == [a \in {client1} |-> "client"]

=============================================================================

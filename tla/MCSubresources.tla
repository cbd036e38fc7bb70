--------------------------- MODULE MCSubresources ---------------------------
EXTENDS Subresources, TLC

\* Every client, in the order of NewSubresourceClients.
AllClients == <<"lifecycle", "acl", "policy", "versioning", "objectlock">>

Symmetry == Permutations(Backends)
=============================================================================

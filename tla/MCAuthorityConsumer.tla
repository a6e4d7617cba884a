------------------------- MODULE MCAuthorityConsumer -------------------------
(* Instances of AuthorityConsumer for TLC. *)
EXTENDS AuthorityInvariant, TLC

ReplicaSymmetry == Permutations(Replica)

=============================================================================

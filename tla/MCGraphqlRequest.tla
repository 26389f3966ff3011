-------------------------- MODULE MCGraphqlRequest --------------------------
(* Instances of GraphqlRequest for TLC. *)
EXTENDS GraphqlRequest
=============================================================================

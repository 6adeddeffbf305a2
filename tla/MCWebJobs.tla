------------------------------ MODULE MCWebJobs ------------------------------
(***************************************************************************)
(* Small instances of WebJobs.  Premises p and q have slugs of their own;  *)
(* r is written in a script that leaves no slug.                           *)
(***************************************************************************)
EXTENDS WebJobs

CONSTANTS p, q, r, ps, qs

MCSlug == [premise \in Premise |-> CASE premise = p -> ps
                                     [] premise = q -> qs
                                     [] premise = r -> EmptySlug]
=============================================================================

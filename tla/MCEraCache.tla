----------------------------- MODULE MCEraCache -----------------------------
(* EraCache for TLC: requests and upstreams are interchangeable. *)
EXTENDS EraCache, TLC

Symmetry == Permutations(Callers) \cup Permutations(Ids)
=============================================================================

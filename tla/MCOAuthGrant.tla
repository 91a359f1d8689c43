---------------------------- MODULE MCOAuthGrant ----------------------------
(* Model-checking instances of OAuthGrant. *)
EXTENDS OAuthGrant, TLC

\* A row already connected, as at the start of most calls.
ConnectedInit == Init /\ row.auth.kind = "tokens" /\ row.url = AnyUrl

ConnectedSpec == ConnectedInit /\ [][Next]_vars
ConnectedLiveSpec == ConnectedSpec /\ Fairness

\* Calls are alike, and so are the requests this replica serves.
Symmetry == Permutations(Callers) \cup Permutations(Admins \ Remote)
=============================================================================

------------------------------- MODULE MCFamily -------------------------------
(***************************************************************************)
(* Instances of Family for TLC: the founder, ann, and bob, whom she        *)
(* invites.  Requests are interchangeable.                                 *)
(***************************************************************************)
EXTENDS Family, TLC

CONSTANTS p, q

Accounts    == {"ann", "bob"}
TwoRequests == {p, q}
AnyRequest  == Permutations(TwoRequests)
==============================================================================

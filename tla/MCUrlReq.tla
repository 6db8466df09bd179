------------------------------ MODULE MCUrlReq ------------------------------
(* Small instances of UrlReq; see the .cfg files.  Requests are symmetric, *)
(* and so are workers: no action or property tells one from another.       *)
EXTENDS UrlReq, TLC

Symmetry == Permutations(Requests) \cup Permutations(Workers)
=============================================================================

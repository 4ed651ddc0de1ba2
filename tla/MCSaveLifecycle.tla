--------------------------- MODULE MCSaveLifecycle ---------------------------
(***************************************************************************)
(* Small instances of SaveLifecycle.                                       *)
(***************************************************************************)
EXTENDS SaveDurability, TLC

CONSTANTS s1, s2, s3, k1, g1

\* Three terminals on one save.
SameSave == (s1 :> k1) @@ (s2 :> k1) @@ (s3 :> k1)

\* Interchangeable under SameSave.
Terminals == Permutations({s1, s2, s3})

\* Two terminals on one save and a guest.
WithGuest == (s1 :> k1) @@ (s2 :> k1) @@ (s3 :> g1)

\* Two terminals on one save.
Pair == (s1 :> k1) @@ (s2 :> k1)
=============================================================================

-------------------------- MODULE MCPersonalStores -------------------------
(***************************************************************************)
(* Two rows and two contents, and listings of at most one row.             *)
(***************************************************************************)
EXTENDS PersonalStores

TwoIds == {"a", "b"}
TwoContents == {"x", "y"}
=============================================================================

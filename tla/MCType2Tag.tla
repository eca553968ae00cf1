----------------------------- MODULE MCType2Tag -----------------------------
(***************************************************************************)
(* Two tags to write and read: one that is read in two exchanges, and one  *)
(* too small for the longer URIs.                                          *)
(***************************************************************************)
EXTENDS Type2Tag

SmallTags == {"small", "medium"}
SmallArea == [t \in SmallTags |-> IF t = "small" THEN 2 ELSE 5]
SmallUrls == {1, 8, 32, 257}
=============================================================================

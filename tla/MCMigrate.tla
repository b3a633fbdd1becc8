------------------------------ MODULE MCMigrate ------------------------------
(***************************************************************************)
(* A release, the next one, and one whose index file was edited after it   *)
(* had been deployed.                                                      *)
(***************************************************************************)
EXTENDS Migrate, TLC

CONSTANTS w1, w2, w3

Sql(name) == [name |-> name, checksum |-> 1, index |-> None]
Index(name, checksum, x) == [name |-> name, checksum |-> checksum, index |-> x]

Release == <<Sql("a"), Index("b", 1, "i")>>
NextRelease == <<Sql("a"), Index("b", 1, "i"), Sql("c"), Index("d", 1, "j")>>
EditedRelease == <<Sql("a"), Index("b", 2, "i"), Sql("c")>>

Releases == w1 :> Release @@ w2 :> NextRelease @@ w3 :> EditedRelease
=============================================================================

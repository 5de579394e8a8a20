---------------------------- MODULE MCMigrations ----------------------------
(* An instance of Migrations for TLC. *)
EXTENDS Migrations

M(version, sum) == [version |-> version, sum |-> sum]

Old == {M(1, "a"), M(2, "b")}
New == Old \cup {M(3, "c")}
Edited == {M(1, "a"), M(2, "x")}
Doubled == {M(1, "a"), M(1, "b")}
Zero == Old \cup {M(0, "c")}
TooGreat == Old \cup {M(4, "d")}

\* A release, one that appends a migration, one that has edited a migration,
\* and three whose files cannot be loaded.
Releases == {Old, New, Edited, Doubled, Zero, TooGreat}

\* The releases of this instance only append, as the order of history needs.
ASSUME ReleasesAppend == AppendOnly
=============================================================================

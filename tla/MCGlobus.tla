------------------------------ MODULE MCGlobus ------------------------------
(* Instances of GlobusArchive for TLC. *)
EXTENDS GlobusProps, TLC

CONSTANTS gfs, gdas, i1, i2, s1, s2, r1

OneJob == gfs :> {s1, s2}
OneJobSmall == gfs :> {s1}
OneJobRestricted == gfs :> {r1}
TwoJobs == gfs :> {s1} @@ gdas :> {s2}
TwoJobsNone == gfs :> {} @@ gdas :> {}
OneJobNone == gfs :> {}

Instances == Permutations({i1, i2})
=============================================================================

------------------------------ MODULE MCArchive ------------------------------
(* Two deterministic runs of a cycle and an ensemble of one group.            *)
EXTENDS Archive, TLC

Job(r, t, g) == [run |-> r, type |-> t, group |-> g]

AllJobs == {Job("gdas", t, -1) : t \in {"vrfy", "gdas", "gdasice_restart"}}
           \cup {Job("gfs", "vrfy", -1)}
           \cup {Job("enkfgdas", "grp", g) : g \in 1..2}

\* The runs of a cycle while tracks are renamed, the tarballs of one run, and
\* two groups of members.
JobsTogether ==
    {{Job("gdas", "vrfy", -1), Job("gdas", "gdas", -1), Job("gfs", "vrfy", -1)},
     {Job("gdas", "gdas", -1), Job("gdas", "gdasice_restart", -1)},
     {Job("enkfgdas", "grp", g) : g \in 1..2}}

TarballsOf(j) ==
    CASE j.type = "gdas" -> <<"gdas", Expdir>>
      [] j.type = "grp"  -> IF j.group = 1 THEN <<"grp1", "restarta_grp1">> ELSE <<"grp2">>
      [] j.type = "vrfy" -> <<>>
      [] OTHER           -> <<j.type>>

WithRestricted == {"gdas", "restarta_grp1"}

\* Serial jobs share a node.
OneNode(j) == "node"
=============================================================================

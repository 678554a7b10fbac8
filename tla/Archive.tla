------------------------------- MODULE Archive -------------------------------
(* The archive jobs of one cycle (ush/python/pygfs/task/archive.py and the    *)
(* scripts that call it).  arch_vrfy copies products to ARCDIR; arch_tars is  *)
(* one job for each type of tarball of a deterministic run, earc_tars one for *)
(* each group of members of an ensemble.  With globus the tarballs are made   *)
(* locally, and a later job sends those that a list in COMIN_CONF names.      *)
(*                                                                            *)
(* A job is [run, type, group]: type "vrfy" is arch_vrfy, any other the type  *)
(* of the tarballs; group is ENSGRP, -1 for a deterministic run.              *)
EXTENDS Integers, Sequences, FiniteSets, SequencesExt

CONSTANTS
    Jobs,          \* the archive jobs of the cycle
    Submissions,   \* sets of jobs that may run together
    NodeOf(_),     \* the node a job runs on
    Datasets(_),   \* the tarballs the templates of a tar job name, in order
    Restricted,    \* tarballs some file of which belongs to group rstprod
    MaxTries,
    MaxBroken      \* a bound: jobs that are broken off, all together

TarJobs == {j \in Jobs : j.type # "vrfy"}
Tarballs == UNION {ToSet(Datasets(j)) : j \in TarJobs}

(* A run has one arch_vrfy job, a group of members one earc_tars job.  Every  *)
(* template names tarballs of its own; the EXPDIR is added to those of one    *)
(* job of the cycle (not so in a cycled GCAFS experiment, see the README).    *)
ASSUME ArchiveAssumption ==
    /\ MaxTries \in Nat \ {0} /\ MaxBroken \in Nat /\ Submissions \subseteq SUBSET Jobs
    /\ \A i, j \in Jobs \ TarJobs : i.run = j.run => i = j
    /\ \A i, j \in TarJobs :
           i.run = j.run /\ i.group = j.group /\ i.group >= 0 => i = j
    /\ \A j \in Jobs : Datasets(j) \in Seq(ToSet(Datasets(j)))
    /\ \A i, j \in Jobs : i # j => ToSet(Datasets(i)) \cap ToSet(Datasets(j)) = {}

VARIABLES
    pc,        \* the step each job is at
    tries,     \* times each job was submitted
    kind,      \* the track file a job renames: 1 atcfunix, 2 atcfunixp
    tmp,       \* what /tmp/track_file of each node holds
    linked,    \* jobs whose open file is the one at /tmp/track_file
    track,     \* the renamed track files of each run
    arcdir,    \* the track files that were copied to ARCDIR
    staged,    \* whether there is a copy of the EXPDIR in the ROTDIR
    left,      \* tarballs a job has yet to make
    tarball,   \* the tarballs, by name
    list,      \* backup_tarballs.yaml of each run and group
    sent,      \* what a globus job took from its list
    broken,    \* jobs that were broken off
    running,   \* the jobs of this cycle, of Submissions
    storms,    \* runs whose tracker found a storm
    due,       \* restart tarballs that are due this cycle
    empty      \* tarballs for which no file was found

vars == <<pc, tries, kind, tmp, linked, track, arcdir, staged, left, tarball, list,
          sent, broken, running, storms, due, empty>>

Runs == {j.run : j \in Jobs}
Nodes == {NodeOf(j) : j \in Jobs}

\* Mistaken variant: one list for all the groups.
ListOf_Shared(j) == <<j.run, IF j.group > 0 THEN 1 ELSE j.group>>

ListOf(j) == <<j.run, j.group>>
Lists == {ListOf(j) : j \in TarJobs}

\* The types of tarball with "restart" in their name, of those gfs_tasks.py asks for.
IsRestart(j) == j.type \in {"gdas_restarta", "gdas_restartb", "gdasice_restart",
                            "gdasocean_restart", "gdaswave_restart", "gfs_restarta"}

\* The jobs that rename the experiment in the track files: AVNO becomes PSLOT.
Renames(j) == /\ j.run \in {"gdas", "gfs"} /\ j.run \in storms
              /\ j.type \in {"vrfy", "gdas", "gfsa"}

\* What a track file may hold: the tracks of a run, or
None == <<"none", 0>>
Empty == <<"empty", 0>>        \* nothing, it was truncated
Mixed == <<"mixed", 0>>        \* what two writers wrote over each other
Cut == <<"cut", 0>>            \* a part, the copy was interrupted

Content(j) == <<j.run, kind[j]>>

NoList == {"none"}

NoTarball == [made |-> FALSE, whole |-> FALSE, protected |-> FALSE]
Tar(whole, protected) == [made |-> TRUE, whole |-> whole, protected |-> protected]

Init ==
    /\ pc = [j \in Jobs |-> "idle"]
    /\ tries = [j \in Jobs |-> 0]
    /\ kind = [j \in Jobs |-> 1]
    /\ tmp = [n \in Nodes |-> None]
    /\ linked = {}
    /\ track = [r \in Runs |-> [k \in 1..2 |-> None]]
    /\ arcdir = [r \in Runs |-> [k \in 1..2 |-> None]]
    /\ staged = FALSE
    /\ left = [j \in Jobs |-> <<>>]
    /\ tarball = [d \in Tarballs |-> NoTarball]
    /\ list = [l \in Lists |-> NoList]
    /\ sent = [l \in Lists |-> NoList]
    /\ broken = 0
    /\ running \in Submissions
    /\ storms \in SUBSET ({j.run : j \in running} \cap {"gdas", "gfs"})
    /\ due \in SUBSET {j \in running : IsRestart(j)}
    /\ empty \in SUBSET (UNION {ToSet(Datasets(j)) : j \in running \cap TarJobs} \ Restricted)

Goto(j, step) == pc' = [pc EXCEPT ![j] = step]

\* Mistaken variant: one try more than MAXTRIES.
Fails_OneMore(j) == /\ broken < MaxBroken
                    /\ broken' = broken + 1
                    /\ Goto(j, IF tries[j] <= MaxTries THEN "idle" ELSE "dead")
                    /\ linked' = linked \ {j}

\* The exception ends the script; rocoto submits the job again or it is dead.
Fails(j) == /\ broken < MaxBroken
            /\ broken' = broken + 1
            /\ Goto(j, IF tries[j] < MaxTries THEN "idle" ELSE "dead")
            /\ linked' = linked \ {j}

given == <<running, storms, due, empty>>
trackVars == <<kind, tmp, linked, track>>
tarVars == <<staged, left, tarball, list>>

Expdir == "expdir"

-----------------------------------------------------------------------------
\* rocoto submits the job; arch_tars waits for arch_vrfy of its run.
Start(j) ==
    /\ pc[j] = "idle" /\ j \in running
    /\ j \in TarJobs => \A v \in running \ TarJobs : v.run = j.run => pc[v] = "done"
    /\ Goto(j, IF Renames(j) THEN "open" ELSE "configure")
    /\ tries' = [tries EXCEPT ![j] = @ + 1]
    /\ kind' = [kind EXCEPT ![j] = 1]
    /\ UNCHANGED <<tmp, linked, track, arcdir, tarVars, sent, broken, given>>

\* Mistaken variant: the temporary file is opened to append.
OpenTemp_Append(j) ==
    /\ pc[j] = "open"
    /\ tmp' = [tmp EXCEPT ![NodeOf(j)] = IF @ = None THEN Empty ELSE @]
    /\ linked' = linked \cup {j}
    /\ Goto(j, "write")
    /\ UNCHANGED <<tries, kind, track, arcdir, tarVars, sent, broken, given>>

\* open("/tmp/track_file", "w"): the file at the path is made or truncated.
OpenTemp(j) ==
    /\ pc[j] = "open"
    /\ tmp' = [tmp EXCEPT ![NodeOf(j)] = Empty]
    /\ linked' = linked \cup {j}
    /\ Goto(j, "write")
    /\ UNCHANGED <<tries, kind, track, arcdir, tarVars, sent, broken, given>>

\* The lines are written and the file closed.  Another job may have written to
\* the same file, or taken it from the path.
WriteTemp(j) ==
    /\ pc[j] = "write"
    /\ tmp' \in IF j \notin linked THEN {tmp}
                ELSE {[tmp EXCEPT ![NodeOf(j)] = c] :
                      c \in {Content(j)} \cup
                            (IF tmp[NodeOf(j)] = Empty THEN {} ELSE {Mixed})}
    /\ linked' = linked \ {j}
    /\ Goto(j, "copy")
    /\ UNCHANGED <<tries, kind, track, arcdir, tarVars, sent, broken, given>>

\* shutil.move between two file systems: what is at the path is copied, then
\* the path removed; either fails when another job has removed it.
CopyTemp(j) ==
    /\ pc[j] = "copy"
    /\ IF tmp[NodeOf(j)] = None
       THEN Fails(j) /\ UNCHANGED track
       ELSE /\ track' = [track EXCEPT ![j.run][kind[j]] = tmp[NodeOf(j)]]
            /\ Goto(j, "unlink")
            /\ UNCHANGED <<linked, broken>>
    /\ UNCHANGED <<tries, kind, tmp, arcdir, tarVars, sent, given>>

UnlinkTemp(j) ==
    /\ pc[j] = "unlink"
    /\ IF tmp[NodeOf(j)] = None
       THEN Fails(j) /\ UNCHANGED <<tmp, kind>>
       ELSE /\ tmp' = [tmp EXCEPT ![NodeOf(j)] = None]
            /\ linked' = {i \in linked : NodeOf(i) # NodeOf(j)}
            /\ kind' = [kind EXCEPT ![j] = 2]
            /\ Goto(j, IF kind[j] = 1 THEN "open" ELSE "configure")
            /\ UNCHANGED broken
    /\ UNCHANGED <<tries, track, arcdir, tarVars, sent, given>>

-----------------------------------------------------------------------------
\* arch_vrfy copies the products that exist to ARCDIR.
StoreProducts(j) ==
    /\ pc[j] = "configure" /\ j.type = "vrfy"
    /\ arcdir' = [arcdir EXCEPT ![j.run] = track[j.run]]
    /\ Goto(j, "done")
    /\ UNCHANGED <<tries, trackVars, tarVars, sent, broken, given>>

\* The EXPDIR is copied for the job among whose tarballs it is.
StagedBy(j) == staged \/ Expdir \in ToSet(Datasets(j))

\* configure_tars ends with no tarballs when a restart is not due; otherwise
\* the list is written, without the tarballs that would be empty, and then the
\* tarballs are made one after the other.
ConfigureTars(j) ==
    /\ pc[j] = "configure" /\ j.type # "vrfy"
    /\ IF IsRestart(j) /\ j \notin due
       THEN Goto(j, "done") /\ UNCHANGED <<staged, left, list>>
       ELSE /\ staged' = StagedBy(j)
            /\ list' = [list EXCEPT ![ListOf(j)] = ToSet(Datasets(j)) \ empty]
            /\ left' = [left EXCEPT ![j] = Datasets(j)]
            /\ Goto(j, "tar")
    /\ UNCHANGED <<tries, trackVars, arcdir, tarball, sent, broken, given>>

\* A file that is required is missing, a git command fails or the list cannot
\* be written.
ConfigureFails(j) ==
    /\ pc[j] = "configure"
    /\ Fails(j)
    /\ staged' \in {staged, StagedBy(j)}
    /\ UNCHANGED <<tries, kind, tmp, track, arcdir, left, tarball, list, sent, given>>

\* Mistaken variant: a tarball that exists is not made again.
OpenTarball_Keep(j) ==
    /\ pc[j] = "tar" /\ left[j] # <<>>
    /\ IF Head(left[j]) \in empty \/ tarball[Head(left[j])].made
       THEN left' = [left EXCEPT ![j] = Tail(@)] /\ UNCHANGED <<pc, tarball>>
       ELSE /\ tarball' = [tarball EXCEPT ![Head(left[j])].made = TRUE]
            /\ Goto(j, "add")
            /\ UNCHANGED left
    /\ UNCHANGED <<tries, trackVars, arcdir, staged, list, sent, broken, given>>

\* The next tarball is opened, or skipped when it would be empty.
OpenTarball(j) ==
    /\ pc[j] = "tar" /\ left[j] # <<>>
    /\ IF Head(left[j]) \in empty
       THEN left' = [left EXCEPT ![j] = Tail(@)] /\ UNCHANGED <<pc, tarball>>
       ELSE /\ tarball' = [tarball EXCEPT ![Head(left[j])] = Tar(FALSE, @.protected)]
            /\ Goto(j, "add")
            /\ UNCHANGED left
    /\ UNCHANGED <<tries, trackVars, arcdir, staged, list, sent, broken, given>>

AddFiles(j) ==
    /\ pc[j] = "add"
    /\ tarball' = [tarball EXCEPT ![Head(left[j])] = Tar(TRUE, @.protected)]
    /\ IF Head(left[j]) \in Restricted
       THEN Goto(j, "protect") /\ UNCHANGED left
       ELSE Goto(j, "tar") /\ left' = [left EXCEPT ![j] = Tail(@)]
    /\ UNCHANGED <<tries, trackVars, arcdir, staged, list, sent, broken, given>>

\* chgrp to rstprod and chmod 640.
Protect(j) ==
    /\ pc[j] = "protect"
    /\ tarball' = [tarball EXCEPT ![Head(left[j])] = Tar(@.whole, TRUE)]
    /\ left' = [left EXCEPT ![j] = Tail(@)]
    /\ Goto(j, "tar")
    /\ UNCHANGED <<tries, trackVars, arcdir, staged, list, sent, broken, given>>

\* An error while a tarball is made or protected: one with restricted files is
\* removed, if it can be, before the exception ends the script.
TarballFails(j) ==
    /\ pc[j] \in {"add", "protect"}
    /\ tarball' \in {tarball} \cup
          (IF Head(left[j]) \in Restricted
           THEN {[tarball EXCEPT ![Head(left[j])] = NoTarball]} ELSE {})
    /\ Fails(j)
    /\ UNCHANGED <<tries, kind, tmp, track, arcdir, staged, left, list, sent,
                   given>>

\* clean removes the copy of the EXPDIR when the tarball of it was made.
TarsMade(j) ==
    /\ pc[j] = "tar" /\ left[j] = <<>>
    /\ staged' = (staged /\ Expdir \notin ToSet(Datasets(j)))
    /\ Goto(j, "done")
    /\ UNCHANGED <<tries, trackVars, arcdir, left, tarball, list, sent, broken, given>>

\* The job is killed at its walltime or with its node.
Kill(j) ==
    /\ pc[j] \notin {"idle", "done", "dead"}
    /\ Fails(j)
    /\ track' \in {track} \cup (IF pc[j] = "copy"
                              THEN {[track EXCEPT ![j.run][kind[j]] = Cut]} ELSE {})
    /\ UNCHANGED <<tries, kind, tmp, arcdir, tarVars, sent, given>>

-----------------------------------------------------------------------------
\* globus_arch and globus_earc wait for all the tar jobs of the run, and send
\* the tarballs on the list; without a list they fail.
Send(l) ==
    /\ sent[l] = NoList /\ list[l] # NoList
    /\ \A j \in running \cap TarJobs : j.run = l[1] => pc[j] = "done"
    /\ sent' = [sent EXCEPT ![l] = list[l]]
    /\ UNCHANGED <<pc, tries, trackVars, arcdir, tarVars, broken, given>>

\* A step of job j.
Work(j) ==
    \/ Start(j) \/ OpenTemp(j) \/ WriteTemp(j) \/ CopyTemp(j) \/ UnlinkTemp(j)
    \/ StoreProducts(j) \/ ConfigureTars(j) \/ ConfigureFails(j)
    \/ OpenTarball(j) \/ AddFiles(j) \/ Protect(j) \/ TarballFails(j) \/ TarsMade(j)
    \/ Kill(j)

Next == (\E j \in Jobs : Work(j)) \/ (\E l \in Lists : Send(l))

Spec == Init /\ [][Next]_vars

-----------------------------------------------------------------------------
Steps == {"idle", "open", "write", "copy", "unlink", "configure", "tar", "add",
          "protect", "done", "dead"}
Contents == {None, Empty, Mixed, Cut} \cup (Runs \X (1..2))

TypeOK ==
    /\ pc \in [Jobs -> Steps]
    /\ tries \in [Jobs -> 0..MaxTries]
    /\ kind \in [Jobs -> 1..2]
    /\ tmp \in [Nodes -> Contents]
    /\ linked \subseteq Jobs
    /\ track \in [Runs -> [1..2 -> Contents]]
    /\ arcdir \in [Runs -> [1..2 -> Contents]]
    /\ staged \in BOOLEAN
    /\ left \in [Jobs -> Seq(Tarballs)]
    /\ tarball \in [Tarballs -> [made : BOOLEAN, whole : BOOLEAN, protected : BOOLEAN]]
    /\ list \in [Lists -> SUBSET (Tarballs \cup NoList)]
    /\ sent \in [Lists -> SUBSET (Tarballs \cup NoList)]
    /\ broken \in 0..MaxBroken /\ running \in Submissions
    /\ storms \subseteq Runs /\ due \subseteq Jobs /\ empty \subseteq Tarballs

\* A job has its lines on the way through /tmp/track_file.
InTemp(j) == pc[j] \in {"write", "copy", "unlink"}

\* No job of another run uses the path on the node of an arch_vrfy job while that
\* job does.  Nothing in the code sees to it: it is what the scheduler did.
RenamesAlone ==
    \A v \in Jobs \ TarJobs, j \in Jobs :
        v.run # j.run /\ NodeOf(v) = NodeOf(j) => ~(InTemp(v) /\ InTemp(j))

Complete(d) == tarball[d].whole /\ (d \in Restricted => tarball[d].protected)

\* The tarballs a job makes this cycle.
Made(j) == IF IsRestart(j) /\ j \notin due THEN {} ELSE ToSet(Datasets(j)) \ empty

\* An arch_vrfy job that ended well left its own run's tracks in ARCDIR, whole,
\* whatever jobs were killed or failed before and left at /tmp/track_file: a job
\* reads what it wrote there.  With RenamesAlone it holds, without it not.
ArchivedTracksOwn ==
    \A j \in Jobs \ TarJobs : pc[j] = "done" /\ j.run \in storms =>
        \A k \in 1..2 : arcdir[j.run][k] = <<j.run, k>>

\* When a tar job has ended well, at whatever step earlier tries were broken
\* off, all its tarballs are whole, those with restricted data are protected,
\* and no copy of the EXPDIR is left in the ROTDIR.
TarballsComplete ==
    \A j \in TarJobs : pc[j] = "done" =>
        /\ \A d \in Made(j) : Complete(d)
        /\ Expdir \in Made(j) => ~staged

ToSend(l) == UNION {Made(j) : j \in {i \in running \cap TarJobs : ListOf(i) = l}}

\* What the globus job of a group of members sends is all the tarballs of the
\* group that hold something, and they are whole and protected.
GroupsSent ==
    \A l \in Lists : l[2] >= 0 /\ sent[l] # NoList =>
        sent[l] = ToSend(l) /\ \A d \in sent[l] : Complete(d)

\* The globus job of any run sends all the tarballs of the run.
AllTarballsSent == \A l \in Lists : sent[l] # NoList => sent[l] = ToSend(l)
=============================================================================

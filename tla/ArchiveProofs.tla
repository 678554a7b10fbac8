---------------------------- MODULE ArchiveProofs ----------------------------
(***************************************************************************)
(* What the archive jobs of a cycle leave when they end well, for any      *)
(* jobs, tarballs and tries, wherever earlier tries were broken off.       *)
(***************************************************************************)
EXTENDS Archive, TLAPS

Renaming == {"open", "write", "copy", "unlink"}
Tarring == {"tar", "add", "protect"}

\* Jobs of the cycle run, at steps that are theirs, and have tries left.
JobsAtWork ==
    \A j \in Jobs :
        /\ pc[j] # "idle" => j \in running
        /\ pc[j] = "idle" => tries[j] < MaxTries
        /\ pc[j] \in Renaming => Renames(j)
        /\ pc[j] \in Tarring => j \in TarJobs /\ (IsRestart(j) => j \in due)
        /\ pc[j] \in {"add", "protect"} => left[j] # <<>>

\* What a tar job has behind it is complete, and what it works on is its own.
InOrder(j) ==
    /\ ToSet(left[j]) \subseteq ToSet(Datasets(j))
    /\ pc[j] \in {"add", "protect"} => Head(left[j]) \notin empty
    /\ pc[j] = "protect" => tarball[Head(left[j])].whole
    /\ pc[j] \in Tarring =>
          \A d \in ToSet(Datasets(j)) \ (ToSet(left[j]) \cup empty) : Complete(d)

EndsWell(j) ==
    pc[j] = "done" => /\ \A d \in Made(j) : Complete(d)
                      /\ Expdir \in Made(j) => ~staged

TarsInOrder == \A j \in TarJobs : InOrder(j) /\ EndsWell(j)

TarInv == TypeOK /\ JobsAtWork /\ TarsInOrder

\* The list of a group holds the tarballs its job makes, and is sent when they
\* are made.
GroupLists ==
    \A j \in TarJobs : j.group >= 0 =>
        /\ list[ListOf(j)] # NoList => list[ListOf(j)] = Made(j) /\ j \in running
        /\ sent[ListOf(j)] # NoList => sent[ListOf(j)] = list[ListOf(j)] /\ pc[j] = "done"

Own(j, k) == track[j.run][k] = <<j.run, k>>

\* While arch_vrfy is at work no tar job of the run has begun, and what is at
\* /tmp/track_file of its node, and behind its open file, is its own.
VrfyAlone ==
    \A j \in (Jobs \ TarJobs) \cap running : pc[j] # "done" =>
        \A t \in TarJobs : t.run = j.run => pc[t] = "idle"

OpenFiles == \A j \in linked : pc[j] = "write"

OwnTracks(j) ==
    /\ pc[j] = "write" => j \in linked /\ tmp[NodeOf(j)] = Empty
    /\ pc[j] \in {"copy", "unlink"} => tmp[NodeOf(j)] = Content(j)
    /\ pc[j] = "unlink" => Own(j, kind[j])
    /\ pc[j] \in Renaming /\ kind[j] = 2 => Own(j, 1)
    /\ pc[j] = "configure" => Own(j, 1) /\ Own(j, 2)
    /\ pc[j] = "done" => \A k \in 1..2 : arcdir[j.run][k] = <<j.run, k>>

TracksOwn == \A j \in Jobs \ TarJobs : j.run \in storms => OwnTracks(j)

StormRuns == storms \subseteq {"gdas", "gfs"}

TrackInv ==
    TypeOK /\ JobsAtWork /\ StormRuns /\ VrfyAlone /\ OpenFiles /\ TracksOwn

-----------------------------------------------------------------------------
LEMMA HeadAndTail ==
    ASSUME NEW S, NEW s \in Seq(S), s # <<>>
    PROVE  /\ Head(s) \in S /\ Tail(s) \in Seq(S) /\ ToSet(s) \subseteq S
           /\ ToSet(s) = {Head(s)} \cup ToSet(Tail(s))
<1>1. Len(s) \in Nat \ {0} /\ Head(s) = s[1] /\ Head(s) \in S /\ Tail(s) \in Seq(S)
      /\ DOMAIN s = 1..Len(s) /\ DOMAIN Tail(s) = 1..(Len(s) - 1)
      /\ \A k \in 1..(Len(s) - 1) : Tail(s)[k] = s[k + 1]
    OBVIOUS
<1>2. ToSet(s) \subseteq S
    BY DEF ToSet
<1>3. ToSet(Tail(s)) \subseteq ToSet(s) /\ Head(s) \in ToSet(s)
    BY <1>1 DEF ToSet
<1>4. ASSUME NEW x \in ToSet(s)  PROVE  x \in {Head(s)} \cup ToSet(Tail(s))
  <2>1. PICK k \in 1..Len(s) : x = s[k]
    BY <1>1 DEF ToSet
  <2>2. CASE k # 1
    <3>1. k - 1 \in 1..(Len(s) - 1) /\ Tail(s)[k - 1] = x
      BY <1>1, <2>1, <2>2
    <3> QED
      BY <1>1, <3>1 DEF ToSet
  <2> QED
    BY <1>1, <2>1, <2>2
<1> QED
    BY <1>1, <1>2, <1>3, <1>4

LEMMA OwnTarballs ==
    ASSUME NEW j \in TarJobs
    PROVE  /\ j \in Jobs /\ j.run \in Runs /\ ListOf(j) \in Lists
           /\ Datasets(j) \in Seq(Tarballs) /\ ToSet(Datasets(j)) \subseteq Tarballs
<1>1. ToSet(Datasets(j)) \subseteq Tarballs
    BY DEF Tarballs
<1>2. Datasets(j) \in Seq(Tarballs)
    BY <1>1, ArchiveAssumption DEF TarJobs
<1> QED
    BY <1>1, <1>2 DEF TarJobs, Runs, Lists

\* The variables have their types.
THEOREM InitTypeOK == Init => TypeOK /\ JobsAtWork
<1> SUFFICES ASSUME Init  PROVE  TypeOK /\ JobsAtWork
    OBVIOUS
<1>1. running \subseteq Jobs /\ empty \subseteq Tarballs
    BY ArchiveAssumption DEF Init, Tarballs
<1>2. storms \subseteq Runs /\ due \subseteq Jobs
    BY <1>1 DEF Init, Runs
<1>3. JobsAtWork
    BY ArchiveAssumption DEF Init, JobsAtWork, Renaming, Tarring
<1>4. TypeOK
  <2>1. /\ pc \in [Jobs -> Steps] /\ tries \in [Jobs -> 0..MaxTries]
        /\ kind \in [Jobs -> 1..2] /\ left \in [Jobs -> Seq(Tarballs)]
    BY ArchiveAssumption DEF Init, Steps
  <2>2. tmp \in [Nodes -> Contents] /\ linked \subseteq Jobs /\ staged \in BOOLEAN
    BY DEF Init, Contents
  <2>3. track \in [Runs -> [1..2 -> Contents]] /\ arcdir \in [Runs -> [1..2 -> Contents]]
    BY DEF Init, Contents
  <2>4. tarball \in [Tarballs -> [made : BOOLEAN, whole : BOOLEAN, protected : BOOLEAN]]
    BY DEF Init, NoTarball
  <2>5. /\ list \in [Lists -> SUBSET (Tarballs \cup NoList)]
        /\ sent \in [Lists -> SUBSET (Tarballs \cup NoList)]
    BY DEF Init
  <2>6. broken \in 0..MaxBroken /\ running \in Submissions
    BY ArchiveAssumption DEF Init
  <2> QED
    BY <1>1, <1>2, <2>1, <2>2, <2>3, <2>4, <2>5, <2>6 DEF TypeOK
<1> QED
    BY <1>3, <1>4

LEMMA FailsSteps ==
    ASSUME TypeOK, JobsAtWork, NEW j \in Jobs, Fails(j), pc[j] # "idle", UNCHANGED tries
    PROVE  /\ broken' \in 0..MaxBroken /\ linked' \subseteq Jobs
           /\ pc' \in [Jobs -> Steps] /\ pc'[j] \in {"idle", "dead"}
           /\ pc'[j] = "idle" => tries[j] < MaxTries
           /\ \A i \in Jobs \ {j} : pc'[i] = pc[i]
<1>1. broken \in 0..MaxBroken /\ MaxBroken \in Nat /\ broken' = broken + 1 /\ broken < MaxBroken
    BY ArchiveAssumption DEF TypeOK, Fails
<1> QED
    BY <1>1 DEF TypeOK, Fails, Goto, Steps

LEMMA WorkTypes ==
    ASSUME TypeOK, JobsAtWork, NEW j \in Jobs, Work(j)
    PROVE  TypeOK' /\ JobsAtWork'
<1>a. MaxTries \in Nat \ {0} /\ MaxBroken \in Nat
    BY ArchiveAssumption
<1> USE <1>a
<1>0. j.run \in Runs /\ NodeOf(j) \in Nodes
    BY DEF Runs, Nodes
<1>1. CASE Start(j)
    BY <1>1 DEF Start, Goto, TypeOK, JobsAtWork, given, tarVars, trackVars, Steps, Renaming, Tarring, Renames
<1>2. CASE OpenTemp(j)
    BY <1>0, <1>2 DEF OpenTemp, Goto, TypeOK, JobsAtWork, given, tarVars, Steps, Contents, Renaming, Tarring, Renames
<1>3. CASE WriteTemp(j)
  <2>1. Content(j) \in Contents /\ Mixed \in Contents
    BY <1>0 DEF Content, Contents, TypeOK
  <2>2. tmp' \in [Nodes -> Contents]
    <3>1. CASE j \notin linked
      BY <1>3, <3>1 DEF WriteTemp, TypeOK
    <3>2. CASE j \in linked
      <4>1. PICK c \in {Content(j), Mixed} : tmp' = [tmp EXCEPT ![NodeOf(j)] = c]
        BY <1>3, <3>2 DEF WriteTemp
      <4> QED
        BY <1>0, <2>1, <4>1 DEF TypeOK
    <3> QED
      BY <3>1, <3>2
  <2>3. pc' = [pc EXCEPT ![j] = "copy"] /\ pc[j] = "write" /\ linked' \subseteq Jobs
    BY <1>3 DEF WriteTemp, Goto, TypeOK
  <2>4. TypeOK'
    BY <1>3, <2>2, <2>3 DEF WriteTemp, TypeOK, given, tarVars, Steps
  <2> QED
    BY <1>3, <2>3, <2>4 DEF WriteTemp, TypeOK, JobsAtWork, given, tarVars, Renaming, Tarring, Renames
<1>4. CASE CopyTemp(j)
  <2>1. CASE tmp[NodeOf(j)] = None
    BY <1>4, <2>1, FailsSteps DEF CopyTemp, TypeOK, JobsAtWork, given, tarVars, Renaming, Tarring, Renames
  <2>2. CASE tmp[NodeOf(j)] # None
    <3>1. track' \in [Runs -> [1..2 -> Contents]]
      <4>1. tmp[NodeOf(j)] \in Contents /\ kind[j] \in 1..2
        BY <1>0 DEF TypeOK
      <4>2. track' = [track EXCEPT ![j.run] = [@ EXCEPT ![kind[j]] = tmp[NodeOf(j)]]]
        BY <1>4, <2>2 DEF CopyTemp
      <4>3. track[j.run] \in [1..2 -> Contents]
        BY <1>0 DEF TypeOK
      <4> QED
        BY <1>0, <4>1, <4>2, <4>3 DEF TypeOK
    <3> QED
      BY <1>4, <2>2, <3>1 DEF CopyTemp, Goto, TypeOK, JobsAtWork, given, tarVars, Steps, Renaming, Tarring, Renames
  <2> QED
    BY <2>1, <2>2
<1>5. CASE UnlinkTemp(j)
  <2>1. CASE tmp[NodeOf(j)] = None
    BY <1>5, <2>1, FailsSteps DEF UnlinkTemp, TypeOK, JobsAtWork, given, tarVars, Renaming, Tarring, Renames
  <2>2. CASE tmp[NodeOf(j)] # None
    <3>1. None \in Contents
      BY DEF Contents
    <3>2. tmp' \in [Nodes -> Contents] /\ linked' \subseteq Jobs /\ kind' \in [Jobs -> 1..2]
      <4>1. /\ tmp' = [tmp EXCEPT ![NodeOf(j)] = None] /\ kind' = [kind EXCEPT ![j] = 2]
            /\ linked' = {i \in linked : NodeOf(i) # NodeOf(j)}
        BY <1>5, <2>2 DEF UnlinkTemp
      <4>2. linked' \subseteq linked
        BY <4>1
      <4> QED
        BY <1>0, <3>1, <4>1, <4>2 DEF TypeOK
    <3>3. CASE kind[j] = 1
      BY <1>5, <2>2, <3>2, <3>3 DEF UnlinkTemp, Goto, TypeOK, JobsAtWork, given, tarVars, Steps, Renaming, Tarring, Renames
    <3>4. CASE kind[j] # 1
      BY <1>5, <2>2, <3>2, <3>4 DEF UnlinkTemp, Goto, TypeOK, JobsAtWork, given, tarVars, Steps, Renaming, Tarring, Renames
    <3> QED
      BY <3>3, <3>4
  <2> QED
    BY <2>1, <2>2
<1>6. CASE StoreProducts(j)
    BY <1>0, <1>6 DEF StoreProducts, Goto, TypeOK, JobsAtWork, given, trackVars, tarVars, Steps, Renaming, Tarring, Renames
<1>7. CASE ConfigureTars(j)
  <2>1. j \in TarJobs
    BY <1>7 DEF ConfigureTars, TarJobs
  <2>2. CASE IsRestart(j) /\ j \notin due
    BY <1>7, <2>2 DEF ConfigureTars, Goto, TypeOK, JobsAtWork, given, trackVars, Steps, Renaming, Tarring, Renames
  <2>3. CASE ~(IsRestart(j) /\ j \notin due)
    <3>1. list' \in [Lists -> SUBSET (Tarballs \cup NoList)] /\ left' \in [Jobs -> Seq(Tarballs)]
      <4>1. ToSet(Datasets(j)) \ empty \in SUBSET (Tarballs \cup NoList)
        BY <2>1, OwnTarballs
      <4>2. list' = [list EXCEPT ![ListOf(j)] = ToSet(Datasets(j)) \ empty]
            /\ left' = [left EXCEPT ![j] = Datasets(j)]
        BY <1>7, <2>3 DEF ConfigureTars
      <4> QED
        BY <2>1, <4>1, <4>2, OwnTarballs DEF TypeOK
    <3>2. staged' \in BOOLEAN
      BY <1>7, <2>3 DEF ConfigureTars, StagedBy, TypeOK
    <3> QED
      <4>1. pc' = [pc EXCEPT ![j] = "tar"] /\ pc[j] = "configure"
        BY <1>7, <2>3 DEF ConfigureTars, Goto
      <4>2. TypeOK'
        BY <1>7, <3>1, <3>2, <4>1 DEF ConfigureTars, TypeOK, given, trackVars, Steps
      <4>3. JobsAtWork'
        BY <1>7, <2>1, <2>3, <4>1 DEF ConfigureTars, TypeOK, JobsAtWork, given, Renaming, Tarring, Renames
      <4> QED
        BY <4>2, <4>3
  <2> QED
    BY <2>2, <2>3
<1>8. CASE ConfigureFails(j)
    BY <1>0, <1>8, FailsSteps DEF ConfigureFails, StagedBy, TypeOK, JobsAtWork, given, Renaming, Tarring, Renames
<1>9. CASE OpenTarball(j)
  <2>1. left[j] \in Seq(Tarballs) /\ left[j] # <<>> /\ pc[j] = "tar"
    BY <1>9 DEF OpenTarball, TypeOK
  <2>2. Head(left[j]) \in Tarballs /\ Tail(left[j]) \in Seq(Tarballs)
    BY <2>1, HeadAndTail
  <2>3. CASE Head(left[j]) \in empty
    <3>1. left' = [left EXCEPT ![j] = Tail(@)] /\ UNCHANGED <<pc, tarball>>
      BY <1>9, <2>3 DEF OpenTarball
    <3>2. left' \in [Jobs -> Seq(Tarballs)]
      BY <2>2, <3>1 DEF TypeOK
    <3> QED
      BY <1>9, <2>1, <3>1, <3>2 DEF OpenTarball, TypeOK, JobsAtWork, given, trackVars, Renaming, Tarring, Renames
  <2>4. CASE Head(left[j]) \notin empty
    <3>1. /\ tarball' = [tarball EXCEPT ![Head(left[j])] = Tar(FALSE, @.protected)]
          /\ pc' = [pc EXCEPT ![j] = "add"] /\ UNCHANGED left
      BY <1>9, <2>4 DEF OpenTarball, Goto
    <3>2. tarball' \in [Tarballs -> [made : BOOLEAN, whole : BOOLEAN, protected : BOOLEAN]]
      BY <2>2, <3>1 DEF TypeOK, Tar
    <3> QED
      BY <1>9, <2>1, <3>1, <3>2 DEF OpenTarball, TypeOK, JobsAtWork, given, trackVars, Steps, Renaming, Tarring, Renames
  <2> QED
    BY <2>3, <2>4
<1>10. CASE AddFiles(j)
  <2>1. left[j] \in Seq(Tarballs) /\ left[j] # <<>> /\ pc[j] = "add"
    BY <1>10 DEF AddFiles, TypeOK, JobsAtWork
  <2>2. Head(left[j]) \in Tarballs /\ Tail(left[j]) \in Seq(Tarballs)
    BY <2>1, HeadAndTail
  <2>3. CASE Head(left[j]) \in Restricted
    BY <1>10, <2>1, <2>2, <2>3 DEF AddFiles, Tar, Goto, TypeOK, JobsAtWork, given, trackVars, Steps, Renaming, Tarring, Renames
  <2>4. CASE Head(left[j]) \notin Restricted
    <3>1. /\ tarball' = [tarball EXCEPT ![Head(left[j])] = Tar(TRUE, @.protected)]
          /\ pc' = [pc EXCEPT ![j] = "tar"] /\ left' = [left EXCEPT ![j] = Tail(@)]
      BY <1>10, <2>4 DEF AddFiles, Goto
    <3>2. tarball' \in [Tarballs -> [made : BOOLEAN, whole : BOOLEAN, protected : BOOLEAN]]
      BY <2>2, <3>1 DEF TypeOK, Tar
    <3>3. left' \in [Jobs -> Seq(Tarballs)]
      BY <2>2, <3>1 DEF TypeOK
    <3> QED
      BY <1>10, <2>1, <3>1, <3>2, <3>3 DEF AddFiles, TypeOK, JobsAtWork, given, trackVars, Steps, Renaming, Tarring, Renames
  <2> QED
    BY <2>3, <2>4
<1>11. CASE Protect(j)
    BY <1>11, HeadAndTail DEF Protect, Goto, TypeOK, JobsAtWork, given, trackVars, Steps, Renaming, Tarring, Renames, Tar
<1>12. CASE TarballFails(j)
  <2>1. left[j] \in Seq(Tarballs) /\ left[j] # <<>>
    BY <1>12 DEF TarballFails, TypeOK, JobsAtWork
  <2>2. Head(left[j]) \in Tarballs
    BY <2>1, HeadAndTail
  <2>3. tarball' \in [Tarballs -> [made : BOOLEAN, whole : BOOLEAN, protected : BOOLEAN]]
    <3>1. tarball' = tarball \/ tarball' = [tarball EXCEPT ![Head(left[j])] = NoTarball]
      BY <1>12 DEF TarballFails
    <3> QED
      <4>1. NoTarball \in [made : BOOLEAN, whole : BOOLEAN, protected : BOOLEAN]
        BY DEF NoTarball
      <4> QED
        BY <2>2, <3>1, <4>1 DEF TypeOK
  <2> QED
    BY <1>12, <2>3, FailsSteps DEF TarballFails, TypeOK, JobsAtWork, given, Renaming, Tarring, Renames
<1>13. CASE TarsMade(j)
    BY <1>13 DEF TarsMade, Goto, TypeOK, JobsAtWork, given, trackVars, Steps, Renaming, Tarring, Renames
<1>14. CASE Kill(j)
  <2>1. track' \in [Runs -> [1..2 -> Contents]]
    <3>1. track' = track \/ track' = [track EXCEPT ![j.run] = [@ EXCEPT ![kind[j]] = Cut]]
      BY <1>14 DEF Kill
    <3>2. Cut \in Contents /\ kind[j] \in 1..2 /\ track[j.run] \in [1..2 -> Contents]
      BY <1>0 DEF Contents, TypeOK
    <3> QED
      <4>1. [track[j.run] EXCEPT ![kind[j]] = Cut] \in [1..2 -> Contents]
        BY <3>2
      <4> QED
        BY <1>0, <3>1, <4>1 DEF TypeOK
  <2> QED
    BY <1>14, <2>1, FailsSteps DEF Kill, TypeOK, JobsAtWork, given, tarVars, Renaming, Tarring, Renames
<1> QED
    BY <1>1, <1>2, <1>3, <1>4, <1>5, <1>6, <1>7, <1>8, <1>9, <1>10, <1>11, <1>12, <1>13, <1>14 DEF Work

LEMMA SendTypes ==
    ASSUME TypeOK, JobsAtWork, NEW l \in Lists, Send(l)
    PROVE  TypeOK' /\ JobsAtWork'
<1>1. sent' \in [Lists -> SUBSET (Tarballs \cup NoList)]
    BY DEF Send, TypeOK
<1> QED
    BY <1>1 DEF Send, TypeOK, JobsAtWork, given, tarVars, trackVars, Renames

LEMMA NextTypes == TypeOK /\ JobsAtWork /\ [Next]_vars => TypeOK' /\ JobsAtWork'
<1> SUFFICES ASSUME TypeOK, JobsAtWork, [Next]_vars  PROVE  TypeOK' /\ JobsAtWork'
    OBVIOUS
<1>1. CASE UNCHANGED vars
    BY <1>1 DEF vars, TypeOK, JobsAtWork, Renames
<1> QED
    BY <1>1, WorkTypes, SendTypes DEF Next

\* The jobs are at steps of theirs, and all they write has its type.
THEOREM TypeCorrect == Spec => []TypeOK
<1>1. Spec => [](TypeOK /\ JobsAtWork)
    BY InitTypeOK, NextTypes, PTL DEF Spec
<1> QED
    BY <1>1, PTL

-----------------------------------------------------------------------------
(* A step of one job leaves the steps, tarballs and lists of the others.      *)

LEMMA OthersWork ==
    ASSUME TypeOK, NEW j \in Jobs, Work(j)
    PROVE  /\ running' = running /\ storms' = storms /\ due' = due /\ empty' = empty
           /\ sent' = sent
           /\ \A i \in Jobs \ {j} : pc'[i] = pc[i] /\ left'[i] = left[i] /\ kind'[i] = kind[i]
           /\ \A l \in Lists \ {ListOf(j)} : list'[l] = list[l]
           /\ Expdir \notin ToSet(Datasets(j)) => (staged' <=> staged)
<1>1. CASE Start(j) \/ OpenTemp(j) \/ WriteTemp(j) \/ StoreProducts(j)
    BY <1>1 DEF Start, OpenTemp, WriteTemp, StoreProducts, Goto, TypeOK, given, tarVars, trackVars
<1>2. CASE CopyTemp(j) \/ UnlinkTemp(j) \/ Kill(j)
    BY <1>2 DEF CopyTemp, UnlinkTemp, Kill, Fails, Goto, TypeOK, given, tarVars
<1>3. CASE ConfigureTars(j)
    BY <1>3 DEF ConfigureTars, StagedBy, Goto, TypeOK, given, trackVars
<1>4. CASE ConfigureFails(j) \/ TarballFails(j)
    BY <1>4 DEF ConfigureFails, TarballFails, StagedBy, Fails, Goto, TypeOK, given
<1>5. CASE OpenTarball(j)
    BY <1>5 DEF OpenTarball, Goto, TypeOK, given, trackVars
<1>6. CASE AddFiles(j)
    BY <1>6 DEF AddFiles, Goto, TypeOK, given, trackVars
<1>7. CASE Protect(j)
    BY <1>7 DEF Protect, Goto, TypeOK, given, trackVars
<1>8. CASE TarsMade(j)
    BY <1>8 DEF TarsMade, Goto, TypeOK, given, trackVars
<1> QED
    BY <1>1, <1>2, <1>3, <1>4, <1>5, <1>6, <1>7, <1>8 DEF Work

LEMMA OthersTarballs ==
    ASSUME TarInv, NEW j \in Jobs, Work(j),
           NEW d \in Tarballs, d \notin ToSet(Datasets(j))
    PROVE  tarball'[d] = tarball[d]
<1>1. CASE UNCHANGED tarball
    BY <1>1
<1>2. CASE OpenTarball(j) \/ AddFiles(j) \/ Protect(j) \/ TarballFails(j)
  <2>1. j \in TarJobs /\ left[j] \in Seq(Tarballs) /\ left[j] # <<>>
    BY <1>2 DEF OpenTarball, AddFiles, Protect, TarballFails, TarInv, TypeOK, JobsAtWork, Tarring
  <2>2. Head(left[j]) \in ToSet(Datasets(j))
    BY <2>1, HeadAndTail DEF TarInv, TarsInOrder, InOrder
  <2> QED
    BY <1>2, <2>2 DEF OpenTarball, AddFiles, Protect, TarballFails, TarInv, TypeOK
<1> QED
    BY <1>1, <1>2
    DEF Work, Start, OpenTemp, WriteTemp, CopyTemp, UnlinkTemp, StoreProducts,
        ConfigureTars, ConfigureFails, TarsMade, Kill, tarVars

LEMMA OthersInOrder ==
    ASSUME TarInv, NEW j \in Jobs, Work(j), NEW i \in TarJobs \ {j}
    PROVE  (InOrder(i) /\ EndsWell(i))'
<1>1. i \in Jobs /\ ToSet(Datasets(i)) \subseteq Tarballs /\ InOrder(i) /\ EndsWell(i)
    BY OwnTarballs DEF TarInv, TarsInOrder
<1>2. /\ pc'[i] = pc[i] /\ left'[i] = left[i] /\ due' = due /\ empty' = empty
      /\ Expdir \in ToSet(Datasets(i)) => (staged' <=> staged)
    BY <1>1, OthersWork, ArchiveAssumption DEF TarInv
<1>3. \A d \in ToSet(Datasets(i)) : tarball'[d] = tarball[d]
    BY <1>1, OthersTarballs, ArchiveAssumption
<1>4. Made(i)' = Made(i) /\ Made(i) \subseteq ToSet(Datasets(i))
    BY <1>2 DEF Made
<1>5. \A d \in ToSet(Datasets(i)) : Complete(d)' <=> Complete(d)
    BY <1>3 DEF Complete
<1>6. EndsWell(i)'
    BY <1>1, <1>2, <1>4, <1>5 DEF EndsWell
<1>7. pc[i] \in {"add", "protect"} => Head(left[i]) \in ToSet(Datasets(i))
  <2>1. left[i] \in Seq(Tarballs) /\ (pc[i] \in {"add", "protect"} => left[i] # <<>>)
    BY <1>1 DEF TarInv, TypeOK, JobsAtWork
  <2> QED
    BY <1>1, <2>1, HeadAndTail DEF InOrder
<1>8. InOrder(i)'
    BY <1>1, <1>2, <1>3, <1>5, <1>7 DEF InOrder
<1> QED
    BY <1>6, <1>8

LEMMA OwnInOrder ==
    ASSUME TarInv, NEW j \in TarJobs, Work(j)
    PROVE  (InOrder(j) /\ EndsWell(j))'
<1> DEFINE Mine == ToSet(Datasets(j))
<1>1. j \in Jobs /\ Mine \subseteq Tarballs /\ Datasets(j) \in Seq(Tarballs)
    BY OwnTarballs
<1>2. InOrder(j) /\ EndsWell(j) /\ left[j] \in Seq(Tarballs) /\ pc[j] # "done"
    BY <1>1 DEF TarInv, TarsInOrder, TypeOK, Work, Start, OpenTemp, WriteTemp, CopyTemp,
                UnlinkTemp, StoreProducts, ConfigureTars, ConfigureFails, OpenTarball,
                AddFiles, Protect, TarballFails, TarsMade, Kill
<1>3. /\ due' = due /\ empty' = empty
      /\ pc[j] \in {"tar", "add", "protect"} => (IsRestart(j) => j \in due)
    BY <1>1, OthersWork DEF TarInv, JobsAtWork, Tarring
<1>4. left[j] # <<>> => /\ Head(left[j]) \in Tarballs \cap Mine
                        /\ ToSet(left[j]) = {Head(left[j])} \cup ToSet(Tail(left[j]))
    BY <1>2, HeadAndTail DEF InOrder
<1>5. ASSUME pc'[j] \in Steps \ {"done", "tar", "add", "protect"}, left'[j] = left[j]
      PROVE  (InOrder(j) /\ EndsWell(j))'
    BY <1>2, <1>5 DEF InOrder, EndsWell, Tarring
<1>6. CASE Start(j) \/ OpenTemp(j) \/ WriteTemp(j) \/ CopyTemp(j) \/ UnlinkTemp(j)
           \/ ConfigureFails(j) \/ TarballFails(j) \/ Kill(j)
    BY <1>1, <1>5, <1>6
    DEF TarInv, TypeOK, Start, OpenTemp, WriteTemp, CopyTemp, UnlinkTemp, ConfigureFails,
        TarballFails, Kill, Fails, Goto, tarVars, Steps
<1>7. CASE StoreProducts(j)
    BY <1>7 DEF StoreProducts, TarJobs
<1>8. CASE ConfigureTars(j)
  <2>1. CASE IsRestart(j) /\ j \notin due
    BY <1>1, <1>2, <1>3, <1>8, <2>1
    DEF TarInv, TypeOK, ConfigureTars, Goto, InOrder, EndsWell, Made, Tarring
  <2>2. CASE ~(IsRestart(j) /\ j \notin due)
    <3>1. pc'[j] = "tar" /\ left'[j] = Datasets(j)
      BY <1>1, <1>8, <2>2 DEF TarInv, TypeOK, ConfigureTars, Goto
    <3> QED
      BY <3>1 DEF InOrder, EndsWell
  <2> QED
    BY <2>1, <2>2
<1>9. CASE OpenTarball(j)
  <2>1. pc[j] = "tar" /\ left[j] # <<>>
    BY <1>9 DEF OpenTarball
  <2>2. CASE Head(left[j]) \in empty
    <3>1. pc'[j] = "tar" /\ left'[j] = Tail(left[j]) /\ tarball' = tarball
      BY <1>1, <1>9, <2>1, <2>2 DEF OpenTarball, TarInv, TypeOK
    <3> QED
      BY <1>2, <1>3, <1>4, <2>1, <2>2, <3>1 DEF InOrder, EndsWell, Tarring, Complete
  <2>3. CASE Head(left[j]) \notin empty
    <3>1. /\ pc'[j] = "add" /\ left'[j] = left[j]
          /\ \A d \in Tarballs \ {Head(left[j])} : tarball'[d] = tarball[d]
      BY <1>1, <1>9, <2>1, <2>3 DEF OpenTarball, Goto, TarInv, TypeOK
    <3> QED
      BY <1>1, <1>2, <1>3, <1>4, <2>1, <2>3, <3>1 DEF InOrder, EndsWell, Tarring, Complete
  <2> QED
    BY <2>2, <2>3
<1>10. CASE AddFiles(j)
  <2>1. pc[j] = "add" /\ left[j] # <<>>
    BY <1>1, <1>10 DEF AddFiles, TarInv, JobsAtWork
  <2>2. /\ tarball'[Head(left[j])].whole
        /\ \A d \in Tarballs \ {Head(left[j])} : tarball'[d] = tarball[d]
    BY <1>4, <1>10, <2>1 DEF AddFiles, Tar, TarInv, TypeOK
  <2>3. CASE Head(left[j]) \in Restricted
    <3>1. pc'[j] = "protect" /\ left'[j] = left[j]
      BY <1>1, <1>10, <2>3 DEF AddFiles, Goto, TarInv, TypeOK
    <3> QED
      BY <1>1, <1>2, <1>3, <1>4, <2>1, <2>2, <3>1 DEF InOrder, EndsWell, Tarring, Complete
  <2>4. CASE Head(left[j]) \notin Restricted
    <3>1. pc'[j] = "tar" /\ left'[j] = Tail(left[j])
      BY <1>1, <1>10, <2>4 DEF AddFiles, Goto, TarInv, TypeOK
    <3> QED
      BY <1>1, <1>2, <1>3, <1>4, <2>1, <2>2, <2>4, <3>1 DEF InOrder, EndsWell, Tarring, Complete
  <2> QED
    BY <2>3, <2>4
<1>11. CASE Protect(j)
  <2>1. pc[j] = "protect" /\ left[j] # <<>>
    BY <1>1, <1>11 DEF Protect, TarInv, JobsAtWork
  <2>2. /\ tarball'[Head(left[j])] = Tar(tarball[Head(left[j])].whole, TRUE)
        /\ \A d \in Tarballs \ {Head(left[j])} : tarball'[d] = tarball[d]
        /\ pc'[j] = "tar" /\ left'[j] = Tail(left[j])
    BY <1>1, <1>4, <1>11, <2>1 DEF Protect, Goto, TarInv, TypeOK
  <2>3. tarball'[Head(left[j])].whole /\ tarball'[Head(left[j])].protected
    BY <1>2, <2>1, <2>2 DEF Tar, InOrder
  <2> QED
    BY <1>1, <1>2, <1>3, <1>4, <2>1, <2>2, <2>3 DEF InOrder, EndsWell, Tarring, Complete
<1>12. CASE TarsMade(j)
  <2>1. /\ pc[j] = "tar" /\ left[j] = <<>> /\ pc'[j] = "done"
        /\ left'[j] = left[j] /\ tarball' = tarball /\ (Expdir \in Mine => ~staged')
    BY <1>1, <1>12 DEF TarsMade, Goto, TarInv, TypeOK
  <2>2. ToSet(left[j]) = {}
    BY <2>1 DEF ToSet
  <2>3. \A d \in Mine \ empty : Complete(d)
    BY <1>2, <2>1, <2>2 DEF InOrder, Tarring
  <2>4. Made(j)' \subseteq Mine \ empty
    BY <1>3 DEF Made
  <2>5. EndsWell(j)'
    BY <2>1, <2>3, <2>4 DEF EndsWell, Complete
  <2> QED
    BY <1>2, <2>1, <2>5 DEF InOrder, Tarring
<1> QED
    BY <1>6, <1>7, <1>8, <1>9, <1>10, <1>11, <1>12 DEF Work

LEMMA InitTarInv == Init => TarInv
<1> SUFFICES ASSUME Init  PROVE  TarsInOrder
    BY InitTypeOK DEF TarInv
<1>1. \A j \in Jobs : pc[j] = "idle" /\ ToSet(left[j]) = {}
    BY DEF Init, ToSet
<1> QED
    BY <1>1 DEF TarsInOrder, InOrder, EndsWell, Tarring, TarJobs

LEMMA NextTarInv == TarInv /\ [Next]_vars => TarInv'
<1> SUFFICES ASSUME TarInv, [Next]_vars  PROVE  TarsInOrder'
    BY NextTypes DEF TarInv
<1>1. ASSUME NEW j \in Jobs, Work(j)  PROVE  TarsInOrder'
    BY <1>1, OthersInOrder, OwnInOrder DEF TarsInOrder, TarJobs
<1>2. ASSUME NEW l \in Lists, Send(l)  PROVE  TarsInOrder'
    BY <1>2 DEF Send, given, tarVars, TarInv, TarsInOrder, InOrder, EndsWell, Made, Complete
<1>3. CASE UNCHANGED vars
    BY <1>3 DEF vars, TarInv, TarsInOrder, InOrder, EndsWell, Made, Complete
<1> QED
    BY <1>1, <1>2, <1>3 DEF Next

\* What a tar job that ended well has left: all its tarballs whole, those with
\* restricted data protected, and no copy of the EXPDIR.
THEOREM TarsComplete == Spec => []TarballsComplete
<1>1. Spec => []TarInv
    BY InitTarInv, NextTarInv, PTL DEF Spec
<1>2. TarInv => TarballsComplete
    BY DEF TarInv, TarsInOrder, EndsWell, TarballsComplete
<1> QED
    BY <1>1, <1>2, PTL

-----------------------------------------------------------------------------
(* Lists: the one job of a group writes its list, and is done once it is sent. *)

LEMMA OneJobOfGroup ==
    ASSUME NEW i \in TarJobs, NEW j \in TarJobs, j.group >= 0, ListOf(i) = ListOf(j)
    PROVE  i = j
BY ArchiveAssumption DEF ListOf

LEMMA InitGroupLists == Init => GroupLists
BY OwnTarballs DEF Init, GroupLists

LEMMA WorkGroupLists ==
    ASSUME TypeOK, JobsAtWork, GroupLists, NEW i \in Jobs, Work(i)
    PROVE  GroupLists'
<1> SUFFICES ASSUME NEW j \in TarJobs, j.group >= 0
             PROVE  (/\ list[ListOf(j)] # NoList => list[ListOf(j)] = Made(j) /\ j \in running
                     /\ sent[ListOf(j)] # NoList =>
                            sent[ListOf(j)] = list[ListOf(j)] /\ pc[j] = "done")'
    BY DEF GroupLists
<1> DEFINE l == ListOf(j)
<1>1. /\ j \in Jobs /\ l \in Lists /\ running' = running /\ due' = due /\ empty' = empty
      /\ sent' = sent /\ l' = l /\ Made(j)' = Made(j)
    BY OwnTarballs, OthersWork DEF ListOf, Made
<1>2. pc[i] # "done" /\ (pc[i] = "configure" => i \in running)
    BY DEF JobsAtWork, Work, Start, OpenTemp, WriteTemp, CopyTemp, UnlinkTemp, StoreProducts,
           ConfigureTars, ConfigureFails, OpenTarball, AddFiles, Protect, TarballFails,
           TarsMade, Kill
<1>3. CASE i # j
  <2>1. pc'[j] = pc[j] /\ (i \in TarJobs => ListOf(i) # l)
    BY <1>1, <1>3, OthersWork, OneJobOfGroup
  <2>2. list'[l] = list[l]
    BY <1>1, <2>1, OthersWork, OneJobOfGroup
    DEF Work, Start, OpenTemp, WriteTemp, CopyTemp, UnlinkTemp, StoreProducts, ConfigureTars,
        ConfigureFails, OpenTarball, AddFiles, Protect, TarballFails, TarsMade, Kill, tarVars,
        TarJobs
  <2> QED
    BY <1>1, <2>1, <2>2 DEF GroupLists
<1>4. CASE i = j
  <2>1. sent'[l] = NoList
    BY <1>1, <1>2, <1>4 DEF GroupLists
  <2>2. CASE UNCHANGED list
    BY <1>1, <2>1, <2>2 DEF GroupLists
  <2>3. CASE ConfigureTars(j) /\ ~UNCHANGED list
    <3>1. list' = [list EXCEPT ![l] = ToSet(Datasets(j)) \ empty] /\ pc[j] = "configure"
          /\ ~(IsRestart(j) /\ j \notin due)
      BY <2>3 DEF ConfigureTars
    <3>2. list'[l] = Made(j)
      BY <1>1, <3>1 DEF TypeOK, Made
    <3> QED
      BY <1>1, <1>2, <1>4, <2>1, <3>1, <3>2
  <2> QED
    BY <1>4, <2>2, <2>3
    DEF Work, Start, OpenTemp, WriteTemp, CopyTemp, UnlinkTemp, StoreProducts, ConfigureFails,
        OpenTarball, AddFiles, Protect, TarballFails, TarsMade, Kill, tarVars
<1> QED
    BY <1>3, <1>4

LEMMA SendGroupLists ==
    ASSUME TypeOK, GroupLists, NEW m \in Lists, Send(m)
    PROVE  GroupLists'
<1> SUFFICES ASSUME NEW j \in TarJobs, j.group >= 0
             PROVE  (/\ list[ListOf(j)] # NoList => list[ListOf(j)] = Made(j) /\ j \in running
                     /\ sent[ListOf(j)] # NoList =>
                            sent[ListOf(j)] = list[ListOf(j)] /\ pc[j] = "done")'
    BY DEF GroupLists
<1>1. /\ ListOf(j) \in Lists /\ ListOf(j)' = ListOf(j) /\ Made(j)' = Made(j)
      /\ list' = list /\ running' = running /\ pc' = pc
    BY OwnTarballs DEF Send, given, tarVars, Made, ListOf
<1>2. CASE m = ListOf(j)
  <2>1. m[1] = j.run /\ list[m] # NoList /\ sent'[m] = list[m]
    BY <1>1, <1>2 DEF ListOf, Send, TypeOK
  <2>2. j \in running \cap TarJobs
    BY <1>2, <2>1 DEF GroupLists
  <2>3. pc[j] = "done"
    BY <2>1, <2>2 DEF Send
  <2> QED
    BY <1>1, <1>2, <2>1, <2>3 DEF GroupLists
<1>3. CASE m # ListOf(j)
  <2>1. sent'[ListOf(j)] = sent[ListOf(j)]
    BY <1>1, <1>3 DEF Send, TypeOK
  <2> QED
    BY <1>1, <2>1 DEF GroupLists
<1> QED
    BY <1>2, <1>3

\* The globus job of a group of members sends what its earc_tars job makes, all
\* of it, and sends it whole.
THEOREM GroupsAreSent == Spec => []GroupsSent
<1>1. Init => TarInv /\ GroupLists
    BY InitTarInv, InitGroupLists
<1>2. TarInv /\ GroupLists /\ [Next]_vars => (TarInv /\ GroupLists)'
  <2> SUFFICES ASSUME TarInv, GroupLists, [Next]_vars  PROVE  GroupLists'
      BY NextTarInv
  <2>1. CASE UNCHANGED vars
    BY <2>1 DEF vars, GroupLists, ListOf, Made
  <2> QED
    BY <2>1, WorkGroupLists, SendGroupLists DEF TarInv, Next
<1>3. TarInv /\ GroupLists => GroupsSent
  <2> SUFFICES ASSUME TarInv, GroupLists, NEW l \in Lists, l[2] >= 0, sent[l] # NoList
               PROVE  sent[l] = ToSend(l) /\ \A d \in sent[l] : Complete(d)
      BY DEF GroupsSent
  <2>1. PICK j \in TarJobs : l = ListOf(j)
      BY DEF Lists
  <2>2. j.group >= 0
      BY <2>1 DEF ListOf
  <2>3. sent[l] = Made(j) /\ j \in running /\ pc[j] = "done"
      BY <2>1, <2>2 DEF GroupLists
  <2>4. {i \in running \cap TarJobs : ListOf(i) = l} = {j}
      BY <2>1, <2>2, <2>3, OneJobOfGroup
  <2>5. ToSend(l) = Made(j)
      BY <2>4 DEF ToSend
  <2>6. \A d \in Made(j) : Complete(d)
      BY <2>3 DEF TarInv, TarsInOrder, EndsWell
  <2> QED
      BY <2>3, <2>5, <2>6
<1> QED
    BY <1>1, <1>2, <1>3, PTL DEF Spec

-----------------------------------------------------------------------------
(* Tracks: what arch_vrfy reads from /tmp/track_file is what it wrote.        *)

LEMMA InitTrackInv == Init => TrackInv
<1> SUFFICES ASSUME Init  PROVE  TrackInv
    OBVIOUS
<1>1. \A j \in Jobs : pc[j] = "idle"
    BY DEF Init
<1>2. linked = {} /\ StormRuns
    BY DEF Init, StormRuns
<1>3. VrfyAlone /\ OpenFiles /\ TracksOwn
    BY <1>1, <1>2 DEF VrfyAlone, OpenFiles, TracksOwn, OwnTracks, Renaming, TarJobs
<1> QED
    BY <1>2, <1>3, InitTypeOK DEF TrackInv

LEMMA WorkVrfyAlone ==
    ASSUME TypeOK, JobsAtWork, VrfyAlone, NEW i \in Jobs, Work(i)
    PROVE  VrfyAlone'
<1> SUFFICES ASSUME NEW v \in (Jobs \ TarJobs) \cap running', pc'[v] # "done",
                    NEW t \in TarJobs, t.run = v.run
             PROVE  pc'[t] = "idle"
    BY DEF VrfyAlone
<1>1. pc[i] # "done" /\ v \in running
    BY OthersWork DEF Work, Start, OpenTemp, WriteTemp, CopyTemp, UnlinkTemp, StoreProducts,
           ConfigureTars, ConfigureFails, OpenTarball, AddFiles, Protect, TarballFails,
           TarsMade, Kill
<1>2. pc[v] # "done" /\ t \in Jobs
    BY <1>1, OthersWork DEF TarJobs
<1>3. pc[t] = "idle"
    BY <1>1, <1>2 DEF VrfyAlone
<1>4. i # t
  <2>1. ~Start(t)
    BY <1>1, <1>2 DEF Start
  <2> QED
    BY <1>3, <2>1
    DEF Work, OpenTemp, WriteTemp, CopyTemp, UnlinkTemp, StoreProducts, ConfigureTars,
        ConfigureFails, OpenTarball, AddFiles, Protect, TarballFails, TarsMade, Kill
<1> QED
    BY <1>2, <1>3, <1>4, OthersWork

LEMMA WorkOpenFiles ==
    ASSUME TypeOK, OpenFiles, NEW i \in Jobs, Work(i)
    PROVE  OpenFiles'
<1> SUFFICES ASSUME NEW j \in linked'  PROVE  pc'[j] = "write"
    BY DEF OpenFiles
<1>1. CASE OpenTemp(i)
    BY <1>1 DEF OpenTemp, Goto, TypeOK, OpenFiles
<1>2. CASE WriteTemp(i)
    BY <1>2 DEF WriteTemp, Goto, TypeOK, OpenFiles
<1>3. CASE linked' \subseteq linked \ {i}
    BY <1>3, OthersWork DEF TypeOK, OpenFiles
<1>4. CASE linked' \subseteq linked /\ pc[i] # "write"
    BY <1>4, OthersWork DEF TypeOK, OpenFiles
<1> QED
    BY <1>1, <1>2, <1>3, <1>4
    DEF Work, Start, CopyTemp, UnlinkTemp, StoreProducts, ConfigureTars, ConfigureFails,
        OpenTarball, AddFiles, Protect, TarballFails, TarsMade, Kill, Fails, trackVars

LEMMA OthersTracks ==
    ASSUME RenamesAlone, RenamesAlone', TrackInv, NEW i \in Jobs, Work(i),
           NEW j \in Jobs \ TarJobs, i # j, j.run \in storms, OwnTracks(j)
    PROVE  OwnTracks(j)'
<1>1. /\ pc'[j] = pc[j] /\ kind'[j] = kind[j] /\ j.run \in {"gdas", "gfs"} /\ j.run \in Runs
      /\ NodeOf(i) \in Nodes /\ NodeOf(j) \in Nodes
    BY OthersWork DEF TrackInv, StormRuns, Runs, Nodes
<1>2. i \notin TarJobs => i.run # j.run
    BY ArchiveAssumption
<1>3. arcdir'[j.run] = arcdir[j.run]
  <2>1. CASE StoreProducts(i)
    BY <1>1, <1>2, <2>1 DEF StoreProducts, TarJobs, TrackInv, TypeOK
  <2> QED
    BY <2>1
    DEF Work, Start, OpenTemp, WriteTemp, CopyTemp, UnlinkTemp, ConfigureTars, ConfigureFails,
        OpenTarball, AddFiles, Protect, TarballFails, TarsMade, Kill
<1>4. ASSUME pc[j] \in Renaming \cup {"configure"}
      PROVE  i.run # j.run
  <2>1. j \in running /\ pc[j] # "done" /\ pc[j] # "idle"
    BY <1>4 DEF TrackInv, JobsAtWork, Renaming
  <2>2. CASE i \in TarJobs /\ i.run = j.run
    <3>1. pc[i] = "idle"
      BY <2>1, <2>2 DEF TrackInv, VrfyAlone
    <3>2. Start(i)
      BY <3>1
      DEF Work, OpenTemp, WriteTemp, CopyTemp, UnlinkTemp, StoreProducts, ConfigureTars,
          ConfigureFails, OpenTarball, AddFiles, Protect, TarballFails, TarsMade, Kill
    <3> QED
      BY <2>1, <2>2, <3>2 DEF Start
  <2> QED
    BY <1>2, <2>2
<1>5. ASSUME i.run # j.run  PROVE  track'[j.run] = track[j.run]
    BY <1>1, <1>5
    DEF Work, Start, OpenTemp, WriteTemp, CopyTemp, UnlinkTemp, StoreProducts, ConfigureTars,
        ConfigureFails, OpenTarball, AddFiles, Protect, TarballFails, TarsMade, Kill,
        trackVars, TrackInv, TypeOK
<1>6. ASSUME i.run # j.run, InTemp(j)
      PROVE  tmp'[NodeOf(j)] = tmp[NodeOf(j)] /\ (j \in linked => j \in linked')
  <2>1. ASSUME InTemp(i) \/ InTemp(i)'  PROVE  NodeOf(i) # NodeOf(j)
    BY <1>1, <1>6, <2>1 DEF RenamesAlone, InTemp
  <2>2. CASE OpenTemp(i)
    <3>1. pc'[i] = "write"
      BY <2>2 DEF OpenTemp, Goto, TrackInv, TypeOK
    <3> QED
      BY <1>1, <2>1, <2>2, <3>1 DEF OpenTemp, InTemp, TrackInv, TypeOK
  <2>3. CASE WriteTemp(i)
    <3>1. tmp' = tmp \/ \E c \in {Content(i), Mixed} : tmp' = [tmp EXCEPT ![NodeOf(i)] = c]
      BY <2>3 DEF WriteTemp
    <3>2. /\ NodeOf(i) # NodeOf(j) /\ tmp \in [Nodes -> Contents]
          /\ linked' = linked \ {i}
      BY <2>1, <2>3 DEF WriteTemp, InTemp, TrackInv, TypeOK
    <3> QED
      BY <1>1, <1>6, <3>1, <3>2
  <2>4. CASE UnlinkTemp(i)
    <3>1. NodeOf(i) # NodeOf(j) /\ tmp \in [Nodes -> Contents]
      BY <2>1, <2>4 DEF UnlinkTemp, InTemp, TrackInv, TypeOK
    <3>2. CASE tmp[NodeOf(i)] = None
      BY <1>6, <2>4, <3>2 DEF UnlinkTemp, Fails
    <3>3. CASE tmp[NodeOf(i)] # None
      BY <1>1, <2>4, <3>1, <3>3 DEF UnlinkTemp
    <3> QED
      BY <3>2, <3>3
  <2>5. CASE UNCHANGED tmp /\ (linked' = linked \/ linked' = linked \ {i})
    BY <1>6, <2>5
  <2> QED
    BY <2>2, <2>3, <2>4, <2>5
    DEF Work, Start, CopyTemp, StoreProducts, ConfigureTars, ConfigureFails, OpenTarball,
        AddFiles, Protect, TarballFails, TarsMade, Kill, Fails, trackVars
<1>7. CASE pc[j] \in Renaming \cup {"configure"}
    BY <1>1, <1>4, <1>5, <1>6, <1>7 DEF OwnTracks, Own, Content, Renaming, InTemp
<1>8. CASE pc[j] \notin Renaming \cup {"configure"}
    BY <1>1, <1>3, <1>8 DEF OwnTracks, Renaming
<1> QED
    BY <1>7, <1>8

LEMMA VrfyTracks ==
    ASSUME TrackInv, NEW j \in Jobs \ TarJobs, Work(j), j.run \in storms, OwnTracks(j)
    PROVE  OwnTracks(j)'
<1>1. /\ j \in Jobs /\ j.type = "vrfy" /\ Renames(j) /\ j.run \in Runs /\ NodeOf(j) \in Nodes
      /\ kind[j] \in 1..2
    BY DEF TarJobs, Renames, TrackInv, StormRuns, Runs, Nodes, TypeOK
<1>2. CASE pc'[j] \in {"idle", "dead"}
    BY <1>2 DEF OwnTracks, Renaming
<1>3. CASE Start(j)
    BY <1>1, <1>3 DEF Start, Goto, TrackInv, TypeOK, OwnTracks, Renaming
<1>4. CASE OpenTemp(j)
    BY <1>1, <1>4 DEF OpenTemp, Goto, TrackInv, TypeOK, OwnTracks, Own, Renaming
<1>5. CASE WriteTemp(j)
  <2>1. j \in linked /\ tmp[NodeOf(j)] = Empty
    BY <1>5 DEF WriteTemp, OwnTracks
  <2>2. tmp' = [tmp EXCEPT ![NodeOf(j)] = Content(j)] /\ UNCHANGED <<kind, track>>
    BY <1>5, <2>1 DEF WriteTemp
  <2>3. pc[j] = "write" /\ pc'[j] = "copy"
    BY <1>1, <1>5 DEF WriteTemp, Goto, TrackInv, TypeOK
  <2> QED
    BY <1>1, <2>2, <2>3 DEF TrackInv, TypeOK, OwnTracks, Own, Content, Renaming
<1>6. CASE CopyTemp(j) /\ pc'[j] \notin {"idle", "dead"}
  <2>1. tmp[NodeOf(j)] # None
    BY <1>1, <1>6 DEF CopyTemp, Fails, Goto, TrackInv, TypeOK
  <2>2. /\ pc[j] = "copy" /\ pc'[j] = "unlink" /\ UNCHANGED <<kind, tmp>>
        /\ track' = [track EXCEPT ![j.run] = [@ EXCEPT ![kind[j]] = tmp[NodeOf(j)]]]
    BY <1>1, <1>6, <2>1 DEF CopyTemp, Goto, TrackInv, TypeOK
  <2>3. track'[j.run] = [track[j.run] EXCEPT ![kind[j]] = Content(j)]
    BY <1>1, <2>2 DEF TrackInv, TypeOK, OwnTracks
  <2>4. track[j.run] \in [1..2 -> Contents]
    BY <1>1 DEF TrackInv, TypeOK
  <2>5. Own(j, kind[j])' /\ (kind[j] = 2 => Own(j, 1)')
    BY <1>1, <2>2, <2>3, <2>4 DEF Own, Content, OwnTracks, Renaming
  <2> QED
    BY <2>2, <2>5 DEF OwnTracks, Content
<1>7. CASE UnlinkTemp(j) /\ pc'[j] \notin {"idle", "dead"}
  <2>1. tmp[NodeOf(j)] # None
    BY <1>1, <1>7 DEF UnlinkTemp, Fails, Goto, TrackInv, TypeOK
  <2>2. /\ pc[j] = "unlink" /\ kind'[j] = 2 /\ UNCHANGED track
        /\ pc'[j] = IF kind[j] = 1 THEN "open" ELSE "configure"
    BY <1>1, <1>7, <2>1 DEF UnlinkTemp, Goto, TrackInv, TypeOK
  <2>3. Own(j, kind[j]) /\ (kind[j] = 2 => Own(j, 1))
    BY <2>2 DEF OwnTracks, Renaming
  <2> QED
    BY <1>1, <2>2, <2>3 DEF OwnTracks, Renaming, Own
<1>8. CASE StoreProducts(j)
  <2>1. pc[j] = "configure" /\ pc'[j] = "done" /\ arcdir'[j.run] = track[j.run]
    BY <1>1, <1>8 DEF StoreProducts, Goto, TrackInv, TypeOK
  <2>2. \A k \in 1..2 : Own(j, k)
    BY <2>1 DEF OwnTracks
  <2> QED
    BY <2>1, <2>2 DEF OwnTracks, Own, Renaming
<1>9. ConfigureFails(j) \/ Kill(j) => pc'[j] \in {"idle", "dead"}
    BY <1>1 DEF ConfigureFails, Kill, Fails, Goto, TrackInv, TypeOK
<1>10. pc[j] \notin Tarring
    BY DEF TrackInv, JobsAtWork
<1> QED
    BY <1>1, <1>2, <1>3, <1>4, <1>5, <1>6, <1>7, <1>8, <1>9, <1>10
    DEF Work, ConfigureTars, OpenTarball, AddFiles, Protect, TarballFails, TarsMade, Tarring

LEMMA NextTrackInv ==
    TrackInv /\ RenamesAlone /\ RenamesAlone' /\ [Next]_vars => TrackInv'
<1> SUFFICES ASSUME TrackInv, RenamesAlone, RenamesAlone', [Next]_vars
             PROVE   StormRuns' /\ VrfyAlone' /\ OpenFiles' /\ TracksOwn'
    BY NextTypes DEF TrackInv
<1>1. ASSUME NEW i \in Jobs, Work(i)
      PROVE  StormRuns' /\ VrfyAlone' /\ OpenFiles' /\ TracksOwn'
  <2>1. StormRuns' /\ storms' = storms
    BY <1>1, OthersWork DEF TrackInv, StormRuns
  <2>2. VrfyAlone' /\ OpenFiles'
    BY <1>1, WorkVrfyAlone, WorkOpenFiles DEF TrackInv
  <2>3. TracksOwn'
    BY <1>1, <2>1, OthersTracks, VrfyTracks DEF TrackInv, TracksOwn
  <2> QED
    BY <2>1, <2>2, <2>3
<1>2. ASSUME NEW l \in Lists, Send(l)
      PROVE  StormRuns' /\ VrfyAlone' /\ OpenFiles' /\ TracksOwn'
    BY <1>2 DEF Send, given, tarVars, trackVars, TrackInv, StormRuns, VrfyAlone, OpenFiles,
                TracksOwn, OwnTracks, Own, Content
<1>3. CASE UNCHANGED vars
    BY <1>3 DEF vars, TrackInv, StormRuns, VrfyAlone, OpenFiles, TracksOwn, OwnTracks, Own, Content
<1> QED
    BY <1>1, <1>2, <1>3 DEF Next

\* In every behaviour in which no job of another run uses /tmp/track_file of the
\* node of an arch_vrfy job while that job does (nodes may be shared, and what
\* killed jobs of any run left there stays), the tracks arch_vrfy leaves in
\* ARCDIR are those of its own run and whole.
THEOREM TracksAreOwn == Spec /\ []RenamesAlone => []ArchivedTracksOwn
<1>1. TrackInv => ArchivedTracksOwn
    BY DEF TrackInv, TracksOwn, OwnTracks, ArchivedTracksOwn
<1> QED
    BY <1>1, InitTrackInv, NextTrackInv, PTL DEF Spec
=============================================================================

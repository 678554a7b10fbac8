--------------------------- MODULE SchedulesProofs ---------------------------
(***************************************************************************)
(* What the archive of all cycles adds up to, for any experiment that may  *)
(* be set up.                                                              *)
(***************************************************************************)
EXTENDS Schedules, ArithmeticTheorems, FiniteSetTheorems, SequenceTheorems, TLAPS

\* The cycles that have run and archive: everything is saved, and nothing else.
CycleTimes == {t \in x.SDATE..x.EDATE : (t - x.SDATE) % x.interval = 0}
Past == {c \in CycleTimes : c < cycle /\ Archives(c)}

SavedInv ==
    /\ x \in Experiments
    /\ cycle \in x.SDATE..x.EDATE + x.interval /\ (cycle - x.SDATE) % x.interval = 0
    /\ saved = UNION {SavedAt(x, c) : c \in Past}
    /\ IF jobs = NoJobs THEN cycle = x.SDATE ELSE jobs.members = n_groups(x)

-----------------------------------------------------------------------------
(* The groups of members.                                                  *)

LEMMA GroupCount ==
    ASSUME NEW e \in Experiments
    PROVE  /\ n_groups(e) \in Nat
           /\ e.NMEM_ENS <= e.NMEM_EARCGRP * n_groups(e)
           /\ e.NMEM_EARCGRP * (n_groups(e) - 1) < e.NMEM_ENS
<1> DEFINE N == e.NMEM_ENS
           K == e.NMEM_EARCGRP
           q == (-N) \div K
           r == (-N) % K
<1>1. N \in Nat /\ K \in Nat \ {0}
    BY ScheduleAssumption DEF Configured
<1>2. q \in Int /\ r \in 0..K-1 /\ -N = K * q + r /\ n_groups(e) = -q
  <2>1. -N \in Int
      BY <1>1
  <2> QED
      BY <1>1, <2>1, Quotient DEF n_groups
<1> HIDE DEF N, K, q, r
<1>3. K * (-q) = -(K * q) /\ K * (-q - 1) = -(K * q) - K /\ K * q \in Int
    BY <1>1, <1>2
<1>4. N <= K * (-q) /\ K * (-q - 1) < N
    BY <1>1, <1>2, <1>3
<1>5. -q \in Nat
  <2> SUFFICES ASSUME -q + 1 <= 0 PROVE FALSE
      BY <1>2
  <2>1. K * (-q + 1) <= K * 0 /\ K * (-q + 1) = K * (-q) + K /\ K * (-q) \in Int
      BY <1>1, <1>2, Products
  <2> QED
      BY <1>1, <1>4, <2>1
<1> QED
    BY <1>2, <1>4, <1>5 DEF N, K

\* A group has some of the members, groups have none in common, and every
\* member is in one.
LEMMA GroupHasMembers ==
    ASSUME NEW e \in Experiments, NEW g \in 1..n_groups(e)
    PROVE  GroupMembers(e, g) # {} /\ GroupMembers(e, g) \subseteq 1..e.NMEM_ENS
<1> DEFINE N == e.NMEM_ENS
           K == e.NMEM_EARCGRP
<1>1. N \in Nat /\ K \in Nat \ {0} /\ n_groups(e) \in Nat /\ K * (n_groups(e) - 1) < N
    BY GroupCount, ScheduleAssumption DEF Configured
<1> HIDE DEF N, K
<1>2. K * (g - 1) <= K * (n_groups(e) - 1) /\ 0 <= K * (g - 1)
  <2>1. K * 0 <= K * (g - 1) /\ K * (g - 1) <= K * (n_groups(e) - 1)
      BY <1>1, Products
  <2> QED
      BY <1>1, <2>1
<1>3. K * g = K * (g - 1) + K /\ K * (g - 1) \in Int
    BY <1>1, Products
<1>4. GroupMembers(e, g) = K * (g - 1) + 1 .. Smaller(K * g, N)
  <2>1. (g - 1) * K = K * (g - 1) /\ g * K = K * g
      BY <1>1
  <2> QED
      BY <2>1 DEF GroupMembers, N, K
<1>5. K * (g - 1) + 1 \in GroupMembers(e, g)
    BY <1>1, <1>2, <1>3, <1>4 DEF Smaller
<1>6. GroupMembers(e, g) \subseteq 1..N
    BY <1>1, <1>2, <1>3, <1>4 DEF Smaller
<1> QED
    BY <1>5, <1>6 DEF N

LEMMA GroupsApart ==
    ASSUME NEW e \in Experiments, NEW g \in 1..n_groups(e), NEW h \in 1..n_groups(e), g # h
    PROVE  GroupMembers(e, g) \cap GroupMembers(e, h) = {}
<1> DEFINE K == e.NMEM_EARCGRP
<1>1. K \in Nat \ {0} /\ e.NMEM_ENS \in Nat /\ n_groups(e) \in Nat
    BY GroupCount, ScheduleAssumption DEF Configured
<1>2. ASSUME NEW i \in 1..n_groups(e), NEW j \in 1..n_groups(e), i < j,
             NEW m \in GroupMembers(e, i), NEW n \in GroupMembers(e, j)
      PROVE  m < n
  <2> HIDE DEF K
  <2>1. K * i <= K * (j - 1) /\ K * i \in Int /\ K * (j - 1) \in Int
      BY <1>1, <1>2, Products
  <2>2. (j - 1) * K = K * (j - 1) /\ i * K = K * i /\ (i - 1) * K \in Int
      BY <1>1
  <2>3. m \in Int /\ m <= K * i
      BY <1>1, <2>1, <2>2 DEF GroupMembers, Smaller, K
  <2>4. n \in Int /\ K * (j - 1) < n
      BY <1>1, <2>1, <2>2 DEF GroupMembers, Smaller, K
  <2> QED
      BY <2>1, <2>3, <2>4
<1> QED
    BY <1>1, <1>2, GroupHasMembers

LEMMA GroupOfMember ==
    ASSUME NEW e \in Experiments, NEW m \in 1..e.NMEM_ENS
    PROVE  \E g \in 1..n_groups(e) : m \in GroupMembers(e, g)
<1> DEFINE N == e.NMEM_ENS
           K == e.NMEM_EARCGRP
           n == n_groups(e)
           k == (m - 1) \div K
<1>1. N \in Nat /\ K \in Nat \ {0} /\ n \in Nat /\ N <= K * n
    BY GroupCount, ScheduleAssumption DEF Configured
<1> HIDE DEF N, K, n
<1>2. k \in Int /\ K * k \in Int /\ K * k <= m - 1 /\ m - 1 < K * k + K
  <2>1. m - 1 \in Int
      BY <1>1 DEF N
  <2>2. /\ k \in Int /\ (m - 1) % K \in 0..K-1
        /\ m - 1 = K * k + ((m - 1) % K)
      BY <1>1, <2>1, Quotient
  <2> QED
      BY <1>1, <2>1, <2>2, Products
<1> HIDE DEF k
<1>3. K * (k + 1) = K * k + K /\ K * n \in Int /\ K * 0 = 0
    BY <1>1, <1>2, Products
<1>4. m \in 1..N
    BY DEF N
<1>5. 0 <= k
  <2> SUFFICES ASSUME k + 1 <= 0 PROVE FALSE
      BY <1>2
  <2>1. K * (k + 1) <= K * 0
      BY <1>1, <1>2, Products
  <2> QED
      BY <1>1, <1>2, <1>3, <1>4, <2>1
<1>6. k < n
  <2> SUFFICES ASSUME n <= k PROVE FALSE
      BY <1>1, <1>2
  <2>1. K * n <= K * k
      BY <1>1, <1>2, Products
  <2> QED
      BY <1>1, <1>2, <1>3, <1>4, <2>1
<1>7. k + 1 \in 1..n
    BY <1>1, <1>2, <1>5, <1>6
<1>8. m \in GroupMembers(e, k + 1)
  <2>1. ((k + 1) - 1) * K = K * k /\ (k + 1) * K = K * k + K
      BY <1>1, <1>2, <1>3
  <2> QED
      BY <1>1, <1>2, <1>4, <2>1 DEF GroupMembers, Smaller, N, K
<1> QED
    BY <1>7, <1>8 DEF n

-----------------------------------------------------------------------------
(* What is saved.                                                          *)

LEMMA InitSavedInv == Init => SavedInv
<1> SUFFICES ASSUME Init PROVE SavedInv
    OBVIOUS
<1>1. x \in Experiments /\ jobs = NoJobs /\ cycle = x.SDATE /\ saved = {}
    BY DEF Init
<1>2. /\ x.SDATE \in Int /\ x.EDATE \in Int /\ x.SDATE <= x.EDATE
      /\ x.interval \in Nat \ {0}
    BY <1>1, ScheduleAssumption DEF Configured
<1>3. (cycle - x.SDATE) % x.interval = 0
    BY <1>1, <1>2, Multiple
<1>4. Past = {}
    BY <1>1, <1>2 DEF Past, CycleTimes
<1> QED
    BY <1>1, <1>2, <1>3, <1>4 DEF SavedInv

LEMMA RunCycleSavedInv == SavedInv /\ RunCycle => SavedInv'
<1> SUFFICES ASSUME SavedInv, RunCycle PROVE SavedInv'
    OBVIOUS
<1>1. /\ x \in Experiments /\ x.SDATE \in Int /\ x.EDATE \in Int /\ x.interval \in Nat \ {0}
      /\ cycle \in x.SDATE..x.EDATE /\ (cycle - x.SDATE) % x.interval = 0
    BY ScheduleAssumption DEF SavedInv, RunCycle, Configured
<1>2. x' = x /\ jobs' = jobs /\ jobs # NoJobs /\ cycle' = cycle + x.interval
    BY DEF RunCycle
<1>3. /\ cycle' \in x.SDATE..x.EDATE + x.interval
      /\ (cycle' - x.SDATE) % x.interval = 0
  <2>1. ((cycle - x.SDATE) + x.interval) % x.interval = 0
      BY <1>1, NextMultiple
  <2>2. cycle' - x.SDATE = (cycle - x.SDATE) + x.interval
      BY <1>1, <1>2
  <2> QED
      BY <1>1, <1>2, <2>1, <2>2
<1>4. \A t \in CycleTimes : t < cycle' <=> t < cycle \/ t = cycle
  <2> SUFFICES ASSUME NEW t \in CycleTimes PROVE t < cycle' <=> t < cycle \/ t = cycle
      OBVIOUS
  <2>1. t \in Int /\ (t - x.SDATE) % x.interval = 0
      BY <1>1 DEF CycleTimes
  <2>2. t - x.SDATE < (cycle - x.SDATE) + x.interval => t - x.SDATE <= cycle - x.SDATE
    <3>1. t - x.SDATE \in Int /\ cycle - x.SDATE \in Int
        BY <1>1, <2>1
    <3>2. \A a, d \in Int : a % x.interval = 0 /\ d % x.interval = 0 =>
              (d < a + x.interval => d <= a)
        BY <1>1, NextMultiple
    <3> QED
        BY <1>1, <2>1, <3>1, <3>2
  <2> QED
      BY <1>1, <1>2, <2>1, <2>2
<1>5. cycle \in CycleTimes
    BY <1>1 DEF CycleTimes
<1>6. Past' = Past \cup (IF Archives(cycle) THEN {cycle} ELSE {})
    BY <1>2, <1>4, <1>5 DEF Past, CycleTimes, Archives
<1>7. saved' = UNION {SavedAt(x', c) : c \in Past'}
    BY <1>2, <1>6 DEF SavedInv, RunCycle
<1> QED
    BY <1>1, <1>2, <1>3, <1>7 DEF SavedInv, n_groups

LEMMA NextSavedInv == SavedInv /\ [Next]_vars => SavedInv'
<1> SUFFICES ASSUME SavedInv, [Next]_vars PROVE SavedInv'
    OBVIOUS
<1>1. CASE Generate
  <2>1. jobs'.members = n_groups(x) /\ UNCHANGED <<x, cycle, saved>> /\ cycle = x.SDATE
      BY <1>1 DEF Generate, SavedInv
  <2> QED
      BY <2>1 DEF SavedInv, Past, CycleTimes, Archives, n_groups
<1>2. CASE RunCycle
    BY <1>2, RunCycleSavedInv
<1>3. CASE UNCHANGED vars
    BY <1>3 DEF vars, SavedInv, Past, CycleTimes, Archives
<1> QED
    BY <1>1, <1>2, <1>3 DEF Next

THEOREM SavedIsDue == Spec => []SavedInv
BY InitSavedInv, NextSavedInv, PTL DEF Spec

\* Every tarball was saved by a cycle that archives.
LEMMA SavedBy ==
    ASSUME SavedInv, NEW s \in saved
    PROVE  s.cycle \in Past /\ s \in SavedAt(x, s.cycle)
BY DEF SavedInv, SavedAt, ArchTars, EarcTars, Tar

LEMMA SavedOfCycle ==
    ASSUME SavedInv, NEW c \in Past, NEW s \in SavedAt(x, c)
    PROVE  s \in saved /\ s.cycle = c
BY DEF SavedInv, SavedAt, ArchTars, EarcTars, Tar

-----------------------------------------------------------------------------
(* The members at a cycle.                                                 *)

GroupTypes(e, c) ==
    {"enkf_grp"}
    \cup (IF archive_increments(e, c) THEN {"enkf_restarta_grp"} ELSE {})
    \cup (IF archive_ics(e, c) THEN {"enkf_restartb_grp"} ELSE {})

GroupTar(type, c, g) == Tar(type, c, GroupMembers(x, g), RestartsIn(x, type))

LEMMA GroupsSaved ==
    ASSUME SavedInv, Cycled(x), NEW c \in Past, NEW type \in GroupTypes(x, c)
    PROVE  {s \in saved : s.type = type /\ s.cycle = c}
               = {GroupTar(type, c, g) : g \in 1..n_groups(x)}
<1>1. ASSUME NEW g \in 1..n_groups(x)
      PROVE  /\ GroupTar(type, c, g) \in saved
             /\ GroupTar(type, c, g).type = type /\ GroupTar(type, c, g).cycle = c
  <2>1. GroupTar(type, c, g) \in SavedAt(x, c)
      BY <1>1 DEF GroupTar, GroupTypes, EarcTars, SavedAt
  <2> QED
      BY <2>1, SavedOfCycle DEF GroupTar, Tar
<1>2. ASSUME NEW s \in saved, s.type = type, s.cycle = c
      PROVE  \E g \in 1..n_groups(x) : s = GroupTar(type, c, g)
  <2>1. s \in ArchTars(x, "gdas", c) \cup EarcTars(x, c)
      BY <1>2, SavedBy DEF SavedAt
  <2>2. s \notin ArchTars(x, "gdas", c)
      BY <1>2 DEF ArchTars, TarballTypes, Tar, GroupTypes
  <2>3. s \in EarcTars(x, c)
      BY <2>1, <2>2
  <2> QED
      BY <1>2, <2>3 DEF EarcTars, GroupTar, Tar
<1> QED
    BY <1>1, <1>2

LEMMA GroupsCover ==
    ASSUME NEW e \in Experiments
    PROVE  UNION {GroupMembers(e, g) : g \in 1..n_groups(e)} = 1..e.NMEM_ENS
BY GroupHasMembers, GroupOfMember

LEMMA MembersSaved ==
    ASSUME SavedInv, Cycled(x), NEW c \in Past, NEW type \in GroupTypes(x, c)
    PROVE  MembersIn(type, c) = 1..x.NMEM_ENS
<1>1. MembersIn(type, c) = UNION {s.members : s \in {GroupTar(type, c, g) : g \in 1..n_groups(x)}}
    BY GroupsSaved DEF MembersIn
<1>2. \A g : GroupTar(type, c, g).members = GroupMembers(x, g)
    BY DEF GroupTar, Tar
<1>3. MembersIn(type, c) = UNION {GroupMembers(x, g) : g \in 1..n_groups(x)}
    BY <1>1, <1>2
<1> QED
    BY <1>3, GroupsCover DEF SavedInv

\* earc_tars makes a job for each group of NMEM_EARCGRP members: at every cycle
\* that archives, each member is in one of them and none is without members,
\* for any numbers.
THEOREM MembersArchivedOnce == Spec => []MembersPartitioned
<1>1. SavedInv => MembersPartitioned
  <2> SUFFICES ASSUME SavedInv, Cycled(x), NEW c \in {s.cycle : s \in saved}
               PROVE  LET groups == {s \in saved : s.cycle = c /\ s.type = "enkf_grp"}
                      IN  /\ UNION {s.members : s \in groups} = 1..x.NMEM_ENS
                          /\ \A s, t \in groups : s # t => s.members \cap t.members = {}
                          /\ \A s \in groups : s.members # {}
                          /\ Cardinality(groups) = jobs.members
      BY Zenon DEF MembersPartitioned
  <2> DEFINE groups == {s \in saved : s.cycle = c /\ s.type = "enkf_grp"}
             n == n_groups(x)
             f == [g \in 1..n |-> GroupTar("enkf_grp", c, g)]
  <2>1. c \in Past /\ x \in Experiments /\ "enkf_grp" \in GroupTypes(x, c)
      BY SavedBy DEF SavedInv, GroupTypes
  <2>2. groups = {GroupTar("enkf_grp", c, g) : g \in 1..n}
      BY <2>1, GroupsSaved
  <2>3. UNION {s.members : s \in groups} = 1..x.NMEM_ENS
    <3>1. MembersIn("enkf_grp", c) = 1..x.NMEM_ENS
        BY <2>1, MembersSaved
    <3> QED
        BY <3>1 DEF MembersIn
  <2>4. \A g \in 1..n : f[g].members = GroupMembers(x, g)
      BY DEF GroupTar, Tar
  <2> HIDE DEF f, groups, n
  <2>5. \A g \in 1..n : f[g] \in groups
      BY <2>2 DEF f
  <2>6. \A s \in groups : \E g \in 1..n : s = f[g]
      BY <2>2 DEF f
  <2>7. \A s \in groups : s.members # {}
      BY <2>1, <2>4, <2>6, GroupHasMembers DEF n
  <2>8. \A s, t \in groups : s # t => s.members \cap t.members = {}
      BY <2>1, <2>4, <2>6, GroupsApart DEF n
  <2>9. Cardinality(groups) = n
    <3>1. \A g, h \in 1..n : f[g] = f[h] => g = h
        BY <2>1, <2>4, GroupsApart, GroupHasMembers DEF n
    <3>2. f \in [1..n -> groups]
        BY <2>5 DEF f
    <3>3. f \in Bijection(1..n, groups)
        BY <2>6, <3>1, <3>2 DEF Bijection, Injection, Surjection, IsInjective
    <3>4. n \in Nat
        BY <2>1, GroupCount DEF n
    <3> QED
        BY <3>3, <3>4, FS_CountingElements DEF ExistsBijection
  <2>10. jobs.members = n
    <3>1. jobs # NoJobs
        BY <2>1, ScheduleAssumption DEF SavedInv, Past, CycleTimes, Configured
    <3> QED
        BY <3>1 DEF SavedInv, n
  <2> QED
      BY <2>3, <2>7, <2>8, <2>9, <2>10 DEF groups
<1> QED
    BY <1>1, SavedIsDue, PTL

-----------------------------------------------------------------------------
(* Sets for a warm start.                                                  *)

\* What one of the two computations of days finds due at c is due by the other
\* one too, and the increments are due a cycle later.
LEMMA SameSet ==
    ASSUME NEW e \in Experiments, Cycled(e), NEW c \in Int, e.SDATE <= c,
           (c - e.SDATE) % assim_freq = 0,
           _arch_warm_restart_ics(e, c) \/ archive_ics(e, c)
    PROVE  /\ _arch_warm_restart_ics(e, c) /\ archive_ics(e, c)
           /\ _arch_warm_start_increments(e, c + assim_freq)
           /\ archive_increments(e, c + assim_freq)
<1> DEFINE S == e.SDATE
           W == e.ARCH_WARMICFREQ
<1>1. S \in Int /\ W \in Nat \ {0} /\ e.ARCH_CYC \subseteq 0..23 /\ e.ARCH_FCSTICFREQ = 1
    BY ScheduleAssumption DEF Configured
<1>2. Hour(S) \notin e.ARCH_CYC \/ W = 1
    BY ScheduleAssumption DEF SameDays
<1>3. PICK h \in e.ARCH_CYC : Hour(c) = (h - 6) % 24
    BY DEF _arch_warm_restart_ics, archive_ics, assim_freq
<1>4. Hour(c + 6) = h
  <2>1. h \in 0..23 /\ c % 24 = (h - 6) % 24
      BY <1>1, <1>3 DEF Hour
  <2> QED
      BY <2>1 DEF Hour
<1>5. Days(c - S) % W = 0 \/ Days(c + 6 - S) % W = 0
    BY DEF _arch_warm_restart_ics, archive_ics, assim_freq
<1>6. Days(c - S) % W = 0 /\ Days(c + 6 - S) % W = 0
  <2>1. CASE W = 1
    <3>1. Days(c - S) \in Int /\ Days(c + 6 - S) \in Int
        BY <1>1 DEF Days
    <3> QED
        BY <2>1, <3>1
  <2>2. CASE Hour(S) \notin e.ARCH_CYC
    <3>1. (c + 6) % 24 # S % 24
        BY <1>4, <2>2 DEF Hour
    <3>2. (c - S) % 6 = 0
        BY DEF assim_freq
    <3> HIDE DEF S
    <3>3. (c - S) \div 24 = (c + 6 - S) \div 24
        BY <1>1, <3>1, <3>2
    <3> QED
        BY <1>5, <3>3 DEF Days
  <2> QED
      BY <1>2, <2>1, <2>2
<1>7. Days(c + 6 + 6 - S) % 1 = 0
    BY <1>1 DEF Days
<1> QED
    BY <1>1, <1>3, <1>4, <1>6, <1>7
       DEF _arch_warm_restart_ics, archive_ics, _arch_warm_start_increments,
           archive_increments, assim_freq

LEMMA NextCycleSaved ==
    ASSUME SavedInv, Cycled(x), NEW c \in Past, Done(c + assim_freq)
    PROVE  /\ c + assim_freq \in Past
           /\ c \in Int /\ x.SDATE <= c /\ (c - x.SDATE) % assim_freq = 0
<1>1. /\ x.SDATE \in Int /\ x.EDATE \in Int /\ x.interval = 6
      /\ cycle \in Int /\ cycle <= x.EDATE + 6 /\ (cycle - x.SDATE) % 6 = 0
    BY ScheduleAssumption DEF SavedInv, Configured, assim_freq
<1>2. c \in Int /\ x.SDATE <= c /\ c <= x.EDATE /\ (c - x.SDATE) % 6 = 0 /\ c + 6 < cycle
    BY <1>1 DEF Past, CycleTimes, Done, assim_freq
<1>3. (c + 6 - x.SDATE) % 6 = 0 /\ c + 6 <= x.EDATE
    BY <1>1, <1>2
<1> QED
    BY <1>1, <1>2, <1>3 DEF Past, CycleTimes, Archives, assim_freq

LEMMA RestartsSaved ==
    ASSUME SavedInv, Cycled(x), NEW c \in Past,
           NEW t \in TarballTypes(x), _arch_restart(x, t, c)
    PROVE  t \in SavedTypes(c)
<1>1. Tar(t, c, {}, RestartsIn(x, t)) \in SavedAt(x, c)
    BY DEF SavedAt, ArchTars
<1>2. Tar(t, c, {}, RestartsIn(x, t)).type = t
    BY DEF Tar
<1> QED
    BY <1>1, <1>2, SavedOfCycle DEF SavedTypes

\* Whatever run saved its part of a warm start, the others did too, and the next
\* cycle its increments, for any start, archive hours, frequency and members.
THEOREM WarmStartsWhole == Spec => []WarmStartSets
<1>1. SavedInv => WarmStartSets
  <2> SUFFICES ASSUME SavedInv, NEW s \in saved,
                      s.type \in WarmICs \cup {"enkf_restartb_grp"},
                      Done(s.cycle + assim_freq)
               PROVE  WarmStartSet(s.cycle)
      BY DEF WarmStartSets
  <2> DEFINE c == s.cycle
             d == c + assim_freq
  <2>1. c \in Past /\ s \in SavedAt(x, c) /\ x \in Experiments
      BY SavedBy DEF SavedInv
  <2>2. Cycled(x)
      BY <2>1 DEF SavedAt, ArchTars, TarballTypes, Tar, WarmICs
  <2>3. _arch_warm_restart_ics(x, c) \/ archive_ics(x, c)
    <3>1. CASE s \in ArchTars(x, "gdas", c)
        BY <3>1 DEF ArchTars, TarballTypes, Tar, WarmICs, Increments, _arch_restart
    <3>2. CASE s \in EarcTars(x, c)
        BY <3>2 DEF EarcTars, Tar, WarmICs
    <3> QED
        BY <2>1, <2>2, <3>1, <3>2 DEF SavedAt
  <2>4. d \in Past
      BY <2>1, <2>2, NextCycleSaved
  <2>5. /\ _arch_warm_restart_ics(x, c) /\ archive_ics(x, c)
        /\ _arch_warm_start_increments(x, d) /\ archive_increments(x, d)
      BY <2>1, <2>2, <2>3, NextCycleSaved, SameSet
  <2> HIDE DEF c, d
  <2>6. WarmICs \cap TarballTypes(x) \subseteq SavedTypes(c)
      BY <2>1, <2>2, <2>5, RestartsSaved DEF _arch_restart, c
  <2>7. Increments \cap TarballTypes(x) \subseteq SavedTypes(d)
      BY <2>2, <2>4, <2>5, RestartsSaved DEF _arch_restart
  <2>8. MembersIn("enkf_restartb_grp", c) = 1..x.NMEM_ENS
      BY <2>1, <2>2, <2>5, MembersSaved DEF GroupTypes, c
  <2>9. MembersIn("enkf_restarta_grp", d) = 1..x.NMEM_ENS
      BY <2>2, <2>4, <2>5, MembersSaved DEF GroupTypes
  <2> QED
      BY <2>6, <2>7, <2>8, <2>9 DEF WarmStartSet, c, d
<1> QED
    BY <1>1, SavedIsDue, PTL

-----------------------------------------------------------------------------
(* The restarts in the tarballs.                                           *)

LEMMA PrefixesCopied ==
    ASSUME NEW iau \in BOOLEAN
    PROVE  LET start == model_start_date_next_cycle(iau)
               P == _calculate_restart_prefixes(restart_interval(iau), FHMAX)
           IN  /\ P = {h \in start..FHMAX : (h - start) % restart_interval(iau) = 0}
               /\ start \in P
<1>1. CASE iau
    BY <1>1 DEF model_start_date_next_cycle, _calculate_restart_prefixes,
                restart_interval, FHMAX
<1>2. CASE ~iau
    BY <1>2 DEF model_start_date_next_cycle, _calculate_restart_prefixes,
                restart_interval, FHMAX
<1> QED
    BY <1>1, <1>2

\* What the restarts R of a run have to be.
Start(e, run) == model_start_date_next_cycle(IF run = "gdas" THEN e.DOIAU ELSE e.DOIAU_ENKF)
Fits(e, run, R) ==
    /\ R \subseteq CopiedBy(e, run)
    /\ \A r \in R : <<r[1], Start(e, run)>> \in R

LEMMA RestartsFit ==
    ASSUME NEW e \in Experiments
    PROVE  /\ \A t \in TarballTypes(e) : Fits(e, "gdas", RestartsIn(e, t))
           /\ \A t \in {"enkf_grp", "enkf_restarta_grp", "enkf_restartb_grp"} :
                  Fits(e, "enkfgdas", RestartsIn(e, t))
<1> DEFINE atmos(iau) ==
        {"atmos"} \X _calculate_restart_prefixes(restart_interval(iau), FHMAX)
<1>1. e.DOIAU \in BOOLEAN /\ e.DOIAU_ENKF \in BOOLEAN /\ (e.DOHYBVAR_OCN => e.DOIAU_ENKF)
    BY ScheduleAssumption DEF Configured
<1>2. Fits(e, "gdas", {}) /\ Fits(e, "enkfgdas", {})
    BY DEF Fits
<1>3. Fits(e, "gdas", atmos(e.DOIAU)) /\ Fits(e, "enkfgdas", atmos(e.DOIAU_ENKF))
    BY <1>1, PrefixesCopied DEF Fits, Start, CopiedBy
<1>4. Fits(e, "gdas", {<<"wave", IF e.DOIAU THEN 3 ELSE 6>>})
    BY DEF Fits, Start, CopiedBy, model_start_date_next_cycle
<1>5. e.DOHYBVAR_OCN => Fits(e, "enkfgdas", {<<"ocean", 3>>})
    BY <1>1 DEF Fits, Start, CopiedBy, model_start_date_next_cycle
<1>6. \A R, T : Fits(e, "enkfgdas", R) /\ Fits(e, "enkfgdas", T)
                    => Fits(e, "enkfgdas", R \cup T)
    BY DEF Fits
<1>7. ASSUME NEW t \in TarballTypes(e) PROVE Fits(e, "gdas", RestartsIn(e, t))
  <2>1. t \notin {"enkf_restartb_grp"}
      BY <1>7 DEF TarballTypes
  <2> QED
      BY <1>2, <1>3, <1>4, <2>1 DEF RestartsIn
<1>8. Fits(e, "enkfgdas", RestartsIn(e, "enkf_restartb_grp"))
  <2>1. CASE e.DOHYBVAR_OCN
    <3>1. RestartsIn(e, "enkf_restartb_grp") = atmos(e.DOIAU_ENKF) \cup {<<"ocean", 3>>}
        BY <2>1 DEF RestartsIn
    <3> QED
        BY <1>3, <1>5, <1>6, <2>1, <3>1
  <2>2. CASE ~e.DOHYBVAR_OCN
    <3>1. RestartsIn(e, "enkf_restartb_grp") = atmos(e.DOIAU_ENKF)
        BY <2>2 DEF RestartsIn
    <3> QED
        BY <1>3, <3>1
  <2> QED
      BY <2>1, <2>2
<1>9. Fits(e, "enkfgdas", RestartsIn(e, "enkf_grp"))
      /\ Fits(e, "enkfgdas", RestartsIn(e, "enkf_restarta_grp"))
    BY <1>2 DEF RestartsIn
<1> QED
    BY <1>7, <1>8, <1>9

\* For any windows of gdas and members, with and without the ocean, the restarts
\* in a tarball are those the forecast copied, and the next cycle can start.
THEOREM RestartsStart == Spec => []SavedRestartsStart
<1>1. SavedInv => SavedRestartsStart
  <2> SUFFICES ASSUME SavedInv, NEW s \in saved
               PROVE  Fits(x, RunOf(s), s.restarts)
      BY DEF SavedRestartsStart, Fits, Start, NextStart
  <2>1. s \in SavedAt(x, s.cycle) /\ x \in Experiments
      BY SavedBy DEF SavedInv
  <2>2. CASE \E run : s \in ArchTars(x, run, s.cycle)
    <3>1. RunOf(s) = "gdas"
        BY <2>2 DEF ArchTars, Tar, RunOf
    <3>2. s.restarts = {} \/ \E t \in TarballTypes(x) : s.restarts = RestartsIn(x, t)
        BY <2>2 DEF ArchTars, Tar
    <3>3. Fits(x, "gdas", {})
        BY DEF Fits
    <3> QED
        BY <2>1, <3>1, <3>2, <3>3, RestartsFit
  <2>3. CASE s \in EarcTars(x, s.cycle)
    <3>1. PICK t \in {"enkf_grp", "enkf_restarta_grp", "enkf_restartb_grp"},
               g \in 1..n_groups(x) :
                   s.members = GroupMembers(x, g) /\ s.restarts = RestartsIn(x, t)
        BY <2>3 DEF EarcTars, Tar
    <3>2. RunOf(s) = "enkfgdas"
        BY <2>1, <3>1, GroupHasMembers DEF RunOf
    <3> QED
        BY <2>1, <3>1, <3>2, RestartsFit
  <2> QED
      BY <2>1, <2>2, <2>3 DEF SavedAt
<1> QED
    BY <1>1, SavedIsDue, PTL

-----------------------------------------------------------------------------
(* The copies of the EXPDIR.                                               *)

first_full == IF Cycled(x) THEN x.SDATE + assim_freq ELSE x.SDATE
ExpdirDue(c) ==
    \/ c \in {first_full, x.EDATE}
    \/ x.ARCH_EXPDIR_FREQ # 0 /\ (c - first_full) % x.ARCH_EXPDIR_FREQ = 0
SavedExpdirs == {s.cycle : s \in {t \in saved : t.type = "expdir"}}

LEMMA ExpdirsAreDue ==
    ASSUME SavedInv
    PROVE  SavedExpdirs = {c \in Past : ExpdirDue(c)}
<1>1. ASSUME NEW c \in Past, ExpdirDue(c) PROVE c \in SavedExpdirs
  <2>1. Tar("expdir", c, {}, {}) \in SavedAt(x, c)
      BY <1>1 DEF SavedAt, ArchTars, _archive_expdir, ExpdirDue, first_full
  <2>2. Tar("expdir", c, {}, {}).type = "expdir"
      BY DEF Tar
  <2> QED
      BY <2>1, <2>2, SavedOfCycle DEF SavedExpdirs
<1>2. ASSUME NEW s \in saved, s.type = "expdir"
      PROVE  s.cycle \in Past /\ ExpdirDue(s.cycle)
  <2>1. s.cycle \in Past /\ s \in SavedAt(x, s.cycle)
      BY SavedBy
  <2>2. s \notin EarcTars(x, s.cycle)
      BY <1>2 DEF EarcTars, Tar
  <2>3. PICK run \in {"gdas", "gfs"} : s \in ArchTars(x, run, s.cycle)
      BY <2>1, <2>2 DEF SavedAt
  <2>4. _archive_expdir(x, run, s.cycle)
      BY <1>2, <2>3 DEF ArchTars, TarballTypes, Tar
  <2> QED
      BY <2>1, <2>4 DEF _archive_expdir, ExpdirDue, first_full
<1> QED
    BY <1>1, <1>2 DEF SavedExpdirs

LEMMA PastCycles ==
    ASSUME SavedInv, NEW c \in Int, first_full <= c, c <= x.EDATE, c < cycle,
           (c - x.SDATE) % x.interval = 0
    PROVE  c \in Past
BY ScheduleAssumption
   DEF SavedInv, Past, CycleTimes, Archives, first_full, Configured, assim_freq

LEMMA FirstCycle ==
    ASSUME SavedInv
    PROVE  /\ first_full \in Int /\ x.SDATE <= first_full /\ first_full <= x.EDATE
           /\ \E j \in Int : first_full - x.SDATE = x.interval * j
<1>1. /\ x.SDATE \in Int /\ x.EDATE \in Int /\ x.SDATE <= x.EDATE
      /\ (x.EDATE - x.SDATE) % x.interval = 0
    BY ScheduleAssumption DEF SavedInv, Configured
<1>2. CASE Cycled(x)
  <2>1. x.interval = 6 /\ x.SDATE < x.EDATE /\ first_full = x.SDATE + 6
      BY <1>1, <1>2, ScheduleAssumption DEF SavedInv, first_full, assim_freq
  <2>2. first_full - x.SDATE = x.interval * 1
      BY <1>1, <2>1
  <2>3. first_full \in Int /\ x.SDATE <= first_full
      BY <1>1, <2>1
  <2>4. first_full <= x.EDATE
    <3>1. (x.EDATE - x.SDATE) % 6 = 0
        BY <1>1, <2>1
    <3> QED
        BY <1>1, <2>1, <3>1
  <2> QED
      BY <2>2, <2>3, <2>4
<1>3. CASE ~Cycled(x)
  <2>1. first_full - x.SDATE = x.interval * 0
      BY <1>1, <1>3, ScheduleAssumption DEF SavedInv, first_full, Configured
  <2> QED
      BY <1>1, <1>3, <2>1 DEF first_full
<1> QED
    BY <1>2, <1>3

\* The last time before c that is a multiple of the frequency away from the
\* first cycle is a cycle, and it is due.
LEMMA ExpdirInTime ==
    ASSUME SavedInv, x.ARCH_EXPDIR_FREQ > 0, x.ARCH_EXPDIR_FREQ % x.interval = 0,
           NEW c \in first_full..x.EDATE, Done(c)
    PROVE  \E a \in SavedExpdirs : a <= c /\ c < a + x.ARCH_EXPDIR_FREQ
<1> DEFINE F == x.ARCH_EXPDIR_FREQ
           i == x.interval
           S == x.SDATE
           q == (c - first_full) \div F
           a == first_full + F * q
<1>1. /\ S \in Int /\ x.EDATE \in Int /\ i \in Nat \ {0} /\ F \in Nat \ {0}
      /\ cycle \in Int /\ first_full \in Int /\ S <= first_full
    BY ScheduleAssumption, FirstCycle DEF SavedInv, Configured
<1>2. PICK j \in Int : first_full - S = i * j
    BY FirstCycle
<1>3. PICK k \in Int : F = i * k
  <2>1. F % i = 0
      OBVIOUS
  <2> HIDE DEF F, i
  <2>2. F \in Int /\ F \div i \in Int /\ F = i * (F \div i) + (F % i)
      BY <1>1, Quotient
  <2>3. i * (F \div i) \in Int
      BY <1>1, <2>2, Products
  <2>4. F = i * (F \div i)
      BY <2>1, <2>2, <2>3
  <2> QED
      BY <2>2, <2>4
<1>4. c \in Int /\ first_full <= c /\ c <= x.EDATE /\ c < cycle
    BY <1>1 DEF Done
<1> HIDE DEF F, i, S
<1>5. q \in Int /\ F * q \in Int /\ F * q <= c - first_full /\ c - first_full < F * q + F
  <2>1. c - first_full \in Int
      BY <1>1, <1>4
  <2>2. /\ q \in Int /\ (c - first_full) % F \in 0..F-1
        /\ c - first_full = F * q + ((c - first_full) % F)
      BY <1>1, <2>1, Quotient
  <2> QED
      BY <1>1, <2>1, <2>2, Products
<1> HIDE DEF q
<1>6. 0 <= F * q
  <2>1. ~(q + 1 <= 0)
    <3> SUFFICES ASSUME q + 1 <= 0 PROVE FALSE
        OBVIOUS
    <3>1. F * (q + 1) <= F * 0 /\ F * (q + 1) = F * q + F
        BY <1>1, <1>5, Products
    <3> QED
        BY <1>1, <1>4, <1>5, <3>1
  <2>2. F * 0 <= F * q
      BY <1>1, <1>5, <2>1, Products
  <2> QED
      BY <1>1, <2>2
<1>7. a \in Int /\ first_full <= a /\ a <= c /\ c < a + F
    BY <1>1, <1>4, <1>5, <1>6
<1>8. (a - S) % i = 0
  <2>1. k * q \in Int /\ F * q = i * (k * q)
      BY <1>1, <1>3, <1>5
  <2>2. i * (j + k * q) = i * j + i * (k * q)
      BY <1>1, <1>2, <2>1
  <2>3. a - S = i * (j + k * q) /\ j + k * q \in Int /\ a - S \in Int
      BY <1>1, <1>2, <1>5, <2>1, <2>2
  <2> HIDE DEF a
  <2> QED
      BY <1>1, <2>3, Multiple
<1>9. (a - first_full) % F = 0
  <2>1. a - first_full = F * q /\ a - first_full \in Int
      BY <1>1, <1>5
  <2> HIDE DEF a
  <2> QED
      BY <1>1, <1>5, <2>1, Multiple
<1> HIDE DEF a
<1>10. a \in Past
    BY <1>1, <1>4, <1>7, <1>8, PastCycles DEF S, i
<1>11. ExpdirDue(a)
    BY <1>1, <1>9 DEF ExpdirDue, F
<1> QED
    BY <1>7, <1>10, <1>11, ExpdirsAreDue DEF F

\* The EXPDIR is saved at the first full and the last cycle of any experiment,
\* and in between exactly when the frequency says so.
THEOREM ExpdirIsArchived == Spec => []ExpdirArchived
<1>1. SavedInv => ExpdirArchived
  <2> SUFFICES ASSUME SavedInv
               PROVE  /\ Done(x.EDATE) => {first_full, x.EDATE} \subseteq SavedExpdirs
                      /\ x.ARCH_EXPDIR_FREQ = 0 => SavedExpdirs \subseteq {first_full, x.EDATE}
                      /\ x.ARCH_EXPDIR_FREQ > 0 /\ x.ARCH_EXPDIR_FREQ % x.interval = 0 =>
                            \A c \in first_full..x.EDATE :
                                Done(c) => \E a \in SavedExpdirs :
                                               a <= c /\ c < a + x.ARCH_EXPDIR_FREQ
      BY Zenon DEF ExpdirArchived, SavedExpdirs, first_full
  <2>1. ASSUME Done(x.EDATE) PROVE {first_full, x.EDATE} \subseteq SavedExpdirs
    <3>1. /\ x.SDATE \in Int /\ x.EDATE \in Int /\ cycle \in Int /\ x.interval \in Nat \ {0}
          /\ (x.EDATE - x.SDATE) % x.interval = 0 /\ x.EDATE < cycle
        BY <2>1, ScheduleAssumption DEF SavedInv, Configured, Done
    <3>2. (first_full - x.SDATE) % x.interval = 0
      <4>1. first_full - x.SDATE \in Int
          BY <3>1, FirstCycle
      <4> QED
          BY <3>1, <4>1, FirstCycle, Multiple
    <3>3. first_full \in Past /\ x.EDATE \in Past
        BY <3>1, <3>2, FirstCycle, PastCycles
    <3> QED
        BY <3>3, ExpdirsAreDue DEF ExpdirDue
  <2>2. ASSUME x.ARCH_EXPDIR_FREQ = 0 PROVE SavedExpdirs \subseteq {first_full, x.EDATE}
      BY <2>2, ExpdirsAreDue DEF ExpdirDue
  <2> QED
      BY <2>1, <2>2, ExpdirInTime
<1> QED
    BY <1>1, SavedIsDue, PTL

-----------------------------------------------------------------------------
(* The number of groups of each segment: never more than hours.            *)

\* numpy.array_split makes the parts it is asked for, of all the hours, none empty.
LEMMA PartsAreCuts ==
    ASSUME NEW size \in Nat, NEW k \in 1 .. size
    PROVE  /\ Cuts(k, [i \in 0 .. k |-> PartEnd(size, k, i)])
           /\ PartEnd(size, k, k) = size
<1> DEFINE q == size \div k
           r == size % k
           end == [i \in 0 .. k |-> PartEnd(size, k, i)]
<1>1. k \in Nat \ {0} /\ q \in Int /\ r \in 0 .. k - 1 /\ size = k * q + r
    BY Quotient
<1>2. q \in Nat \ {0}
  <2> SUFFICES ASSUME q <= 0 PROVE FALSE
      BY <1>1
  <2> HIDE DEF q, r
  <2>1. k * q <= k * 0
      BY <1>1, Products
  <2> QED
      BY <1>1, <2>1
<1>3. \A i \in 0 .. k : PartEnd(size, k, i) = i * q + Least(i, r)
    BY DEF PartEnd
<1> HIDE DEF q, r
<1>4. PartEnd(size, k, k) = size
  <2>1. PartEnd(size, k, k) = k * q + Least(k, r)
      BY <1>1, <1>3
  <2> QED
      BY <1>1, <2>1 DEF Least
<1>5. \A i \in 0 .. k : i * q \in Nat
    BY <1>2
<1>6. end \in [0 .. k -> Nat]
    BY <1>1, <1>3, <1>5 DEF Least
<1>7. end[0] = 0
  <2>1. end[0] = 0 * q + Least(0, r)
      BY <1>1, <1>3
  <2> QED
      BY <1>1, <1>2, <2>1 DEF Least
<1>8. ASSUME NEW i \in 1 .. k PROVE end[i - 1] < end[i]
  <2>1. i - 1 \in 0 .. k /\ i \in 0 .. k
      BY <1>1
  <2>2. end[i] = i * q + Least(i, r) /\ end[i - 1] = (i - 1) * q + Least(i - 1, r)
      BY <1>3, <2>1
  <2>3. i * q = (i - 1) * q + q /\ (i - 1) * q \in Nat
      BY <1>2, <1>5, <2>1
  <2>4. Least(i - 1, r) <= Least(i, r) /\ Least(i - 1, r) \in Int /\ Least(i, r) \in Int
      BY <1>1 DEF Least
  <2> HIDE DEF end
  <2>5. \A a, b, c, d \in Int : a = b + q /\ c <= d => b + c < a + d
      BY <1>2
  <2> QED
      BY <2>2, <2>3, <2>4, <2>5, <1>2
<1> QED
    BY <1>1, <1>4, <1>6, <1>7, <1>8 DEF Cuts

\* Segments, which may be empty, and the number of groups of each, at least one.
Weighted(n, segs, w) ==
    /\ n \in Nat \ {0} /\ DOMAIN segs = 1 .. n /\ \A i \in 1 .. n : Len(segs[i]) \in Nat
    /\ w \in [1 .. n -> Nat \ {0}]

\* There is a first one among the segments with the most hours per group.
LEMMA LongestExists ==
    ASSUME NEW n, NEW segs, NEW w, Weighted(n, segs, w)
    PROVE  /\ Longest(segs, w) \in 1 .. n
           /\ \A j \in 1 .. n : Len(segs[j]) * w[Longest(segs, w)] <= Len(segs[Longest(segs, w)]) * w[j]
<1> DEFINE First(i, k) == \A j \in 1 .. k : j # i => \/ Longer(segs, w, i, j)
                                                     \/ (i < j /\ ~Longer(segs, w, j, i))
           T == {k \in Nat : k + 1 <= n => \E i \in 1 .. k + 1 : First(i, k + 1)}
<1>0. /\ n \in Nat \ {0} /\ \A i \in 1 .. n : w[i] \in Nat \ {0} /\ Len(segs[i]) \in Nat
      /\ DOMAIN segs = 1 .. n
    BY DEF Weighted
<1>1. 0 \in T
  <2>1. First(1, 1)
      OBVIOUS
  <2> HIDE DEF First
  <2> QED
      BY <2>1
<1>2. ASSUME NEW k \in T PROVE k + 1 \in T
  <2> SUFFICES ASSUME k + 2 <= n PROVE \E i \in 1 .. k + 2 : First(i, k + 2)
      OBVIOUS
  <2>1. PICK i \in 1 .. k + 1 : First(i, k + 1)
      BY <1>0
  <2>2. k \in Nat /\ i \in 1 .. n /\ k + 2 \in 1 .. n /\ i < k + 2 /\ k + 1 <= n
      BY <1>0
  <2>3. CASE ~Longer(segs, w, k + 2, i)
    <3>1. First(i, k + 2)
        BY <2>1, <2>2, <2>3
    <3> QED
        BY <2>2, <3>1
  <2>4. CASE Longer(segs, w, k + 2, i)
    <3>1. ASSUME NEW j \in 1 .. k + 1 PROVE Longer(segs, w, k + 2, j)
      <4>1. CASE j = i
          BY <2>4, <4>1
      <4>2. CASE j # i
        <5>1. Longer(segs, w, i, j) \/ ~Longer(segs, w, j, i)
            BY <2>1, <4>2
        <5>2. j \in 1 .. n
            BY <1>0, <2>2
        <5>3. Len(segs[i]) * w[j] >= Len(segs[j]) * w[i]
          <6>1. Len(segs[i]) * w[j] \in Nat /\ Len(segs[j]) * w[i] \in Nat
              BY <1>0, <2>2, <5>2
          <6> QED
              BY <5>1, <6>1 DEF Longer
        <5>4. Len(segs[k + 2]) * w[i] > Len(segs[i]) * w[k + 2]
            BY <2>4 DEF Longer
        <5> QED
            BY <1>0, <2>2, <5>2, <5>3, <5>4, MoreAndMore DEF Longer
      <4> QED
          BY <4>1, <4>2
    <3>2. First(k + 2, k + 2)
        BY <2>2, <3>1
    <3> QED
        BY <2>2, <3>2
  <2> QED
      BY <2>3, <2>4
<1> HIDE DEF T, First
<1>3. T \in SUBSET Nat
    BY DEF T
<1>9. T = Nat
    BY <1>1, <1>2, <1>3, Induction
<1>4. n - 1 \in T /\ (n - 1) + 1 = n
    BY <1>0, <1>9
<1>5. \E i \in 1 .. n : First(i, n)
    BY <1>0, <1>4 DEF T
<1>6. Longest(segs, w) \in 1 .. n /\ First(Longest(segs, w), n)
    BY <1>0, <1>5 DEF Longest, First
<1> DEFINE l == Longest(segs, w)
<1> HIDE DEF l
<1>7. l \in 1 .. n /\ First(l, n)
    BY <1>6 DEF l
<1>8. ASSUME NEW j \in 1 .. n PROVE Len(segs[j]) * w[l] <= Len(segs[l]) * w[j]
  <2>1. Len(segs[j]) * w[l] \in Nat /\ Len(segs[l]) * w[j] \in Nat
      BY <1>0, <1>7
  <2> QED
      BY <1>7, <2>1 DEF First, Longer
<1> QED
    BY <1>7, <1>8 DEF l

\* h starts with the groups a and is given one more at each number.
Adds(segs, a, h) == h[0] = a /\ \A k \in Nat \ {0} : h[k] = AddGroup(segs, h[k - 1])

LEMMA AddingGoesOn ==
    ASSUME NEW W, NEW segs, NEW a \in W, \A w \in W : AddGroup(segs, w) \in W
    PROVE  \E h \in [Nat -> W] : Adds(segs, a, h)
<1>1. PICK F \in [W -> W] : \A w \in W : F[w] = AddGroup(segs, w)
  <2> DEFINE G == [w \in W |-> AddGroup(segs, w)]
  <2>1. G \in [W -> W] /\ \A w \in W : G[w] = AddGroup(segs, w)
      OBVIOUS
  <2> QED
      BY <2>1
<1>2. PICK h \in [Nat -> W] : h[0] = a /\ \A k \in Nat \ {0} : h[k] = F[h[k - 1]]
    BY Iteration
<1>3. ASSUME NEW k \in Nat \ {0} PROVE h[k - 1] \in W
    OBVIOUS
<1>4. Adds(segs, a, h)
    BY <1>1, <1>2, <1>3 DEF Adds
<1> QED
    BY <1>4

\* Groups are only ever added, one at a time.
LEMMA WeightsByNumber ==
    ASSUME NEW n, NEW segs, n \in Nat \ {0}, DOMAIN segs = 1 .. n
    PROVE  /\ ngroups_segs(segs) \in [Nat -> [1 .. n -> Nat \ {0}]]
           /\ ngroups_segs(segs)[0] = [i \in 1 .. n |-> 1]
           /\ \A k \in Nat \ {0} : ngroups_segs(segs)[k] = AddGroup(segs, ngroups_segs(segs)[k - 1])
<1> DEFINE W == [1 .. n -> Nat \ {0}]
           a == [i \in 1 .. n |-> 1]
<1>1. a \in W
    OBVIOUS
<1>3. ASSUME NEW w \in W PROVE AddGroup(segs, w) \in W
  <2>1. AddGroup(segs, w) = [i \in 1 .. n |-> IF i = Longest(segs, w) THEN w[i] + 1 ELSE w[i]]
      BY DEF AddGroup
  <2>2. \A i \in 1 .. n : w[i] \in Nat \ {0} /\ w[i] + 1 \in Nat \ {0}
      OBVIOUS
  <2> QED
      BY <2>1, <2>2
<1>2. PICK h \in [Nat -> W] : Adds(segs, a, h)
  <2> HIDE DEF W, a
  <2> QED
      BY <1>1, <1>3, AddingGoesOn
<1> DEFINE Is(g) == g = [k \in Nat |-> IF k = 0 THEN [i \in DOMAIN segs |-> 1]
                                             ELSE AddGroup(segs, g[k - 1])]
<1>4. Is(h)
    BY <1>2 DEF Adds
<1>5. ngroups_segs(segs) = CHOOSE g : Is(g)
    BY DEF ngroups_segs
<1> DEFINE f == ngroups_segs(segs)
<1>6. Is(f)
  <2> HIDE DEF Is
  <2> QED
      BY <1>4, <1>5
<1> HIDE DEF f
<1>7. f = [k \in Nat |-> IF k = 0 THEN a ELSE AddGroup(segs, f[k - 1])]
    BY <1>6
<1>8. f[0] = a /\ \A k \in Nat \ {0} : f[k] = AddGroup(segs, f[k - 1])
    BY <1>7
<1> HIDE DEF W, Is, a
<1>9. f \in [Nat -> W]
  <2> DEFINE T == {k \in Nat : f[k] \in W}
  <2>1. 0 \in T
      BY <1>1, <1>8
  <2>2. ASSUME NEW k \in T PROVE k + 1 \in T
    <3>1. k + 1 \in Nat \ {0} /\ (k + 1) - 1 = k
        OBVIOUS
    <3>2. AddGroup(segs, f[k]) \in W
        BY <1>3
    <3> QED
        BY <1>8, <3>1, <3>2
  <2> HIDE DEF T
  <2>3. T \in SUBSET Nat
      BY DEF T
  <2>4. T = Nat
      BY <2>1, <2>2, <2>3, Induction
  <2> QED
      BY <1>7, <2>4 DEF T
<1> QED
    BY <1>8, <1>9 DEF f, W, a

\* The number of groups.
LEMMA OneGroupEach ==
    ASSUME NEW n \in Nat \ {0}
    PROVE  /\ IsFiniteSet(GroupsOf([i \in 1 .. n |-> 1]))
           /\ Cardinality(GroupsOf([i \in 1 .. n |-> 1])) = n
<1> DEFINE S == GroupsOf([i \in 1 .. n |-> 1])
           f == [i \in 1 .. n |-> <<i, 1>>]
<1>1. S = {<<i, 1>> : i \in 1 .. n}
    BY DEF GroupsOf
<1> HIDE DEF S
<1>2. f \in Bijection(1 .. n, S)
  <2>1. f \in [1 .. n -> S]
      BY <1>1
  <2>2. \A i, j \in 1 .. n : f[i] = f[j] => i = j
      OBVIOUS
  <2>3. \A g \in S : \E i \in 1 .. n : f[i] = g
      BY <1>1
  <2> HIDE DEF f
  <2>4. f \in Injection(1 .. n, S)
      BY <2>1, <2>2 DEF Injection, IsInjective
  <2>5. f \in Surjection(1 .. n, S)
      BY <2>1, <2>3 DEF Surjection
  <2> QED
      BY <2>4, <2>5 DEF Bijection
<1>3. IsFiniteSet(1 .. n) /\ Cardinality(1 .. n) = n
    BY FS_Interval
<1>4. ExistsBijection(1 .. n, S)
    BY <1>2 DEF ExistsBijection
<1> QED
    BY <1>3, <1>4, FS_Bijection DEF S

LEMMA OneGroupMore ==
    ASSUME NEW n \in Nat \ {0}, NEW w \in [1 .. n -> Nat \ {0}], NEW i \in 1 .. n,
           IsFiniteSet(GroupsOf(w))
    PROVE  /\ IsFiniteSet(GroupsOf([w EXCEPT ![i] = w[i] + 1]))
           /\ Cardinality(GroupsOf([w EXCEPT ![i] = w[i] + 1])) = Cardinality(GroupsOf(w)) + 1
<1> DEFINE more == [w EXCEPT ![i] = w[i] + 1]
<1>1. GroupsOf(more) = GroupsOf(w) \cup {<<i, w[i] + 1>>}
  <2>1. \A g : g \in GroupsOf(w) <=> \E j \in 1 .. n : \E k \in 1 .. w[j] : g = <<j, k>>
      BY DEF GroupsOf
  <2>2. \A g : g \in GroupsOf(more) <=> \E j \in 1 .. n : \E k \in 1 .. more[j] : g = <<j, k>>
      BY DEF GroupsOf
  <2>3. more[i] = w[i] + 1 /\ \A j \in 1 .. n : j # i => more[j] = w[j]
      OBVIOUS
  <2>4. \A j \in 1 .. n : w[j] \in Nat
      OBVIOUS
  <2> HIDE DEF more
  <2>5. 1 .. w[i] + 1 = (1 .. w[i]) \cup {w[i] + 1}
      BY <2>4
  <2> QED
      BY <2>1, <2>2, <2>3, <2>5
<1>2. <<i, w[i] + 1>> \notin GroupsOf(w)
    BY DEF GroupsOf
<1> HIDE DEF more
<1>3. /\ IsFiniteSet(GroupsOf(more))
      /\ Cardinality(GroupsOf(more)) = Cardinality(GroupsOf(w)) + 1
    BY <1>1, <1>2, FS_AddElement
<1> QED
    BY <1>3 DEF more

\* The segments are the intervals between the cuts.
Cut(n, segs, end) ==
    /\ Cuts(n, end) /\ DOMAIN segs = 1 .. n
    /\ \A i \in 1 .. n : Len(segs[i]) = end[i] - end[i - 1]

\* The numbers of a segment.
LEMMA CutSizes ==
    ASSUME NEW n, NEW segs, NEW end, Cut(n, segs, end), NEW i \in 1 .. n
    PROVE  /\ n \in Nat \ {0} /\ end[i] \in Nat /\ end[i - 1] \in Nat /\ end[n] \in Nat
           /\ Len(segs[i]) \in Nat \ {0} /\ end[i] = end[i - 1] + Len(segs[i]) /\ end[i] <= end[n]
<1>1. n \in Nat \ {0} /\ i \in 0 .. n /\ i - 1 \in 0 .. n /\ n \in i .. n
    BY DEF Cut, Cuts
<1>2. end[i] \in Nat /\ end[i - 1] \in Nat /\ end[n] \in Nat /\ end[i - 1] < end[i]
    BY <1>1 DEF Cut, Cuts
<1>3. end[i] <= end[n]
    BY <1>1, CutsRise DEF Cut
<1> QED
    BY <1>1, <1>2, <1>3 DEF Cut

\* With a group for each hour there are as many groups as hours.
LEMMA GroupForEachHour ==
    ASSUME NEW n, NEW segs, NEW end, Cut(n, segs, end), NEW w,
           w = [i \in 1 .. n |-> Len(segs[i])], IsFiniteSet(GroupsOf(w))
    PROVE  end[n] <= Cardinality(GroupsOf(w))
<1> DEFINE S == GroupsOf(w)
           f == [g \in S |-> end[g[1] - 1] + g[2]]
<1>0. n \in Nat \ {0} /\ end[n] \in Nat
    BY DEF Cut, Cuts
<1>1. \A i \in 1 .. n : \A k \in 1 .. Len(segs[i]) : <<i, k>> \in S
    BY DEF GroupsOf
<1>2. \A g \in S : \E i \in 1 .. n : \E k \in 1 .. Len(segs[i]) : g = <<i, k>>
    BY DEF GroupsOf
<1> HIDE DEF S
<1>3. ASSUME NEW g \in S PROVE f[g] \in 1 .. end[n]
  <2>0. PICK i \in 1 .. n : \E k \in 1 .. Len(segs[i]) : g = <<i, k>>
      BY <1>2
  <2>1. PICK k \in 1 .. Len(segs[i]) : g = <<i, k>>
      BY <2>0
  <2>2. f[g] = end[i - 1] + k
      BY <2>1
  <2> QED
      BY <2>2, CutSizes
<1>4. ASSUME NEW p \in 1 .. end[n] PROVE \E g \in S : f[g] = p
  <2>1. PICK i \in 1 .. n : p \in end[i - 1] + 1 .. end[i]
      BY CutsReach DEF Cut
  <2> DEFINE k == p - end[i - 1]
  <2>2. /\ end[i - 1] \in Nat /\ end[i] \in Nat /\ Len(segs[i]) \in Nat /\ p \in Nat
        /\ end[i] = end[i - 1] + Len(segs[i])
      BY CutSizes
  <2>4. k \in 1 .. Len(segs[i]) /\ end[i - 1] + k = p
      BY <2>1, <2>2
  <2>3. <<i, k>> \in S
      BY <1>1, <2>4
  <2> QED
      BY <2>3, <2>4
<1>5. f \in [S -> 1 .. end[n]]
    BY <1>3
<1> HIDE DEF f
<1>6. f \in Surjection(S, 1 .. end[n])
    BY <1>4, <1>5 DEF Surjection
<1>7. Cardinality(1 .. end[n]) <= Cardinality(S)
    BY <1>6, FS_Surjection DEF S
<1>8. Cardinality(1 .. end[n]) = end[n]
    BY <1>0, FS_Interval
<1> QED
    BY <1>7, <1>8 DEF S

\* Counts: each group has its hours, and there are n + k groups.
Counts(n, segs, k) ==
    LET w == ngroups_segs(segs)[k]
    IN  /\ \A i \in 1 .. n : w[i] <= Len(segs[i])
        /\ IsFiniteSet(GroupsOf(w)) /\ Cardinality(GroupsOf(w)) = n + k

(* The segment that is given a further group has hours for it: were every     *)
(* segment to have as many groups as hours, there would be no further group.  *)
LEMMA GroupsHaveHours ==
    ASSUME NEW n, NEW segs, NEW end, Cut(n, segs, end), NEW k \in Nat, n + k <= end[n]
    PROVE  Counts(n, segs, k)
<1> DEFINE T == {m \in Nat : n + m <= end[n] => Counts(n, segs, m)}
           weights == ngroups_segs(segs)
<1>0. n \in Nat \ {0} /\ DOMAIN segs = 1 .. n /\ end[n] \in Nat
    BY DEF Cut, Cuts
<1>1. /\ weights \in [Nat -> [1 .. n -> Nat \ {0}]] /\ weights[0] = [i \in 1 .. n |-> 1]
      /\ \A m \in Nat \ {0} : weights[m] = AddGroup(segs, weights[m - 1])
    BY <1>0, WeightsByNumber
<1>2. \A i \in 1 .. n : Len(segs[i]) \in Nat \ {0}
    BY CutSizes
<1> HIDE DEF weights
<1>3. 0 \in T
  <2>1. \A i \in 1 .. n : weights[0][i] <= Len(segs[i])
      BY <1>1, <1>2
  <2>2. IsFiniteSet(GroupsOf(weights[0])) /\ Cardinality(GroupsOf(weights[0])) = n
    <3>1. n \in Nat \ {0} /\ weights[0] = [i \in 1 .. n |-> 1]
        BY <1>0, <1>1
    <3> QED
        BY <3>1, OneGroupEach
  <2>3. n = n + 0
      BY <1>0
  <2> QED
      BY <2>1, <2>2, <2>3 DEF Counts, weights
<1>4. ASSUME NEW m \in T PROVE m + 1 \in T
  <2> SUFFICES ASSUME n + (m + 1) <= end[n] PROVE Counts(n, segs, m + 1)
      OBVIOUS
  <2> DEFINE w == weights[m]
             l == Longest(segs, w)
  <2>1. m \in Nat /\ Counts(n, segs, m)
      BY <1>0
  <2>2. /\ w \in [1 .. n -> Nat \ {0}] /\ \A i \in 1 .. n : w[i] <= Len(segs[i])
        /\ IsFiniteSet(GroupsOf(w)) /\ Cardinality(GroupsOf(w)) = n + m
      BY <2>1, <1>1 DEF Counts, weights
  <2>3. weights[m + 1] = [w EXCEPT ![l] = w[l] + 1]
    <3>1. m + 1 \in Nat \ {0} /\ (m + 1) - 1 = m
        BY <2>1
    <3> QED
        BY <1>1, <3>1 DEF AddGroup
  <2> HIDE DEF w
  <2>4. PICK j \in 1 .. n : w[j] < Len(segs[j])
    <3> SUFFICES ASSUME \A j \in 1 .. n : ~(w[j] < Len(segs[j])) PROVE FALSE
        OBVIOUS
    <3>1. \A j \in 1 .. n : w[j] = Len(segs[j])
        BY <1>2, <2>2
    <3>2. w = [i \in 1 .. n |-> Len(segs[i])]
        BY <2>2, <3>1
    <3>3. end[n] <= n + m
        BY <2>2, <3>2, GroupForEachHour
    <3> QED
        BY <1>0, <2>1, <3>3
  <2>5. Weighted(n, segs, w)
      BY <1>0, <1>2, <2>2 DEF Weighted
  <2>6. l \in 1 .. n /\ Len(segs[j]) * w[l] <= Len(segs[l]) * w[j]
      BY <2>5, LongestExists
  <2> HIDE DEF l
  <2>7. w[l] < Len(segs[l])
      BY <1>2, <2>2, <2>4, <2>6, ShareOfLongest
  <2>8. \A i \in 1 .. n : weights[m + 1][i] <= Len(segs[i])
    <3>1. \A i \in 1 .. n : weights[m + 1][i] = IF i = l THEN w[i] + 1 ELSE w[i]
        BY <2>2, <2>3
    <3> QED
        BY <1>2, <2>2, <2>7, <3>1
  <2>9. /\ IsFiniteSet(GroupsOf(weights[m + 1]))
        /\ Cardinality(GroupsOf(weights[m + 1])) = (n + m) + 1
    <3>1. n \in Nat \ {0} /\ w \in [1 .. n -> Nat \ {0}] /\ l \in 1 .. n /\ IsFiniteSet(GroupsOf(w))
        BY <1>0, <2>2, <2>6
    <3>2. /\ IsFiniteSet(GroupsOf([w EXCEPT ![l] = w[l] + 1]))
          /\ Cardinality(GroupsOf([w EXCEPT ![l] = w[l] + 1])) = Cardinality(GroupsOf(w)) + 1
        BY <3>1, OneGroupMore
    <3> QED
        BY <2>2, <2>3, <3>2
  <2> QED
      BY <1>0, <2>1, <2>8, <2>9 DEF Counts, weights
<1> HIDE DEF T
<1>5. T \in SUBSET Nat
    BY DEF T
<1>6. T = Nat
    BY <1>3, <1>4, <1>5, Induction
<1> QED
    BY <1>6 DEF T

-----------------------------------------------------------------------------
(* The groups of a list of hours.                                          *)

\* The positions of the hours of a group: those after its start, up to its stop.
StartOf(segs, end, w, g) == end[g[1] - 1] + PartEnd(Len(segs[g[1]]), w[g[1]], g[2] - 1)

StopOf(segs, end, w, g) == end[g[1] - 1] + PartEnd(Len(segs[g[1]]), w[g[1]], g[2])

\* A group has hours, all of its segment.
LEMMA GroupInSegment ==
    ASSUME NEW n, NEW segs, NEW end, Cut(n, segs, end), NEW w \in [1 .. n -> Nat \ {0}],
           \A i \in 1 .. n : w[i] <= Len(segs[i]), NEW g \in GroupsOf(w)
    PROVE  /\ g[1] \in 1 .. n /\ g[2] \in 1 .. w[g[1]]
           /\ StartOf(segs, end, w, g) \in Nat /\ StopOf(segs, end, w, g) \in Nat
           /\ end[g[1] - 1] <= StartOf(segs, end, w, g)
           /\ StartOf(segs, end, w, g) < StopOf(segs, end, w, g)
           /\ StopOf(segs, end, w, g) <= end[g[1]]
<1>1. g[1] \in 1 .. n /\ g[2] \in 1 .. w[g[1]]
    BY DEF GroupsOf
<1> DEFINE i == g[1]
           size == Len(segs[i])
           part == [k \in 0 .. w[i] |-> PartEnd(size, w[i], k)]
<1>2. size \in Nat \ {0} /\ end[i] \in Nat /\ end[i - 1] \in Nat /\ end[i] = end[i - 1] + size
    BY <1>1, CutSizes
<1>3. w[i] \in 1 .. size
    BY <1>1, <1>2
<1>4. Cuts(w[i], part) /\ PartEnd(size, w[i], w[i]) = size
    BY <1>2, <1>3, PartsAreCuts
<1>5. g[2] \in 0 .. w[i] /\ g[2] - 1 \in 0 .. w[i] /\ w[i] \in g[2] .. w[i] /\ w[i] \in Nat
    BY <1>1, <1>3
<1>6. part[g[2]] <= part[w[i]]
    BY <1>4, <1>5, CutsRise
<1>7. part[g[2] - 1] \in Nat /\ part[g[2]] \in Nat /\ part[g[2] - 1] < part[g[2]]
    BY <1>1, <1>4, <1>5 DEF Cuts
<1>8. /\ StartOf(segs, end, w, g) = end[i - 1] + part[g[2] - 1]
      /\ StopOf(segs, end, w, g) = end[i - 1] + part[g[2]]
    BY <1>5 DEF StartOf, StopOf
<1>9. part[w[i]] = size
    BY <1>4, <1>5
<1> HIDE DEF part, size, i
<1>10. /\ StartOf(segs, end, w, g) \in Nat /\ StopOf(segs, end, w, g) \in Nat
       /\ end[i - 1] <= StartOf(segs, end, w, g)
       /\ StartOf(segs, end, w, g) < StopOf(segs, end, w, g)
       /\ StopOf(segs, end, w, g) <= end[i]
    BY <1>2, <1>6, <1>7, <1>8, <1>9
<1> QED
    BY <1>1, <1>10 DEF i

\* A group starts where the ones before it have stopped, at the earliest.
LEMMA GroupsFollow ==
    ASSUME NEW n, NEW segs, NEW end, Cut(n, segs, end), NEW w \in [1 .. n -> Nat \ {0}],
           \A i \in 1 .. n : w[i] <= Len(segs[i]),
           NEW g \in GroupsOf(w), NEW h \in GroupsOf(w), Before(g, h)
    PROVE  StopOf(segs, end, w, g) <= StartOf(segs, end, w, h)
<1> DEFINE stop == StopOf(segs, end, w, g)
           start == StartOf(segs, end, w, h)
<1>1. /\ g[1] \in 1 .. n /\ g[2] \in 1 .. w[g[1]] /\ stop \in Nat /\ stop <= end[g[1]]
      /\ h[1] \in 1 .. n /\ h[2] \in 1 .. w[h[1]] /\ start \in Nat /\ end[h[1] - 1] <= start
    BY GroupInSegment
<1>2. CASE g[1] < h[1]
  <2>0. n \in Nat \ {0} /\ end[g[1]] \in Nat /\ end[h[1] - 1] \in Nat
      BY <1>1, CutSizes
  <2> HIDE DEF stop, start
  <2>1. /\ n \in Nat \ {0} /\ end[g[1]] \in Nat /\ end[h[1] - 1] \in Nat
        /\ g[1] \in 0 .. n /\ h[1] - 1 \in g[1] .. n
      BY <1>1, <1>2, <2>0, Between
  <2>2. end[g[1]] <= end[h[1] - 1]
      BY <2>1, CutsRise DEF Cut
  <2>3. stop <= start
      BY <1>1, <2>1, <2>2
  <2> QED
      BY <2>3 DEF stop, start
<1>3. CASE g[1] = h[1] /\ g[2] < h[2]
  <2> DEFINE i == g[1]
             size == Len(segs[i])
             part == [k \in 0 .. w[i] |-> PartEnd(size, w[i], k)]
  <2>0. i \in 1 .. n /\ w[i] \in Nat \ {0} /\ w[i] <= size
      BY <1>1
  <2>9. size \in Nat \ {0} /\ end[i - 1] \in Nat
      BY <2>0, CutSizes
  <2>1. size \in Nat \ {0} /\ end[i - 1] \in Nat /\ w[i] \in 1 .. size
      BY <2>0, <2>9
  <2>2. Cuts(w[i], part)
      BY <2>1, PartsAreCuts
  <2>3. g[2] \in 0 .. w[i] /\ h[2] - 1 \in g[2] .. w[i] /\ h[2] - 1 \in 0 .. w[i]
      BY <1>1, <1>3, <2>1
  <2>4. part[g[2]] <= part[h[2] - 1] /\ part[g[2]] \in Nat /\ part[h[2] - 1] \in Nat
      BY <2>2, <2>3, CutsRise DEF Cuts
  <2>5. stop = end[i - 1] + part[g[2]] /\ start = end[i - 1] + part[h[2] - 1]
      BY <1>3, <2>3 DEF StartOf, StopOf
  <2> HIDE DEF part, size, i, stop, start
  <2>6. stop <= start
      BY <2>1, <2>4, <2>5
  <2> QED
      BY <2>6 DEF stop, start
<1> QED
    BY <1>2, <1>3 DEF Before

\* Every hour is in a group.
LEMMA GroupOfPosition ==
    ASSUME NEW n, NEW segs, NEW end, Cut(n, segs, end), NEW w \in [1 .. n -> Nat \ {0}],
           \A i \in 1 .. n : w[i] <= Len(segs[i]), NEW p \in 1 .. end[n]
    PROVE  \E g \in GroupsOf(w) : p \in (StartOf(segs, end, w, g) + 1) .. StopOf(segs, end, w, g)
<1>1. PICK i \in 1 .. n : p \in end[i - 1] + 1 .. end[i]
    BY CutsReach DEF Cut
<1> DEFINE size == Len(segs[i])
           part == [k \in 0 .. w[i] |-> PartEnd(size, w[i], k)]
           q == p - end[i - 1]
<1>2. size \in Nat \ {0} /\ end[i - 1] \in Nat /\ end[i] = end[i - 1] + size /\ w[i] \in 1 .. size
    BY CutSizes
<1>3. Cuts(w[i], part) /\ part[w[i]] = size
  <2>1. w[i] \in 0 .. w[i]
      BY <1>2
  <2> QED
      BY <1>2, <2>1, PartsAreCuts
<1>4. q \in 1 .. size /\ p = end[i - 1] + q
    BY <1>1, <1>2
<1>5. PICK k \in 1 .. w[i] : q \in part[k - 1] + 1 .. part[k]
  <2> HIDE DEF part, size, q
  <2> QED
      BY <1>3, <1>4, CutsReach
<1>6. k \in 0 .. w[i] /\ k - 1 \in 0 .. w[i]
    BY <1>2
<1>7. part[k] \in Nat /\ part[k - 1] \in Nat
    BY <1>3, <1>6 DEF Cuts
<1>8. /\ StartOf(segs, end, w, <<i, k>>) = end[i - 1] + part[k - 1]
      /\ StopOf(segs, end, w, <<i, k>>) = end[i - 1] + part[k]
    BY <1>6 DEF StartOf, StopOf
<1>9. <<i, k>> \in GroupsOf(w)
    BY DEF GroupsOf
<1> HIDE DEF part, size, q
<1>10. p \in ((end[i - 1] + part[k - 1]) + 1) .. (end[i - 1] + part[k])
  <2> DEFINE a == part[k - 1]
             b == part[k]
             c == end[i - 1]
  <2>1. a \in Int /\ b \in Int /\ c \in Int /\ p = c + q /\ q \in (a + 1) .. b
      BY <1>2, <1>4, <1>5, <1>7
  <2> HIDE DEF a, b, c
  <2>2. p \in ((c + a) + 1) .. (c + b)
      BY <2>1, Shifted
  <2> QED
      BY <2>2 DEF a, b, c
<1> QED
    BY <1>8, <1>9, <1>10

\* Hours in order, and break points among them.
BreaksAmong(fhrs, breakpoints) ==
    /\ fhrs \in Seq(Int) /\ Len(fhrs) \in Nat \ {0} /\ InOrder(fhrs)
    /\ breakpoints \in Seq(Int) /\ InOrder(breakpoints)
    /\ \A i \in DOMAIN breakpoints : breakpoints[i] \in ToSet(fhrs)

\* Hours in order are in the order of their positions.
LEMMA HoursInOrder ==
    ASSUME NEW fhrs \in Seq(Int), InOrder(fhrs), NEW i \in 1 .. Len(fhrs), NEW j \in 1 .. Len(fhrs)
    PROVE  /\ i < j <=> fhrs[i] < fhrs[j]
           /\ i <= j <=> fhrs[i] <= fhrs[j]
<1>1. DOMAIN fhrs = 1 .. Len(fhrs) /\ fhrs[i] \in Int /\ fhrs[j] \in Int
    OBVIOUS
<1>2. (i < j => fhrs[i] < fhrs[j]) /\ (j < i => fhrs[j] < fhrs[i])
    BY <1>1 DEF InOrder
<1>3. i = j => fhrs[i] = fhrs[j]
    OBVIOUS
<1> QED
    BY <1>1, <1>2, <1>3

\* The position bisect_right finds.
LEMMA Position ==
    ASSUME NEW fhrs \in Seq(Int), InOrder(fhrs), NEW p \in 1 .. Len(fhrs)
    PROVE  AtOrBefore(fhrs, fhrs[p]) = p
<1>1. {i \in DOMAIN fhrs : fhrs[i] <= fhrs[p]} = 1 .. p
  <2>1. DOMAIN fhrs = 1 .. Len(fhrs)
      OBVIOUS
  <2>2. \A i \in 1 .. Len(fhrs) : fhrs[i] <= fhrs[p] <=> i <= p
      BY HoursInOrder
  <2> QED
      BY <2>1, <2>2
<1>2. Cardinality(1 .. p) = p
    BY FS_Interval
<1> QED
    BY <1>1, <1>2 DEF AtOrBefore

\* The last hour is the latest.
LEMMA LastHour ==
    ASSUME NEW fhrs \in Seq(Int), InOrder(fhrs), Len(fhrs) \in Nat \ {0}
    PROVE  /\ Last(fhrs) = fhrs[Len(fhrs)] /\ Last(fhrs) \in ToSet(fhrs) /\ Last(fhrs) \in Int
           /\ \A h \in ToSet(fhrs) : h <= Last(fhrs)
<1>1. Last(fhrs) = fhrs[Len(fhrs)]
    BY DEF Last
<1>2. ToSet(fhrs) = {fhrs[i] : i \in 1 .. Len(fhrs)}
    BY DEF ToSet
<1>3. Len(fhrs) \in 1 .. Len(fhrs)
    OBVIOUS
<1>4. \A i \in 1 .. Len(fhrs) : fhrs[i] <= fhrs[Len(fhrs)]
    BY <1>3, HoursInOrder
<1> QED
    BY <1>1, <1>2, <1>3, <1>4

\* Only the last break point may be the last hour.
LEMMA ReachedBreaks ==
    ASSUME NEW fhrs, NEW breakpoints, BreaksAmong(fhrs, breakpoints)
    PROVE  LET r == Reached(fhrs, breakpoints)
               n == Len(breakpoints)
           IN  /\ r \in Nat /\ n \in Nat
               /\ \A i \in 1 .. r : i \in 1 .. n /\ breakpoints[i] < Last(fhrs)
               /\ r = n \/ (r = n - 1 /\ n \in 1 .. n /\ breakpoints[n] = Last(fhrs))
<1> DEFINE n == Len(breakpoints)
           T == {i \in DOMAIN breakpoints : breakpoints[i] < Last(fhrs)}
<1>1. /\ n \in Nat /\ DOMAIN breakpoints = 1 .. n /\ Last(fhrs) \in Int
      /\ \A i \in 1 .. n : breakpoints[i] \in Int /\ breakpoints[i] <= Last(fhrs)
    BY LastHour DEF BreaksAmong
<1>2. \A i, j \in 1 .. n : i < j => breakpoints[i] < breakpoints[j]
    BY <1>1 DEF BreaksAmong, InOrder
<1> HIDE DEF n
<1>3. CASE T = 1 .. n
  <2>1. Cardinality(1 .. n) = n
      BY <1>1, FS_Interval
  <2>2. Reached(fhrs, breakpoints) = n
      BY <1>3, <2>1 DEF Reached
  <2>3. \A i \in 1 .. n : breakpoints[i] < Last(fhrs)
      BY <1>3
  <2> QED
      BY <1>1, <2>2, <2>3 DEF n
<1>4. CASE T # 1 .. n
  <2>1. PICK k \in 1 .. n : breakpoints[k] = Last(fhrs)
      BY <1>1, <1>4
  <2>2. k = n
    <3>1. n \in 1 .. n /\ (k < n => breakpoints[k] < breakpoints[n])
        BY <1>1, <1>2
    <3>2. ~(k < n)
        BY <1>1, <2>1, <3>1
    <3> QED
        BY <1>1, <3>2
  <2>3. \A i \in 1 .. n - 1 : breakpoints[i] < Last(fhrs)
    <3> TAKE i \in 1 .. n - 1
    <3>1. i \in 1 .. n /\ n \in 1 .. n /\ i < n
        BY <1>1, <2>2
    <3> QED
        BY <1>2, <2>1, <2>2, <3>1
  <2>4. T = 1 .. n - 1
    <3>1. \A i \in 1 .. n : i \in 1 .. n - 1 \/ i = n
        BY <1>1
    <3>2. \A i \in 1 .. n - 1 : i \in 1 .. n
        BY <1>1
    <3>3. n \notin T
        BY <1>1, <2>1, <2>2
    <3> QED
        BY <1>1, <2>3, <3>1, <3>2, <3>3
  <2>5. n - 1 \in Nat /\ Cardinality(1 .. n - 1) = n - 1
      BY <1>1, <2>2, FS_Interval
  <2>6. Reached(fhrs, breakpoints) = n - 1
      BY <2>4, <2>5 DEF Reached
  <2>7. \A i \in 1 .. n - 1 : i \in 1 .. n
      BY <1>1
  <2> QED
      BY <1>1, <2>1, <2>2, <2>3, <2>5, <2>6, <2>7 DEF n
<1> QED
    BY <1>3, <1>4

\* The segments end at their break points, the last one at the last hour.
LEMMA SegmentsAreCut ==
    ASSUME NEW fhrs, NEW breakpoints, BreaksAmong(fhrs, breakpoints)
    PROVE  LET r == Reached(fhrs, breakpoints)
               end == SegmentEnds(fhrs, breakpoints)
           IN  /\ Cuts(r + 1, end) /\ end[r + 1] = Len(fhrs)
               /\ \A i \in 1 .. r : end[i] \in 1 .. Len(fhrs) /\ fhrs[end[i]] = breakpoints[i]
<1> DEFINE r == Reached(fhrs, breakpoints)
           end == SegmentEnds(fhrs, breakpoints)
           N == Len(fhrs)
<1>0. fhrs \in Seq(Int) /\ N \in Nat \ {0} /\ InOrder(fhrs)
    BY DEF BreaksAmong
<1>1. /\ r \in Nat /\ Len(breakpoints) \in Nat
      /\ \A i \in 1 .. r : i \in 1 .. Len(breakpoints) /\ breakpoints[i] < Last(fhrs)
    BY ReachedBreaks
<1>2. \A i, j \in 1 .. r : i < j => breakpoints[i] < breakpoints[j]
    BY <1>1 DEF BreaksAmong, InOrder
<1>3. end = [i \in 0 .. r + 1 |-> IF i = 0 THEN 0 ELSE IF i = r + 1 THEN N
                                  ELSE AtOrBefore(fhrs, breakpoints[i])]
    BY DEF SegmentEnds
<1>4. ASSUME NEW i \in 1 .. r
      PROVE  end[i] \in 1 .. N /\ fhrs[end[i]] = breakpoints[i]
  <2>1. breakpoints[i] \in ToSet(fhrs)
      BY <1>1 DEF BreaksAmong
  <2>2. PICK p \in 1 .. N : breakpoints[i] = fhrs[p]
      BY <1>0, <2>1 DEF ToSet
  <2>3. AtOrBefore(fhrs, breakpoints[i]) = p
      BY <1>0, <2>2, Position
  <2>4. i \in 0 .. r + 1 /\ i # 0 /\ i # r + 1
      BY <1>1
  <2>5. end[i] = p
      BY <1>3, <2>3, <2>4
  <2> QED
      BY <2>2, <2>5
<1>5. end[0] = 0 /\ end[r + 1] = N
  <2>1. 0 \in 0 .. r + 1 /\ r + 1 \in 0 .. r + 1 /\ r + 1 # 0
      BY <1>1
  <2> QED
      BY <1>3, <2>1
<1>6. DOMAIN end = 0 .. r + 1
    BY <1>3
<1> HIDE DEF end, r, N
<1>7. \A i \in 0 .. r + 1 : end[i] \in Nat
  <2>1. \A i \in 0 .. r + 1 : i = 0 \/ i = r + 1 \/ i \in 1 .. r
      BY <1>1
  <2> QED
      BY <1>0, <1>4, <1>5, <2>1
<1>8. ASSUME NEW i \in 1 .. r + 1 PROVE end[i - 1] < end[i]
  <2>1. CASE i = 1 /\ i = r + 1
      BY <1>0, <1>5, <2>1
  <2>2. CASE i = 1 /\ i # r + 1
    <3>1. 1 \in 1 .. r
        BY <1>1, <2>2
    <3> QED
        BY <1>4, <1>5, <2>2, <3>1
  <2>3. CASE i # 1 /\ i = r + 1
    <3>1. r \in 1 .. r /\ i - 1 = r
        BY <1>1, <2>3
    <3>4. N \in 1 .. N /\ Last(fhrs) = fhrs[N]
        BY <1>0, LastHour DEF N
    <3>2. fhrs[end[r]] < Last(fhrs) /\ end[r] \in 1 .. N /\ N \in 1 .. N /\ Last(fhrs) = fhrs[N]
        BY <1>1, <1>4, <3>1, <3>4
    <3>3. end[r] < N
        BY <1>0, <3>2, HoursInOrder DEF N
    <3> QED
        BY <1>5, <2>3, <3>1, <3>3
  <2>4. CASE i # 1 /\ i # r + 1
    <3>1. i \in 1 .. r /\ i - 1 \in 1 .. r /\ i - 1 < i
        BY <1>1, <2>4
    <3>2. /\ fhrs[end[i - 1]] < fhrs[end[i]]
          /\ end[i] \in 1 .. N /\ end[i - 1] \in 1 .. N
        BY <1>2, <1>4, <3>1
    <3> QED
        BY <1>0, <3>2, HoursInOrder DEF N
  <2> QED
      BY <2>1, <2>2, <2>3, <2>4
<1>9. Cuts(r + 1, end)
  <2>1. r + 1 \in Nat \ {0}
      BY <1>1
  <2>2. end \in [0 .. r + 1 -> Nat]
      BY <1>3, <1>7 DEF end
  <2> QED
      BY <1>5, <1>8, <2>1, <2>2 DEF Cuts
<1> QED
    BY <1>4, <1>5, <1>9 DEF end, r, N

\* s has the hours of fhrs after position a, up to b.
Taken(s, fhrs, a, b) ==
    /\ s \in Seq(Int) /\ Len(s) = b - a
    /\ \A j \in 1 .. b - a : s[j] = fhrs[a + j]

\* Slices of hours, and of slices.
LEMMA PartTaken ==
    ASSUME NEW fhrs \in Seq(Int), NEW a \in Nat, NEW b \in Nat, a <= b, b <= Len(fhrs)
    PROVE  Taken(SubSeq(fhrs, a + 1, b), fhrs, a, b)
<1>1. \A i \in a + 1 .. b : fhrs[i] \in Int
    BY DEF Taken
<1> DEFINE m == a + 1
<1>2. m \in Int /\ b \in Int /\ \A i \in m .. b : fhrs[i] \in Int
    BY <1>1
<1>3. b - m + 1 = b - a /\ (IF m <= b THEN b - m + 1 ELSE 0) = b - a /\ \A j \in Int : m + j - 1 = a + j
    OBVIOUS
<1> HIDE DEF m
<1>4. /\ SubSeq(fhrs, m, b) \in Seq(Int)
      /\ Len(SubSeq(fhrs, m, b)) = IF m <= b THEN b - m + 1 ELSE 0
      /\ \A j \in 1 .. b - m + 1 : SubSeq(fhrs, m, b)[j] = fhrs[m + j - 1]
    BY <1>2, SubSeqProperties
<1>5. \A j \in 1 .. b - a : j \in Int
    OBVIOUS
<1> QED
    BY <1>3, <1>4, <1>5 DEF Taken, m

LEMMA TakenOfTaken ==
    ASSUME NEW fhrs \in Seq(Int), NEW a \in Nat, NEW b \in Nat, a <= b, b <= Len(fhrs),
           NEW s, Taken(s, fhrs, a, b), NEW c \in Nat, NEW d \in Nat, c <= d, d <= b - a,
           NEW t, Taken(t, s, c, d)
    PROVE  Taken(t, fhrs, a + c, a + d)
<1>1. (a + d) - (a + c) = d - c
    OBVIOUS
<1>2. t \in Seq(Int) /\ Len(t) = d - c /\ \A j \in 1 .. d - c : t[j] = s[c + j]
    BY DEF Taken
<1>3. \A j \in 1 .. b - a : s[j] = fhrs[a + j]
    BY DEF Taken
<1>4. \A j \in 1 .. d - c : c + j \in 1 .. b - a /\ a + (c + j) = (a + c) + j
    OBVIOUS
<1>5. \A j \in 1 .. d - c : t[j] = fhrs[(a + c) + j]
    BY <1>2, <1>3, <1>4
<1> QED
    BY <1>1, <1>2, <1>5 DEF Taken

\* A slice of hours in order.
LEMMA TakenHours ==
    ASSUME NEW fhrs \in Seq(Int), InOrder(fhrs),
           NEW a \in Nat, NEW b \in Nat, a < b, b <= Len(fhrs), NEW s, Taken(s, fhrs, a, b)
    PROVE  /\ s # <<>> /\ InOrder(s) /\ ToSet(s) = {fhrs[p] : p \in a + 1 .. b}
           /\ s[1] = fhrs[a + 1] /\ Last(s) = fhrs[b]
<1> DEFINE n == b - a
<1>1. s \in Seq(Int) /\ Len(s) = n /\ n \in Nat \ {0} /\ \A j \in 1 .. n : s[j] = fhrs[a + j]
    BY DEF Taken
<1>2. DOMAIN s = 1 .. n
    BY <1>1
<1>3. s # <<>>
    BY <1>1
<1>4. InOrder(s)
  <2> SUFFICES ASSUME NEW i \in 1 .. n, NEW j \in 1 .. n, i < j PROVE s[i] < s[j]
      BY <1>2 DEF InOrder
  <2>1. a + i \in 1 .. Len(fhrs) /\ a + j \in 1 .. Len(fhrs) /\ a + i < a + j
      OBVIOUS
  <2>2. fhrs[a + i] < fhrs[a + j]
      BY <2>1, HoursInOrder
  <2> QED
      BY <1>1, <2>2
<1>5. ToSet(s) = {fhrs[p] : p \in a + 1 .. b}
  <2>1. \A p \in a + 1 .. b : p - a \in 1 .. n /\ a + (p - a) = p
      OBVIOUS
  <2>2. \A j \in 1 .. n : a + j \in a + 1 .. b
      OBVIOUS
  <2> HIDE DEF n
  <2>3. ToSet(s) = {s[j] : j \in 1 .. n}
      BY <1>2 DEF ToSet
  <2>4. \A p \in a + 1 .. b : fhrs[p] = s[p - a]
      BY <1>1, <2>1
  <2>5. \A j \in 1 .. n : s[j] = fhrs[a + j] /\ a + j \in a + 1 .. b
      BY <1>1, <2>2
  <2>6. \A p \in a + 1 .. b : p - a \in 1 .. n /\ fhrs[p] = s[p - a]
      BY <2>1, <2>4
  <2>7. ASSUME NEW h \in ToSet(s) PROVE h \in {fhrs[p] : p \in a + 1 .. b}
    <3>1. PICK j \in 1 .. n : h = s[j]
        BY <2>3
    <3> QED
        BY <2>5, <3>1
  <2>8. ASSUME NEW p \in a + 1 .. b PROVE fhrs[p] \in ToSet(s)
      BY <2>3, <2>6
  <2> QED
      BY <2>7, <2>8
<1>6. s[1] = fhrs[a + 1]
    BY <1>1
<1>7. Last(s) = fhrs[b]
  <2>1. n \in 1 .. n /\ a + n = b
      BY <1>1
  <2> QED
      BY <1>1, <2>1 DEF Last
<1> QED
    BY <1>3, <1>4, <1>5, <1>6, <1>7

\* The groups of each segment when n segments are to have ngroups of them.
WeightsFor(fhrs, ngroups, breakpoints) ==
    ngroups_segs(SplitAtBreaks(fhrs, breakpoints))
        [Least(ngroups, Len(fhrs)) - Len(SplitAtBreaks(fhrs, breakpoints))]

\* The segments, their ends and the groups of each.
Split(fhrs, ngroups, breakpoints, n, segs, end, w) ==
    /\ n = Reached(fhrs, breakpoints) + 1
    /\ segs = SplitAtBreaks(fhrs, breakpoints) /\ end = SegmentEnds(fhrs, breakpoints)
    /\ w = WeightsFor(fhrs, ngroups, breakpoints)

\* The segments have all hours, and every group its part of its segment.
LEMMA SegmentsTaken ==
    ASSUME NEW fhrs, NEW ngroups, NEW breakpoints, BreaksAmong(fhrs, breakpoints),
           NEW n, NEW segs, NEW end, NEW w, Split(fhrs, ngroups, breakpoints, n, segs, end, w)
    PROVE  /\ Cut(n, segs, end) /\ end[n] = Len(fhrs) /\ Len(segs) = n
           /\ \A i \in 1 .. n : Taken(segs[i], fhrs, end[i - 1], end[i])
<1>1. Cuts(n, end) /\ end[n] = Len(fhrs)
    BY SegmentsAreCut DEF Split
<1>2. n \in Nat \ {0} /\ end \in [0 .. n -> Nat] /\ fhrs \in Seq(Int)
    BY <1>1 DEF Cuts, BreaksAmong
<1>3. segs = [i \in 1 .. n |-> SubSeq(fhrs, end[i - 1] + 1, end[i])]
    BY DEF Split, SplitAtBreaks
<1>4. ASSUME NEW i \in 1 .. n
      PROVE  Taken(segs[i], fhrs, end[i - 1], end[i])
  <2>1. i \in 0 .. n /\ i - 1 \in 0 .. n /\ n \in i .. n
      BY <1>2
  <2>2. end[i] \in Nat /\ end[i - 1] \in Nat /\ end[i - 1] <= end[i] /\ end[i] <= Len(fhrs)
    <3>1. end[i] \in Nat /\ end[i - 1] \in Nat /\ end[i - 1] < end[i]
        BY <1>1, <1>2, <2>1 DEF Cuts
    <3>2. end[i] <= end[n]
        BY <1>1, <2>1, CutsRise
    <3> QED
        BY <1>1, <3>1, <3>2
  <2>3. segs[i] = SubSeq(fhrs, end[i - 1] + 1, end[i])
      BY <1>3
  <2> QED
      BY <1>2, <2>2, <2>3, PartTaken
<1>5. segs \in Seq(Seq(Int)) /\ Len(segs) = n /\ DOMAIN segs = 1 .. n
  <2>1. segs \in [1 .. n -> Seq(Int)]
    <3>1. \A i \in 1 .. n : segs[i] \in Seq(Int)
        BY <1>4 DEF Taken
    <3> QED
        BY <1>3, <3>1
  <2> QED
      BY <1>2, <2>1
<1>6. \A i \in 1 .. n : Len(segs[i]) = end[i] - end[i - 1]
    BY <1>4 DEF Taken
<1> QED
    BY <1>1, <1>4, <1>5, <1>6 DEF Cut

LEMMA GroupsTaken ==
    ASSUME NEW fhrs, NEW ngroups \in Nat, NEW breakpoints, BreaksAmong(fhrs, breakpoints),
           Splittable(ngroups, breakpoints),
           NEW n, NEW segs, NEW end, NEW w, Split(fhrs, ngroups, breakpoints, n, segs, end, w),
           NEW G, G = get_job_groups(fhrs, ngroups, breakpoints)
    PROVE  /\ w \in [1 .. n -> Nat \ {0}] /\ \A i \in 1 .. n : w[i] <= Len(segs[i])
           /\ IsFiniteSet(DOMAIN G) /\ Cardinality(DOMAIN G) = Least(ngroups, Len(fhrs))
           /\ DOMAIN G = GroupsOf(w)
           /\ \A g \in GroupsOf(w) :
                 Taken(G[g], fhrs, StartOf(segs, end, w, g), StopOf(segs, end, w, g))
<1> DEFINE k == Least(ngroups, Len(fhrs)) - Len(segs)
<1>1. /\ Cut(n, segs, end) /\ end[n] = Len(fhrs) /\ Len(segs) = n
      /\ \A i \in 1 .. n : Taken(segs[i], fhrs, end[i - 1], end[i])
    BY SegmentsTaken
<1>2. n \in Nat \ {0} /\ Len(fhrs) \in Nat \ {0} /\ fhrs \in Seq(Int) /\ Cuts(n, end)
    BY <1>1 DEF Cut, Cuts, BreaksAmong
<1>3. n <= ngroups
  <2>1. n = Reached(fhrs, breakpoints) + 1
      BY DEF Split
  <2>2. Reached(fhrs, breakpoints) <= Len(breakpoints)
      /\ Len(breakpoints) \in Nat /\ Reached(fhrs, breakpoints) \in Nat
      BY ReachedBreaks
  <2>3. Len(breakpoints) + 1 <= ngroups
      BY DEF Splittable
  <2> QED
      BY <1>2, <2>1, <2>2, <2>3
<1>4. n <= Len(fhrs)
  <2>1. 0 \in 0 .. n /\ n \in 0 .. n
      BY <1>2
  <2>2. n - 0 <= end[n] - end[0] /\ end[0] = 0
      BY <1>2, <2>1, CutsRise DEF Cuts
  <2> QED
      BY <1>1, <1>2, <2>2
<1>5. k \in Nat /\ n + k = Least(ngroups, Len(fhrs)) /\ n + k <= end[n]
    BY <1>1, <1>2, <1>3, <1>4 DEF Least
<1>6. w = ngroups_segs(segs)[k]
    BY DEF Split, WeightsFor
<1> HIDE DEF k
<1>7. Counts(n, segs, k)
    BY <1>1, <1>5, GroupsHaveHours
<1>8. w \in [1 .. n -> Nat \ {0}]
  <2>1. DOMAIN segs = 1 .. n
      BY <1>1 DEF Cut
  <2>2. ngroups_segs(segs) \in [Nat -> [1 .. n -> Nat \ {0}]]
      BY <1>2, <2>1, WeightsByNumber
  <2> QED
      BY <1>5, <1>6, <2>2
<1>9. /\ \A i \in 1 .. n : w[i] <= Len(segs[i])
      /\ IsFiniteSet(GroupsOf(w)) /\ Cardinality(GroupsOf(w)) = Least(ngroups, Len(fhrs))
    BY <1>5, <1>6, <1>7 DEF Counts
<1>10. G = [g \in GroupsOf(w) |-> ArraySplit(segs[g[1]], w[g[1]])[g[2]]]
    BY <1>6 DEF get_job_groups, Split, k
<1>11. ASSUME NEW g \in GroupsOf(w)
       PROVE  Taken(G[g], fhrs, StartOf(segs, end, w, g), StopOf(segs, end, w, g))
  <2> DEFINE i == g[1]
             size == Len(segs[i])
             part == [m \in 0 .. w[i] |-> PartEnd(size, w[i], m)]
             c == PartEnd(size, w[i], g[2] - 1)
             d == PartEnd(size, w[i], g[2])
  <2>1. i \in 1 .. n /\ g[2] \in 1 .. w[i] /\ w[i] \in Nat \ {0} /\ w[i] <= size
    <3>1. i \in 1 .. n /\ g[2] \in 1 .. w[i]
        BY <1>1, <1>8, <1>9, GroupInSegment
    <3> QED
        BY <1>8, <1>9, <3>1
  <2>2. /\ size \in Nat \ {0} /\ end[i - 1] \in Nat /\ end[i] \in Nat /\ end[i] = end[i - 1] + size
        /\ end[i] <= Len(fhrs)
    <3> HIDE DEF i
    <3>1. /\ end[i] \in Nat /\ end[i - 1] \in Nat /\ Len(segs[i]) \in Nat \ {0}
          /\ end[i] = end[i - 1] + Len(segs[i]) /\ end[i] <= end[n]
        BY <1>1, <2>1, CutSizes
    <3> QED
        BY <1>1, <3>1
  <2>3. Taken(segs[i], fhrs, end[i - 1], end[i])
      BY <1>1, <2>1
  <2>4. G[g] = SubSeq(segs[i], c + 1, d)
    <3>1. G[g] = ArraySplit(segs[i], w[i])[g[2]]
        BY <1>10
    <3>2. ArraySplit(segs[i], w[i])
              = [m \in 1 .. w[i] |-> SubSeq(segs[i], PartEnd(size, w[i], m - 1) + 1, PartEnd(size, w[i], m))]
        BY DEF ArraySplit
    <3> QED
        BY <2>1, <3>1, <3>2
  <2>5. c \in Nat /\ d \in Nat /\ c <= d /\ d <= size
    <3> USE DEF part
    <3>1. Cuts(w[i], part) /\ PartEnd(size, w[i], w[i]) = size
      <4>1. w[i] \in 1 .. size
          BY <2>1, <2>2
      <4> QED
          BY <2>2, <4>1, PartsAreCuts
    <3>2. g[2] \in 0 .. w[i] /\ g[2] - 1 \in 0 .. w[i] /\ w[i] \in g[2] .. w[i] /\ w[i] \in 0 .. w[i]
        BY <2>1
    <3>3. part[g[2]] = d /\ part[g[2] - 1] = c /\ part[w[i]] = size
        BY <3>1, <3>2
    <3> HIDE DEF part, c, d, size, i
    <3>4. part[g[2]] \in Nat /\ part[g[2] - 1] \in Nat /\ part[g[2] - 1] < part[g[2]]
        BY <2>1, <3>1, <3>2 DEF Cuts
    <3>5. part[g[2]] <= part[w[i]]
        BY <3>1, <3>2, CutsRise
    <3> QED
        BY <3>3, <3>4, <3>5
  <2>6. segs[i] \in Seq(Int)
      BY <2>3 DEF Taken
  <2>7. StartOf(segs, end, w, g) = end[i - 1] + c /\ StopOf(segs, end, w, g) = end[i - 1] + d
      BY DEF StartOf, StopOf
  <2>8. end[i - 1] <= end[i] /\ d <= end[i] - end[i - 1]
    <3> HIDE DEF size, i, d, c
    <3> QED
        BY <2>2, <2>5
  <2>9. Taken(SubSeq(segs[i], c + 1, d), segs[i], c, d)
      BY <2>5, <2>6, PartTaken
  <2>10. Taken(SubSeq(segs[i], c + 1, d), fhrs, end[i - 1] + c, end[i - 1] + d)
    <3> HIDE DEF size, i, d, c
    <3> QED
        BY <1>2, <2>2, <2>3, <2>5, <2>8, <2>9, TakenOfTaken
  <2> QED
      BY <2>4, <2>7, <2>10
<1>12. DOMAIN G = GroupsOf(w)
    BY <1>10
<1> QED
    BY <1>8, <1>9, <1>11, <1>12

\* The groups of hours in order, with break points among them, have all the
\* hours, in order, and no group has hours on both sides of a break point.
THEOREM GroupsSplitHours ==
    ASSUME NEW fhrs, NEW ngroups \in Nat, NEW breakpoints, BreaksAmong(fhrs, breakpoints),
           Splittable(ngroups, breakpoints),
           NEW G, G = get_job_groups(fhrs, ngroups, breakpoints)
    PROVE  /\ IsFiniteSet(DOMAIN G) /\ Cardinality(DOMAIN G) = Least(ngroups, Len(fhrs))
           /\ HoursOf(G) = ToSet(fhrs)
           /\ \A g \in DOMAIN G :
                /\ G[g] # <<>> /\ InOrder(G[g]) /\ G[g][1] \in ToSet(G[g])
                /\ g[1] \in 1 .. Len(breakpoints) + 1
                /\ \A h \in ToSet(G[g]) :
                     /\ g[1] <= Len(breakpoints) => h <= breakpoints[g[1]]
                     /\ g[1] > 1 => h > breakpoints[g[1] - 1]
           /\ \A g, h \in DOMAIN G : Before(g, h) => Last(G[g]) < G[h][1]
<1> DEFINE r == Reached(fhrs, breakpoints)
           n == r + 1
           segs == SplitAtBreaks(fhrs, breakpoints)
           end == SegmentEnds(fhrs, breakpoints)
           w == WeightsFor(fhrs, ngroups, breakpoints)
           N == Len(fhrs)
           start(g) == StartOf(segs, end, w, g)
           stop(g) == StopOf(segs, end, w, g)
<1>1. Split(fhrs, ngroups, breakpoints, n, segs, end, w)
    BY DEF Split
<1>2. Cut(n, segs, end) /\ end[n] = N
  <2>1. end[n] = N
      BY SegmentsAreCut
  <2> HIDE DEF n, segs, end, w, N
  <2>2. Cut(n, segs, end)
      BY <1>1, SegmentsTaken
  <2> QED
      BY <2>1, <2>2
<1>3. /\ w \in [1 .. n -> Nat \ {0}] /\ \A i \in 1 .. n : w[i] <= Len(segs[i])
      /\ IsFiniteSet(DOMAIN G) /\ Cardinality(DOMAIN G) = Least(ngroups, N)
      /\ DOMAIN G = GroupsOf(w)
      /\ \A g \in GroupsOf(w) : Taken(G[g], fhrs, start(g), stop(g))
    BY <1>1, GroupsTaken
<1>4. fhrs \in Seq(Int) /\ N \in Nat \ {0} /\ InOrder(fhrs) /\ ToSet(fhrs) = {fhrs[p] : p \in 1 .. N}
    BY DEF BreaksAmong, ToSet
<1>5. \A i \in 1 .. r : end[i] \in 1 .. N /\ fhrs[end[i]] = breakpoints[i]
    BY SegmentsAreCut
<1>6. /\ r \in Nat /\ Len(breakpoints) \in Nat
      /\ r = Len(breakpoints)
         \/ (r = Len(breakpoints) - 1 /\ breakpoints[Len(breakpoints)] = Last(fhrs))
    BY ReachedBreaks
<1>7. ASSUME NEW g \in GroupsOf(w)
      PROVE  /\ g[1] \in 1 .. n /\ start(g) \in Nat /\ stop(g) \in Nat
             /\ start(g) < stop(g) /\ stop(g) <= N
             /\ end[g[1]] \in Nat /\ end[g[1] - 1] \in Nat
             /\ end[g[1] - 1] <= start(g) /\ stop(g) <= end[g[1]]
  <2>1. /\ g[1] \in 1 .. n /\ start(g) \in Nat /\ stop(g) \in Nat
        /\ start(g) < stop(g) /\ end[g[1] - 1] <= start(g) /\ stop(g) <= end[g[1]]
      BY <1>2, <1>3, GroupInSegment
  <2> HIDE DEF start, stop, n, segs, end, w, N
  <2>2. end[g[1]] \in Nat /\ end[g[1] - 1] \in Nat /\ end[g[1]] <= end[n]
      BY <1>2, <2>1, CutSizes
  <2> QED
      BY <1>2, <1>4, <2>1, <2>2
<1>8. ASSUME NEW g \in GroupsOf(w), NEW h \in GroupsOf(w), Before(g, h)
      PROVE  stop(g) <= start(h)
    BY <1>2, <1>3, <1>8, GroupsFollow
<1>9. ASSUME NEW p \in 1 .. N PROVE \E g \in GroupsOf(w) : p \in (start(g) + 1) .. stop(g)
    BY <1>2, <1>3, GroupOfPosition
<1> HIDE DEF start, stop, n, segs, end, w, N, r
<1>10. ASSUME NEW g \in GroupsOf(w)
       PROVE  /\ G[g] # <<>> /\ InOrder(G[g])
              /\ ToSet(G[g]) = {fhrs[p] : p \in (start(g) + 1) .. stop(g)}
              /\ G[g][1] = fhrs[start(g) + 1] /\ Last(G[g]) = fhrs[stop(g)]
  <2>1. /\ start(g) \in Nat /\ stop(g) \in Nat /\ start(g) < stop(g) /\ stop(g) <= Len(fhrs)
        /\ Taken(G[g], fhrs, start(g), stop(g)) /\ fhrs \in Seq(Int) /\ InOrder(fhrs)
      BY <1>3, <1>4, <1>7 DEF N
  <2> DEFINE a == start(g)
             b == stop(g)
             s == G[g]
  <2> HIDE DEF a, b, s
  <2>2. /\ a \in Nat /\ b \in Nat /\ a < b /\ b <= Len(fhrs)
        /\ Taken(s, fhrs, a, b) /\ fhrs \in Seq(Int) /\ InOrder(fhrs)
      BY <2>1 DEF a, b, s
  <2>3. /\ s # <<>> /\ InOrder(s) /\ ToSet(s) = {fhrs[p] : p \in a + 1 .. b}
        /\ s[1] = fhrs[a + 1] /\ Last(s) = fhrs[b]
      BY <2>2, TakenHours
  <2> QED
      BY <2>3 DEF a, b, s
<1>11. \A g \in GroupsOf(w) : \A p \in (start(g) + 1) .. stop(g) :
            p \in 1 .. N /\ p <= end[g[1]] /\ end[g[1] - 1] < p
    BY <1>4, <1>7
<1>12. HoursOf(G) = ToSet(fhrs)
  <2>1. \A g \in GroupsOf(w) : ToSet(G[g]) \subseteq ToSet(fhrs)
      BY <1>4, <1>10, <1>11
  <2>2. ASSUME NEW p \in 1 .. N PROVE fhrs[p] \in HoursOf(G)
    <3>1. PICK g \in GroupsOf(w) : p \in (start(g) + 1) .. stop(g)
        BY <1>9
    <3>2. fhrs[p] \in ToSet(G[g])
        BY <1>10, <3>1
    <3> QED
        BY <1>3, <3>2 DEF HoursOf
  <2> QED
      BY <1>3, <1>4, <2>1, <2>2 DEF HoursOf
<1>13. ASSUME NEW g \in GroupsOf(w)
       PROVE  /\ G[g][1] \in ToSet(G[g])
              /\ g[1] \in 1 .. Len(breakpoints) + 1
              /\ \A h \in ToSet(G[g]) :
                     /\ g[1] <= Len(breakpoints) => h <= breakpoints[g[1]]
                     /\ g[1] > 1 => h > breakpoints[g[1] - 1]
  <2>1. start(g) + 1 \in (start(g) + 1) .. stop(g)
      BY <1>7
  <2>2. G[g][1] \in ToSet(G[g])
    <3>1. fhrs[start(g) + 1] \in {fhrs[p] : p \in (start(g) + 1) .. stop(g)}
        BY <2>1
    <3> QED
        BY <1>10, <3>1
  <2>3. g[1] \in 1 .. r + 1 /\ g[1] \in 1 .. Len(breakpoints) + 1
      BY <1>6, <1>7 DEF n
  <2>4. ASSUME NEW p \in (start(g) + 1) .. stop(g), g[1] <= Len(breakpoints)
        PROVE  fhrs[p] <= breakpoints[g[1]]
    <3>1. p \in 1 .. N /\ p <= end[g[1]]
        BY <1>11
    <3>2. CASE g[1] \in 1 .. r
      <4>1. end[g[1]] \in 1 .. N /\ fhrs[end[g[1]]] = breakpoints[g[1]]
          BY <1>5, <3>2
      <4> QED
          BY <1>4, <3>1, <4>1, HoursInOrder DEF N
    <3>3. CASE g[1] \notin 1 .. r
      <4>1. g[1] = Len(breakpoints) /\ breakpoints[g[1]] = Last(fhrs)
          BY <1>6, <2>3, <2>4, <3>3
      <4>2. fhrs[p] \in ToSet(fhrs)
          BY <1>4, <3>1
      <4> QED
          BY <1>4, <4>1, <4>2, LastHour DEF N
    <3> QED
        BY <3>2, <3>3
  <2>5. ASSUME NEW p \in (start(g) + 1) .. stop(g), g[1] > 1
        PROVE  fhrs[p] > breakpoints[g[1] - 1]
    <3>1. p \in 1 .. N /\ end[g[1] - 1] < p
        BY <1>11
    <3>2. g[1] - 1 \in 1 .. r
        BY <1>6, <2>3, <2>5
    <3>3. end[g[1] - 1] \in 1 .. N /\ fhrs[end[g[1] - 1]] = breakpoints[g[1] - 1]
        BY <1>5, <3>2
    <3>4. fhrs[end[g[1] - 1]] < fhrs[p]
        BY <1>4, <3>1, <3>3, HoursInOrder DEF N
    <3>5. fhrs[p] \in Int /\ fhrs[end[g[1] - 1]] \in Int
        BY <1>4, <3>1, <3>3 DEF N
    <3> QED
        BY <3>3, <3>4, <3>5
  <2>6. ASSUME NEW h \in ToSet(G[g])
        PROVE  /\ g[1] <= Len(breakpoints) => h <= breakpoints[g[1]]
               /\ g[1] > 1 => h > breakpoints[g[1] - 1]
    <3>1. PICK p \in (start(g) + 1) .. stop(g) : h = fhrs[p]
        BY <1>10
    <3> QED
        BY <2>4, <2>5, <3>1
  <2> QED
      BY <2>2, <2>3, <2>6
<1>14. ASSUME NEW g \in GroupsOf(w), NEW h \in GroupsOf(w), Before(g, h)
       PROVE  Last(G[g]) < G[h][1]
  <2>1. stop(g) \in 1 .. N /\ start(h) + 1 \in 1 .. N /\ stop(g) < start(h) + 1
    <3>1. stop(g) <= start(h)
        BY <1>8, <1>14
    <3> QED
        BY <1>4, <1>7, <3>1
  <2> QED
      BY <1>4, <1>10, <2>1, HoursInOrder DEF N
<1> QED
    BY <1>3, <1>10, <1>12, <1>13, <1>14 DEF N

-----------------------------------------------------------------------------
(* The hours of a forecast.                                                *)

\* s is a list of hours, from the first to before the last.
Ranges(from, to, step, s) ==
    from \in Int /\ to \in Int /\ step \in Nat \ {0} /\ s = Hours(from, to, step)

\* Python's range lists what is as many steps from the first as it may be.
LEMMA HoursAre ==
    ASSUME NEW from, NEW to, NEW step, NEW s, Ranges(from, to, step, s)
    PROVE  /\ s \in Seq(Int) /\ InOrder(s) /\ Len(s) \in Nat
           /\ \A i \in 1 .. Len(s) : s[i] = from + (i - 1) * step
           /\ ToSet(s) = {h \in from .. to - 1 : (h - from) % step = 0}
<1> DEFINE a == to - from + step - 1
           len == IF to > from THEN a \div step ELSE 0
<1> SUFFICES ASSUME from \in Int, to \in Int, step \in Nat \ {0}, s = Hours(from, to, step)
             PROVE  /\ s \in Seq(Int) /\ InOrder(s) /\ Len(s) \in Nat
                    /\ \A i \in 1 .. Len(s) : s[i] = from + (i - 1) * step
                    /\ ToSet(s) = {h \in from .. to - 1 : (h - from) % step = 0}
    BY DEF Ranges
<1>1. s = [i \in 1 .. len |-> from + (i - 1) * step]
    BY DEF Hours
<1>2. a \in Int /\ a = ((to - from) + step) - 1
    OBVIOUS
<1> HIDE DEF a
<1>3. /\ a \div step \in Int /\ step * (a \div step) \in Int
      /\ step * (a \div step) <= a /\ a < step * (a \div step) + step
  <2>1. a \div step \in Int /\ a % step \in 0 .. step - 1 /\ a = step * (a \div step) + (a % step)
      BY <1>2, Quotient
  <2>2. step * (a \div step) \in Int
      BY <2>1
  <2> QED
      BY <1>2, <2>1, <2>2
<1>4. len \in Nat
  <2>1. CASE to > from
    <3>1. ~(a \div step + 1 <= 0)
      <4> SUFFICES ASSUME a \div step + 1 <= 0 PROVE FALSE
          OBVIOUS
      <4>1. step * (a \div step + 1) <= step * 0 /\ step * (a \div step + 1) = step * (a \div step) + step
          BY <1>3, Products
      <4> QED
          BY <1>2, <1>3, <2>1, <4>1
    <3> QED
        BY <1>3, <2>1, <3>1
  <2> QED
      BY <2>1
<1>5. ASSUME NEW i \in Nat \ {0} PROVE i \in 1 .. len <=> from + (i - 1) * step < to
  <2>1. (i - 1) * step = step * (i - 1) /\ step * (i - 1) \in Nat
      OBVIOUS
  <2>2. CASE ~(to > from)
      BY <2>1, <2>2
  <2>3. CASE to > from
    <3> DEFINE q == a \div step
    <3>1. len = q
        BY <2>3
    <3>2. q \in Int /\ step * q \in Int /\ step * q <= a /\ a < step * q + step
        BY <1>3
    <3>3. /\ i <= q => step * i <= step * q
          /\ q + 1 <= i => step * (q + 1) <= step * i
          /\ step * i = step * (i - 1) + step /\ step * (q + 1) = step * q + step
      <4>1. q + 1 \in Int /\ i - 1 \in Int /\ (i - 1) + 1 = i /\ i \in Int
          BY <3>2
      <4> HIDE DEF q
      <4>2. /\ i <= q => step * i <= step * q
            /\ q + 1 <= i => step * (q + 1) <= step * i
          BY <3>2, <4>1, Products
      <4>3. step * ((i - 1) + 1) = step * (i - 1) + step /\ step * (q + 1) = step * q + step
          BY <3>2, <4>1, Products
      <4> QED
          BY <4>1, <4>2, <4>3
    <3> HIDE DEF q, len
    <3>4. step * i \in Int /\ step * (q + 1) \in Int
        BY <3>2
    <3>5. i <= q <=> step * (i - 1) < to - from
        BY <1>2, <2>1, <3>2, <3>3, <3>4
    <3> QED
        BY <2>1, <3>1, <3>2, <3>5
  <2> QED
      BY <2>2, <2>3
<1> HIDE DEF len
<1>6. s \in Seq(Int) /\ Len(s) = len /\ DOMAIN s = 1 .. len
  <2>1. \A i \in 1 .. len : from + (i - 1) * step \in Int
      BY <1>4
  <2> QED
      BY <1>1, <1>4, <2>1
<1>7. \A i \in 1 .. Len(s) : s[i] = from + (i - 1) * step
    BY <1>1, <1>6
<1>8. InOrder(s)
  <2> SUFFICES ASSUME NEW i \in 1 .. len, NEW j \in 1 .. len, i < j PROVE s[i] < s[j]
      BY <1>6 DEF InOrder
  <2>1. step * (i - 1) < step * (j - 1)
    <3>1. ~(step * (j - 1) <= step * (i - 1))
        BY <1>4, Products
    <3> QED
        BY <1>4, <3>1
  <2>2. /\ (i - 1) * step = step * (i - 1) /\ (j - 1) * step = step * (j - 1)
        /\ step * (i - 1) \in Int /\ step * (j - 1) \in Int
      BY <1>4
  <2> QED
      BY <1>6, <1>7, <2>1, <2>2
<1>9. ASSUME NEW i \in 1 .. len
      PROVE  s[i] \in from .. to - 1 /\ (s[i] - from) % step = 0
  <2>1. i \in Nat \ {0} /\ s[i] = from + (i - 1) * step /\ s[i] < to
      BY <1>4, <1>5, <1>6, <1>7
  <2>2. (i - 1) * step = step * (i - 1) /\ step * (i - 1) \in Nat /\ i - 1 \in Int
      BY <2>1
  <2>3. s[i] - from = step * (i - 1) /\ s[i] \in Int
      BY <2>1, <2>2
  <2>4. (s[i] - from) % step = 0
    <3> DEFINE d == s[i] - from
    <3>1. d \in Int /\ d = step * (i - 1)
        BY <2>3
    <3> HIDE DEF d
    <3>2. d % step = 0
        BY <2>2, <3>1, Multiple
    <3> QED
        BY <3>2 DEF d
  <2> QED
      BY <2>1, <2>2, <2>4
<1>10. ASSUME NEW h \in from .. to - 1, (h - from) % step = 0
       PROVE  \E i \in 1 .. len : s[i] = h
  <2>1. PICK k \in Int : h - from = step * k
    <3> DEFINE d == h - from
    <3>1. d \in Int /\ d % step = 0
        BY <1>10
    <3> HIDE DEF d
    <3>2. \E k \in Int : d = step * k
        BY <3>1, IsMultiple
    <3> QED
        BY <3>2 DEF d
  <2>2. k \in Nat
    <3>1. step * 0 <= step * k
        BY <2>1
    <3> QED
        BY <2>1, <3>1, Products
  <2>3. k + 1 \in Nat \ {0} /\ (k + 1) - 1 = k /\ k * step = step * k /\ step * k \in Int
      BY <2>2
  <2>4. k + 1 \in 1 .. len
      BY <1>5, <2>1, <2>3
  <2> QED
      BY <1>6, <1>7, <2>1, <2>3, <2>4
<1> QED
  <2>1. ToSet(s) = {s[i] : i \in 1 .. len}
      BY <1>6 DEF ToSet
  <2>2. ToSet(s) = {h \in from .. to - 1 : (h - from) % step = 0}
      BY <1>9, <1>10, <2>1
  <2> QED
      BY <1>4, <1>6, <1>7, <1>8, <2>2

\* s steps from one hour to another.
Spans(from, last, step, s) ==
    /\ from \in Int /\ last \in Int /\ step \in Nat \ {0} /\ from <= last
    /\ (last - from) % step = 0 /\ s = Hours(from, last + step, step)

\* A range to one step after the last hour ends with it.
LEMMA HoursUpTo ==
    ASSUME NEW from, NEW last, NEW step, NEW s, Spans(from, last, step, s)
    PROVE  /\ s \in Seq(Int) /\ InOrder(s) /\ Len(s) \in Nat \ {0}
           /\ s[1] = from /\ Last(s) = last
           /\ ToSet(s) = {h \in from .. last : (h - from) % step = 0}
<1> DEFINE to == last + step
<1>0. /\ from \in Int /\ last \in Int /\ step \in Nat \ {0} /\ from <= last
      /\ (last - from) % step = 0
    BY DEF Spans
<1>1. to \in Int /\ s = Hours(from, to, step)
    BY <1>0 DEF Spans
<1> HIDE DEF to
<1>2. /\ s \in Seq(Int) /\ InOrder(s) /\ Len(s) \in Nat
      /\ \A i \in 1 .. Len(s) : s[i] = from + (i - 1) * step
      /\ ToSet(s) = {h \in from .. to - 1 : (h - from) % step = 0}
  <2>1. Ranges(from, to, step, s)
      BY <1>0, <1>1 DEF Ranges
  <2> QED
      BY <2>1, HoursAre
<1>3. ASSUME NEW h \in from .. to - 1, (h - from) % step = 0
      PROVE  h \in from .. last
  <2> DEFINE a == last - from
             c == h - from
  <2>1. a \in Int /\ c \in Int /\ a % step = 0 /\ c % step = 0 /\ c < a + step
      BY <1>0, <1>1, <1>3 DEF to
  <2> HIDE DEF a, c
  <2>2. c <= a
      BY <1>0, <2>1, NextMultiple
  <2> QED
      BY <1>0, <1>1, <2>2 DEF a, c
<1>4. \A h \in from .. last : h \in from .. to - 1
    BY <1>0 DEF to
<1>5. ToSet(s) = {h \in from .. last : (h - from) % step = 0}
    BY <1>2, <1>3, <1>4
<1>6. last \in ToSet(s)
    BY <1>0, <1>5
<1>7. Len(s) \in Nat \ {0}
  <2>1. ToSet(s) = {s[i] : i \in 1 .. Len(s)}
      BY <1>2 DEF ToSet
  <2>2. \E i \in 1 .. Len(s) : TRUE
      BY <1>6, <2>1
  <2> QED
      BY <1>2, <2>2
<1>8. s[1] = from
  <2>1. s[1] = from + (1 - 1) * step
      BY <1>2, <1>7
  <2> QED
      BY <1>0, <2>1
<1>9. Last(s) = last
  <2>1. Last(s) \in ToSet(s) /\ Last(s) \in Int /\ last <= Last(s)
      BY <1>2, <1>6, <1>7, LastHour
  <2>2. Last(s) <= last
      BY <1>0, <1>5, <2>1
  <2> QED
      BY <1>0, <2>1, <2>2
<1> QED
    BY <1>2, <1>5, <1>7, <1>8, <1>9

\* The hours of t come after those of s.
Joins(s, t, u) ==
    /\ s \in Seq(Int) /\ t \in Seq(Int) /\ InOrder(s) /\ InOrder(t) /\ Len(s) \in Nat \ {0}
    /\ \A h \in ToSet(t) : Last(s) < h
    /\ u = s \o t

\* Both lists after each other are in order.
LEMMA Joined ==
    ASSUME NEW s, NEW t, NEW u, Joins(s, t, u)
    PROVE  /\ u \in Seq(Int) /\ InOrder(u) /\ Len(u) \in Nat \ {0}
           /\ u[1] = s[1] /\ ToSet(u) = ToSet(s) \cup ToSet(t)
<1> DEFINE m == Len(s)
           n == Len(t)
<1>0. /\ s \in Seq(Int) /\ t \in Seq(Int) /\ InOrder(s) /\ InOrder(t) /\ Len(s) \in Nat \ {0}
      /\ u = s \o t /\ \A h \in ToSet(t) : Last(s) < h
    BY DEF Joins
<1>1. /\ m \in Nat \ {0} /\ n \in Nat /\ u \in Seq(Int) /\ Len(u) = m + n
      /\ \A i \in 1 .. m : u[i] = s[i]
      /\ \A i \in 1 .. n : u[m + i] = t[i]
    BY <1>0
<1>3. Last(s) = s[m] /\ Last(s) \in Int /\ \A h \in ToSet(s) : h <= Last(s)
    BY <1>0, LastHour
<1>4. DOMAIN s = 1 .. m /\ \A i \in 1 .. m : s[i] \in Int
    BY <1>0
<1>5. DOMAIN t = 1 .. n /\ \A i \in 1 .. n : t[i] \in Int
    BY <1>0
<1> HIDE DEF m, n
<1>12. DOMAIN u = 1 .. m + n
    BY <1>1
<1>2. /\ ToSet(s) = {s[i] : i \in 1 .. m} /\ ToSet(t) = {t[i] : i \in 1 .. n}
      /\ ToSet(u) = {u[i] : i \in 1 .. m + n}
    BY <1>4, <1>5, <1>12 DEF ToSet
<1>6. \A i \in 1 .. m + n : i \in 1 .. m \/ (i - m \in 1 .. n /\ i = m + (i - m))
    BY <1>1
<1>7. \A i \in 1 .. m : i \in 1 .. m + n
    BY <1>1
<1>8. \A i \in 1 .. n : m + i \in 1 .. m + n
    BY <1>1
<1>9. ToSet(u) = ToSet(s) \cup ToSet(t)
  <2>1. ASSUME NEW i \in 1 .. m + n PROVE u[i] \in ToSet(s) \cup ToSet(t)
    <3>1. CASE i \in 1 .. m
        BY <1>1, <1>2, <3>1
    <3>2. CASE i - m \in 1 .. n /\ i = m + (i - m)
      <4>1. u[i] = t[i - m]
          BY <1>1, <3>2
      <4> QED
          BY <1>2, <3>2, <4>1
    <3> QED
        BY <1>6, <3>1, <3>2
  <2>2. ASSUME NEW i \in 1 .. m PROVE s[i] \in ToSet(u)
      BY <1>1, <1>2, <1>7
  <2>3. ASSUME NEW i \in 1 .. n PROVE t[i] \in ToSet(u)
      BY <1>1, <1>2, <1>8
  <2> QED
      BY <1>2, <2>1, <2>2, <2>3
<1>10. InOrder(u)
  <2>1. DOMAIN u = 1 .. m + n
      BY <1>1
  <2> SUFFICES ASSUME NEW i \in 1 .. m + n, NEW j \in 1 .. m + n, i < j PROVE u[i] < u[j]
      BY <2>1 DEF InOrder
  <2>2. CASE j \in 1 .. m
    <3>1. i \in 1 .. m
        BY <1>1, <2>2
    <3>2. s[i] < s[j]
        BY <1>0, <1>4, <2>2, <3>1 DEF InOrder
    <3> QED
        BY <1>1, <2>2, <3>1, <3>2
  <2>3. CASE i \in 1 .. m /\ j - m \in 1 .. n /\ j = m + (j - m)
    <3>1. s[i] <= Last(s) /\ Last(s) < t[j - m]
        BY <1>0, <1>2, <1>3, <2>3
    <3>2. u[i] = s[i] /\ u[j] = t[j - m]
        BY <1>1, <2>3
    <3>3. s[i] \in Int /\ t[j - m] \in Int /\ Last(s) \in Int
        BY <1>3, <1>4, <1>5, <2>3
    <3>4. s[i] < t[j - m]
        BY <3>1, <3>3
    <3> QED
        BY <3>2, <3>4
  <2>4. CASE i - m \in 1 .. n /\ i = m + (i - m) /\ j - m \in 1 .. n /\ j = m + (j - m)
    <3>1. i - m < j - m
        BY <1>1
    <3>2. t[i - m] < t[j - m]
        BY <1>0, <1>5, <2>4, <3>1 DEF InOrder
    <3>3. u[i] = t[i - m] /\ u[j] = t[j - m]
        BY <1>1, <2>4
    <3> QED
        BY <3>2, <3>3
  <2> QED
      BY <1>6, <2>2, <2>3, <2>4
<1>11. u[1] = s[1] /\ Len(u) \in Nat \ {0}
    BY <1>1
<1> QED
    BY <1>1, <1>9, <1>10, <1>11

\* The hours of two steps, to the end of each part.
StepsTo(hfmax, hfout, fhmax, fhout, s) ==
    /\ hfmax \in Nat /\ hfout \in Nat \ {0} /\ hfmax % hfout = 0
    /\ fhmax \in Nat /\ hfmax <= fhmax /\ fhout \in Nat \ {0} /\ (fhmax - hfmax) % fhout = 0
    /\ s = TwoSteps(0, hfmax, hfout, fhmax, fhout)

LEMMA TwoStepHours ==
    ASSUME NEW hfmax, NEW hfout, NEW fhmax, NEW fhout, NEW s, StepsTo(hfmax, hfout, fhmax, fhout, s)
    PROVE  /\ s \in Seq(Int) /\ InOrder(s) /\ Len(s) \in Nat \ {0} /\ s[1] = 0
           /\ ToSet(s) = {h \in 0 .. fhmax : IF h <= hfmax THEN h % hfout = 0
                                             ELSE (h - hfmax) % fhout = 0}
<1> DEFINE hf == Hours(0, hfmax + hfout, hfout)
           from == hfmax + fhout
           lf == Hours(from, fhmax + fhout, fhout)
<1> SUFFICES
        ASSUME hfmax \in Nat, hfout \in Nat \ {0}, hfmax % hfout = 0, fhmax \in Nat,
               hfmax <= fhmax, fhout \in Nat \ {0}, (fhmax - hfmax) % fhout = 0,
               s = TwoSteps(0, hfmax, hfout, fhmax, fhout)
        PROVE  /\ s \in Seq(Int) /\ InOrder(s) /\ Len(s) \in Nat \ {0} /\ s[1] = 0
               /\ ToSet(s) = {h \in 0 .. fhmax : IF h <= hfmax THEN h % hfout = 0
                                                 ELSE (h - hfmax) % fhout = 0}
    BY DEF StepsTo
<1>1. /\ hf \in Seq(Int) /\ InOrder(hf) /\ Len(hf) \in Nat \ {0} /\ hf[1] = 0 /\ Last(hf) = hfmax
      /\ ToSet(hf) = {h \in 0 .. hfmax : (h - 0) % hfout = 0}
  <2>1. Spans(0, hfmax, hfout, hf)
    <3>1. hfmax - 0 = hfmax
        OBVIOUS
    <3> QED
        BY <3>1 DEF Spans
  <2> HIDE DEF hf
  <2> QED
      BY <2>1, HoursUpTo
<1>2. s = hf \o lf
    BY <1>1 DEF TwoSteps
<1>3. from \in Int /\ from > hfmax
    OBVIOUS
<1>4. lf \in Seq(Int) /\ InOrder(lf) /\ ToSet(lf) = {h \in from .. fhmax : (h - from) % fhout = 0}
  <2>1. CASE fhmax = hfmax
    <3>1. fhmax + fhout \in Int /\ from .. (fhmax + fhout) - 1 = {} /\ from .. fhmax = {}
        BY <2>1
    <3> HIDE DEF from
    <3>2. /\ lf \in Seq(Int) /\ InOrder(lf)
          /\ ToSet(lf) = {h \in from .. (fhmax + fhout) - 1 : (h - from) % fhout = 0}
      <4> DEFINE to == fhmax + fhout
      <4>1. from \in Int /\ to \in Int /\ fhout \in Nat \ {0} /\ lf = Hours(from, to, fhout)
          BY <1>3
      <4> HIDE DEF to, lf
      <4>2. /\ lf \in Seq(Int) /\ InOrder(lf)
            /\ ToSet(lf) = {h \in from .. to - 1 : (h - from) % fhout = 0}
        <5>1. Ranges(from, to, fhout, lf)
            BY <4>1 DEF Ranges
        <5> QED
            BY <5>1, HoursAre
      <4> QED
          BY <4>2 DEF to
    <3> QED
        BY <3>1, <3>2
  <2>2. CASE hfmax < fhmax
    <3>1. from <= fhmax /\ (fhmax - from) % fhout = 0
      <4> DEFINE a == fhmax - hfmax
      <4>1. a \in Int /\ 0 < a /\ a % fhout = 0 /\ fhmax - from = a - fhout
          BY <2>2
      <4> HIDE DEF a
      <4>2. PICK k \in Int : a = fhout * k
          BY <4>1, IsMultiple
      <4>3. a - fhout = fhout * (k - 1) /\ k - 1 \in Int /\ fhout * 0 = 0 /\ fhout * k \in Int
          BY <4>2
      <4>4. ~(k <= 0)
          BY <4>1, <4>2, <4>3, Products
      <4>5. fhout * 0 <= fhout * (k - 1)
        <5>1. 0 <= k - 1
            BY <4>2, <4>4
        <5> QED
            BY <4>3, <5>1, Products
      <4>6. (a - fhout) % fhout = 0
        <5> DEFINE d == a - fhout
        <5>1. d \in Int /\ d = fhout * (k - 1)
            BY <4>1, <4>3
        <5> HIDE DEF d
        <5>2. d % fhout = 0
            BY <4>3, <5>1, Multiple
        <5> QED
            BY <5>2 DEF d
      <4>7. 0 <= a - fhout
          BY <4>3, <4>5
      <4>8. from <= fhmax
          BY <1>3, <4>1, <4>7
      <4> QED
          BY <4>1, <4>6, <4>8
    <3> HIDE DEF from
    <3>2. Spans(from, fhmax, fhout, lf)
        BY <1>3, <3>1 DEF Spans
    <3> HIDE DEF lf
    <3> QED
        BY <3>2, HoursUpTo
  <2> QED
      BY <2>1, <2>2
<1> HIDE DEF hf, lf, from
<1>5. \A h \in ToSet(lf) : Last(hf) < h
    BY <1>1, <1>3, <1>4
<1>6. /\ s \in Seq(Int) /\ InOrder(s) /\ Len(s) \in Nat \ {0} /\ s[1] = 0
      /\ ToSet(s) = ToSet(hf) \cup ToSet(lf)
  <2>1. Joins(hf, lf, s)
      BY <1>1, <1>2, <1>4, <1>5 DEF Joins
  <2> QED
      BY <1>1, <2>1, Joined
<1>7. ASSUME NEW h \in Int, h > hfmax
      PROVE  h >= from /\ (h - from) % fhout = 0 <=> (h - hfmax) % fhout = 0
  <2> DEFINE c == h - hfmax
  <2>1. c \in Int /\ 0 < c /\ h - from = c - fhout
      BY <1>7 DEF from
  <2>2. fhout % fhout = 0
    <3>1. fhout = fhout * 1
        OBVIOUS
    <3> QED
        BY <3>1, Multiple
  <2> HIDE DEF c
  <2>3. (c - fhout) % fhout = 0 <=> c % fhout = 0
    <3>1. Aligned(fhout, fhout, c)
        BY <2>1, <2>2 DEF Aligned
    <3> QED
        BY <3>1, RemainderOfDifference
  <2>4. c % fhout = 0 => fhout <= c
    <3> SUFFICES ASSUME c % fhout = 0, c < fhout PROVE FALSE
        BY <2>1
    <3>1. 0 % fhout = 0 /\ c < 0 + fhout
        BY <2>1
    <3>2. c <= 0
        BY <2>1, <3>1, NextMultiple
    <3> QED
        BY <2>1, <3>2
  <2>5. h >= from <=> fhout <= c
      BY <1>7 DEF c, from
  <2> QED
      BY <2>1, <2>3, <2>4, <2>5 DEF c
<1>8. ToSet(s) = {h \in 0 .. fhmax : IF h <= hfmax THEN h % hfout = 0
                                    ELSE (h - hfmax) % fhout = 0}
  <2>1. ToSet(hf) = {h \in 0 .. fhmax : h <= hfmax /\ h % hfout = 0}
    <3>1. \A h \in 0 .. hfmax : h - 0 = h /\ h \in 0 .. fhmax /\ h <= hfmax
        OBVIOUS
    <3>2. \A h \in 0 .. fhmax : h <= hfmax => h \in 0 .. hfmax
        OBVIOUS
    <3> QED
        BY <1>1, <3>1, <3>2
  <2>2. ToSet(lf) = {h \in 0 .. fhmax : ~(h <= hfmax) /\ (h - hfmax) % fhout = 0}
    <3>1. \A h \in from .. fhmax : h \in 0 .. fhmax /\ ~(h <= hfmax) /\ h \in Int /\ h > hfmax
        BY <1>3
    <3>2. \A h \in 0 .. fhmax : ~(h <= hfmax) => h \in Int /\ h > hfmax /\ (h >= from => h \in from .. fhmax)
        BY <1>3
    <3> QED
        BY <1>4, <1>7, <3>1, <3>2
  <2> QED
      BY <1>6, <2>1, <2>2
<1> QED
    BY <1>6, <1>8

\* Every hour is in a list once.
LEMMA CountHours ==
    ASSUME NEW s \in Seq(Int), InOrder(s)
    PROVE  Cardinality(ToSet(s)) = Len(s)
<1> DEFINE n == Len(s)
           f == [i \in 1 .. n |-> s[i]]
<1>1. n \in Nat /\ ToSet(s) = {s[i] : i \in 1 .. n}
    BY DEF ToSet
<1>2. f \in [1 .. n -> ToSet(s)]
    BY <1>1
<1>3. \A i, j \in 1 .. n : f[i] = f[j] => i = j
  <2> SUFFICES ASSUME NEW i \in 1 .. n, NEW j \in 1 .. n, s[i] = s[j] PROVE i = j
      OBVIOUS
  <2>1. s[i] \in Int /\ s[j] \in Int
      OBVIOUS
  <2>2. ~(i < j) /\ ~(j < i)
      BY <2>1, HoursInOrder
  <2> QED
      BY <1>1, <2>2
<1>4. \A h \in ToSet(s) : \E i \in 1 .. n : f[i] = h
    BY <1>1
<1> HIDE DEF f, n
<1>5. f \in Injection(1 .. n, ToSet(s)) /\ f \in Surjection(1 .. n, ToSet(s))
    BY <1>2, <1>3, <1>4 DEF Injection, IsInjective, Surjection
<1>6. f \in Bijection(1 .. n, ToSet(s))
    BY <1>5 DEF Bijection
<1>7. IsFiniteSet(1 .. n) /\ Cardinality(1 .. n) = n
    BY <1>1, FS_Interval
<1>8. ExistsBijection(1 .. n, ToSet(s))
    BY <1>6 DEF ExistsBijection
<1>9. Cardinality(ToSet(s)) = n
    BY <1>7, <1>8, FS_Bijection
<1> QED
    BY <1>9 DEF n

\* Without the first hour the others are left.
LEMMA HoursAfterFirst ==
    ASSUME NEW s \in Seq(Int), InOrder(s), Len(s) \in Nat \ {0}
    PROVE  /\ Tail(s) \in Seq(Int) /\ InOrder(Tail(s)) /\ Len(Tail(s)) \in Nat
           /\ ToSet(Tail(s)) = ToSet(s) \ {s[1]}
<1> DEFINE n == Len(s) - 1
           t == Tail(s)
<1>1. n \in Nat /\ t \in Seq(Int) /\ Len(t) = n /\ \A i \in 1 .. n : t[i] = s[i + 1]
  <2>1. s # <<>>
      OBVIOUS
  <2> QED
      BY <2>1, HeadTailProperties
<1>2. DOMAIN t = 1 .. n
    BY <1>1
<1>3. ToSet(t) = {t[i] : i \in 1 .. n} /\ ToSet(s) = {s[i] : i \in 1 .. n + 1}
  <2>1. DOMAIN s = 1 .. n + 1
      OBVIOUS
  <2> HIDE DEF t, n
  <2> QED
      BY <1>2, <2>1 DEF ToSet
<1>4. n + 1 = Len(s)
    OBVIOUS
<1> HIDE DEF t, n
<1>5. \A i \in 1 .. n : i + 1 \in 1 .. n + 1 /\ 1 < i + 1 /\ 1 \in 1 .. n + 1
    BY <1>1
<1>6. \A i \in 1 .. n : s[1] < s[i + 1] /\ s[1] \in Int /\ s[i + 1] \in Int
    BY <1>4, <1>5, HoursInOrder
<1>7. ASSUME NEW i \in 1 .. n PROVE t[i] \in ToSet(s) \ {s[1]}
  <2>1. t[i] = s[i + 1] /\ s[i + 1] \in ToSet(s)
      BY <1>1, <1>3, <1>5
  <2>2. s[i + 1] # s[1]
      BY <1>6
  <2> QED
      BY <2>1, <2>2
<1>8. ASSUME NEW i \in 1 .. n + 1, s[i] # s[1] PROVE s[i] \in ToSet(t)
  <2>1. i - 1 \in 1 .. n /\ (i - 1) + 1 = i
    <3>1. i # 1
        BY <1>8
    <3> QED
        BY <1>1, <3>1
  <2>2. t[i - 1] = s[i]
      BY <1>1, <2>1
  <2> QED
      BY <1>3, <2>1, <2>2
<1>9. ToSet(t) = ToSet(s) \ {s[1]}
    BY <1>3, <1>7, <1>8
<1>10. InOrder(t)
  <2> SUFFICES ASSUME NEW i \in 1 .. n, NEW j \in 1 .. n, i < j PROVE t[i] < t[j]
      BY <1>2 DEF InOrder
  <2>1. i + 1 < j + 1
      BY <1>1
  <2>2. s[i + 1] < s[j + 1]
      BY <1>4, <1>5, <2>1, HoursInOrder
  <2> QED
      BY <1>1, <2>2
<1> QED
    BY <1>1, <1>9, <1>10 DEF t

\* What is assumed of a forecast.
Forecast(f) == f.ocean \in BOOLEAN /\ StepsDivide(f) /\ SegmentsMeetOutput(f)

\* The hours at which a forecast writes.
OutputHours(f) ==
    IF f.ocean
    THEN {h \in 1 .. f.FHMAX_GFS : h % f.FHOUT_GFS = 0}
    ELSE {h \in 0 .. f.FHMAX_GFS : IF h <= f.FHMAX_HF_GFS THEN h % f.FHOUT_HF_GFS = 0
                                   ELSE (h - f.FHMAX_HF_GFS) % f.FHOUT_GFS = 0}

\* _get_forecast_hours lists the hours of output, in order.
LEMMA ForecastHours ==
    ASSUME NEW f, f.ocean \in BOOLEAN, StepsDivide(f), NEW s, s = _get_forecast_hours(f)
    PROVE  /\ s \in Seq(Int) /\ InOrder(s) /\ Len(s) \in Nat \ {0}
           /\ ToSet(s) = OutputHours(f) /\ f.FHMAX_GFS \in ToSet(s)
<1>1. /\ f.FHOUT_HF_GFS \in Nat \ {0} /\ f.FHOUT_GFS \in Nat \ {0} /\ f.FHMIN = 0
      /\ f.FHMAX_HF_GFS \in Nat /\ f.FHMAX_HF_GFS % f.FHOUT_HF_GFS = 0
      /\ f.FHMAX_GFS \in Nat \ {0} /\ f.FHMAX_HF_GFS <= f.FHMAX_GFS
      /\ (f.FHMAX_GFS - f.FHMAX_HF_GFS) % f.FHOUT_GFS = 0
      /\ f.ocean => f.FHMAX_GFS % f.FHOUT_GFS = 0
    BY DEF StepsDivide
<1>2. CASE f.ocean
  <2> DEFINE t == TwoSteps(0, 0, f.FHOUT_GFS, f.FHMAX_GFS, f.FHOUT_GFS)
             M == f.FHMAX_GFS
             step == f.FHOUT_GFS
  <2>1. s = WithoutZero(t)
      BY <1>1, <1>2 DEF _get_forecast_hours
  <2>2. M \in Nat \ {0} /\ step \in Nat \ {0} /\ M % step = 0 /\ t = TwoSteps(0, 0, step, M, step)
      BY <1>1, <1>2
  <2>3. OutputHours(f) = {h \in 1 .. M : h % step = 0}
      BY <1>2 DEF OutputHours
  <2> HIDE DEF t, M, step
  <2>4. StepsTo(0, step, M, step, t)
    <3>1. 0 % step = 0 /\ M - 0 = M
        BY <2>2
    <3> QED
        BY <2>2, <3>1 DEF StepsTo
  <2>5. /\ t \in Seq(Int) /\ InOrder(t) /\ Len(t) \in Nat \ {0} /\ t[1] = 0
        /\ ToSet(t) = {h \in 0 .. M : IF h <= 0 THEN h % step = 0 ELSE (h - 0) % step = 0}
      BY <2>4, TwoStepHours
  <2>6. s = Tail(t)
      BY <2>1, <2>5 DEF WithoutZero
  <2>7. s \in Seq(Int) /\ InOrder(s) /\ Len(s) \in Nat /\ ToSet(s) = ToSet(t) \ {0}
      BY <2>5, <2>6, HoursAfterFirst
  <2>8. ToSet(s) = {h \in 1 .. M : h % step = 0}
    <3>1. \A h \in 0 .. M : h - 0 = h /\ (h # 0 => h \in 1 .. M)
        BY <2>2
    <3>2. \A h \in 1 .. M : h \in 0 .. M /\ h # 0
        BY <2>2
    <3> QED
        BY <2>5, <2>7, <3>1, <3>2
  <2>9. M \in ToSet(s)
      BY <2>2, <2>8
  <2>10. Len(s) \in Nat \ {0}
    <3>1. ToSet(s) = {s[i] : i \in 1 .. Len(s)}
        BY <2>7 DEF ToSet
    <3>2. \E i \in 1 .. Len(s) : TRUE
        BY <2>9, <3>1
    <3> QED
        BY <2>7, <3>2
  <2> QED
      BY <2>3, <2>7, <2>8, <2>9, <2>10 DEF M
<1>3. CASE ~f.ocean
  <2>1. StepsTo(f.FHMAX_HF_GFS, f.FHOUT_HF_GFS, f.FHMAX_GFS, f.FHOUT_GFS, s)
      BY <1>1, <1>3 DEF StepsTo, _get_forecast_hours
  <2>2. /\ s \in Seq(Int) /\ InOrder(s) /\ Len(s) \in Nat \ {0}
        /\ ToSet(s) = OutputHours(f)
      BY <1>3, <2>1, TwoStepHours DEF OutputHours
  <2>3. f.FHMAX_GFS \in OutputHours(f)
    <3>1. f.FHMAX_GFS <= f.FHMAX_HF_GFS => f.FHMAX_GFS = f.FHMAX_HF_GFS
        BY <1>1
    <3>2. f.FHMAX_GFS \in 0 .. f.FHMAX_GFS
        BY <1>1
    <3> QED
        BY <1>1, <1>3, <3>1, <3>2 DEF OutputHours
  <2> QED
      BY <2>2, <2>3
<1> QED
    BY <1>2, <1>3

-----------------------------------------------------------------------------
(* What the segments of a forecast write.                                  *)

\* The number of segments and where they end.
SegmentsIn(f) == Len(f.FCST_SEGMENTS) - 1

Bounds(f) == [i \in 0 .. SegmentsIn(f) |-> f.FCST_SEGMENTS[i + 1]]

\* The bounds of the segments cut the forecast, and are hours of output.
LEMMA SegmentBounds ==
    ASSUME NEW f, Forecast(f)
    PROVE  /\ SegmentsIn(f) \in Nat \ {0} /\ Cuts(SegmentsIn(f), Bounds(f))
           /\ Bounds(f)[SegmentsIn(f)] = f.FHMAX_GFS
           /\ \A i \in 1 .. SegmentsIn(f) : Bounds(f)[i] \in OutputHours(f)
           /\ Segments(f) = 0 .. SegmentsIn(f) - 1
           /\ \A s \in Segments(f) :
                 /\ f.FCST_SEGMENTS[s + 1] = Bounds(f)[s] /\ f.FCST_SEGMENTS[s + 2] = Bounds(f)[s + 1]
                 /\ s \in Nat /\ s + 1 \in 1 .. SegmentsIn(f)
<1> DEFINE n == SegmentsIn(f)
           end == Bounds(f)
           last == Len(f.FCST_SEGMENTS)
           seg == f.FCST_SEGMENTS
<1>1. /\ seg \in Seq(Nat) /\ last \in Nat /\ last >= 2
      /\ seg[1] = 0 /\ seg[last] = f.FHMAX_GFS
      /\ \A i \in 2 .. last : seg[i - 1] < seg[i] /\ seg[i] \in OutputHours(f)
  <2>1. ToSet(_get_forecast_hours(f)) = OutputHours(f)
      BY ForecastHours DEF Forecast
  <2>2. f.FHMIN = 0
      BY DEF Forecast, StepsDivide
  <2> QED
      BY <2>1, <2>2 DEF Forecast, SegmentsMeetOutput
<1>2. n = last - 1 /\ end = [i \in 0 .. n |-> seg[i + 1]]
    BY DEF SegmentsIn, Bounds
<1>3. Segments(f) = 0 .. last - 2
    BY DEF Segments
<1>4. \A i \in 1 .. last : seg[i] \in Nat
    BY <1>1
<1> HIDE DEF n, end, last, seg
<1>5. \A i \in 0 .. n : i + 1 \in 1 .. last /\ end[i] = seg[i + 1] /\ end[i] \in Nat
    BY <1>1, <1>2, <1>4
<1>6. \A i \in 1 .. n : /\ i + 1 \in 2 .. last /\ (i + 1) - 1 = i /\ i \in 0 .. n /\ i - 1 \in 0 .. n
                        /\ (i - 1) + 1 = i
    BY <1>1, <1>2
<1>7. n \in Nat \ {0} /\ 0 \in 0 .. n /\ n \in 0 .. n /\ n + 1 = last /\ last - 2 = n - 1
    BY <1>1, <1>2
<1>8. \A i \in 1 .. n : end[i - 1] < end[i] /\ end[i] \in OutputHours(f)
    BY <1>1, <1>5, <1>6
<1>9. end[0] = 0 /\ end[n] = f.FHMAX_GFS
    BY <1>1, <1>5, <1>7
<1>10. end \in [0 .. n -> Nat]
    BY <1>2, <1>5
<1>11. Cuts(n, end)
    BY <1>7, <1>8, <1>9, <1>10 DEF Cuts
<1>12. ASSUME NEW s \in Segments(f)
       PROVE  seg[s + 1] = end[s] /\ seg[s + 2] = end[s + 1] /\ s \in Nat /\ s + 1 \in 1 .. n
  <2>1. s \in 0 .. n /\ s + 1 \in 0 .. n /\ (s + 1) + 1 = s + 2 /\ s \in Nat /\ s + 1 \in 1 .. n
      BY <1>3, <1>7
  <2> QED
      BY <1>5, <2>1
<1> QED
    BY <1>3, <1>7, <1>8, <1>9, <1>11, <1>12 DEF n, end, last, seg

\* The break points are the inner bounds, and hours of the list.
LEMMA BreakPointsAre ==
    ASSUME NEW f, Forecast(f)
    PROVE  /\ Len(BreakPoints(f)) = SegmentsIn(f) - 1
           /\ \A i \in 1 .. SegmentsIn(f) - 1 : BreakPoints(f)[i] = Bounds(f)[i]
           /\ BreaksAmong(_get_forecast_hours(f), BreakPoints(f))
<1> DEFINE n == SegmentsIn(f)
           end == Bounds(f)
           last == Len(f.FCST_SEGMENTS)
           seg == f.FCST_SEGMENTS
           bp == BreakPoints(f)
           s == _get_forecast_hours(f)
<1>1. /\ n \in Nat \ {0} /\ Cuts(n, end) /\ \A i \in 1 .. n : end[i] \in OutputHours(f)
    BY SegmentBounds
<1>2. seg \in Seq(Nat) /\ last \in Nat /\ n = last - 1
    BY DEF Forecast, SegmentsMeetOutput, SegmentsIn
<1>3. \A i \in 0 .. n : end[i] = seg[i + 1]
    BY DEF Bounds
<1>4. bp = SubSeq(seg, 2, last - 1)
    BY DEF BreakPoints
<1>5. /\ s \in Seq(Int) /\ InOrder(s) /\ Len(s) \in Nat \ {0} /\ ToSet(s) = OutputHours(f)
    BY ForecastHours DEF Forecast
<1>6. bp \in Seq(Int) /\ Len(bp) = n - 1 /\ \A i \in 1 .. n - 1 : bp[i] = seg[i + 1]
  <2>1. \A i \in 1 .. last : seg[i] \in Int
      BY <1>2
  <2> HIDE DEF bp, last, seg, n
  <2>2. \A i \in 2 .. last - 1 : seg[i] \in Int
      BY <1>2, <2>1
  <2>3. 2 \in Int /\ last - 1 \in Int
      BY <1>2
  <2>4. /\ bp \in Seq(Int)
        /\ Len(bp) = IF 2 <= last - 1 THEN (last - 1) - 2 + 1 ELSE 0
        /\ \A i \in 1 .. (last - 1) - 2 + 1 : bp[i] = seg[2 + i - 1]
      BY <1>4, <2>2, <2>3, SubSeqProperties
  <2>5. /\ \A i \in 1 .. n - 1 : i \in 1 .. (last - 1) - 2 + 1 /\ 2 + i - 1 = i + 1
        /\ (IF 2 <= last - 1 THEN (last - 1) - 2 + 1 ELSE 0) = n - 1
      BY <1>1, <1>2
  <2> QED
      BY <2>4, <2>5
<1> HIDE DEF n, end, last, seg, bp, s
<1>7. \A i \in 1 .. n - 1 : i \in 0 .. n /\ i \in 1 .. n /\ bp[i] = end[i] /\ end[i] \in OutputHours(f)
    BY <1>1, <1>3, <1>6
<1>8. DOMAIN bp = 1 .. n - 1
    BY <1>1, <1>6
<1>9. InOrder(bp)
  <2> SUFFICES ASSUME NEW i \in 1 .. n - 1, NEW j \in 1 .. n - 1, i < j PROVE bp[i] < bp[j]
      BY <1>8 DEF InOrder
  <2>1. i \in 0 .. n /\ j \in i .. n /\ j \in 0 .. n /\ j - i > 0
      BY <1>1
  <2>2. end[i] <= end[j] /\ j - i <= end[j] - end[i]
      BY <1>1, <2>1, CutsRise
  <2>3. end[i] \in Nat /\ end[j] \in Nat
      BY <1>1, <2>1 DEF Cuts
  <2>4. end[i] < end[j]
      BY <1>1, <2>1, <2>2, <2>3
  <2> QED
      BY <1>7, <2>4
<1>10. BreaksAmong(s, bp)
    BY <1>5, <1>6, <1>7, <1>8, <1>9 DEF BreaksAmong
<1> QED
    BY <1>6, <1>7, <1>10 DEF n, end, bp, s

\* A range of hours, with its last.
Steps(from, last, step) == from \in Int /\ last \in Int /\ step \in Nat \ {0}

LEMMA RangeHours ==
    ASSUME NEW from, NEW last, NEW step, Steps(from, last, step)
    PROVE  ToSet(Hours(from, last + 1, step)) = {h \in from .. last : (h - from) % step = 0}
<1> DEFINE to == last + 1
           s == Hours(from, to, step)
<1>1. Ranges(from, to, step, s) /\ to - 1 = last
    BY DEF Ranges, Steps
<1> HIDE DEF to, s
<1>2. ToSet(s) = {h \in from .. to - 1 : (h - from) % step = 0}
    BY <1>1, HoursAre
<1> QED
    BY <1>1, <1>2 DEF s, to

\* What a segment writes are the hours of the forecast from its start to its end.
LEMMA WrittenHours ==
    ASSUME NEW f, Forecast(f), ~f.ocean, NEW s \in Segments(f)
    PROVE  WrittenBy(f, s) = {h \in OutputHours(f) : Bounds(f)[s] <= h /\ h <= Bounds(f)[s + 1]}
<1> DEFINE a == Bounds(f)[s]
           b == Bounds(f)[s + 1]
           HF == f.FHMAX_HF_GFS
           hfo == f.FHOUT_HF_GFS
           fo == f.FHOUT_GFS
           M == f.FHMAX_GFS
           n == SegmentsIn(f)
           H == Least(HF, b)
           from == IF HF > 0 THEN H ELSE a
           first == IF HF > 0 THEN {h \in a .. H : (h - a) % hfo = 0} ELSE {}
           rest == {h \in from .. b : (h - from) % fo = 0}
<1>1. /\ HF \in Nat /\ hfo \in Nat \ {0} /\ fo \in Nat \ {0} /\ M \in Nat \ {0} /\ HF <= M
      /\ HF % hfo = 0
      /\ OutputHours(f) = {h \in 0 .. M : IF h <= HF THEN h % hfo = 0 ELSE (h - HF) % fo = 0}
    BY DEF Forecast, StepsDivide, OutputHours
<1>2. /\ n \in Nat \ {0} /\ Cuts(n, Bounds(f)) /\ Bounds(f)[n] = M
      /\ \A i \in 1 .. n : Bounds(f)[i] \in OutputHours(f)
      /\ f.FCST_SEGMENTS[s + 1] = a /\ f.FCST_SEGMENTS[s + 2] = b
      /\ s \in Nat /\ s + 1 \in 1 .. n
    BY SegmentBounds
<1>3. a \in Nat /\ b \in Nat /\ a < b /\ b <= M
  <2>1. s + 1 \in 0 .. n /\ s \in 0 .. n /\ n \in s + 1 .. n /\ (s + 1) - 1 = s
      BY <1>2
  <2>2. a \in Nat /\ b \in Nat /\ a < b
      BY <1>2, <2>1 DEF Cuts
  <2>3. b <= Bounds(f)[n]
      BY <1>2, <2>1, CutsRise
  <2> QED
      BY <1>2, <2>2, <2>3
<1>4. a \in OutputHours(f) /\ b \in OutputHours(f)
  <2>1. CASE s = 0
    <3>1. a = 0
        BY <1>2, <2>1 DEF Cuts
    <3>2. 0 % hfo = 0 /\ 0 \in 0 .. M /\ 0 <= HF
        BY <1>1
    <3> QED
        BY <1>1, <1>2, <3>1, <3>2
  <2>2. CASE s # 0
    <3>1. s \in 1 .. n
        BY <1>2, <2>2
    <3> QED
        BY <1>2, <3>1
  <2> QED
      BY <2>1, <2>2
<1> HIDE DEF a, b, HF, hfo, fo, M, n
<1>5. H \in Nat /\ from \in Nat /\ (HF > 0 <=> hfo > 0 /\ H > 0)
    BY <1>1, <1>3 DEF Least
<1>6. WrittenBy(f, s) = {h \in first \cup rest : a <= h /\ h <= b}
  <2>1. WrittenBy(f, s) =
          {h \in (IF hfo > 0 /\ H > 0 THEN ToSet(Hours(a, H + 1, hfo)) ELSE {})
                 \cup ToSet(Hours(IF hfo > 0 /\ H > 0 THEN H ELSE a, b + 1, fo)) : a <= h /\ h <= b}
      BY <1>2 DEF WrittenBy, HF, hfo, fo
  <2> HIDE DEF H
  <2>2. ToSet(Hours(a, H + 1, hfo)) = {h \in a .. H : (h - a) % hfo = 0}
    <3>1. Steps(a, H, hfo)
        BY <1>1, <1>3, <1>5 DEF Steps
    <3> QED
        BY <3>1, RangeHours
  <2>3. ToSet(Hours(from, b + 1, fo)) = rest
    <3> HIDE DEF from
    <3>1. Steps(from, b, fo)
        BY <1>1, <1>3, <1>5 DEF Steps
    <3> QED
        BY <3>1, RangeHours
  <2>4. from = IF hfo > 0 /\ H > 0 THEN H ELSE a
      BY <1>5
  <2>5. first = IF hfo > 0 /\ H > 0 THEN ToSet(Hours(a, H + 1, hfo)) ELSE {}
      BY <1>5, <2>2
  <2> HIDE DEF from, first, rest
  <2> QED
      BY <2>1, <2>3, <2>4, <2>5
<1>7. ASSUME NEW h \in Int
      PROVE  /\ a % hfo = 0 => ((h - a) % hfo = 0 <=> h % hfo = 0)
             /\ a % fo = 0 => ((h - a) % fo = 0 <=> h % fo = 0)
  <2>1. /\ a % hfo = 0 => Aligned(hfo, a, h)
        /\ a % fo = 0 => Aligned(fo, a, h)
      BY <1>1, <1>3 DEF Aligned
  <2> QED
      BY <2>1, RemainderOfDifference
<1>8. ASSUME NEW h \in Int, a <= h, h <= b
      PROVE  h \in first \cup rest <=> h \in OutputHours(f)
  <2>0. h \in 0 .. M
      BY <1>1, <1>3, <1>8
  <2>1. CASE HF > 0 /\ b <= HF
    <3>1. H = b /\ from = b
        BY <1>1, <1>3, <2>1 DEF Least
    <3>2. a % hfo = 0 /\ b % hfo = 0 /\ a <= HF
        BY <1>1, <1>3, <1>4, <2>1
    <3>3. h <= HF /\ h \in a .. b
        BY <1>1, <1>3, <1>8, <2>1
    <3>4. (h - a) % hfo = 0 <=> h % hfo = 0
        BY <1>7, <3>2
    <3>5. h \in first <=> h % hfo = 0
        BY <2>1, <3>1, <3>3, <3>4
    <3>6. h \in rest => h = b
        BY <1>3, <3>1
    <3>7. h \in OutputHours(f) <=> h % hfo = 0
        BY <1>1, <2>0, <3>3
    <3> QED
        BY <3>2, <3>5, <3>6, <3>7
  <2>2. CASE HF > 0 /\ HF < b
    <3>1. H = HF /\ from = HF
        BY <1>1, <1>3, <2>2 DEF Least
    <3>2. CASE h <= HF
      <4>1. a <= HF /\ h \in a .. HF
          BY <1>1, <1>3, <1>8, <3>2
      <4>2. a % hfo = 0
          BY <1>1, <1>4, <4>1
      <4>3. (h - a) % hfo = 0 <=> h % hfo = 0
          BY <1>7, <4>2
      <4>4. h \in first <=> h % hfo = 0
          BY <2>2, <3>1, <4>1, <4>3
      <4>5. h \in rest => h = HF
          BY <1>1, <1>3, <3>1, <3>2
      <4>6. h \in OutputHours(f) <=> h % hfo = 0
          BY <1>1, <2>0, <3>2
      <4> QED
          BY <1>1, <4>4, <4>5, <4>6
    <3>3. CASE HF < h
      <4>1. h \notin first
          BY <1>1, <1>3, <3>1, <3>3
      <4>2. h \in HF .. b /\ ~(h <= HF)
          BY <1>1, <1>3, <1>8, <3>3
      <4>3. h \in rest <=> (h - HF) % fo = 0
          BY <3>1, <4>2
      <4>4. h \in OutputHours(f) <=> (h - HF) % fo = 0
          BY <1>1, <2>0, <4>2
      <4> QED
          BY <4>1, <4>3, <4>4
    <3> QED
        BY <1>1, <3>2, <3>3
  <2>3. CASE HF = 0
    <3>1. from = a /\ first = {}
        BY <2>3
    <3>2. a % fo = 0
      <4>1. CASE a = 0
          BY <1>1, <4>1
      <4>2. CASE a # 0
        <5>1. (a - 0) % fo = 0 /\ a - 0 = a
            BY <1>1, <1>3, <1>4, <2>3, <4>2
        <5> QED
            BY <5>1
      <4> QED
          BY <4>1, <4>2
    <3>3. (h - a) % fo = 0 <=> h % fo = 0
        BY <1>7, <3>2
    <3>4. h \in rest <=> h % fo = 0
        BY <1>3, <1>8, <3>1, <3>3
    <3>5. h \in OutputHours(f) <=> h % fo = 0
      <4>1. CASE h = 0
        <5>1. 0 % fo = 0 /\ 0 % hfo = 0 /\ 0 <= HF
            BY <1>1
        <5> QED
            BY <1>1, <2>0, <4>1, <5>1
      <4>2. CASE h # 0
        <5>1. ~(h <= HF) /\ h - HF = h
            BY <2>0, <2>3, <4>2
        <5> QED
            BY <1>1, <2>0, <5>1
      <4> QED
          BY <4>1, <4>2
    <3> QED
        BY <3>1, <3>4, <3>5
  <2> QED
      BY <1>1, <1>3, <2>1, <2>2, <2>3
<1>9. first \cup rest \subseteq Int /\ OutputHours(f) \subseteq Int
  <2>1. first \subseteq Int /\ rest \subseteq Int
    <3> HIDE DEF H, from
    <3> QED
        BY <1>3, <1>5
  <2> QED
      BY <1>1, <2>1
<1> HIDE DEF first, rest
<1> QED
    BY <1>6, <1>8, <1>9 DEF a, b

\* The same for the ocean, whose averages end in the segment.
LEMMA ProducedHours ==
    ASSUME NEW f, Forecast(f), NEW s \in Segments(f)
    PROVE  Produced(f, s) = {h \in OutputHours(f) :
              /\ IF f.ocean THEN Bounds(f)[s] < h ELSE Bounds(f)[s] <= h
              /\ h <= Bounds(f)[s + 1]}
<1>1. CASE ~f.ocean
    BY <1>1, WrittenHours DEF Produced
<1>2. CASE f.ocean
  <2> DEFINE a == Bounds(f)[s]
             b == Bounds(f)[s + 1]
             n == SegmentsIn(f)
             M == f.FHMAX_GFS
  <2>1. /\ n \in Nat \ {0} /\ Cuts(n, Bounds(f)) /\ Bounds(f)[n] = M
        /\ f.FCST_SEGMENTS[s + 1] = a /\ f.FCST_SEGMENTS[s + 2] = b
        /\ s \in Nat /\ s + 1 \in 1 .. n
      BY SegmentBounds
  <2>2. a \in Nat /\ b \in Nat /\ b <= M /\ M \in Nat
    <3>1. s + 1 \in 0 .. n /\ s \in 0 .. n /\ n \in s + 1 .. n /\ n \in 0 .. n
        BY <2>1
    <3>2. a \in Nat /\ b \in Nat /\ M \in Nat
        BY <2>1, <3>1 DEF Cuts
    <3>3. b <= Bounds(f)[n]
        BY <2>1, <3>1, CutsRise
    <3> QED
        BY <2>1, <3>2, <3>3
  <2>3. Produced(f, s) = {h \in a + 1 .. b : h % f.FHOUT_GFS = 0}
      BY <1>2, <2>1 DEF Produced, AveragedBy
  <2>4. OutputHours(f) = {h \in 1 .. M : h % f.FHOUT_GFS = 0}
      BY <1>2 DEF OutputHours
  <2> HIDE DEF a, b, M, n
  <2>5. \A h \in a + 1 .. b : h \in 1 .. M /\ a < h /\ h <= b
      BY <2>2
  <2>6. \A h \in 1 .. M : a < h /\ h <= b => h \in a + 1 .. b
      BY <2>2
  <2>7. Produced(f, s) = {h \in OutputHours(f) : a < h /\ h <= b}
      BY <2>3, <2>4, <2>5, <2>6
  <2> QED
      BY <1>2, <2>7 DEF a, b
<1> QED
    BY <1>1, <1>2

\* What is written when a segment has ended are the hours up to its end.
LEMMA ProducedByThen ==
    ASSUME NEW f, Forecast(f), NEW s \in Segments(f)
    PROVE  ProducedUpTo(f, s) = {h \in OutputHours(f) : h <= Bounds(f)[s + 1]}
<1> DEFINE n == SegmentsIn(f)
           end == Bounds(f)
           M == f.FHMAX_GFS
<1>1. /\ n \in Nat \ {0} /\ Cuts(n, end) /\ end[n] = M
      /\ Segments(f) = 0 .. n - 1 /\ s \in Nat /\ s + 1 \in 1 .. n
    BY SegmentBounds
<1>2. /\ M \in Nat /\ \A h \in OutputHours(f) : h \in 0 .. M /\ (f.ocean => h # 0)
    BY DEF OutputHours, Forecast, StepsDivide
<1>3. \A r \in Segments(f) : Produced(f, r) = {h \in OutputHours(f) :
              /\ IF f.ocean THEN end[r] < h ELSE end[r] <= h
              /\ h <= end[r + 1]}
    BY ProducedHours
<1>4. end \in [0 .. n -> Nat] /\ end[0] = 0
    BY <1>1 DEF Cuts
<1> HIDE DEF n, end, M
<1>5. ASSUME NEW r \in 0 .. s
      PROVE  r \in Segments(f) /\ end[r + 1] <= end[s + 1] /\ end[r + 1] \in Nat /\ end[s + 1] \in Nat
  <2>1. r \in 0 .. n - 1 /\ r + 1 \in 0 .. n /\ s + 1 \in r + 1 .. n /\ s + 1 \in 0 .. n
      BY <1>1
  <2>2. end[r + 1] <= end[s + 1]
      BY <1>1, <2>1, CutsRise
  <2> QED
      BY <1>1, <1>4, <2>1, <2>2
<1>6. ASSUME NEW h \in ProducedUpTo(f, s) PROVE h \in OutputHours(f) /\ h <= end[s + 1]
  <2>1. PICK r \in 0 .. s : h \in Produced(f, r)
      BY DEF ProducedUpTo
  <2>2. h \in OutputHours(f) /\ h <= end[r + 1]
      BY <1>3, <1>5, <2>1
  <2>3. h \in Nat
      BY <1>2, <2>2
  <2> QED
      BY <1>5, <2>2, <2>3
<1>7. ASSUME NEW h \in OutputHours(f), h <= end[s + 1] PROVE \E r \in 0 .. s : h \in Produced(f, r)
  <2>1. h \in 0 .. M
      BY <1>2
  <2>2. CASE h = 0
    <3>1. 0 \in 0 .. s /\ end[0] <= h /\ ~f.ocean /\ h <= end[0 + 1]
      <4>1. 0 \in 0 .. s /\ 0 + 1 \in 0 .. n
          BY <1>1
      <4>2. end[0 + 1] \in Nat
          BY <1>4, <4>1
      <4> QED
          BY <1>2, <1>4, <2>2, <4>1, <4>2
    <3>2. h \in Produced(f, 0)
        BY <1>3, <1>5, <3>1
    <3> QED
        BY <3>1, <3>2
  <2>3. CASE h # 0
    <3>1. h \in 1 .. end[n]
        BY <1>1, <1>2, <2>1, <2>3
    <3>2. PICK i \in 1 .. n : h \in end[i - 1] + 1 .. end[i]
        BY <1>1, <3>1, CutsReach
    <3>3. i \in Nat /\ i - 1 \in 0 .. n /\ i \in 0 .. n /\ (i - 1) + 1 = i
        BY <1>1
    <3>4. end[i - 1] \in Nat /\ end[i] \in Nat /\ end[s + 1] \in Nat
      <4>1. s + 1 \in 0 .. n
          BY <1>1
      <4> QED
          BY <1>4, <3>3, <4>1
    <3>5. i <= s + 1
      <4> SUFFICES ASSUME s + 1 < i PROVE FALSE
          BY <1>1, <3>3
      <4>1. s + 1 \in 0 .. n /\ i - 1 \in s + 1 .. n
          BY <1>1, <3>3
      <4>2. end[s + 1] <= end[i - 1]
          BY <1>1, <4>1, CutsRise
      <4> QED
          BY <1>7, <2>1, <3>2, <3>4, <4>2
    <3>6. i - 1 \in 0 .. s
        BY <1>1, <3>3, <3>5
    <3>7. end[i - 1] < h /\ end[i - 1] <= h /\ h <= end[(i - 1) + 1]
        BY <3>2, <3>3, <3>4
    <3>8. h \in Produced(f, i - 1)
        BY <1>3, <1>5, <3>6, <3>7
    <3> QED
        BY <3>6, <3>8
  <2> QED
      BY <2>2, <2>3
<1>8. ASSUME NEW h \in OutputHours(f), h <= end[s + 1] PROVE h \in ProducedUpTo(f, s)
    BY <1>7, <1>8 DEF ProducedUpTo
<1> QED
    BY <1>6, <1>8 DEF end

\* All segments together write all hours.
LEMMA AllProduced ==
    ASSUME NEW f, Forecast(f)
    PROVE  UNION {Produced(f, s) : s \in Segments(f)} = OutputHours(f)
<1> DEFINE n == SegmentsIn(f)
<1>1. n \in Nat \ {0} /\ Segments(f) = 0 .. n - 1 /\ Bounds(f)[n] = f.FHMAX_GFS
    BY SegmentBounds
<1>2. \A h \in OutputHours(f) : h <= f.FHMAX_GFS
    BY DEF OutputHours
<1> HIDE DEF n
<1>3. n - 1 \in Segments(f) /\ (n - 1) + 1 = n
    BY <1>1
<1>4. ProducedUpTo(f, n - 1) = {h \in OutputHours(f) : h <= Bounds(f)[(n - 1) + 1]}
    BY <1>3, ProducedByThen
<1>5. ProducedUpTo(f, n - 1) = OutputHours(f)
    BY <1>1, <1>2, <1>3, <1>4
<1> QED
    BY <1>1, <1>5 DEF ProducedUpTo

-----------------------------------------------------------------------------
(* The jobs the generator makes of the hours.                              *)

\* The jobs of a product, of any forecast that has them.
LEMMA ProductGroups ==
    ASSUME NEW f, Forecast(f), f.MAX_TASKS \in Nat, Splittable(f.MAX_TASKS, BreakPoints(f)),
           NEW G, G = get_grouped_fhr_dict(f)
    PROVE  /\ HoursOf(G) = UNION {Produced(f, s) : s \in Segments(f)}
           /\ Cardinality(DOMAIN G) = Least(f.MAX_TASKS, Cardinality(HoursOf(G)))
           /\ \A g \in DOMAIN G :
                /\ G[g] # <<>> /\ InOrder(G[g])
                /\ ToSet(G[g]) \subseteq ProducedUpTo(f, g[1] - 1)
                /\ g[1] - 1 > 0 => G[g][1] \notin ProducedUpTo(f, (g[1] - 1) - 1)
           /\ \A g, h \in DOMAIN G : Before(g, h) => Last(G[g]) < G[h][1]
<1> DEFINE s == _get_forecast_hours(f)
           bp == BreakPoints(f)
           n == SegmentsIn(f)
           end == Bounds(f)
           T == f.MAX_TASKS
<1>1. /\ s \in Seq(Int) /\ InOrder(s) /\ Len(s) \in Nat \ {0} /\ ToSet(s) = OutputHours(f)
    BY ForecastHours DEF Forecast
<1>2. /\ BreaksAmong(s, bp) /\ Len(bp) = n - 1 /\ \A i \in 1 .. n - 1 : bp[i] = end[i]
    BY BreakPointsAre
<1>3. /\ n \in Nat \ {0} /\ Cuts(n, end) /\ end[n] = f.FHMAX_GFS /\ Segments(f) = 0 .. n - 1
    BY SegmentBounds
<1>4. \A h \in OutputHours(f) : h \in Nat /\ h <= f.FHMAX_GFS
    BY DEF OutputHours, Forecast, StepsDivide
<1>5. \A r \in Segments(f) : ProducedUpTo(f, r) = {h \in OutputHours(f) : h <= end[r + 1]}
    BY ProducedByThen
<1>6. G = get_job_groups(s, T, bp) /\ T \in Nat /\ Splittable(T, bp)
    BY DEF get_grouped_fhr_dict
<1>7. UNION {Produced(f, r) : r \in Segments(f)} = OutputHours(f)
    BY AllProduced
<1> HIDE DEF s, bp, n, end, T
<1>8. /\ Cardinality(DOMAIN G) = Least(T, Len(s)) /\ HoursOf(G) = ToSet(s)
      /\ \A g \in DOMAIN G :
            /\ G[g] # <<>> /\ InOrder(G[g]) /\ G[g][1] \in ToSet(G[g])
            /\ g[1] \in 1 .. Len(bp) + 1
            /\ \A h \in ToSet(G[g]) :
                 /\ g[1] <= Len(bp) => h <= bp[g[1]]
                 /\ g[1] > 1 => h > bp[g[1] - 1]
      /\ \A g, h \in DOMAIN G : Before(g, h) => Last(G[g]) < G[h][1]
    BY <1>2, <1>6, GroupsSplitHours
<1>9. Cardinality(HoursOf(G)) = Len(s)
    BY <1>1, <1>8, CountHours
<1>10. ASSUME NEW g \in DOMAIN G
       PROVE  /\ ToSet(G[g]) \subseteq ProducedUpTo(f, g[1] - 1)
              /\ g[1] - 1 > 0 => G[g][1] \notin ProducedUpTo(f, (g[1] - 1) - 1)
  <2> DEFINE i == g[1]
  <2>1. i \in 1 .. n /\ i - 1 \in Segments(f) /\ (i - 1) + 1 = i
    <3>1. i \in 1 .. Len(bp) + 1
        BY <1>8
    <3> HIDE DEF i
    <3> QED
        BY <1>2, <1>3, <3>1
  <2>2. ASSUME NEW h \in ToSet(G[g]) PROVE h \in OutputHours(f) /\ h <= end[i]
    <3>1. h \in OutputHours(f)
        BY <1>1, <1>8 DEF HoursOf
    <3>2. CASE i <= n - 1
      <4>1. h <= bp[i] /\ bp[i] = end[i]
          BY <1>2, <1>3, <1>8, <2>1, <3>2
      <4> QED
          BY <3>1, <4>1
    <3>3. CASE ~(i <= n - 1)
      <4>1. i = n
        <5> HIDE DEF i
        <5> QED
            BY <1>3, <2>1, <3>3
      <4> QED
          BY <1>3, <1>4, <3>1, <4>1
    <3> QED
        BY <3>2, <3>3
  <2>3. ASSUME i - 1 > 0
        PROVE  ~(G[g][1] <= end[i - 1]) /\ i - 1 - 1 \in Segments(f) /\ (i - 1 - 1) + 1 = i - 1
    <3>1. G[g][1] \in ToSet(G[g]) /\ (i > 1 => G[g][1] > bp[i - 1])
        BY <1>8
    <3>2. i > 1 /\ i - 1 \in 1 .. n - 1 /\ i - 1 - 1 \in Segments(f) /\ (i - 1 - 1) + 1 = i - 1
          /\ i - 1 \in 0 .. n
      <4> HIDE DEF i
      <4> QED
          BY <1>3, <2>1, <2>3
    <3>3. bp[i - 1] = end[i - 1] /\ end[i - 1] \in Nat
        BY <1>2, <1>3, <3>2 DEF Cuts
    <3>4. G[g][1] \in Nat
        BY <1>4, <2>2, <3>1
    <3> QED
        BY <3>1, <3>2, <3>3, <3>4
  <2> HIDE DEF i
  <2>4. ToSet(G[g]) \subseteq ProducedUpTo(f, i - 1)
      BY <1>5, <2>1, <2>2
  <2>5. i - 1 > 0 => G[g][1] \notin ProducedUpTo(f, (i - 1) - 1)
      BY <1>5, <2>3
  <2> QED
      BY <2>4, <2>5 DEF i
<1> QED
    BY <1>1, <1>7, <1>8, <1>9, <1>10 DEF T

\* The jobs of the AWIPS products.
LEMMA AwipsSplit ==
    ASSUME NEW f, StepsDivide(f), f.DO_AWIPS, f.MAX_TASKS \in Nat,
           Splittable(ngrps(f), <<FHMAX_HF_GFS_AWIPS>>), NEW G, G = _get_awipsgroups(f)
    PROVE  /\ HoursOf(G) = {h \in AwipsParmHours : h <= f.FHMAX_GFS}
           /\ \A g \in DOMAIN G :
                /\ ToSet(G[g]) # {}
                /\ \/ \A h \in ToSet(G[g]) : h <= FHMAX_HF_GFS_AWIPS
                   \/ \A h \in ToSet(G[g]) : h > FHMAX_HF_GFS_AWIPS
<1> DEFINE s == AwipsHours(f)
           M == f.FHMAX_GFS
           top == Least(M, 240)
           bp == <<84>>
           N == ngrps(f)
<1>1. M \in Nat /\ M >= 84 /\ (M >= 240 \/ M % 6 = 0) /\ f.FHMIN = 0
    BY DEF StepsDivide, FHMAX_HF_GFS_AWIPS, FHOUT_GFS_AWIPS
<1>2. s = TwoSteps(0, 84, 3, top, 6)
    BY <1>1 DEF AwipsHours, FHMAX_HF_GFS_AWIPS, FHOUT_HF_GFS_AWIPS, FHOUT_GFS_AWIPS
<1> HIDE DEF s, M
<1>3. top \in Nat /\ 84 <= top /\ top <= 240 /\ (top - 84) % 6 = 0 /\ top <= M
      /\ \A h \in 0 .. 240 : h <= M <=> h <= top
    BY <1>1 DEF Least
<1> HIDE DEF top
<1>4. StepsTo(84, 3, top, 6, s)
    BY <1>2, <1>3 DEF StepsTo
<1>5. /\ s \in Seq(Int) /\ InOrder(s) /\ Len(s) \in Nat \ {0}
      /\ ToSet(s) = {h \in 0 .. top : IF h <= 84 THEN h % 3 = 0 ELSE (h - 84) % 6 = 0}
    BY <1>4, TwoStepHours
<1>6. BreaksAmong(s, bp)
  <2>1. 84 \in ToSet(s)
      BY <1>3, <1>5
  <2>2. bp \in Seq(Int) /\ DOMAIN bp = {1} /\ bp[1] = 84
      OBVIOUS
  <2> HIDE DEF bp
  <2>3. InOrder(bp)
      BY <2>2 DEF InOrder
  <2> QED
      BY <1>5, <2>1, <2>2, <2>3 DEF BreaksAmong
<1>7. N \in Nat /\ Splittable(N, bp) /\ G = get_job_groups(s, N, bp)
  <2>1. N \in Nat
      BY <1>5 DEF ngrps, Least, s
  <2> QED
      BY <2>1 DEF _get_awipsgroups, FHMAX_HF_GFS_AWIPS, s
<1>8. Len(bp) = 1 /\ bp[1] = 84
    OBVIOUS
<1> HIDE DEF N, bp
<1>9. /\ HoursOf(G) = ToSet(s)
      /\ \A g \in DOMAIN G :
            /\ G[g][1] \in ToSet(G[g])
            /\ g[1] \in 1 .. Len(bp) + 1
            /\ \A h \in ToSet(G[g]) :
                 /\ g[1] <= Len(bp) => h <= bp[g[1]]
                 /\ g[1] > 1 => h > bp[g[1] - 1]
    BY <1>6, <1>7, GroupsSplitHours
<1>10. ToSet(s) = {h \in AwipsParmHours : h <= M}
  <2>1. \A h \in 0 .. 240 : h % (IF h <= 84 THEN 3 ELSE 6) = 0
                                <=> IF h <= 84 THEN h % 3 = 0 ELSE (h - 84) % 6 = 0
      OBVIOUS
  <2>2. \A h \in 0 .. top : h \in 0 .. 240 /\ h <= top
      BY <1>3
  <2>3. \A h \in 0 .. 240 : h <= top => h \in 0 .. top
      BY <1>3
  <2>4. AwipsParmHours = {h \in 0 .. 240 : IF h <= 84 THEN h % 3 = 0 ELSE (h - 84) % 6 = 0}
      BY <2>1 DEF AwipsParmHours
  <2>5. ASSUME NEW h \in ToSet(s) PROVE h \in AwipsParmHours /\ h <= M
      BY <1>3, <1>5, <2>2, <2>4
  <2>6. ASSUME NEW h \in AwipsParmHours, h <= M PROVE h \in ToSet(s)
    <3>1. h \in 0 .. 240 /\ IF h <= 84 THEN h % 3 = 0 ELSE (h - 84) % 6 = 0
        BY <2>4
    <3>2. h \in 0 .. top
        BY <1>3, <2>3, <2>6, <3>1
    <3> QED
        BY <1>5, <3>1, <3>2
  <2> QED
      BY <2>5, <2>6
<1>11. ASSUME NEW g \in DOMAIN G
       PROVE  /\ ToSet(G[g]) # {}
              /\ \/ \A h \in ToSet(G[g]) : h <= 84
                 \/ \A h \in ToSet(G[g]) : h > 84
  <2>1. g[1] = 1 \/ g[1] = 2
      BY <1>8, <1>9
  <2>2. g[1] = 1 => g[1] <= Len(bp)
      BY <1>8
  <2>3. g[1] = 2 => g[1] > 1 /\ g[1] - 1 = 1
      OBVIOUS
  <2> QED
      BY <1>8, <1>9, <2>1, <2>2, <2>3
<1> QED
    BY <1>9, <1>10, <1>11 DEF M, FHMAX_HF_GFS_AWIPS

\* Once made, the jobs are those of the experiment, which could be split.
JobsInv ==
    /\ x \in Experiments
    /\ jobs # NoJobs =>
         /\ Splittable(x.fcst.MAX_TASKS, BreakPoints(x.fcst))
         /\ jobs.products = get_grouped_fhr_dict(x.fcst)
         /\ x.fcst.DO_AWIPS => /\ Splittable(ngrps(x.fcst), <<FHMAX_HF_GFS_AWIPS>>)
                               /\ jobs.awips = _get_awipsgroups(x.fcst)

\* The jobs are made at most once, whatever the cycles do afterwards.
THEOREM JobsAreMade == Spec => []JobsInv
<1>1. Init => JobsInv
    BY DEF Init, JobsInv
<1>2. JobsInv /\ [Next]_vars => JobsInv'
  <2> SUFFICES ASSUME JobsInv, [Next]_vars PROVE JobsInv'
      OBVIOUS
  <2>1. CASE Generate
      BY <2>1 DEF Generate, JobsInv
  <2>2. CASE RunCycle
      BY <2>2 DEF RunCycle, JobsInv
  <2>3. CASE UNCHANGED vars
      BY <2>3 DEF vars, JobsInv
  <2> QED
      BY <2>1, <2>2, <2>3 DEF Next
<1> QED
    BY <1>1, <1>2, PTL DEF Spec

\* For any steps, length, segments and number of tasks the jobs of a product
\* have every hour the forecast writes once, in order, and wait for the segment
\* that writes the last of theirs and for none that writes less.
THEOREM GroupsAreExact == Spec => []GroupsPartition
<1>1. JobsInv => GroupsPartition
  <2> SUFFICES ASSUME JobsInv, jobs # NoJobs PROVE GroupsPartition
      BY DEF GroupsPartition
  <2> DEFINE f == x.fcst
             G == jobs.products
  <2>1. /\ Forecast(f) /\ f.MAX_TASKS \in Nat /\ Splittable(f.MAX_TASKS, BreakPoints(f))
        /\ G = get_grouped_fhr_dict(f)
      BY ScheduleAssumption DEF JobsInv, Forecast
  <2> HIDE DEF f, G
  <2>2. /\ HoursOf(G) = UNION {Produced(f, s) : s \in Segments(f)}
        /\ Cardinality(DOMAIN G) = Least(f.MAX_TASKS, Cardinality(HoursOf(G)))
        /\ \A g \in DOMAIN G :
             /\ G[g] # <<>> /\ InOrder(G[g])
             /\ ToSet(G[g]) \subseteq ProducedUpTo(f, g[1] - 1)
             /\ g[1] - 1 > 0 => G[g][1] \notin ProducedUpTo(f, (g[1] - 1) - 1)
        /\ \A g, h \in DOMAIN G : Before(g, h) => Last(G[g]) < G[h][1]
      BY <2>1, ProductGroups
  <2> QED
      BY <2>2 DEF GroupsPartition, f, G
<1> QED
    BY <1>1, JobsAreMade, PTL

\* For any length and number of tasks no AWIPS job has hours of both steps, none
\* is without hours, and together they have the hours that have parm files.
THEOREM AwipsInStep == Spec => []AwipsGroups
<1>1. JobsInv => AwipsGroups
  <2> SUFFICES ASSUME JobsInv, jobs # NoJobs, x.fcst.DO_AWIPS PROVE AwipsGroups
      BY DEF AwipsGroups
  <2> DEFINE f == x.fcst
             G == jobs.awips
  <2>1. /\ StepsDivide(f) /\ f.DO_AWIPS /\ f.MAX_TASKS \in Nat
        /\ Splittable(ngrps(f), <<FHMAX_HF_GFS_AWIPS>>) /\ G = _get_awipsgroups(f)
      BY ScheduleAssumption DEF JobsInv
  <2> HIDE DEF f, G
  <2>2. /\ HoursOf(G) = {h \in AwipsParmHours : h <= f.FHMAX_GFS}
        /\ \A g \in DOMAIN G :
             /\ ToSet(G[g]) # {}
             /\ \/ \A h \in ToSet(G[g]) : h <= FHMAX_HF_GFS_AWIPS
                \/ \A h \in ToSet(G[g]) : h > FHMAX_HF_GFS_AWIPS
      BY <2>1, AwipsSplit
  <2> QED
      BY <2>2 DEF AwipsGroups, f, G
<1> QED
    BY <1>1, JobsAreMade, PTL
=============================================================================

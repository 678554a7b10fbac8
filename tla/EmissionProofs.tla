---------------------------- MODULE EmissionProofs ----------------------------
(* That prep_emissions delivers what the forecast reads, for every            *)
(* configuration, every inventory and all raw files of one version.           *)
EXTENDS PrepEmissions, ArithmeticTheorems, FiniteSetTheorems, TLAPS

-----------------------------------------------------------------------------
(* The copies of finalize.  They are numbered over the members and, for each, *)
(* over the days.                                                             *)

LEMMA Numbered ==
    ASSUME NEW n \in Nat \ {0}, NEW top \in Nat, NEW m \in 0 .. top, NEW i \in 1 .. n
    PROVE  /\ m * n + i \in 1 .. (top + 1) * n
           /\ ((m * n + i) - 1) \div n = m /\ (((m * n + i) - 1) % n) + 1 = i
<1>1. /\ m * n = n * m /\ (top + 1) * n = n * (top + 1)
      /\ n * m \in Int /\ n * (top + 1) \in Int
    OBVIOUS
<1>2. n * 0 <= n * m
    BY Products
<1>3. n * (m + 1) <= n * (top + 1)
    BY Products
<1>4. n * (m + 1) = n * m + n /\ n * 0 = 0
    OBVIOUS
<1>5. m * n + i \in 1 .. (top + 1) * n
    BY <1>1, <1>2, <1>3, <1>4
<1>6. i - 1 \in 0 .. n - 1 /\ (m * n + i) - 1 = m * n + (i - 1)
    BY <1>1
<1>7. (m * n + (i - 1)) \div n = m /\ (m * n + (i - 1)) % n = i - 1
    BY <1>6, Places
<1> QED
    BY <1>5, <1>6, <1>7

LEMMA CopyNumber ==
    ASSUME NEW days \in Seq(Int), NEW m \in Members, NEW i \in DOMAIN days, x.NMEM_ENS \in Nat
    PROVE  \E k \in DOMAIN Copies(days) :
               Copies(days)[k] = [from |-> days[i], to |-> <<m, days[i]>>]
<1> DEFINE n == Len(days)
           k == m * n + i
<1>1. n \in Nat \ {0} /\ i \in 1 .. n /\ m \in 0 .. x.NMEM_ENS
    BY DEF Members
<1>2. k \in 1 .. (x.NMEM_ENS + 1) * n /\ (k - 1) \div n = m /\ ((k - 1) % n) + 1 = i
  <2> DEFINE top == x.NMEM_ENS
  <2>1. top \in Nat /\ m \in 0 .. top
      BY <1>1
  <2> HIDE DEF n, top
  <2>2. k \in 1 .. (top + 1) * n /\ (k - 1) \div n = m /\ ((k - 1) % n) + 1 = i
      BY <1>1, <2>1, Numbered
  <2> QED
      BY <2>2 DEF top
<1> HIDE DEF n
<1> HIDE DEF k
<1>3. k \in DOMAIN Copies(days)
    BY <1>2 DEF Copies, n
<1>4. Copies(days)[k] = [from |-> days[((k - 1) % n) + 1],
                         to |-> <<(k - 1) \div n, days[((k - 1) % n) + 1]>>]
    BY <1>2 DEF Copies, n
<1> QED
    BY <1>2, <1>3, <1>4

\* Copies that all have a source are all made, to the day they are from.
LEMMA SyncCopies ==
    ASSUME NEW days \in Seq(Int), x.NMEM_ENS \in Nat, NEW dest, NEW source,
           \A k \in DOMAIN Copies(days) : Copies(days)[k].from \in DOMAIN source,
           NEW m \in Members, NEW i \in DOMAIN days
    PROVE  LET to == <<m, days[i]>>
           IN  /\ to \in DOMAIN Sync(dest, Copies(days), source)
               /\ Sync(dest, Copies(days), source)[to] = source[days[i]]
<1> DEFINE c == Copies(days)
           to == <<m, days[i]>>
           good == Copied(c, DOMAIN source)
           top == (x.NMEM_ENS + 1) * Len(days)
           mine == {k \in DOMAIN c : c[k].to = to}
<1>1. good = DOMAIN c
  <2>1. \A k \in DOMAIN c : \A j \in 1 .. k : j \in DOMAIN c
      BY DEF Copies
  <2> QED
      BY <2>1 DEF Copied
<1>2. DOMAIN c = 1 .. top /\ top \in Nat
    BY DEF Copies
<1>3. \A k \in mine : c[k].from = days[i]
    BY DEF Copies
<1>4. mine # {}
    BY CopyNumber
<1> HIDE DEF c, top
<1>5. \E k \in mine : \A j \in mine : j <= k
  <2> DEFINE back == {top - k : k \in mine}
  <2>1. back \in SUBSET Nat /\ back # {}
      BY <1>2, <1>4
  <2>2. PICK b \in back : \A a \in back : b <= a
      BY <2>1, LeastNumber
  <2>3. PICK k \in mine : b = top - k
      BY <2>2
  <2>4. ASSUME NEW j \in mine PROVE j <= k
    <3>1. top - k <= top - j
        BY <2>2, <2>3
    <3>2. j \in Int /\ k \in Int
        BY <1>2
    <3> QED
        BY <1>2, <3>1, <3>2
  <2> QED
      BY <2>4
<1> DEFINE last == CHOOSE k \in good : c[k].to = to /\ \A j \in good : c[j].to = to => j <= k
<1>6. last \in mine
  <2>1. \E k \in good : c[k].to = to /\ \A j \in good : c[j].to = to => j <= k
      BY <1>1, <1>5
  <2>2. last \in good /\ c[last].to = to
      BY <2>1
  <2> QED
      BY <1>1, <2>2
<1> HIDE DEF last, good
<1>7. Sync(dest, c, source)[to] = source[c[last].from] /\ to \in DOMAIN Sync(dest, c, source)
    BY <1>1, <1>6 DEF Sync, good, last
<1> QED
    BY <1>3, <1>6, <1>7 DEF c

-----------------------------------------------------------------------------
(* The days of the fires and the files found for them.                        *)
FirstDay(c) == Day(c.cycle - 24)
LastDay(c) == Day(c.cycle + c.fhmax + 36)
FireDays(c) == FirstDay(c) .. LastDay(c)

LEMMA DaysOfForecast ==
    ASSUME x \in Configurations
    PROVE  /\ FirstDay(x) \in Int /\ LastDay(x) \in Int /\ FirstDay(x) < LastDay(x)
           /\ numdays = LastDay(x) - FirstDay(x) + 1
           /\ forecast_days \in Seq(Int) /\ DOMAIN forecast_days = 1 .. numdays
           /\ \A i \in 1 .. numdays : forecast_days[i] = FirstDay(x) + i - 1
           /\ ForecastDays = FireDays(x)
<1>1. x.cycle \in Nat /\ x.fhmax \in Nat
    BY JobAssumption
<1>2. FirstDay(x) \in Int /\ LastDay(x) \in Int /\ FirstDay(x) < LastDay(x)
    BY <1>1 DEF FirstDay, LastDay, Day
<1>3. numdays = LastDay(x) - FirstDay(x) + 1
    BY DEF numdays, start_date, end_date, FirstDay, LastDay
<1>4. forecast_days = [i \in 1 .. numdays |-> FirstDay(x) + i - 1]
    BY DEF forecast_days, start_date, FirstDay
<1> HIDE DEF FirstDay, LastDay
<1>5. forecast_days \in Seq(Int) /\ DOMAIN forecast_days = 1 .. numdays
    BY <1>2, <1>3, <1>4
<1>6. ASSUME NEW d \in FireDays(x) PROVE d \in ForecastDays
  <2>1. d - FirstDay(x) + 1 \in 1 .. numdays
      BY <1>2, <1>3 DEF FireDays
  <2>2. forecast_days[d - FirstDay(x) + 1] = d
      BY <1>2, <1>4, <2>1 DEF FireDays
  <2> QED
      BY <1>5, <2>1, <2>2 DEF ForecastDays
<1>7. ForecastDays \subseteq FireDays(x)
    BY <1>2, <1>3, <1>4 DEF ForecastDays, FireDays
<1> QED
    BY <1>2, <1>3, <1>4, <1>5, <1>6, <1>7

\* Increasing numbers that are at least as many as those of an interval.
LEMMA FillInterval ==
    ASSUME NEW a \in Int, NEW b \in Int, NEW n \in Nat, n >= b - a + 1,
           NEW s \in [1 .. n -> a .. b], \A i, j \in 1 .. n : i < j => s[i] < s[j],
           NEW i \in 1 .. n
    PROVE  s[i] = a + i - 1
<1> DEFINE Up == {k \in Nat : k + 1 \in 1 .. n => a + k <= s[k + 1]}
           Down == {k \in Nat : n - k \in 1 .. n => s[n - k] <= b - k}
<1>1. Up = Nat
  <2>1. 0 \in Up
      OBVIOUS
  <2>2. ASSUME NEW k \in Up PROVE k + 1 \in Up
    <3> SUFFICES ASSUME k + 2 \in 1 .. n PROVE a + (k + 1) <= s[k + 2]
        OBVIOUS
    <3>1. k \in Nat /\ k + 1 \in 1 .. n /\ k + 1 < k + 2
        OBVIOUS
    <3>2. a + k <= s[k + 1] /\ s[k + 1] < s[k + 2] /\ s[k + 1] \in Int /\ s[k + 2] \in Int
        BY <3>1
    <3> QED
        BY <3>1, <3>2
  <2> HIDE DEF Up
  <2>3. Up \in SUBSET Nat
      BY DEF Up
  <2> QED
      BY <2>1, <2>2, <2>3, Induction
<1>2. Down = Nat
  <2>1. 0 \in Down
      OBVIOUS
  <2>2. ASSUME NEW k \in Down PROVE k + 1 \in Down
    <3> SUFFICES ASSUME n - (k + 1) \in 1 .. n PROVE s[n - (k + 1)] <= b - (k + 1)
        OBVIOUS
    <3>1. k \in Nat /\ n - k \in 1 .. n /\ n - (k + 1) < n - k
        OBVIOUS
    <3>2. s[n - k] <= b - k /\ s[n - (k + 1)] < s[n - k]
          /\ s[n - k] \in Int /\ s[n - (k + 1)] \in Int
        BY <3>1
    <3> QED
        BY <3>1, <3>2
  <2> HIDE DEF Down
  <2>3. Down \in SUBSET Nat
      BY DEF Down
  <2> QED
      BY <2>1, <2>2, <2>3, Induction
<1> HIDE DEF Up, Down
<1>3. i - 1 \in Up /\ n - i \in Down
  <2>1. i - 1 \in Nat /\ n - i \in Nat
      OBVIOUS
  <2> QED
      BY <1>1, <1>2, <2>1
<1>4. s[(i - 1) + 1] = s[i] /\ s[n - (n - i)] = s[i] /\ s[i] \in Int
  <2>1. (i - 1) + 1 = i /\ n - (n - i) = i
      OBVIOUS
  <2> QED
      BY <2>1
<1>5. a + (i - 1) <= s[i] /\ s[i] <= b - (n - i)
    BY <1>3, <1>4 DEF Up, Down
<1> QED
    BY <1>4, <1>5

-----------------------------------------------------------------------------
(* The fires.  A try ends well with a file of every day in DATA: that is what *)
(* the forecast reads, however many of the raw files there were before.       *)

\* Historical GBBEPx files are paired with the days by their position: there
\* is no more than one of a day, that is, one version of it.
OneVersion ==
    \A f, g \in RawFiles :
        /\ f.product = "gbbepx" /\ f.dir = -99 /\ f.name # "blend"
        /\ g.product = "gbbepx" /\ g.dir = -99 /\ g.name # "blend"
        /\ f.day = g.day
        => f = g

\* What initialize leaves in DATA when it does not fail.
GoodFind(c, r) ==
    \/ c.AERO_EMIS_FIRE = "qfed" /\ c.historical
    \/ /\ c.AERO_EMIS_FIRE = "gbbepx" /\ c.historical
       /\ \E n \in Nat :
            /\ r \in [1 .. n -> RawFiles]
            /\ \A i \in 1 .. n : r[i].day \in FireDays(c)
            /\ \A i, j \in 1 .. n : i < j => r[i].day < r[j].day
    \/ /\ c.AERO_EMIS_FIRE = "gbbepx" /\ ~c.historical
       /\ \E n \in Nat :
            /\ r \in [1 .. n -> RawFiles]
            /\ \A i \in 1 .. n : r[i].day \in {FirstDay(c), FirstDay(c) - 1}

\* Files of all days of the forecast, each with the right fires.
GoodFires(c, files) ==
    \A d \in FireDays(c) :
        /\ files[d].time = d /\ files[d].species # {}
        /\ IF c.historical THEN files[d].data = d
           ELSE /\ files[d].data = files[FirstDay(c)].data
                /\ files[d].data \in {FirstDay(c), FirstDay(c) - 1}

FireInv ==
    /\ x \in Configurations /\ raw \subseteq RawFiles
    /\ step = "fire_execute" => GoodFind(x, rawfiles)
    /\ step = "fire_finalize" /\ FireDays(x) \subseteq DOMAIN fireData => GoodFires(x, fireData)
    /\ FiresDone => \E files :
          /\ GoodFires(x, files)
          /\ \A m \in Members, d \in FireDays(x) :
                <<m, d>> \in DOMAIN fireCom /\ fireCom[<<m, d>>] = files[d]

LEMMA FoundInOrder ==
    ASSUME OneVersion, x \in Configurations, raw \subseteq RawFiles,
           ~BlendInHistory, NEW r \in InDateOrder
    PROVE  \E n \in Nat :
            /\ r \in [1 .. n -> RawFiles]
            /\ \A i \in 1 .. n : r[i].day \in FireDays(x)
            /\ \A i, j \in 1 .. n : i < j => r[i].day < r[j].day
<1> DEFINE found == UNION {FoundOn(d) : d \in ForecastDays}
           n == Cardinality(found)
<1>1. found \subseteq RawFiles
    BY DEF FoundOn
<1>2. n \in Nat
  <2> HIDE DEF found
  <2> QED
      BY <1>1, FS_Subset, FS_CardinalityType, RawFileAssumption
<1>3. /\ r \in [1 .. n -> found]
      /\ \A i, j \in 1 .. n : r[i] = r[j] => i = j
      /\ \A i, j \in 1 .. n : i < j => r[i].day <= r[j].day
    BY DEF InDateOrder, Listings
<1>4. \A f \in found : /\ f.product = "gbbepx" /\ f.dir = -99 /\ f.name # "blend"
                        /\ f.day \in FireDays(x) /\ f.day \in Int
  <2>1. FireDays(x) \subseteq Int /\ ForecastDays = FireDays(x)
      BY DaysOfForecast DEF FireDays
  <2> QED
      BY <2>1 DEF FoundOn, BlendInHistory
<1> HIDE DEF n, found
<1>5. ASSUME NEW i \in 1 .. n, NEW j \in 1 .. n, i < j PROVE r[i].day < r[j].day
  <2>1. i # j /\ r[i] \in found /\ r[j] \in found
      BY <1>2, <1>3, <1>5
  <2>2. r[i].day # r[j].day
      BY <1>1, <1>3, <1>4, <2>1 DEF OneVersion
  <2>3. r[i].day <= r[j].day /\ r[i].day \in Int /\ r[j].day \in Int
      BY <1>3, <1>4, <1>5, <2>1
  <2> QED
      BY <2>2, <2>3
<1> QED
    BY <1>1, <1>2, <1>3, <1>4, <1>5

LEMMA FoundInRealTime ==
    ASSUME x \in Configurations, raw \subseteq RawFiles,
           NEW r \in Listings(_find_gbbepx_nrt_fires)
    PROVE  \E n \in Nat :
            /\ r \in [1 .. n -> RawFiles]
            /\ \A i \in 1 .. n : r[i].day \in {FirstDay(x), FirstDay(x) - 1}
<1> DEFINE n == Cardinality(_find_gbbepx_nrt_fires)
<1>1. _find_gbbepx_nrt_fires \subseteq RawFiles
    BY DEF _find_gbbepx_nrt_fires
<1>2. n \in Nat
    BY <1>1, FS_Subset, FS_CardinalityType, RawFileAssumption
<1>3. nrt_date \in {FirstDay(x), FirstDay(x) - 1} /\ nrt_date \in Int /\ nrt_date # -99
  <2>1. FirstDay(x) \in Int /\ FirstDay(x) >= -1
      BY JobAssumption DEF FirstDay, Day
  <2>2. nrt_date = FirstDay(x) \/ nrt_date = FirstDay(x) - 1
      BY DEF nrt_date, start_date, FirstDay
  <2> QED
      BY <2>1, <2>2
<1>4. \A f \in _find_gbbepx_nrt_fires : f.day = nrt_date
    BY <1>1, <1>3, RawFileAssumption DEF _find_gbbepx_nrt_fires
<1>5. r \in [1 .. n -> _find_gbbepx_nrt_fires]
    BY DEF Listings
<1> HIDE DEF n
<1> QED
    BY <1>1, <1>2, <1>3, <1>4, <1>5

LEMMA FireInitializeStep ==
    ASSUME OneVersion, FireInv, FireInitialize PROVE FireInv'
<1>1. x' = x /\ raw' = raw /\ step' \in {"failed", "fire_execute"}
    BY DEF FireInitialize, GoTo
<1>2. ASSUME step' = "fire_execute" PROVE GoodFind(x, rawfiles')
  <2>1. ~SearchFails /\ rawfiles' \in Searches
      BY <1>2 DEF FireInitialize, GoTo
  <2>2. x.historical \in BOOLEAN
      BY JobAssumption DEF FireInv
  <2>3. CASE x.AERO_EMIS_FIRE = "qfed"
      BY <2>1, <2>2, <2>3 DEF SearchFails, GoodFind
  <2>4. CASE x.AERO_EMIS_FIRE = "gbbepx" /\ x.historical
      BY <2>1, <2>4, FoundInOrder DEF SearchFails, Searches, GoodFind, FireInv
  <2>5. CASE x.AERO_EMIS_FIRE = "gbbepx" /\ ~x.historical
      BY <2>1, <2>5, FoundInRealTime DEF Searches, GoodFind, FireInv
  <2> QED
      BY <2>1, <2>2, <2>3, <2>4, <2>5 DEF SearchFails
<1> QED
    BY <1>1, <1>2 DEF FireInv, FiresDone

LEMMA FileFields ==
    ASSUME NEW d, NEW t, NEW s
    PROVE  /\ FireFile(d, t, s).data = d /\ FireFile(d, t, s).time = t
           /\ FireFile(d, t, s).species = s
BY DEF FireFile

\* The file of every day was paired with the day of its data.
LEMMA PairedWithDays ==
    ASSUME FireInv, x.AERO_EMIS_FIRE = "gbbepx", x.historical, GoodFind(x, rawfiles),
           FireDays(x) \subseteq DOMAIN ZippedWithDays
    PROVE  GoodFires(x, ZippedWithDays)
<1> DEFINE a == FirstDay(x)
           b == LastDay(x)
           m == IF Len(rawfiles) < numdays THEN Len(rawfiles) ELSE numdays
<1>1. /\ a \in Int /\ b \in Int /\ a < b /\ numdays = b - a + 1
      /\ \A i \in 1 .. numdays : forecast_days[i] = a + i - 1
    BY DaysOfForecast DEF FireInv
<1>2. PICK n \in Nat :
        /\ rawfiles \in [1 .. n -> RawFiles]
        /\ \A i \in 1 .. n : rawfiles[i].day \in FireDays(x)
        /\ \A i, j \in 1 .. n : i < j => rawfiles[i].day < rawfiles[j].day
    BY DEF GoodFind
<1>3. Len(rawfiles) = n
    BY <1>2
<1>4. DOMAIN ZippedWithDays = {forecast_days[i] : i \in 1 .. m}
    BY DEF ZippedWithDays
<1> HIDE DEF a, b
<1>5. n >= numdays
  <2> SUFFICES ASSUME n < numdays PROVE FALSE
      BY <1>1, <1>2
  <2>1. b \in FireDays(x) /\ m = n
      BY <1>1, <1>3 DEF FireDays, a, b
  <2>2. PICK i \in 1 .. n : forecast_days[i] = b
      BY <1>4, <2>1
  <2>3. i \in 1 .. numdays /\ forecast_days[i] = a + i - 1
      BY <1>1
  <2> QED
      BY <1>1, <2>2, <2>3
<1>6. ASSUME NEW i \in 1 .. numdays PROVE rawfiles[i].day = a + i - 1
  <2> DEFINE s == [j \in 1 .. n |-> rawfiles[j].day]
  <2>1. s \in [1 .. n -> a .. b] /\ \A j, k \in 1 .. n : j < k => s[j] < s[k]
      BY <1>2 DEF FireDays, a, b
  <2>2. i \in 1 .. n /\ n >= b - a + 1
      BY <1>1, <1>5
  <2> HIDE DEF s
  <2>3. s[i] = a + i - 1
      BY <1>1, <1>2, <2>1, <2>2, FillInterval
  <2> QED
      BY <2>2, <2>3 DEF s
<1>7. ASSUME NEW d \in FireDays(x)
      PROVE  ZippedWithDays[d] = FireFile(d, d, Species)
  <2> DEFINE k == CHOOSE i \in 1 .. m : forecast_days[i] = d
  <2>1. m = numdays
      BY <1>1, <1>2, <1>3, <1>5
  <2>2. d - a + 1 \in 1 .. m /\ forecast_days[d - a + 1] = d
      BY <1>1, <2>1 DEF FireDays, a, b
  <2>3. k \in 1 .. m /\ forecast_days[k] = d
      BY <2>2
  <2>4. rawfiles[k].day = d
      BY <1>1, <1>6, <2>1, <2>3
  <2>5. d \in DOMAIN ZippedWithDays
      OBVIOUS
  <2>6. ZippedWithDays[d] = Converted(rawfiles[k], rawfiles[k].day)
      BY <2>5 DEF ZippedWithDays
  <2> QED
      BY <2>4, <2>6 DEF Converted
<1>8. ASSUME NEW d \in FireDays(x)
      PROVE  /\ ZippedWithDays[d].time = d /\ ZippedWithDays[d].data = d
             /\ ZippedWithDays[d].species = Species
    BY <1>7, FileFields
<1> QED
    BY <1>8, RawFileAssumption DEF GoodFires

LEMMA OneFileOfFires ==
    ASSUME FireInv, x.AERO_EMIS_FIRE = "gbbepx", ~x.historical, GoodFind(x, rawfiles),
           rawfiles # <<>>
    PROVE  GoodFires(x, OneForAllDays)
<1>1. PICK n \in Nat :
        /\ rawfiles \in [1 .. n -> RawFiles]
        /\ \A i \in 1 .. n : rawfiles[i].day \in {FirstDay(x), FirstDay(x) - 1}
    BY DEF GoodFind
<1>2. n # 0
    BY <1>1
<1>3. rawfiles[1].day \in {FirstDay(x), FirstDay(x) - 1}
    BY <1>1, <1>2
<1>4. FirstDay(x) \in FireDays(x) /\ ForecastDays = FireDays(x)
    BY DaysOfForecast DEF FireInv, FireDays
<1>5. \A d \in FireDays(x) : OneForAllDays[d] = FireFile(rawfiles[1].day, d, Species)
    BY <1>4 DEF OneForAllDays, Converted
<1>6. ASSUME NEW d \in FireDays(x)
      PROVE  /\ OneForAllDays[d].time = d /\ OneForAllDays[d].data = rawfiles[1].day
             /\ OneForAllDays[d].species = Species
    BY <1>5, FileFields
<1> QED
    BY <1>3, <1>4, <1>6, RawFileAssumption DEF GoodFires

LEMMA CombinedFires ==
    ASSUME FireInv, x.historical, NEW u, FireDays(x) \subseteq DOMAIN CombinedByDay(u)
    PROVE  GoodFires(x, CombinedByDay(u))
<1> DEFINE of(d) == {f \in Range(rawfiles) : f.day = d}
           species(d) == {f.species : f \in of(d)}
<1>1. ASSUME NEW d \in FireDays(x)
      PROVE  CombinedByDay(u)[d] = FireFile(d, d, species(d)) /\ of(d) # {}
  <2>1. d \in DOMAIN CombinedByDay(u)
      OBVIOUS
  <2> QED
      BY <2>1 DEF CombinedByDay
<1>2. ASSUME NEW d \in FireDays(x)
      PROVE  /\ CombinedByDay(u)[d].time = d /\ CombinedByDay(u)[d].data = d
             /\ CombinedByDay(u)[d].species # {}
  <2>1. PICK f \in Range(rawfiles) : f.day = d
      BY <1>1
  <2>2. f.species \in species(d)
      BY <2>1
  <2> HIDE DEF of, species
  <2> QED
      BY <1>1, <2>2, FileFields
<1> QED
    BY <1>2 DEF GoodFires

LEMMA FireExecuteStep ==
    ASSUME FireInv, FireExecute PROVE FireInv'
<1>1. x' = x /\ raw' = raw /\ step = "fire_execute" /\ step' \in {"failed", "fire_finalize"}
    BY DEF FireExecute, GoTo
<1>2. ASSUME step' = "fire_finalize", FireDays(x) \subseteq DOMAIN fireData'
      PROVE  GoodFires(x, fireData')
  <2>1. GoodFind(x, rawfiles)
      BY <1>1 DEF FireInv
  <2>2. CASE x.AERO_EMIS_FIRE = "gbbepx" /\ x.historical
    <3>1. fireData' = ZippedWithDays
      <4>1. x.historical = TRUE
          BY <2>2, JobAssumption DEF FireInv
      <4> QED
          BY <1>2, <2>2, <4>1 DEF FireExecute, GoTo
    <3> QED
        BY <1>2, <2>1, <2>2, <3>1, PairedWithDays
  <2>3. CASE x.AERO_EMIS_FIRE = "gbbepx" /\ ~x.historical
    <3>1. fireData' = IF rawfiles = <<>> THEN NoFiles ELSE OneForAllDays
        BY <1>2, <2>3 DEF FireExecute, GoTo
    <3>2. rawfiles # <<>>
      <4>1. FirstDay(x) \in FireDays(x)
          BY DaysOfForecast DEF FireInv, FireDays
      <4> QED
          BY <1>2, <3>1, <4>1 DEF NoFiles
    <3> QED
        BY <2>1, <2>3, <3>1, <3>2, OneFileOfFires
  <2>4. CASE x.AERO_EMIS_FIRE = "qfed"
    <3>1. PICK u \in {{}} \cup {{f} : f \in Range(rawfiles)} : fireData' = CombinedByDay(u)
        BY <1>2, <2>4 DEF FireExecute, GoTo
    <3>2. x.historical
        BY <2>1, <2>4 DEF GoodFind
    <3> QED
        BY <1>2, <3>1, <3>2, CombinedFires
  <2> QED
      BY <2>1, <2>2, <2>3, <2>4 DEF GoodFind
<1> QED
    BY <1>1, <1>2 DEF FireInv, FiresDone

LEMMA FireFinalizeStep ==
    ASSUME FireInv, FireFinalize PROVE FireInv'
<1>1. /\ x' = x /\ raw' = raw /\ step = "fire_finalize" /\ step' \in {"failed", "nexus_initialize"}
      /\ fireCom' = Sync(fireCom, fire_data_out, fireData)
    BY DEF FireFinalize, GoTo
<1>2. ASSUME step' = "nexus_initialize"
      PROVE  /\ GoodFires(x, fireData)
             /\ \A m \in Members, d \in FireDays(x) :
                   <<m, d>> \in DOMAIN fireCom' /\ fireCom'[<<m, d>>] = fireData[d]
  <2>1. \A k \in DOMAIN Copies(forecast_days) : Copies(forecast_days)[k].from \in DOMAIN fireData
      BY <1>2 DEF FireFinalize, GoTo, fire_data_out
  <2>2. x \in Configurations /\ x.NMEM_ENS \in Nat
      BY JobAssumption DEF FireInv
  <2>3. /\ FirstDay(x) \in Int /\ LastDay(x) \in Int /\ forecast_days \in Seq(Int)
        /\ ForecastDays = FireDays(x)
      BY <2>2, DaysOfForecast
  <2>4. ASSUME NEW m \in Members, NEW d \in FireDays(x)
        PROVE  <<m, d>> \in DOMAIN fireCom' /\ fireCom'[<<m, d>>] = fireData[d]
    <3>1. PICK i \in DOMAIN forecast_days : forecast_days[i] = d
        BY <2>3 DEF ForecastDays
    <3> QED
        BY <1>1, <2>1, <2>2, <2>3, <3>1, SyncCopies DEF fire_data_out
  <2>5. FireDays(x) \subseteq DOMAIN fireData
    <3> SUFFICES ASSUME NEW d \in FireDays(x) PROVE d \in DOMAIN fireData
        OBVIOUS
    <3>1. PICK i \in DOMAIN forecast_days : forecast_days[i] = d
        BY <2>3 DEF ForecastDays
    <3>2. 0 \in Members
        BY <2>2 DEF Members
    <3> QED
        BY <2>1, <2>2, <2>3, <3>1, <3>2, CopyNumber
  <2> QED
      BY <1>1, <2>4, <2>5 DEF FireInv
<1>3. Members' = Members
    BY <1>1 DEF Members
<1> QED
    BY <1>1, <1>2, <1>3 DEF FireInv, FiresDone

\* Nothing else touches what the fires have made, but to start again.
LEMMA OtherFireSteps ==
    ASSUME FireInv, UNCHANGED x, raw' \subseteq RawFiles,
           step' \notin {"fire_execute", "fire_finalize"},
           FiresDone' => FiresDone /\ UNCHANGED fireCom
    PROVE  FireInv'
BY DEF FireInv, Members

LEMMA NextFireInv == OneVersion /\ FireInv /\ [Next]_vars => FireInv'
<1> SUFFICES ASSUME OneVersion, FireInv, [Next]_vars PROVE FireInv'
    OBVIOUS
<1>1. CASE Construct
    BY <1>1, OtherFireSteps DEF Construct, GoTo, fireVars, FireInv, FiresDone
<1>2. CASE Kill
    BY <1>2, OtherFireSteps DEF Kill, GoTo, FireInv, FiresDone
<1>3. CASE Resubmit
    BY <1>3, OtherFireSteps DEF Resubmit, FireRestart, FireInv, FiresDone
<1>4. CASE Arrive
  <2>1. raw' \subseteq RawFiles
      BY <1>4 DEF Arrive, FireInv
  <2> QED
      BY <1>4, <2>1, OtherFireSteps DEF Arrive, jobVars, FiresDone
<1>5. CASE FireInitialize
    BY <1>5, FireInitializeStep
<1>6. CASE FireExecute
    BY <1>6, FireExecuteStep
<1>7. CASE FireFinalize
    BY <1>7, FireFinalizeStep
<1>8. CASE (NexusInitialize \/ NexusExecute \/ NexusFinalize) /\ UNCHANGED fireVars
  <2>1. FiresDone /\ UNCHANGED x /\ step' \in {"nexus_execute", "nexus_finalize", "done", "failed"}
      BY <1>8 DEF NexusInitialize, NexusExecute, NexusFinalize, GoTo, FiresDone
  <2> QED
      BY <1>8, <2>1, OtherFireSteps DEF fireVars, FireInv
<1>9. CASE UNCHANGED vars
    BY <1>9 DEF vars, jobVars, fireVars, FireInv, FiresDone, Members
<1> QED
    BY <1>1, <1>2, <1>3, <1>4, <1>5, <1>6, <1>7, <1>8, <1>9 DEF Next

(* FireDaysDelivered, for all raw files of which each historical day has one  *)
(* version, coming at any time: a forecast starts with the fires of every day *)
(* that it reads.                                                             *)
THEOREM FiresDelivered == OneVersion /\ Spec => []FireDaysDelivered
<1>1. Init => FireInv
    BY DEF Init, JobInit, FireInit, FireInv, FiresDone
<1>2. FireInv => FireDaysDelivered
  <2> SUFFICES ASSUME FireInv, FiresDone, NEW m \in Members, NEW d \in FireDaysRead
               PROVE  /\ <<m, d>> \in DOMAIN fireCom
                      /\ LET f == fireCom[<<m, d>>] IN
                          /\ f.time = d /\ f.species # {}
                          /\ IF x.historical THEN f.data = d
                             ELSE /\ f.data = fireCom[<<0, Day(start_date)>>].data
                                  /\ f.data \in {Day(start_date), Day(start_date) - 1}
      BY DEF FireDaysDelivered
  <2>1. x.cycle \in Nat /\ x.fhmax \in Nat /\ x.NMEM_ENS \in Nat
      BY JobAssumption DEF FireInv
  <2>2. d \in FireDays(x) /\ FirstDay(x) \in FireDays(x)
      BY <2>1 DEF FireDaysRead, FireDays, FirstDay, LastDay, Day
  <2>3. PICK files :
          /\ GoodFires(x, files)
          /\ \A n \in Members, e \in FireDays(x) :
                <<n, e>> \in DOMAIN fireCom /\ fireCom[<<n, e>>] = files[e]
      BY DEF FireInv
  <2>4. 0 \in Members /\ Day(start_date) = FirstDay(x)
      BY <2>1 DEF Members, FirstDay, start_date
  <2>5. fireCom[<<m, d>>] = files[d] /\ fireCom[<<0, FirstDay(x)>>] = files[FirstDay(x)]
      BY <2>2, <2>3, <2>4
  <2> QED
      BY <2>2, <2>3, <2>4, <2>5 DEF GoodFires
<1>3. SUFFICES ASSUME OneVersion PROVE Spec => []FireDaysDelivered
    OBVIOUS
<1> QED
    BY <1>1, <1>2, <1>3, NextFireInv, PTL DEF Spec

-----------------------------------------------------------------------------
(* NEXUS.  The inventories of a day.                                          *)

\* The section that an entry counts to is open there, so an entry whose
\* sections are all turned on is among those that are asked for.
LEMMA UsedIsParsed ==
    ASSUME NEW e \in Used, NEW d \in daterange, NEW p \in PatternsOf(e)
    PROVE  Name(e, d, FilledBy(e.frequency), p) \in parse_hemco
<1>1. PICK k \in LinesOf("entry") : e = HemcoLines[k] /\ Sections(k) \subseteq SwitchedOn
    BY DEF Used
<1>2. in_conditional_section(k) \subseteq enabled_collections(k)
  <2> SUFFICES ASSUME NEW i \in LinesOf("open"), i < k,
                      \A c \in i + 1 .. k : c \notin LinesOf("open") \cup LinesOf("close")
               PROVE  HemcoLines[i].name \in enabled_collections(k)
      BY DEF in_conditional_section
  <2>1. LinesOf("open") \subseteq Int /\ LinesOf("close") \subseteq Int /\ k \in Int
      BY HemcoAssumption DEF LinesOf
  <2>2. \A c \in LinesOf("close") : ~(i < c /\ c < k)
      BY <2>1
  <2>3. HemcoLines[i].name \in Sections(k)
      BY <2>2 DEF Sections
  <2>4. PICK j \in LinesOf("switch") : HemcoLines[j].name = HemcoLines[i].name
      BY <1>1, <2>3 DEF SwitchedOn
  <2> QED
      BY <2>4, HemcoAssumption DEF enabled_collections
<1>3. expand_filenames(e) \subseteq parse_hemco
    BY <1>1, <1>2 DEF parse_hemco
<1> QED
    BY <1>3 DEF expand_filenames

\* A file that is there has all its fields filled in, so the names that are asked
\* for are those of the day.
LEMMA FilesOfDay ==
    ASSUME NEW stored, \A file \in stored : \A f \in DOMAIN file.fields : file.fields[f] # 0,
           parse_hemco \subseteq stored, NEW d \in daterange
    PROVE  InputsOf(d) \subseteq parse_hemco
<1> SUFFICES ASSUME NEW e \in Used, NEW p \in IF "DAY" \in e.fields THEN e.patterns ELSE {0}
             PROVE  Name(e, d, {"YYYY", "MM", "DD", "DAY"}, p) \in parse_hemco
    BY DEF InputsOf
<1> DEFINE filled == FilledBy(e.frequency)
<1>1. ASSUME NEW q \in PatternsOf(e)
      PROVE  e.fields \subseteq filled /\ Name(e, d, filled, q) \in parse_hemco
  <2>1. Name(e, d, filled, q) \in parse_hemco
      BY <1>1, UsedIsParsed
  <2>2. \A f \in e.fields : Name(e, d, filled, q).fields[f] # 0
      BY <2>1 DEF Name
  <2> HIDE DEF filled
  <2>3. \A f \in e.fields : f \notin filled => Name(e, d, filled, q).fields[f] = 0
      BY DEF Name
  <2> QED
      BY <2>1, <2>2, <2>3 DEF filled
<1>2. PICK q \in PatternsOf(e) : TRUE
  <2>1. PICK k \in LinesOf("entry") : e = HemcoLines[k]
      BY DEF Used
  <2> QED
      BY <2>1, HemcoAssumption DEF PatternsOf
<1>3. e.fields \subseteq filled
    BY <1>1, <1>2
<1>4. CASE "DAY" \in e.fields
  <2>1. e.frequency = "representative"
      BY <1>3, <1>4 DEF FilledBy
  <2>2. filled = {"YYYY", "MM", "DAY"} /\ p \in PatternsOf(e)
      BY <1>4, <2>1 DEF FilledBy, PatternsOf
  <2>3. Name(e, d, {"YYYY", "MM", "DAY"}, p) \in parse_hemco
      BY <1>1, <2>2
  <2>4. e.fields \subseteq {"YYYY", "MM", "DAY"}
      BY <1>3, <2>2
  <2>5. Name(e, d, {"YYYY", "MM", "DAY"}, p) = Name(e, d, {"YYYY", "MM", "DD", "DAY"}, p)
      BY <2>4 DEF Name
  <2> QED
      BY <2>3, <2>5
<1>5. CASE "DAY" \notin e.fields
  <2>1. filled \subseteq {"YYYY", "MM", "DD", "DAY"}
      BY DEF FilledBy
  <2> HIDE DEF filled
  <2>2. Name(e, d, filled, q) = Name(e, d, {"YYYY", "MM", "DD", "DAY"}, p)
      BY <1>3, <1>5, <2>1 DEF Name
  <2> QED
      BY <1>1, <1>2, <2>2 DEF filled
<1> QED
    BY <1>4, <1>5

-----------------------------------------------------------------------------
(* The hours of a day and the files of all days.                              *)
HoursIn(c, d) == {i \in 0 .. c.fhmax : 24 * d <= c.cycle + i /\ c.cycle + i <= 24 * (d + 1)}

\* A file of a day has its hours in a row from the first; h, those written.
GoodDay(c, h, file, d) ==
    /\ file # {} /\ file \subseteq HoursIn(c, d)
    /\ \A i \in file, j \in HoursIn(c, d) : j < i => j \in file
    /\ h = 0 .. c.fhmax => file = HoursIn(c, d)

InventoryDays(c) == Day(c.cycle) .. Day(c.cycle + c.fhmax + 1)
OutputDays(c) == {Day(c.cycle + i) : i \in 0 .. c.fhmax}

NexusInv ==
    /\ x \in Configurations
    /\ step \in {"nexus_execute", "nexus_finalize", "done"} =>
         \A d \in InventoryDays(x) : InputsOf(d) \subseteq inputs
    /\ x.NEXUS_DIAG_FREQ = "Hourly" =>
         /\ step = "nexus_finalize" => \A d \in DOMAIN daily : GoodDay(x, hours, daily[d], d)
         /\ step = "done" => \A m \in Members, d \in OutputDays(x) :
              /\ <<m, d>> \in DOMAIN nexusCom /\ GoodDay(x, hours, nexusCom[<<m, d>>], d)
              /\ m \in restartCom

LEMMA HourlyOutput ==
    ASSUME x \in Configurations, x.NEXUS_DIAG_FREQ = "Hourly"
    PROVE  /\ Indices = 0 .. x.fhmax
           /\ \A i \in Indices : TimeOf(i) = x.cycle + i
           /\ FINAL_OUTPUT = OutputDays(x)
<1>1. x.cycle \in Nat /\ x.fhmax \in Nat
    BY JobAssumption
<1>2. forecast_dates = [i \in 1 .. x.fhmax + 2 |-> x.cycle + (i - 1)]
    BY <1>1 DEF forecast_dates, total_hrs
<1>3. Len(forecast_dates) = x.fhmax + 2
    BY <1>1, <1>2
<1>4. Indices = 0 .. x.fhmax
    BY <1>1, <1>3 DEF Indices
<1>5. \A i \in Indices : TimeOf(i) = x.cycle + i
    BY <1>1, <1>2, <1>4 DEF TimeOf
<1> QED
    BY <1>4, <1>5 DEF FINAL_OUTPUT, OutputDays

LEMMA DayBounds ==
    ASSUME NEW t \in Int, NEW d \in Int
    PROVE  Day(t) = d \/ t = 24 * (d + 1) <=> 24 * d <= t /\ t <= 24 * (d + 1)
<1>1. Day(t) \in Int /\ 24 * Day(t) <= t /\ t < 24 * (Day(t) + 1)
    BY DEF Day
<1> QED
    BY <1>1

\* The indices of a day are those of the steps that fall on it.
LEMMA DayIndices ==
    ASSUME x \in Configurations, x.NEXUS_DIAG_FREQ = "Hourly", NEW d \in DOMAIN _get_day_indices
    PROVE  d \in Int /\ _get_day_indices[d] = HoursIn(x, d)
<1> DEFINE of(e) == {i \in Indices : Day(TimeOf(i)) = e \/ TimeOf(i) = 24 * (e + 1)}
<1>1. x.cycle \in Nat /\ x.fhmax \in Nat
    BY JobAssumption
<1>2. d \in Int /\ _get_day_indices[d] = of(d)
    BY <1>1 DEF _get_day_indices, total_hrs, Day
<1>3. ASSUME NEW i \in 0 .. x.fhmax
      PROVE  Day(x.cycle + i) = d \/ x.cycle + i = 24 * (d + 1)
             <=> 24 * d <= x.cycle + i /\ x.cycle + i <= 24 * (d + 1)
    BY <1>1, <1>2, DayBounds
<1> QED
    BY <1>2, <1>3, HourlyOutput DEF HoursIn

LEMMA DaysJoined ==
    ASSUME x \in Configurations, x.NEXUS_DIAG_FREQ = "Hourly", NEW d \in DOMAIN ConcatenateByDay
    PROVE  GoodDay(x, hours', ConcatenateByDay[d], d)
<1>1. /\ d \in DOMAIN _get_day_indices
      /\ \A f \in DOMAIN _get_day_indices : Turn(f) <= Turn(d) => JoinedFor(f) # {}
      /\ ConcatenateByDay[d] = JoinedFor(d)
    BY DEF ConcatenateByDay
<1>2. d \in Int /\ _get_day_indices[d] = HoursIn(x, d)
    BY <1>1, DayIndices
<1>3. Turn(d) \in Int
    BY <1>2, JobAssumption DEF Turn, Day
<1>4. JoinedFor(d) # {}
    BY <1>1, <1>3
<1>5. JoinedFor(d) = {i \in HoursIn(x, d) : \A j \in HoursIn(x, d) : j <= i => j \in hours'}
    BY <1>2 DEF JoinedFor
<1>6. HoursIn(x, d) \subseteq 0 .. x.fhmax
    BY DEF HoursIn
<1>7. ASSUME NEW i \in JoinedFor(d), NEW j \in HoursIn(x, d), j < i PROVE j \in JoinedFor(d)
  <2>1. \A k \in HoursIn(x, d) : k <= j => k <= i
      BY <1>5, <1>6, <1>7
  <2> QED
      BY <1>5, <2>1
<1>8. hours' = 0 .. x.fhmax => JoinedFor(d) = HoursIn(x, d)
    BY <1>5, <1>6
<1> QED
    BY <1>1, <1>4, <1>5, <1>7, <1>8 DEF GoodDay

-----------------------------------------------------------------------------
LEMMA NexusInitializeStep == NexusInv /\ NexusInitialize => NexusInv'
<1> SUFFICES ASSUME NexusInv, NexusInitialize PROVE NexusInv'
    OBVIOUS
<1>1. x' = x /\ step' \in {"nexus_execute", "failed"}
    BY DEF NexusInitialize, GoTo
<1>2. ASSUME step' = "nexus_execute", NEW d \in InventoryDays(x) PROVE InputsOf(d) \subseteq inputs'
  <2>1. PICK stored \in Stored(x) : inputs' = parse_hemco /\ parse_hemco \subseteq stored
      BY <1>2 DEF NexusInitialize, GoTo, gather_emissions_files
  <2>2. d \in daterange
      BY <1>2, JobAssumption DEF InventoryDays, daterange, parse_hemco_time_file, total_hrs, NexusInv
  <2> QED
      BY <2>1, <2>2, FilesOfDay, HemcoAssumption DEF NexusInv
<1> QED
    BY <1>1, <1>2 DEF NexusInv

LEMMA NexusExecuteStep == NexusInv /\ NexusExecute => NexusInv'
<1> SUFFICES ASSUME NexusInv, NexusExecute PROVE NexusInv'
    OBVIOUS
<1>1. /\ x' = x /\ inputs' = inputs /\ step = "nexus_execute"
      /\ step' = "failed" \/ (step' = "nexus_finalize" /\ daily' = ConcatenateByDay)
    BY DEF NexusExecute, GoTo
<1>2. ASSUME x.NEXUS_DIAG_FREQ = "Hourly", step' = "nexus_finalize", NEW d \in DOMAIN daily'
      PROVE  GoodDay(x, hours', daily'[d], d)
    BY <1>1, <1>2, DaysJoined DEF NexusInv
<1> QED
    BY <1>1, <1>2 DEF NexusInv

LEMMA NexusFinalizeStep == NexusInv /\ NexusFinalize => NexusInv'
<1> SUFFICES ASSUME NexusInv, NexusFinalize PROVE NexusInv'
    OBVIOUS
<1>1. /\ x' = x /\ inputs' = inputs /\ hours' = hours /\ step = "nexus_finalize"
      /\ step' \in {"done", "failed"}
    BY DEF NexusFinalize, GoTo
<1>2. ASSUME x.NEXUS_DIAG_FREQ = "Hourly", step' = "done", NEW m \in Members, NEW d \in OutputDays(x)
      PROVE  /\ <<m, d>> \in DOMAIN nexusCom' /\ GoodDay(x, hours, nexusCom'[<<m, d>>], d)
             /\ m \in restartCom'
  <2>1. OutputMade /\ CopiedUpTo(x.NMEM_ENS + 1, {})
      BY <1>2 DEF NexusFinalize, GoTo
  <2>2. FINAL_OUTPUT = OutputDays(x)
      BY <1>2, HourlyOutput DEF NexusInv
  <2>3. m \in 0 .. (x.NMEM_ENS + 1) - 1
      BY JobAssumption DEF NexusInv, Members
  <2>4. /\ <<m, d>> \in DOMAIN nexusCom' /\ nexusCom'[<<m, d>>] = daily[d]
        /\ m \in restartCom'
      BY <2>1, <2>2, <2>3 DEF CopiedUpTo
  <2> QED
      BY <1>1, <1>2, <2>1, <2>2, <2>4 DEF NexusInv, OutputMade
<1>3. Members' = Members
    BY <1>1 DEF Members
<1> QED
    BY <1>1, <1>2, <1>3 DEF NexusInv

LEMMA NextNexusInv == NexusInv /\ [Next]_vars => NexusInv'
<1> SUFFICES ASSUME NexusInv, [Next]_vars PROVE NexusInv'
    OBVIOUS
<1>1. CASE NexusInitialize
    BY <1>1, NexusInitializeStep
<1>2. CASE NexusExecute
    BY <1>2, NexusExecuteStep
<1>3. CASE NexusFinalize
    BY <1>3, NexusFinalizeStep
<1>4. CASE Construct \/ Kill \/ Resubmit \/ FireInitialize \/ FireExecute \/ FireFinalize
  <2>1. x' = x /\ step' \notin {"nexus_execute", "nexus_finalize", "done"}
      BY <1>4 DEF Construct, Kill, Resubmit, FireInitialize, FireExecute, FireFinalize, GoTo
  <2> QED
      BY <2>1 DEF NexusInv
<1>5. CASE (Arrive /\ UNCHANGED nexusVars) \/ UNCHANGED vars
  <2>1. UNCHANGED <<jobVars, nexusVars>>
      BY <1>5 DEF Arrive, vars
  <2> QED
      BY <2>1 DEF NexusInv, jobVars, nexusVars, Members
<1> QED
    BY <1>1, <1>2, <1>3, <1>4, <1>5 DEF Next

(* NexusDaysDelivered, for any configuration that turns its sections on first *)
(* and any inventories: a job that ends well has delivered the hours of every *)
(* day and the restart, made with the inventories of the day.                 *)
THEOREM NexusDelivered == Spec => []NexusDaysDelivered
<1>1. Init => NexusInv
    BY DEF Init, JobInit, NexusInv
<1>2. NexusInv => NexusDaysDelivered
  <2> SUFFICES ASSUME NexusInv, step = "done", x.NEXUS_DIAG_FREQ = "Hourly",
                      NEW m \in Members, NEW d \in {Day(x.cycle + i) : i \in 0 .. x.fhmax}
               PROVE  /\ InputsOf(d) \subseteq inputs
                      /\ m \in restartCom
                      /\ <<m, d>> \in DOMAIN nexusCom
                      /\ LET file == nexusCom[<<m, d>>] IN
                          /\ file # {} /\ file \subseteq HoursOf(d)
                          /\ \A i \in file, j \in HoursOf(d) : j < i => j \in file
                          /\ hours = 0 .. x.fhmax => file = HoursOf(d)
      BY DEF NexusDaysDelivered
  <2>1. d \in OutputDays(x) /\ HoursOf(d) = HoursIn(x, d)
      BY DEF OutputDays, HoursOf, HoursIn
  <2>2. d \in InventoryDays(x)
      BY JobAssumption DEF NexusInv, InventoryDays, Day
  <2> QED
      BY <2>1, <2>2 DEF NexusInv, GoodDay
<1> QED
    BY <1>1, <1>2, NextNexusInv, PTL DEF Spec
=============================================================================

---------------------------- MODULE MCEmissions ----------------------------
(* A cycle on the last day of a year, with short forecasts.                   *)
EXTENDS PrepEmissions, TLC

Run(cycle, fhmax, fire, hist, freq, nmem) ==
    [cycle |-> cycle, fhmax |-> fhmax, AERO_EMIS_FIRE |-> fire, historical |-> hist,
     NEXUS_DIAG_FREQ |-> freq, NMEM_ENS |-> nmem]

Runs == {Run(0, 6, "gbbepx", TRUE, "Hourly", 0),
         Run(18, 12, "gbbepx", TRUE, "Hourly", 1),
         Run(6, 30, "gbbepx", FALSE, "Hourly", 0),
         Run(0, 24, "gbbepx", FALSE, "Hourly", 1),
         Run(0, 6, "qfed", TRUE, "Hourly", 0),
         Run(18, 9, "qfed", FALSE, "Hourly", 0),
         Run(0, 6, "none", TRUE, "Hourly", 0),
         Run(12, 48, "gbbepx", FALSE, "Daily", 0),
         Run(0, 6, "gbbepx", TRUE, "Monthly", 0)}

\* A raw file by product, directory, day, form and kind of name.
Raw(product, dir, day, form, name, species) ==
    [product |-> product, dir |-> dir, day |-> day, version |-> "v4", form |-> form,
     name |-> name, species |-> species]

Archive == {Raw("gbbepx", -99, d, "raw", "daily", "all") : d \in -1 .. 2}
           \cup {Raw("gbbepx", -99, -1, "raw", "blend", "all")}
RealTime == {Raw("gbbepx", d, d, "raw", "blend", "all") : d \in -3 .. -1}
            \cup {Raw("gbbepx", -1, -1, "coards", "blend", "all"),
                  Raw("gbbepx", -1, -1, "raw", "daily", "all")}
Qfed == {Raw("qfed", -99, d, "raw", "daily", s) : d \in -1 .. 1, s \in {"bc", "oc"}}

MCRawFiles == Archive \cup RealTime \cup Qfed
MCSpecies == {"bc", "oc"}

-----------------------------------------------------------------------------
\* Day 0 is 31 December 2019.
MCDate(d) ==
    IF d <= 0 THEN [year |-> 2019, month |-> 12, day |-> 31 + d]
              ELSE [year |-> 2020, month |-> 1, day |-> d]

Line(kind, name) == [kind |-> kind, name |-> name]
Sector(name, fields, years, frequency, patterns) ==
    [kind |-> "entry", name |-> name, fields |-> fields, years |-> years,
     frequency |-> frequency, patterns |-> patterns]
Entry(name, fields, years, frequency) == Sector(name, fields, years, frequency, {})

\* One section inside another, one turned off, files of every frequency.
MCHemcoLines ==
    <<Line("switch", "CEDS"), Line("switch", "FINN"),
      Entry("mask", {}, <<>>, "yearly"),
      Line("open", "CEDS"), Entry("ceds", {"YYYY", "MM"}, <<1980, 2019>>, "monthly"),
      Line("open", "FINN"), Entry("finn", {"YYYY", "MM", "DD"}, <<>>, "daily"),
      Line("close", "FINN"), Entry("ships", {"YYYY"}, <<2000, 2022>>, "yearly"),
      Sector("nei", {"YYYY", "MM", "DAY"}, <<>>, "representative", 1 .. 2),
      Line("close", "CEDS"),
      Line("open", "CAMS"), Entry("cams", {"YYYY"}, <<>>, "yearly"), Line("close", "CAMS")>>

Inventories == UNION {InputsOf(d) : d \in 0 .. 3}

\* None, or one: the first, or one at a midnight or in between.
MCLost == {{}} \cup {{i} : i \in {0, 6, 18, 24}}

\* All there, or one of those of a day or of a kind of day missing.
MCStored(c) ==
    {Inventories} \cup {Inventories \ {f} : f \in {g \in Inventories : g.entry \in {"finn", "nei"}}}
=============================================================================

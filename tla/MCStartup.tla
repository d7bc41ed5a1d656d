------------------------------- MODULE MCStartup -------------------------------
EXTENDS Startup

LeastI32 == -7000

Fan == {"fan1_input", "fan1_min", "fan1_max"}
LegacyFan == Fan \cup {"fan1_output", "fan1_manual"}
ModernFan == Fan \cup {"fan1_target", "pwm1_enable"}

Tree(platform, hwmon, vocabulary) ==
  [platform |-> platform, hwmon |-> hwmon, min |-> 1200, max |-> 6200,
   coretemp |-> <<{1, 2}>>, vocabulary |-> vocabulary, writable |-> TRUE]

Legacy == Tree(LegacyFan, <<>>, "legacy")
Modern == Tree({}, <<{}, ModernFan>>, "modern")

\* The machines as they come, one after a move of the hwmon directory, and
\* trees nothing good can be made of.
MachineTrees ==
  {Legacy, Modern,
   Tree({}, <<ModernFan>>, "modern"),
   Tree(ModernFan, <<>>, "modern"),
   Tree(LegacyFan, <<>>, "modern"),
   Tree(ModernFan, <<>>, "legacy"),
   Tree(LegacyFan \cup ModernFan, <<>>, "modern"),
   Tree(LegacyFan \ {"fan1_output"}, <<>>, "legacy"),
   Tree(Fan, <<>>, "legacy"),
   Tree(None, <<>>, "legacy"),
   [Legacy EXCEPT !.max = None],
   [Legacy EXCEPT !.min = 6300],
   [Legacy EXCEPT !.max = 2000],
   [Modern EXCEPT !.min = 0],
   [Modern EXCEPT !.coretemp = None],
   [Modern EXCEPT !.coretemp = <<{}>>]}

DoctorFinds ==
  {<<{"cool"}, "notify with a watchdog", "started after the binary">>,
   <<{"cool", "failed"}, "unknown", "unknown">>,
   <<{"cool", "hot"}, "not loaded", "not running">>,
   <<{"failed"}, "notify with a watchdog", "started before the binary">>,
   <<{"cool"}, "other", "not running">>}

Document(high, max, min_rpm, max_rpm, interval_s) ==
  [section |-> [s \in Sections |-> "table"],
   value |-> [k \in Keys |->
     CASE k = "high" -> high [] k = "max" -> max [] k = "min_rpm" -> min_rpm
       [] k = "max_rpm" -> max_rpm [] k = "interval_s" -> interval_s],
   unknown_keys |-> FALSE]

Good == Document(60, 80, 1000, 3000, 12)

ConfigDocuments ==
  {Missing, Unreadable, NotToml,
   Good,
   [Good EXCEPT !.unknown_keys = TRUE],
   [Good EXCEPT !.value["high"] = Absent],
   [Good EXCEPT !.value["max_rpm"] = 7500],
   Document(80, 80, 1000, 3000, 1),
   Document(60, 96, 1000, 3000, 1),
   Document(60, 80, 2500, 3000, 1),
   Document(60, 80, 1000, 3000, 13)}
=============================================================================

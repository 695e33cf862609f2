------------------------------- MODULE SpxConfig -------------------------------
(***************************************************************************)
(* The configuration of a request, src/src/spx_config.c: what the SPX_*    *)
(* parameters of its sources make of the defaults.                         *)
(*                                                                         *)
(* A source is a function from the parameters it gives to their texts.  A  *)
(* text is what its readers make of it: what it is as a whole, the tokens  *)
(* its commas separate, whether it starts with a 1, the number strtol      *)
(* reads at its start and whether that is all there is.                    *)
(***************************************************************************)
EXTENDS Integers

CONSTANTS
  Metrics,            \* the keys of the metrics
  WallTime, ZeMemory, \* SPX_METRIC_WALL_TIME, SPX_METRIC_ZE_MEMORY_USAGE
  Names,              \* texts, as wholes and as tokens
  Null                \* NULL

ASSUME ConfigAssumption ==
  /\ {WallTime, ZeMemory} \subseteq Metrics
  /\ Metrics \cup {"", "full", "fp", "trace"} \subseteq Names
  /\ Null \notin Names

Text == [is : Names, tokens : SUBSET Names, one : BOOLEAN, number : Int, whole : BOOLEAN]

Empty == [is |-> "", tokens |-> {""}, one |-> FALSE, number |-> 0, whole |-> FALSE]

\* The members of source_data_t.
Parameters ==
  {"enabled", "key", "ui_uri", "auto_start", "sampling_period", "builtins", "depth",
   "metrics", "report", "fp_focus", "fp_inc", "fp_rel", "fp_limit", "fp_live",
   "fp_color", "trace_file", "trace_safe"}

\* Those that have an ini entry, spx.http_profiling_*.
IniParameters ==
  {"enabled", "auto_start", "builtins", "sampling_period", "depth", "metrics"}

\* s gives texts to some of these parameters.
IsSource(s, parameters) == DOMAIN s \subseteq parameters /\ \A p \in DOMAIN s : s[p] \in Text

MaxPeriod == 10000000
MaxDepth  == 100000
MaxLimit  == 1000000

Config ==
  [enabled : BOOLEAN, key : Names \cup {Null}, ui_uri : Names \cup {Null},
   auto_start : BOOLEAN, sampling_period : 0..MaxPeriod, builtins : BOOLEAN,
   max_depth : 0..MaxDepth, enabled_metrics : SUBSET Metrics,
   report : {"full", "fp", "trace"}, fp_focus : Metrics, fp_inc : BOOLEAN,
   fp_rel : BOOLEAN, fp_limit : 0..MaxLimit, fp_live : BOOLEAN, fp_color : BOOLEAN,
   trace_file : Names \cup {Null}, trace_safe : BOOLEAN]

init_config(cli) ==
  [enabled |-> FALSE, key |-> Null, ui_uri |-> Null, auto_start |-> TRUE,
   sampling_period |-> 0, builtins |-> FALSE, max_depth |-> 0,
   enabled_metrics |-> {WallTime, ZeMemory},
   report |-> IF cli THEN "fp" ELSE "full",
   fp_focus |-> WallTime, fp_inc |-> FALSE, fp_rel |-> FALSE, fp_limit |-> 10,
   fp_live |-> FALSE, fp_color |-> TRUE, trace_file |-> Null, trace_safe |-> FALSE]

-----------------------------------------------------------------------------
(* What a source s makes of a member that was old. *)

Gives(s, p) == p \in DOMAIN s

Flag(s, p, old) == IF Gives(s, p) THEN s[p].one ELSE old

String(s, p, old) == IF Gives(s, p) THEN s[p].is ELSE old

\* Mutant: the number is not held against its bounds.
ParsesAny(text, max) == text.whole

\* spx_parse_long with the bounds 0 and max.
Parses(text, max) == text.whole /\ text.number \in 0..max

Number(s, p, old, max) ==
  IF Gives(s, p) /\ Parses(s[p], max) THEN s[p].number ELSE old

\* Unknown keys are passed over; none of them may be known.
MetricsOf(s, old) ==
  IF Gives(s, "metrics") THEN s["metrics"].tokens \cap Metrics ELSE old

Report(s, old) ==
  IF Gives(s, "report") /\ s["report"].is \in {"full", "fp", "trace"}
  THEN s["report"].is ELSE old

Focus(s, old) ==
  IF Gives(s, "fp_focus") /\ s["fp_focus"].is \in Metrics
  THEN s["fp_focus"].is ELSE old

source_data_to_config(s, c) ==
  [enabled |-> Flag(s, "enabled", c.enabled),
   key |-> String(s, "key", c.key),
   ui_uri |-> String(s, "ui_uri", c.ui_uri),
   auto_start |-> Flag(s, "auto_start", c.auto_start),
   sampling_period |-> Number(s, "sampling_period", c.sampling_period, MaxPeriod),
   builtins |-> Flag(s, "builtins", c.builtins),
   max_depth |-> Number(s, "depth", c.max_depth, MaxDepth),
   enabled_metrics |-> MetricsOf(s, c.enabled_metrics),
   report |-> Report(s, c.report),
   fp_focus |-> Focus(s, c.fp_focus),
   fp_inc |-> Flag(s, "fp_inc", c.fp_inc),
   fp_rel |-> Flag(s, "fp_rel", c.fp_rel),
   fp_limit |-> Number(s, "fp_limit", c.fp_limit, MaxLimit),
   fp_live |-> Flag(s, "fp_live", c.fp_live),
   fp_color |-> Flag(s, "fp_color", c.fp_color),
   trace_file |-> String(s, "trace_file", c.trace_file),
   trace_safe |-> Flag(s, "trace_safe", c.trace_safe)]

fix_config(cli, c) ==
  LET report == IF cli THEN c.report ELSE "full"
  IN  [c EXCEPT !.ui_uri = IF cli THEN Null ELSE @,
                !.report = report,
                !.enabled_metrics =
                   @ \cup (IF report = "full" THEN {WallTime, ZeMemory} ELSE {})
                     \cup (IF report = "fp" THEN {c.fp_focus} ELSE {})]

-----------------------------------------------------------------------------
(* spx_config_get, for the lists of sources it is called with. *)

\* source_handler_ini_http.  zend_ini_string says "" of an entry without a
\* value, and NULL of a name that is no entry.
IniTexts(ini) == [p \in IniParameters |-> IF p \in DOMAIN ini THEN ini[p] ELSE Empty]

ConfigFromEnv(env) ==
  fix_config(TRUE, source_data_to_config(env, init_config(TRUE)))

\* The later source wins, parameter by parameter.
ConfigFromClient(cookie, header, query) ==
  LET c == source_data_to_config(cookie, init_config(FALSE))
      h == source_data_to_config(header, c)
  IN  fix_config(FALSE, source_data_to_config(query, h))

ConfigFromIni(ini) ==
  fix_config(FALSE, source_data_to_config(IniTexts(ini), init_config(FALSE)))
=============================================================================

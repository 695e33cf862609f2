--------------------------- MODULE SpxRequestReport ---------------------------
(* The correctness properties of SpxRequest. *)
EXTENDS SpxRequest, FiniteSets

-----------------------------------------------------------------------------
(* The type invariant, in parts. *)

HookKinds == {"engine", "other", "spx"}

DecisionOK ==
  /\ process \in {"off", "idle", "request"}
  /\ cli \in BOOLEAN /\ ini \in Inis
  /\ request \in Environments \cup Clients \cup {NoRequest}
  /\ config \in Config
  /\ handler \in {"none", "ui", "profiling"}

PlacingOK ==
  /\ original \in [engine : Originals, heap : {"none", "other"}]
  /\ engine \in [Pointers -> HookKinds]
  /\ hooked \in [Pointers -> {"null", "engine", "other"}]
  /\ heap \in {"none", "other", "spx"} /\ heap_hooked \in {"null", "ze_mm", "other"}
  /\ hooks \in [enabled : BOOLEAN, disabled : BOOLEAN]

MeasuresOK ==
  /\ counts \in [alloc_count : Nat, alloc_bytes : Nat, free_count : Nat, free_bytes : Nat,
                 files : Nat, lines : Nat, opcodes : Nat, errors : Nat,
                 collecting : BOOLEAN, userland : Nat]
  /\ live \in [Blocks -> Sizes \cup {0}]
  /\ since \in [blocks : Int, bytes : Int, shrunk : Nat, overflowed : BOOLEAN, steps : Nat]
  /\ declared \in Nat

\* Every variable has its type.
TypeOK == DecisionOK /\ PlacingOK /\ MeasuresOK

-----------------------------------------------------------------------------
(* Configuration. *)

\* The network of an address, as the bits that the mask keeps.
Bit(ip, i) == (ip \div TwoTo[i]) % 2
SameNetwork(a, b, bits) == \A i \in Bits - bits .. Bits - 1 : Bit(a, i) = Bit(b, i)

\* One of the targets is the address, everyone, or a network that has it.
Accepts(targets, address) ==
  /\ address # NoAddress
  /\ \E t \in targets :
       \/ t.text \in {"*", address.text}
       \/ t.bits \in 1..Bits - 1 /\ INADDR_NONE \notin {t.ip, address.ip}
          /\ SameNetwork(t.ip, address.ip, t.bits)

\* What a client must show: its address, or that of a proxy that is trusted to
\* tell it, is one of those allowed, and it has the key.
Entitled(client, key) ==
  LET from == client.server[ini.gate.ip_var]
  IN  /\ ini.gate.enabled /\ ini.gate.ip_var # ""
      /\ from.text # "" /\ Accepts(ini.gate.ip_whitelist, from)
      /\ ini.gate.ip_var # "REMOTE_ADDR" =>
           Accepts(ini.gate.trusted_proxies, client.server["REMOTE_ADDR"])
      /\ key = ini.http_key /\ key \notin {Null, ""}

\* The sources among these that give p a text that passes.
Giving(sources, p, Passing(_)) ==
  {i \in DOMAIN sources : p \in DOMAIN sources[i] /\ Passing(sources[i][p])}

Latest(S) == CHOOSE i \in S : \A j \in S : j <= i

\* The value of p: that of the latest source with a text that passes.
Asked(sources, p, default, Passing(_), Value(_)) ==
  LET giving == Giving(sources, p, Passing)
  IN  IF giving = {} THEN default ELSE Value(sources[Latest(giving)][p])

AskedFlag(sources, p, default) ==
  Asked(sources, p, default, LAMBDA t : TRUE, LAMBDA t : t.one)
AskedNumber(sources, p, default, max) ==
  Asked(sources, p, default, LAMBDA t : t.whole /\ t.number \in 0..max, LAMBDA t : t.number)
AskedString(sources, p) ==
  Asked(sources, p, Null, LAMBDA t : TRUE, LAMBDA t : t.is)
AskedMetrics(sources) ==
  Asked(sources, "metrics", {WallTime, ZeMemory}, LAMBDA t : TRUE, LAMBDA t : t.tokens \cap Metrics)
AskedReport(sources) ==
  Asked(sources, "report", "fp", LAMBDA t : t.is \in {"full", "fp", "trace"}, LAMBDA t : t.is)
AskedFocus(sources) ==
  Asked(sources, "fp_focus", WallTime, LAMBDA t : t.is \in Metrics, LAMBDA t : t.is)

\* The sources that count for the request, least important first.
Sources ==
  LET client == <<request.cookie, request.header, request.query>>
      wants  == \/ AskedString(client, "ui_uri") # Null
                \/ AskedFlag(client, "enabled", FALSE)
  IN  IF cli THEN <<request>>
      ELSE IF wants /\ Entitled(request, AskedString(client, "key")) THEN client
      ELSE <<IniTexts(ini.source)>>

\* c is what these sources ask for, parameter by parameter.
IsAsked(c, asked) ==
  LET report == IF cli THEN AskedReport(asked) ELSE "full"
      needed == IF report = "full" THEN {WallTime, ZeMemory}
                ELSE IF report = "fp" THEN {AskedFocus(asked)} ELSE {}
  IN  /\ c.enabled = AskedFlag(asked, "enabled", FALSE)
      /\ c.auto_start = AskedFlag(asked, "auto_start", TRUE)
      /\ c.builtins = AskedFlag(asked, "builtins", FALSE)
      /\ c.sampling_period = AskedNumber(asked, "sampling_period", 0, 10000000)
      /\ c.max_depth = AskedNumber(asked, "depth", 0, 100000)
      /\ c.ui_uri = (IF cli THEN Null ELSE AskedString(asked, "ui_uri"))
      /\ c.key = AskedString(asked, "key")
      /\ c.enabled_metrics = needed \cup AskedMetrics(asked)
      /\ c.report = report
      /\ c.fp_focus = AskedFocus(asked)
      /\ c.fp_limit = AskedNumber(asked, "fp_limit", 10, 1000000)
      /\ c.fp_inc = AskedFlag(asked, "fp_inc", FALSE)
      /\ c.fp_rel = AskedFlag(asked, "fp_rel", FALSE)
      /\ c.fp_live = AskedFlag(asked, "fp_live", FALSE)
      /\ c.fp_color = AskedFlag(asked, "fp_color", TRUE)
      /\ c.trace_file = AskedString(asked, "trace_file")
      /\ c.trace_safe = AskedFlag(asked, "trace_safe", FALSE)

\* A request runs under what was asked by those who may ask (README.md:266,
\* README.md:338): the command line by its environment, a client who is entitled by
\* cookies, headers and the query, everyone else by the ini settings alone, and
\* the latest text that makes sense wins, parameter by parameter
\* (spx_config.c, check_access and PHP_RINIT_FUNCTION of php_spx.c).
ConfigIsAsked ==
  process = "request" =>
    /\ IsAsked(config, Sources)
    /\ handler = IF ~cli /\ AskedString(Sources, "ui_uri") # Null THEN "ui"
                 ELSE IF AskedFlag(Sources, "enabled", FALSE) THEN "profiling" ELSE "none"

\* An ini setting that is not set leaves the parameter at its default, which
\* README.md:338 says is 1 for SPX_AUTO_START, whose counterpart the setting is.
\* The empty text that zend_ini_string says of it turns it off instead.
UnsetIniKeepsDefault ==
  (process = "request" /\ ~cli /\ config = ConfigFromIni(ini.source) /\ config.enabled
     /\ "auto_start" \notin DOMAIN ini.source)
  => config.auto_start

-----------------------------------------------------------------------------
(* The engine. *)

Reaches(p) == IF engine[p] = "spx" THEN hooked[p] ELSE engine[p]

\* Whatever SPX takes over, the engine's calls still end in what was there
\* before, memory is freed by who allocated it, and it all is given back: after
\* a request the engine is as SPX found it, or, in a thread safe build whose
\* hooks stay, as if they were not there.  (spx_php_global_hooks_set, _unset,
\* spx_php_execution_init, _shutdown of spx_php.c.)
EngineIsGivenBack ==
  /\ \A p \in Pointers : Reaches(p) = original.engine[p]
  /\ (IF heap = "spx" THEN heap_hooked
      ELSE IF heap = "none" THEN "ze_mm" ELSE heap)
     = (IF original.heap = "none" THEN "ze_mm" ELSE "other")
  /\ process # "request" => heap = original.heap
  /\ ~ZTS /\ process # "request" => engine = original.engine
  /\ process = "off" => engine = original.engine

\* A script is run, its files compiled and its errors handled, unless the web
\* UI answers in its place: then nothing of it is (global_hook_* of spx_php.c).
OnlyUiStopsScript ==
  \A p \in Pointers : Passes(p) <=> ~(process = "request" /\ handler = "ui")

\* The allocations and releases that are counted tell what is in use: blocks
\* exactly, and bytes but for those that blocks lost where they were, as long as
\* no block gains more than an int holds (tls_hook_malloc, _free, _realloc).
AllocationsAreCounted ==
  heap = "spx" =>
    /\ counts.alloc_count - counts.free_count = since.blocks
    /\ heap_hooked = "ze_mm" /\ ~since.overflowed =>
         counts.alloc_bytes - counts.free_bytes = since.bytes + since.shrunk
=============================================================================

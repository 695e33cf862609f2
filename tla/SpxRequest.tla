------------------------------ MODULE SpxRequest ------------------------------
(***************************************************************************)
(* The life of a process with SPX, src/src/php_spx.c: its module starts,   *)
(* requests come and go, and it stops.  A request decides on its           *)
(* configuration and from it on what SPX does: nothing, profile the        *)
(* script, or answer in its place with the web UI.                         *)
(*                                                                         *)
(* What profiling does is in SpxProfilingHandler, what the web UI answers  *)
(* in SpxWebUI.                                                            *)
(***************************************************************************)
EXTENDS SpxConfig, SpxAccess, SpxExecution

CONSTANTS
  ZTS,             \* PHP is built thread safe
  Inis,            \* the ini settings a process may run under
  Environments,    \* the environments of scripts that are run by the CLI
  Clients          \* the HTTP requests

Server == [REMOTE_ADDR : Address, FORWARDED : Address]

ASSUME RequestAssumption ==
  /\ ZTS \in BOOLEAN
  /\ \A i \in Inis : /\ i.gate \in Gate /\ i.http_key \in Names \cup {Null}
                     /\ IsSource(i.source, IniParameters)
  /\ \A env \in Environments : IsSource(env, Parameters)
  /\ \A c \in Clients : /\ c.server \in Server
                        /\ \A s \in {c.cookie, c.header, c.query} : IsSource(s, Parameters)

VARIABLES
  process,     \* "off": before its start and after its end; "idle" between
               \* requests; "request"
  cli,         \* the SAPI is the CLI
  ini,         \* PHP_INI_SYSTEM: the same for all requests
  request,     \* what came with the request
  config, handler,  \* those of context; "none", "ui" or "profiling"
  original     \* history: the pointers and the heap as SPX found them

deciding == <<cli, ini, request, config, handler, original>>
vars     == <<process, deciding, execution>>

NoRequest == [given |-> {}]

Init ==
  /\ ExecutionInit
  /\ process = "off" /\ cli \in BOOLEAN /\ ini \in Inis
  /\ request = NoRequest /\ config = init_config(cli) /\ handler = "none"
  /\ original = [engine |-> engine, heap |-> heap]

-----------------------------------------------------------------------------
(* The module: PHP_MINIT_FUNCTION, PHP_MSHUTDOWN_FUNCTION. *)

ModuleInit ==
  /\ process = "off"
  /\ process' = "idle"
  /\ IF ZTS THEN SetGlobalHooks ELSE UNCHANGED <<engine, hooked>>
  /\ UNCHANGED <<deciding, heap, heap_hooked, hooks, measuring>>

ModuleShutdown ==
  /\ process = "idle"
  /\ process' = "off"
  /\ IF ZTS THEN UnsetGlobalHooks ELSE UNCHANGED <<engine, hooked>>
  /\ UNCHANGED <<deciding, heap, heap_hooked, hooks, measuring>>

-----------------------------------------------------------------------------
(* PHP_RINIT_FUNCTION *)

Unset == {Null, ""}

\* Mutant: a request that asks for the web UI alone needs no access.
AccessOnlyToProfile(c) == c.enabled

AccessRequired(c) == c.ui_uri # Null \/ c.enabled

\* Without access nothing of what the client asks for remains.
ConfigFor(client) ==
  LET c == ConfigFromClient(client.cookie, client.header, client.query)
  IN  IF /\ AccessRequired(c)
         /\ check_access(ini.gate, client.server, ini.http_key, c.key, Unset)
      THEN c
      ELSE ConfigFromIni(ini.source)

HandlerFor(c) ==
  IF c.ui_uri # Null THEN "ui" ELSE IF c.enabled THEN "profiling" ELSE "none"

\* global_hooks_disable, which a thread safe build begins and ends with.
PassThrough == [hooks EXCEPT !.enabled = IF ZTS THEN FALSE ELSE @]

\* Mutant: the execution is not disabled for the web UI.
EngageEnabled(h) ==
  /\ IF ZTS THEN UNCHANGED <<engine, hooked>> ELSE SetGlobalHooks
  /\ HookHeap
  /\ hooks' = Reset /\ counts' = NoCounts

\* http_ui_handler_init, profiling_handler_ex_set_context.
Engage(h) ==
  /\ IF ZTS THEN UNCHANGED <<engine, hooked>> ELSE SetGlobalHooks
  /\ HookHeap
  /\ hooks' = [Reset EXCEPT !.disabled = (h = "ui")]
  /\ counts' = NoCounts

\* Nothing is done, or there is no memory for the call stack of a profile.
Abstain ==
  /\ UNCHANGED <<placing, counts>>
  /\ hooks' = PassThrough

Begin(r, c, able) ==
  /\ process = "idle" /\ process' = "request"
  /\ request' = r /\ config' = c /\ handler' = HandlerFor(c)
  /\ \/ handler' # "none" /\ (able \/ handler' = "ui") /\ Engage(handler')
     \/ handler' = "none" /\ able /\ Abstain
     \/ handler' = "profiling" /\ ~able /\ Abstain
  /\ UNCHANGED <<cli, ini, original, live, since, declared>>

RequestInitCli ==
  /\ cli
  /\ \E env \in Environments, able \in BOOLEAN : Begin(env, ConfigFromEnv(env), able)

RequestInitHttp ==
  /\ ~cli
  /\ \E client \in Clients, able \in BOOLEAN : Begin(client, ConfigFor(client), able)

-----------------------------------------------------------------------------

\* The engine allocates before and within a request, and runs the script in it.
EngineRuns ==
  /\ process = "request"
  /\ \/ Execute
     \/ handler = "profiling" /\ ReadUserland
  /\ UNCHANGED <<process, deciding>>

EngineAllocates ==
  /\ process = "idle" /\ live = NoBlocks
  /\ \E b \in Blocks, size \in Sizes : live' = [live EXCEPT ![b] = size]
  /\ UNCHANGED <<process, deciding, placing, hooks, counts, since, declared>>

\* PHP_RSHUTDOWN_FUNCTION with the shutdown of the handler; then the engine
\* frees all memory and forgets what the request declared.
RequestShutdown ==
  /\ process = "request" /\ process' = "idle"
  /\ IF handler = "none"
     THEN /\ UNCHANGED <<placing, counts>>
          /\ hooks' = PassThrough
     ELSE /\ UnhookHeap
          /\ IF ZTS THEN UNCHANGED <<engine, hooked>> ELSE UnsetGlobalHooks
          /\ hooks' = [Reset EXCEPT !.enabled = ~ZTS]
          /\ counts' = NoCounts
  /\ request' = NoRequest /\ handler' = "none"
  /\ live' = NoBlocks /\ since' = NoneSince /\ declared' = 0
  /\ UNCHANGED <<cli, ini, config, original>>

Next ==
  \/ ModuleInit \/ ModuleShutdown
  \/ RequestInitCli \/ RequestInitHttp
  \/ EngineAllocates \/ EngineRuns
  \/ RequestShutdown

Spec == Init /\ [][Next]_vars
=============================================================================

-------------------------- MODULE RequestPipeline --------------------------
(***************************************************************************)
(* One request in ferron/src/request_handler.rs: the configuration that    *)
(* serves it is determined, the request handlers of its modules run one    *)
(* after the other until one of them answers, and the response goes back   *)
(* through the modules that ran, in the opposite order.  An error status   *)
(* may hand the request over to an error configuration with modules of its *)
(* own.  One deadline covers all of this, but is only enforced while a     *)
(* module runs.  What a module does is arbitrary.                          *)
(*                                                                         *)
(* Three things must be right whichever way a request ends: which modules  *)
(* get to see the response, the metrics a module opens before and closes   *)
(* after handling a request, and the entry in the access log.              *)
(***************************************************************************)
EXTENDS Naturals, Sequences

CONSTANTS SiteModules,   \* number of modules of a host's configuration
          ErrorModules,  \* number of modules of its error configuration
          Statuses,      \* statuses a module may answer with
          Limit,         \* the timeout, in ticks
          Settings       \* the configurations to explore

\* "raw" is the configuration found for the request as it came, "site" the one
\* found again for the sanitized URL, "error" the error configuration.
Confs == {"global", "raw", "site", "error"}

Setting == [timeout: BOOLEAN,            \* not `timeout #null`
            metrics: SUBSET Confs,       \* with metric_channels
            log: SUBSET Confs,           \* with log_channels
            handled: SUBSET Statuses]    \* by an error configuration

\* The statuses are told apart from the names of the other responses.
ASSUME PipelineAssumption ==
    /\ SiteModules \in Nat /\ ErrorModules \in Nat
    /\ Limit \in Nat
    /\ Settings \subseteq Setting
    /\ Statuses \cap {"none", "not found", "module", "failure", "error page"} = {}

VARIABLES
    cfg,
    pc,
    conf,      \* configuration
    parts,     \* log_request_parts is Some
    next,      \* the module handlers_iter yields next
    executed,  \* executed_handlers
    isError,   \* is_error_handler
    response,  \* where the response in hand comes from
    elapsed,   \* timeout_instant.elapsed(), in ticks
    opened,    \* handlers with metric_data_before_handler
    closed,    \* .. and how often they had metric_data_after_handler
    modified,  \* handlers that the response went through
    logs,      \* entries in the access log
    result,    \* how the request ended
    ran,       \* history: handlers whose request_handler was run, in order,
               \* for each configuration
    stuck      \* history: the handler that did not hand the response on

vars == <<cfg, pc, conf, parts, next, executed, isError, response, elapsed, opened,
          closed, modified, logs, result, ran, stuck>>
metrics == <<opened, closed>>
history == <<ran, stuck>>

Size(c) == IF c = "error" THEN ErrorModules ELSE SiteModules
Handlers == {"raw", "site", "error"} \X (1..(SiteModules + ErrorModules))
NoHandler == <<"none", 0>>

Elems(s) == {s[i] : i \in 1..Len(s)}
Current == <<conf, next>>
Top == executed[Len(executed)]
Rest == SubSeq(executed, 1, Len(executed) - 1)

MetricsEnabled == conf \in cfg.metrics

\* metric_data_after_handler for these handlers, if metrics are on.
Close(hs) ==
    closed' = [h \in Handlers |->
                 IF MetricsEnabled /\ h \in hs THEN closed[h] + 1 ELSE closed[h]]

\* timeout(duration - elapsed, ..) may end the handler ...
TimeUp == cfg.timeout /\ elapsed >= Limit

\* ... which is not even polled when checked_sub has nothing left.
Overdue == cfg.timeout /\ elapsed > Limit

Init ==
    /\ cfg \in Settings
    /\ pc = "host" /\ conf = "global"
    /\ parts = FALSE
    /\ next = 1
    /\ executed = << >>
    /\ isError = FALSE
    /\ response = "none"
    /\ elapsed = 0
    /\ opened = {}
    /\ closed = [h \in Handlers |-> 0]
    /\ modified = << >>
    /\ logs = 0
    /\ result = "none"
    /\ ran = [c \in Confs |-> << >>]
    /\ stuck = NoHandler

End(r) == pc' = "end" /\ result' = r

\* finalize_response_and_log, log_access with log_request_parts.
LogAccess == logs' = IF parts /\ conf \in cfg.log THEN logs + 1 ELSE logs

(***************************************************************************)
(* Before the modules.                                                     *)
(***************************************************************************)
\* log_access to the channels of the global configuration.
LogGlobal == logs' = IF "global" \in cfg.log THEN logs + 1 ELSE logs

\* The Host header cannot be sanitized: 400.
RejectHost ==
    /\ pc = "host"
    /\ LogGlobal
    /\ End("response")
    /\ UNCHANGED <<cfg, conf, parts, next, executed, isError, response, elapsed, metrics,
                   modified, history>>

\* No configuration matches the request, or matching fails: 500.
NoConfiguration ==
    /\ pc = "host"
    /\ LogGlobal
    /\ End("response")
    /\ UNCHANGED <<cfg, conf, parts, next, executed, isError, response, elapsed, metrics,
                   modified, history>>

\* find_configuration; log_request_parts is cloned if the global or this
\* configuration has log channels.
FindConfiguration ==
    /\ pc = "host"
    /\ conf' = "raw"
    /\ parts' = ("global" \in cfg.log \/ "raw" \in cfg.log)
    /\ pc' = "sanitize"
    /\ UNCHANGED <<cfg, next, executed, isError, response, elapsed, metrics, modified, logs,
                   result, history>>

\* The URL is refused; later on, it asks for "*" or for an ACME challenge.
AnswerEarly ==
    /\ pc \in {"sanitize", "enter"}
    /\ LogAccess
    /\ End("response")
    /\ UNCHANGED <<cfg, conf, parts, next, executed, isError, response, elapsed, metrics,
                   modified, history>>

\* A URL that sanitizing changes may belong to another configuration.
Sanitize ==
    /\ pc = "sanitize"
    /\ conf' \in {"raw", "site"}
    /\ pc' = "enter"
    /\ UNCHANGED <<cfg, parts, next, executed, isError, response, elapsed, metrics, modified,
                   logs, result, history>>

\* The handlers of the configuration's modules are made.
EnterModules ==
    /\ pc = "enter"
    /\ pc' = "modules"
    /\ UNCHANGED <<cfg, conf, parts, next, executed, isError, response, elapsed, metrics,
                   modified, logs, result, history>>

(***************************************************************************)
(* The request handlers.                                                   *)
(***************************************************************************)
\* The next module is started; its metrics are opened.
StartHandler ==
    /\ pc = "modules"
    /\ next <= Size(conf)
    /\ opened' = IF MetricsEnabled THEN opened \cup {Current} ELSE opened
    /\ pc' = "handling"
    /\ UNCHANGED <<cfg, conf, parts, next, executed, isError, response, elapsed, closed,
                   modified, logs, result, history>>

\* No module is left: 404.
NoModuleLeft ==
    /\ pc = "modules"
    /\ next > Size(conf)
    /\ response' = "not found"
    /\ pc' = "modifying"
    /\ UNCHANGED <<cfg, conf, parts, next, executed, isError, elapsed, metrics, modified,
                   logs, result, history>>

\* request_handler of the module returns; it joins executed_handlers.
Returns ==
    /\ pc = "handling"
    /\ ~Overdue
    /\ ran' = [ran EXCEPT ![conf] = Append(@, Current)]

\* A response is made and goes to the handlers that ran.
Answers(r) ==
    /\ Returns
    /\ response' = r
    /\ executed' = Append(executed, Current)
    /\ pc' = "modifying"
    /\ UNCHANGED <<cfg, conf, parts, next, isError, elapsed, metrics, modified, logs, result,
                   stuck>>

HandlerResponds == Answers("module")

\* The module returns an error: 500.
HandlerFails == Answers("failure")

\* The module returns no response, no status and no request: 404.
HandlerDrops == Answers("not found")

\* The module hands the request on.
HandlerPasses ==
    /\ Returns
    /\ executed' = Append(executed, Current)
    /\ next' = next + 1
    /\ pc' = "modules"
    /\ UNCHANGED <<cfg, conf, parts, isError, response, elapsed, metrics, modified, logs,
                   result, stuck>>

\* Mutant: the clone is only made for an error configuration of every status.
RequestClonedForAll == cfg.handled = Statuses

\* request_parts_cloned: the request is cloned beforehand if its host has an
\* error configuration for any status.
RequestCloned == cfg.handled # {}

\* The module answers with a status only, handing the request back or not;
\* without an error configuration, or in one, an error page is generated.
HandlerStatus ==
    \E s \in Statuses, back \in BOOLEAN :
        /\ ~(~isError /\ s \in cfg.handled /\ (back \/ RequestCloned))
        /\ Answers(IF isError THEN "error page" ELSE s)

\* Mutant: the handlers of the first configuration are not cleared.
EnterErrorKeeping ==
    /\ Returns
    /\ ~isError
    /\ \E s \in Statuses, back \in BOOLEAN : s \in cfg.handled /\ (back \/ RequestCloned)
    /\ conf' = "error"
    /\ next' = 1
    /\ Close(Elems(Append(executed, Current)))
    /\ executed' = Append(executed, Current)
    /\ isError' = TRUE
    /\ pc' = "modules"
    /\ UNCHANGED <<cfg, parts, response, elapsed, opened, modified, logs, result, stuck>>

\* Mutant: the metrics of the first configuration stay open.
EnterErrorOpen ==
    /\ Returns
    /\ ~isError
    /\ \E s \in Statuses, back \in BOOLEAN : s \in cfg.handled /\ (back \/ RequestCloned)
    /\ conf' = "error"
    /\ next' = 1
    /\ executed' = << >>
    /\ isError' = TRUE
    /\ pc' = "modules"
    /\ UNCHANGED <<cfg, parts, response, elapsed, metrics, modified, logs, result, stuck>>

\* find_error_configuration finds one: its modules take over, with the request
\* or its clone; the metrics of the modules so far are closed.
EnterError ==
    /\ Returns
    /\ ~isError
    /\ \E s \in Statuses, back \in BOOLEAN : s \in cfg.handled /\ (back \/ RequestCloned)
    /\ conf' = "error"
    /\ next' = 1
    /\ Close(Elems(Append(executed, Current)))
    /\ executed' = << >>
    /\ isError' = TRUE
    /\ pc' = "modules"
    /\ UNCHANGED <<cfg, parts, response, elapsed, opened, modified, logs, result, stuck>>

\* Mutant: nothing is done when the deadline has passed before the call.
HandlerTimeoutPolled ==
    /\ pc = "handling"
    /\ TimeUp /\ ~Overdue
    /\ Close(Elems(Append(executed, Current)))
    /\ executed' = << >>
    /\ End("timeout")
    /\ UNCHANGED <<cfg, conf, parts, next, isError, response, elapsed, opened, modified, logs,
                   history>>

\* The deadline passes: the request fails, and the connection is reset.
HandlerTimeout ==
    /\ pc = "handling"
    /\ TimeUp
    /\ Close(Elems(Append(executed, Current)))
    /\ executed' = << >>
    /\ End("timeout")
    /\ UNCHANGED <<cfg, conf, parts, next, isError, response, elapsed, opened, modified, logs,
                   history>>

(***************************************************************************)
(* execute_response_modifying_handlers.                                    *)
(***************************************************************************)
\* response_modifying_handler of the last handler; its metrics are closed.
Modify ==
    /\ pc = "modifying" /\ executed # << >>
    /\ ~Overdue
    /\ modified' = Append(modified, Top)
    /\ Close({Top})
    /\ executed' = Rest
    /\ UNCHANGED <<cfg, pc, conf, parts, next, isError, response, elapsed, opened, logs,
                   result, history>>

\* Mutant: the error response is logged here, and again by the caller.
ModifyFailsLoggedTwice ==
    /\ pc = "modifying" /\ executed # << >>
    /\ ~Overdue
    /\ logs' = IF parts /\ conf \in cfg.log THEN logs + 2 ELSE logs
    /\ Close(Elems(Rest))
    /\ executed' = << >>
    /\ stuck' = Top
    /\ response' = "failure"
    /\ End("response")
    /\ UNCHANGED <<cfg, conf, parts, next, isError, elapsed, opened, modified, ran>>

\* It fails: a 500 goes out at once.  The metrics of the handlers below it are
\* closed, its own are not.
ModifyFails ==
    /\ pc = "modifying" /\ executed # << >>
    /\ ~Overdue
    /\ LogAccess
    /\ Close(Elems(Rest))
    /\ executed' = << >>
    /\ stuck' = Top
    /\ response' = "failure"
    /\ End("response")
    /\ UNCHANGED <<cfg, conf, parts, next, isError, elapsed, opened, modified, ran>>

ModifyTimeout ==
    /\ pc = "modifying" /\ executed # << >>
    /\ TimeUp
    /\ Close(Elems(Rest))
    /\ executed' = << >>
    /\ stuck' = Top
    /\ End("timeout")
    /\ UNCHANGED <<cfg, conf, parts, next, isError, response, elapsed, opened, modified, logs,
                   ran>>

\* The response has gone through all of them; it is logged and sent.
Answer ==
    /\ pc = "modifying" /\ executed = << >>
    /\ LogAccess
    /\ End("response")
    /\ UNCHANGED <<cfg, conf, parts, next, executed, isError, response, elapsed, metrics,
                   modified, history>>

\* The client goes away and hyper drops the future.
ClientGone ==
    /\ pc # "end"
    /\ End("dropped")
    /\ UNCHANGED <<cfg, conf, parts, next, executed, isError, response, elapsed, metrics,
                   modified, logs, history>>

Tick ==
    /\ pc \in {"handling", "modifying"}
    /\ elapsed <= Limit
    /\ elapsed' = elapsed + 1
    /\ UNCHANGED <<cfg, pc, conf, parts, next, executed, isError, response, metrics, modified,
                   logs, result, history>>

\* Steps of the server itself.
ServerStep ==
    \/ RejectHost \/ NoConfiguration \/ FindConfiguration \/ AnswerEarly \/ Sanitize \/ EnterModules
    \/ StartHandler \/ NoModuleLeft \/ HandlerTimeout \/ ModifyTimeout \/ Answer

\* Steps that depend on what a module does.
ModuleStep ==
    \/ HandlerResponds \/ HandlerFails \/ HandlerDrops \/ HandlerPasses \/ HandlerStatus \/ EnterError
    \/ Modify \/ ModifyFails

Next == ServerStep \/ ModuleStep \/ ClientGone \/ Tick

Spec == Init /\ [][Next]_vars

\* The server runs and time passes.  Modules are only assumed to return where
\* the administrator has switched the timeout off.
FairSpec ==
    /\ Spec
    /\ WF_vars(ServerStep) /\ WF_vars(Tick)
    /\ WF_vars(~cfg.timeout /\ ModuleStep)

-----------------------------------------------------------------------------
\* A response goes through every module of the answering configuration that has
\* seen the request, each once and in the opposite order, and through none that
\* belongs to the configuration an error has taken over from.
ResponseChain ==
    result = "response" /\ stuck = NoHandler =>
        LET seen == ran[conf]
        IN /\ Len(modified) = Len(seen)
           /\ \A i \in 1..Len(seen) : modified[i] = seen[Len(seen) + 1 - i]

\* A module whose metrics were opened has them closed once, however the request
\* ends, unless the client goes away; the one exception is the module in whose
\* response_modifying_handler the request failed or timed out.
MetricsClosed ==
    /\ \A h \in Handlers : closed[h] <= 1 /\ (closed[h] = 1 => h \in opened)
    /\ result \in {"response", "timeout"} =>
          \A h \in opened : closed[h] = IF h = stuck THEN 0 ELSE 1

\* A request that is answered has one entry in the access log if its final
\* configuration has one and the request was kept for logging, which is decided
\* before the configuration is final; no other request has any.
LoggedOnce ==
    /\ result \in {"timeout", "dropped"} => logs = 0
    /\ result = "response" =>
          logs = IF conf \in cfg.log /\ (conf = "global" \/ {"global", "raw"} \cap cfg.log # {})
                 THEN 1 ELSE 0

\* A status for which the host has an error configuration is not answered with
\* the default error page, whether or not the module gives the request back.
ErrorConfigurationUsed == result = "response" => response \notin cfg.handled

\* Every request ends: error configurations do not follow each other for ever,
\* and a module that hangs is cut off by the timeout, in both phases.
EveryRequestEnds == <>(result # "none")
=============================================================================

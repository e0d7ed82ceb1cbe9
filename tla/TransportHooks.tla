---------------------------- MODULE TransportHooks ----------------------------
(***************************************************************************)
(* A request of Bifrost's HTTP transport on its way through two            *)
(* middlewares (middlewares.go): TracingMiddleware opens a trace and sees  *)
(* to its completion, TransportInterceptorMiddleware runs the hooks of the *)
(* loaded plugins in front of the handler and, in reverse, behind it.      *)
(*                                                                         *)
(* A handler that streams its answer returns early: from then on a         *)
(* goroutine and the returning middlewares work on the same request.  The  *)
(* middleware leaves the post hooks in a slot, as a function over what it  *)
(* captured from the request context, and the goroutine runs what it finds *)
(* there when the stream ends.  Meanwhile fasthttp may recycle the         *)
(* context, an administrator reload the plugins or swap the tracer.        *)
(*                                                                         *)
(* Every hook is taken to leave one entry in the plugin log.  A trace is   *)
(* named by its request.                                                   *)
(***************************************************************************)
EXTENDS Naturals, Sequences

CONSTANTS
    Requests,
    Tracers,
    Plugins,
    PluginLists,  \* what may be loaded, each in the order of its pre hooks
    None          \* no tracer

ASSUME HooksAssumption ==
    /\ None \notin Tracers
    /\ PluginLists \subseteq Seq(Plugins)

VARIABLES
    tracer,    \* TracingMiddleware.tracer
    loaded,    \* GetLoadedHTTPTransportPlugins
    req,       \* the requests: middlewares, request context and stream
    open,      \* [Tracers -> traces in the tracer's store]
    attached,  \* [Requests -> plugin logs its trace has]
    flushes,   \* [Requests -> times its trace was completed]
    ran        \* [Requests -> hooks that ran, in order] (history)

vars == <<tracer, loaded, req, open, attached, flushes, ran>>
traces == <<open, attached, flushes>>
server == <<tracer, loaded>>

Hook == {"pre", "post"} \X Plugins

\* tracer, plugins: pinned when the request came; i: the next hook; buffer: the
\* plugin logs not drained yet.  ctxLogs and deferred are values of the request
\* context, captured and slot belong to the completer, taken tells whether the
\* stream found one.
Request == [pc: {"idle", "intercept", "pre", "handler", "after", "post",
                 "unwind", "done", "recycled"},
            stream: {"none", "running", "hooks", "complete", "ended"},
            tracer: Tracers \cup {None}, plugins: Seq(Plugins), i: Nat,
            buffer: Seq(Hook), ctxLogs: Seq(Hook), deferred: BOOLEAN,
            slot: {"absent", "empty", "filled"}, captured: Seq(Hook),
            taken: BOOLEAN,
            answer: {"none", "conflict", "plugin", "handler"}]

IdleRequest == [pc |-> "idle", stream |-> "none", tracer |-> None,
                plugins |-> <<>>, i |-> 1, buffer |-> <<>>, ctxLogs |-> <<>>,
                deferred |-> FALSE, slot |-> "absent", captured |-> <<>>,
                taken |-> FALSE, answer |-> "none"]

TypeOK ==
    /\ tracer \in Tracers \cup {None}
    /\ loaded \in PluginLists
    /\ req \in [Requests -> Request]
    /\ open \in [Tracers -> SUBSET Requests]
    /\ attached \in [Requests -> Seq(Hook)]
    /\ flushes \in [Requests -> Nat]
    /\ ran \in [Requests -> Seq(Hook)]
    /\ \A r \in Requests :
          req[r].pc = "post" \/ req[r].stream = "hooks"
          => req[r].i <= Len(req[r].plugins)

Init ==
    /\ tracer \in Tracers \cup {None}
    /\ loaded \in PluginLists
    /\ req = [r \in Requests |-> IdleRequest]
    /\ open = [t \in Tracers |-> {}]
    /\ attached = [r \in Requests |-> <<>>]
    /\ flushes = [r \in Requests |-> 0]
    /\ ran = [r \in Requests |-> <<>>]

Becomes(r, request) == req' = [req EXCEPT ![r] = request]

-----------------------------------------------------------------------------
(* The tracer is a library: AttachPluginLogs and CompleteAndFlushTrace do  *)
(* nothing about a trace that is not in its store.                         *)

\* mutant: the tracer is looked up again when the trace is completed
CurrentTracer(r) == tracer

TracerOf(r) == req[r].tracer

Complete(r, logs) ==
    LET t == TracerOf(r)
    IN  IF t \in Tracers /\ r \in open[t]
        THEN /\ open' = [open EXCEPT ![t] = open[t] \ {r}]
             /\ attached' = [attached EXCEPT ![r] = attached[r] \o logs]
             /\ flushes' = [flushes EXCEPT ![r] = flushes[r] + 1]
        ELSE UNCHANGED traces

\* TracingMiddleware, on the way in.
Trace(r) ==
    /\ req[r].pc = "idle"
    /\ Becomes(r, [req[r] EXCEPT !.pc = "intercept", !.tracer = tracer])
    /\ open' = [t \in Tracers |-> IF t = tracer THEN open[t] \cup {r} ELSE open[t]]
    /\ UNCHANGED <<server, attached, flushes, ran>>

\* mutant: a streamed answer is not looked for
UnwindAlways(r) ==
    /\ req[r].pc = "unwind"
    /\ Becomes(r, [req[r] EXCEPT !.pc = "done"])
    /\ Complete(r, req[r].ctxLogs)
    /\ UNCHANGED <<server, ran>>

\* Its deferred function: the trace of a streamed answer is left to the stream.
Unwind(r) ==
    /\ req[r].pc = "unwind"
    /\ Becomes(r, [req[r] EXCEPT !.pc = "done"])
    /\ IF req[r].deferred THEN UNCHANGED traces ELSE Complete(r, req[r].ctxLogs)
    /\ UNCHANGED <<server, ran>>

-----------------------------------------------------------------------------
(* TransportInterceptorMiddleware                                          *)

Intercept(r) ==
    /\ req[r].pc = "intercept"
    /\ Becomes(r, [req[r] EXCEPT !.pc = IF loaded = <<>> THEN "handler" ELSE "pre",
                                 !.plugins = loaded])
    /\ UNCHANGED <<server, traces, ran>>

\* The i-th plugin's hook runs and leaves its entry in the plugin log.
RunHook(r, kind, next) ==
    LET hook == <<kind, req[r].plugins[req[r].i]>>
    IN  /\ ran' = [ran EXCEPT ![r] = Append(ran[r], hook)]
        /\ Becomes(r, [next EXCEPT !.buffer = Append(req[r].buffer, hook)])

PreHook(r) ==
    /\ req[r].pc = "pre"
    /\ req[r].i <= Len(req[r].plugins)
    /\ RunHook(r, "pre", [req[r] EXCEPT !.i = req[r].i + 1])
    /\ UNCHANGED <<server, traces>>

\* mutant: the post hooks run all the same
PreHookStopsLate(r) ==
    LET hook == <<"pre", req[r].plugins[req[r].i]>>
    IN  /\ req[r].pc = "pre"
        /\ req[r].i <= Len(req[r].plugins)
        /\ ran' = [ran EXCEPT ![r] = Append(ran[r], hook)]
        /\ Becomes(r, [req[r] EXCEPT !.pc = "after", !.answer = "plugin",
                                     !.buffer = <<>>,
                                     !.ctxLogs = Append(req[r].buffer, hook)])
        /\ UNCHANGED <<server, traces>>

\* A hook answers the request itself or fails: its logs are drained first.
PreHookStops(r) ==
    LET hook == <<"pre", req[r].plugins[req[r].i]>>
    IN  /\ req[r].pc = "pre"
        /\ req[r].i <= Len(req[r].plugins)
        /\ ran' = [ran EXCEPT ![r] = Append(ran[r], hook)]
        /\ Becomes(r, [req[r] EXCEPT !.pc = "unwind", !.answer = "plugin",
                                     !.buffer = <<>>,
                                     !.ctxLogs = Append(req[r].buffer, hook)])
        /\ UNCHANGED <<server, traces>>

\* applyHTTPRequestToCtx answers with a conflict when a plugin changed the
\* method or the path, and the handler is called all the same.
PreHooksDone(r) ==
    /\ req[r].pc = "pre"
    /\ req[r].i > Len(req[r].plugins)
    /\ \E answer \in {"none", "conflict"} :
        Becomes(r, [req[r] EXCEPT !.pc = "handler", !.buffer = <<>>,
                                  !.ctxLogs = req[r].buffer, !.answer = answer])
    /\ UNCHANGED <<server, traces, ran>>

\* A handler that answers at once ...
Handle(r) ==
    /\ req[r].pc = "handler"
    /\ Becomes(r, [req[r] EXCEPT !.pc = "after", !.answer = "handler"])
    /\ UNCHANGED <<server, traces, ran>>

\* ... or starts a stream: it marks the context, leaves an empty slot there, or
\* none, and keeps the slot and the trace completer for the goroutine.
HandleStream(r) ==
    /\ req[r].pc = "handler"
    /\ \E slot \in {"absent", "empty"} :
        Becomes(r, [req[r] EXCEPT !.pc = "after", !.answer = "handler",
                                  !.deferred = TRUE, !.slot = slot,
                                  !.stream = "running"])
    /\ UNCHANGED <<server, traces, ran>>

\* Nothing is left to do without plugins, or without a slot for the completer.
SkipPostHooks(r) ==
    /\ req[r].pc = "after"
    /\ \/ req[r].plugins = <<>>
       \/ req[r].deferred /\ req[r].slot = "absent"
    /\ Becomes(r, [req[r] EXCEPT !.pc = "unwind"])
    /\ UNCHANGED <<server, traces, ran>>

\* slot.Store(completer)
StoreCompleter(r) ==
    /\ req[r].pc = "after"
    /\ req[r].plugins # <<>> /\ req[r].deferred /\ req[r].slot = "empty"
    /\ Becomes(r, [req[r] EXCEPT !.pc = "unwind", !.slot = "filled",
                                 !.captured = req[r].ctxLogs])
    /\ UNCHANGED <<server, traces, ran>>

\* mutant: the loop starts behind the last plugin
StartPostHooksBehind(r) ==
    /\ req[r].pc = "after"
    /\ req[r].plugins # <<>> /\ ~req[r].deferred
    /\ Becomes(r, [req[r] EXCEPT !.pc = "post", !.i = Len(req[r].plugins) + 1])
    /\ UNCHANGED <<server, traces, ran>>

\* mutant: the post hooks are those of the plugins loaded by then
StartPostHooksReloaded(r) ==
    /\ req[r].pc = "after"
    /\ loaded # <<>> /\ ~req[r].deferred
    /\ Becomes(r, [req[r] EXCEPT !.pc = "post", !.i = Len(loaded),
                                  !.plugins = loaded])
    /\ UNCHANGED <<server, traces, ran>>

\* runTransportPostHooks
StartPostHooks(r) ==
    /\ req[r].pc = "after"
    /\ req[r].plugins # <<>> /\ ~req[r].deferred
    /\ Becomes(r, [req[r] EXCEPT !.pc = "post", !.i = Len(req[r].plugins)])
    /\ UNCHANGED <<server, traces, ran>>

PostHook(r) ==
    /\ req[r].pc = "post"
    /\ req[r].i > 0
    /\ RunHook(r, "post", [req[r] EXCEPT !.i = req[r].i - 1])
    /\ UNCHANGED <<server, traces>>

\* After the last hook or the first that failed.
PostHooksDone(r) ==
    /\ req[r].pc = "post"
    /\ req[r].i < Len(req[r].plugins)
    /\ Becomes(r, [req[r] EXCEPT !.pc = "unwind", !.buffer = <<>>,
                                 !.ctxLogs = req[r].ctxLogs \o req[r].buffer])
    /\ UNCHANGED <<server, traces, ran>>

-----------------------------------------------------------------------------
(* The goroutine of a stream.                                              *)

\* It loads the slot once, before the reader is told that the stream is over.
StreamEnds(r) ==
    /\ req[r].stream = "running"
    /\ IF req[r].slot = "filled"
       THEN Becomes(r, [req[r] EXCEPT !.stream = "hooks", !.taken = TRUE,
                                      !.i = Len(req[r].plugins)])
       ELSE Becomes(r, [req[r] EXCEPT !.stream = "complete"])
    /\ UNCHANGED <<server, traces, ran>>

\* runTransportPostHooksCaptured
StreamHook(r) ==
    /\ req[r].stream = "hooks"
    /\ req[r].i > 0
    /\ RunHook(r, "post", [req[r] EXCEPT !.i = req[r].i - 1])
    /\ UNCHANGED <<server, traces>>

\* mutant: the logs of the pre hooks are read from the context
CtxLogs(r) == req[r].ctxLogs

PreHookLogs(r) == req[r].captured

\* The completer returns all logs, after the last hook or the first that failed.
StreamHooksDone(r) ==
    /\ req[r].stream = "hooks"
    /\ req[r].i < Len(req[r].plugins)
    /\ Becomes(r, [req[r] EXCEPT !.stream = "complete", !.buffer = <<>>,
                                 !.captured = PreHookLogs(r) \o req[r].buffer])
    /\ UNCHANGED <<server, traces, ran>>

\* The trace completer, with the logs the stream was given, if any.
StreamCompletes(r) ==
    /\ req[r].stream = "complete"
    /\ Becomes(r, [req[r] EXCEPT !.stream = "ended"])
    /\ Complete(r, IF req[r].taken THEN req[r].captured ELSE <<>>)
    /\ UNCHANGED <<server, ran>>

-----------------------------------------------------------------------------
(* What happens around a request.                                          *)

\* fasthttp reuses the context of a request that was answered or abandoned.
Recycle(r) ==
    /\ req[r].pc = "done"
    /\ Becomes(r, [req[r] EXCEPT !.pc = "recycled", !.ctxLogs = <<>>,
                                 !.deferred = FALSE])
    /\ UNCHANGED <<server, traces, ran>>

SetTracer(t) ==
    /\ tracer' = t
    /\ UNCHANGED <<loaded, req, traces, ran>>

Reload(list) ==
    /\ loaded' = list
    /\ UNCHANGED <<tracer, req, traces, ran>>

-----------------------------------------------------------------------------
Served(r) ==
    \/ Intercept(r) \/ PreHook(r) \/ PreHookStops(r) \/ PreHooksDone(r)
    \/ Handle(r) \/ HandleStream(r) \/ SkipPostHooks(r) \/ StoreCompleter(r)
    \/ StartPostHooks(r) \/ PostHook(r) \/ PostHooksDone(r) \/ Unwind(r)

Streamed(r) ==
    StreamEnds(r) \/ StreamHook(r) \/ StreamHooksDone(r) \/ StreamCompletes(r)

Next ==
    \/ \E r \in Requests : Trace(r) \/ Served(r) \/ Streamed(r) \/ Recycle(r)
    \/ \E t \in Tracers \cup {None} : SetTracer(t)
    \/ \E list \in PluginLists : Reload(list)

Spec == Init /\ [][Next]_vars

\* Hooks and handlers return, streams end, and both are scheduled.
FairSpec == Spec /\ \A r \in Requests : WF_vars(Served(r)) /\ WF_vars(Streamed(r))

-----------------------------------------------------------------------------
(* Properties.                                                             *)

\* All hooks of a list, the post hooks in reverse.
Nested(list) ==
    [k \in 1 .. 2 * Len(list) |->
        IF k <= Len(list) THEN <<"pre", list[k]>>
        ELSE <<"post", list[2 * Len(list) + 1 - k]>>]

\* Hooks nest around the handler: a plugin's post hook runs at most once, after
\* every pre hook of the request and in reverse order, for the plugins whose
\* pre hooks ran, although the list is reloaded meanwhile and the hooks are run
\* by the middleware or by the stream; none runs on a request a plugin stopped.
HooksNest ==
    \A r \in Requests :
        LET list == req[r].plugins
        IN  /\ Len(ran[r]) <= 2 * Len(list)
            /\ \A k \in 1 .. Len(ran[r]) : ran[r][k] = Nested(list)[k]
            /\ req[r].answer = "plugin" => Len(ran[r]) <= Len(list)

\* A trace that was completed has the log of every hook that ran, in order,
\* however the request ended and whatever became of its context; only a stream
\* that ended before its completer was stored leaves the trace without logs.
LogsReachTrace ==
    \A r \in Requests :
        flushes[r] > 0 =>
            attached[r] = IF req[r].stream = "none" \/ req[r].taken
                          THEN ran[r] ELSE <<>>

\* The middleware and the stream never both complete a trace, and none is
\* completed while the hooks that write to it still run.
CompletedOnce ==
    \A r \in Requests :
        /\ req[r].stream \in {"running", "hooks", "complete"} => flushes[r] = 0
        /\ req[r].pc \in {"intercept", "pre", "post"} => flushes[r] = 0
        /\ flushes[r] <= 1

\* Every trace is completed in the end, in the store of the tracer that created
\* it: "a concurrent SetTracer() swap cannot split a trace across two instances".
TraceCompleted ==
    \A r \in Requests : (\E t \in Tracers : r \in open[t]) ~> flushes[r] > 0

-----------------------------------------------------------------------------
(* The promise of HookedRequest.                                           *)

Outcome(r) ==
    CASE req[r].answer = "handler" ->
             IF req[r].stream = "none" THEN "handler" ELSE "stream"
      [] req[r].answer = "plugin" -> "plugin"
      [] OTHER -> "none"

Rounds == INSTANCE HookedRequest WITH
    list <- [r \in Requests |-> req[r].plugins],
    outcome <- [r \in Requests |-> Outcome(r)],
    recorded <- flushes,
    record <- attached

\* Middleware and goroutine work on one request, contexts are recycled, plugins
\* reloaded and tracers swapped: still each step meets the list, runs the next
\* hook of it, answers, records the request, or changes nothing of that.
KeepsRounds == Rounds!Spec
=============================================================================

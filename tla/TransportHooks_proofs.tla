------------------------ MODULE TransportHooks_proofs ------------------------
(* What is proved of TransportHooks for every set of requests, tracers and   *)
(* plugins and for lists of any length.  The invariant says, for each place  *)
(* a request can be in, how many hooks have run and where their logs are: in *)
(* the plugin log, in the context, in the completer or in the trace.         *)
EXTENDS TransportHooks, SequenceTheorems, TLAPS

\* The hooks in s are the first ones of a list.
Nests(s, list) ==
    /\ Len(s) <= 2 * Len(list)
    /\ \A k \in 1 .. Len(s) : s[k] = Nested(list)[k]

\* Below, q is a request, h the hooks it ran, f the times its trace was
\* completed and a the logs attached to it.

\* No stream has been started.
Before(q) == q.stream = "none"

Arrived(q, h) ==
    q.pc \in {"idle", "intercept"} =>
        /\ Before(q) /\ q.i = 1 /\ q.plugins = <<>>
        /\ h = <<>> /\ q.buffer = <<>> /\ q.ctxLogs = <<>>
        /\ q.answer = "none"

\* The pre hooks up to the i-th have run, their logs wait in the plugin log.
InFront(q, h) ==
    q.pc = "pre" =>
        /\ Before(q) /\ q.ctxLogs = <<>> /\ q.answer = "none"
        /\ h = q.buffer
        /\ q.i = Len(h) + 1 /\ Len(h) <= Len(q.plugins)

\* All pre hooks have run and their logs are in the context.
AtHandler(q, h) ==
    q.pc \in {"handler", "after"} =>
        /\ h = q.ctxLogs /\ q.buffer = <<>>
        /\ Len(h) = Len(q.plugins)
        /\ q.answer # "plugin" /\ q.slot # "filled"
        /\ q.pc = "handler" => Before(q)

\* The post hooks behind the i-th have run, their logs wait in the plugin log.
Behind(q, h) ==
    q.pc = "post" =>
        /\ Before(q) /\ q.answer # "plugin"
        /\ h = q.ctxLogs \o q.buffer
        /\ q.i <= Len(q.plugins)
        /\ Len(h) = 2 * Len(q.plugins) - q.i

Leaving(q, h) ==
    q.pc = "unwind" /\ Before(q) => h = q.ctxLogs

\* A streamed answer: its trace is left to the goroutine.
Streams(q) ==
    /\ q.pc # "recycled" => (q.deferred <=> ~Before(q))
    /\ ~Before(q) => /\ q.pc \in {"after", "unwind", "done", "recycled"}
                     /\ q.answer # "plugin"

\* The completer in its slot holds the logs of all pre hooks.
Stored(q, h) ==
    /\ q.slot = "filled" => ~Before(q)
    /\ q.taken => q.slot = "filled"
    /\ q.slot = "filled" /\ q.stream = "running" =>
           /\ h = q.captured /\ q.buffer = <<>>
           /\ Len(h) = Len(q.plugins)

\* The goroutine runs the post hooks, then carries all logs to the trace.
InStream(q, h) ==
    /\ q.stream \in {"none", "running"} => ~q.taken
    /\ q.stream = "hooks" =>
           /\ q.taken /\ q.i <= Len(q.plugins)
           /\ h = q.captured \o q.buffer
           /\ Len(h) = 2 * Len(q.plugins) - q.i
    /\ q.stream \in {"complete", "ended"} /\ q.taken => h = q.captured

\* Nobody has completed the trace before its completer's turn.
Untouched(q, f, a) ==
    /\ f = 0 => a = <<>>
    /\ q.stream = "none" /\ q.pc \notin {"done", "recycled"} => f = 0
    /\ q.stream \in {"running", "hooks", "complete"} => f = 0
    /\ f <= 1

Nesting(q, h) ==
    /\ Nests(h, q.plugins)
    /\ q.answer = "plugin" => Len(h) <= Len(q.plugins)

Logged(q, h, f, a) ==
    f > 0 => a = IF Before(q) \/ q.taken THEN h ELSE <<>>

\* The invariant of one request; a step of another one leaves it alone.
Good(q, h, f, a) ==
    /\ Arrived(q, h) /\ InFront(q, h) /\ AtHandler(q, h) /\ Behind(q, h)
    /\ Leaving(q, h) /\ Streams(q) /\ Stored(q, h) /\ InStream(q, h)
    /\ Untouched(q, f, a) /\ Nesting(q, h) /\ Logged(q, h, f, a)

GoodOne(r) == Good(req[r], ran[r], flushes[r], attached[r])

Typed ==
    /\ tracer \in Tracers \cup {None}
    /\ loaded \in PluginLists
    /\ req \in [Requests -> Request]
    /\ open \in [Tracers -> SUBSET Requests]
    /\ attached \in [Requests -> Seq(Hook)]
    /\ flushes \in [Requests -> Nat]
    /\ ran \in [Requests -> Seq(Hook)]

IInv == Typed /\ \A r \in Requests : GoodOne(r)

-----------------------------------------------------------------------------
(* Hooks and the order they run in.                                        *)

LEMMA HookOf ==
    ASSUME NEW kind \in {"pre", "post"}, NEW list \in Seq(Plugins),
           NEW i \in 1 .. Len(list)
    PROVE  <<kind, list[i]>> \in Hook
<1>1. list[i] \in Plugins
  OBVIOUS
<1> QED
  BY <1>1 DEF Hook

LEMMA NestsNext ==
    ASSUME NEW list \in Seq(Plugins), NEW s \in Seq(Hook), Nests(s, list),
           Len(s) < 2 * Len(list), NEW hook \in Hook,
           hook = Nested(list)[Len(s) + 1]
    PROVE  Nests(Append(s, hook), list)
<1>1. /\ Len(Append(s, hook)) = Len(s) + 1
      /\ \A k \in 1 .. Len(s) : Append(s, hook)[k] = s[k]
      /\ Append(s, hook)[Len(s) + 1] = hook
  OBVIOUS
<1> QED
  BY <1>1 DEF Nests

LEMMA NextPre ==
    ASSUME NEW list \in Seq(Plugins), NEW i \in 1 .. Len(list)
    PROVE  Nested(list)[i] = <<"pre", list[i]>>
BY DEF Nested

LEMMA NextPost ==
    ASSUME NEW list \in Seq(Plugins), NEW i \in 1 .. Len(list)
    PROVE  Nested(list)[2 * Len(list) - i + 1] = <<"post", list[i]>>
<1> DEFINE k == 2 * Len(list) - i + 1
<1>1. /\ k \in 1 .. 2 * Len(list) /\ ~(k <= Len(list))
      /\ 2 * Len(list) + 1 - k = i
  OBVIOUS
<1> HIDE DEF k
<1>2. Nested(list)[k] = <<"post", list[i]>>
  BY <1>1 DEF Nested
<1> QED
  BY <1>2 DEF k

LEMMA Joined ==
    /\ <<>> \in Seq(Hook)
    /\ \A s \in Seq(Hook) : s \o <<>> = s /\ <<>> \o s = s
    /\ \A s, u \in Seq(Hook) :
          s \o u \in Seq(Hook) /\ Len(s \o u) = Len(s) + Len(u)
OBVIOUS

LEMMA Half == \A n \in Nat : 2 * n - n = n
OBVIOUS

LEMMA AppendInside ==
    ASSUME NEW s \in Seq(Hook), NEW u \in Seq(Hook), NEW hook \in Hook
    PROVE  Append(s \o u, hook) = s \o Append(u, hook)
<1>0. s \o u \in Seq(Hook) /\ <<hook>> \in Seq(Hook)
  OBVIOUS
<1>1. /\ Append(s \o u, hook) = (s \o u) \o <<hook>>
      /\ Append(u, hook) = u \o <<hook>>
  BY <1>0, AppendIsConcat
<1> QED
  BY <1>0, <1>1, ConcatAssociative

-----------------------------------------------------------------------------
(* Steps: what they change is a request, and the rest is left alone.       *)

LEMMA OneRequest ==
    ASSUME IInv, NEW r \in Requests, NEW q \in Request, Becomes(r, q),
           tracer' \in Tracers \cup {None}, loaded' \in PluginLists,
           open' \in [Tracers -> SUBSET Requests],
           attached' \in [Requests -> Seq(Hook)],
           flushes' \in [Requests -> Nat], ran' \in [Requests -> Seq(Hook)],
           \A s \in Requests \ {r} : /\ attached'[s] = attached[s]
                                     /\ flushes'[s] = flushes[s]
                                     /\ ran'[s] = ran[s],
           Good(q, ran'[r], flushes'[r], attached'[r])
    PROVE  IInv'
<1>1. /\ req' \in [Requests -> Request] /\ req'[r] = q
      /\ \A s \in Requests \ {r} : req'[s] = req[s]
  BY DEF IInv, Typed, Becomes
<1>2. GoodOne(r)'
  BY <1>1 DEF GoodOne
<1>3. \A s \in Requests \ {r} : GoodOne(s)'
  BY <1>1 DEF IInv, GoodOne
<1> QED
  BY <1>1, <1>2, <1>3 DEF IInv, Typed

LEMMA QuietStep ==
    ASSUME IInv, NEW r \in Requests, NEW q \in Request, Becomes(r, q),
           UNCHANGED <<server, traces, ran>>,
           Good(q, ran[r], flushes[r], attached[r])
    PROVE  IInv'
BY OneRequest DEF IInv, Typed, server, traces

LEMMA HookStep ==
    ASSUME IInv, NEW r \in Requests, NEW q \in Request, Becomes(r, q),
           NEW hook \in Hook, ran' = [ran EXCEPT ![r] = Append(ran[r], hook)],
           UNCHANGED <<server, traces>>,
           Good(q, Append(ran[r], hook), flushes[r], attached[r])
    PROVE  IInv'
<1>1. /\ ran' \in [Requests -> Seq(Hook)] /\ ran'[r] = Append(ran[r], hook)
      /\ \A s \in Requests \ {r} : ran'[s] = ran[s]
  BY DEF IInv, Typed
<1> QED
  BY <1>1, OneRequest DEF IInv, Typed, server, traces

\* Complete, whether or not the trace is in its store.
LEMMA CompleteStep ==
    ASSUME IInv, NEW r \in Requests, NEW q \in Request, Becomes(r, q),
           NEW logs \in Seq(Hook), Complete(r, logs), UNCHANGED <<server, ran>>,
           Good(q, ran[r], flushes[r], attached[r]),
           Good(q, ran[r], flushes[r] + 1, attached[r] \o logs)
    PROVE  IInv'
<1>1. CASE UNCHANGED traces
  BY <1>1, QuietStep DEF server
<1>2. CASE /\ open' = [open EXCEPT ![TracerOf(r)] = open[TracerOf(r)] \ {r}]
           /\ attached' = [attached EXCEPT ![r] = attached[r] \o logs]
           /\ flushes' = [flushes EXCEPT ![r] = flushes[r] + 1]
  <2>1. open' \in [Tracers -> SUBSET Requests]
    BY <1>2 DEF IInv, Typed
  <2>2. /\ attached' \in [Requests -> Seq(Hook)]
        /\ attached'[r] = attached[r] \o logs
        /\ \A s \in Requests \ {r} : attached'[s] = attached[s]
    BY <1>2 DEF IInv, Typed
  <2>3. /\ flushes' \in [Requests -> Nat] /\ flushes'[r] = flushes[r] + 1
        /\ \A s \in Requests \ {r} : flushes'[s] = flushes[s]
    BY <1>2 DEF IInv, Typed
  <2> QED
    BY <2>1, <2>2, <2>3, OneRequest DEF IInv, Typed, server
<1> QED
  BY <1>1, <1>2 DEF Complete

\* What is known of a request before any step of it.
LEMMA Known ==
    ASSUME IInv, NEW r \in Requests
    PROVE  /\ req[r] \in Request /\ ran[r] \in Seq(Hook)
           /\ flushes[r] \in Nat /\ attached[r] \in Seq(Hook)
           /\ Good(req[r], ran[r], flushes[r], attached[r])
           /\ req[r].plugins \in Seq(Plugins) /\ Len(req[r].plugins) \in Nat
           /\ req[r].buffer \in Seq(Hook) /\ req[r].ctxLogs \in Seq(Hook)
           /\ req[r].captured \in Seq(Hook)
<1>1. /\ req[r] \in Request /\ ran[r] \in Seq(Hook)
      /\ flushes[r] \in Nat /\ attached[r] \in Seq(Hook)
      /\ Good(req[r], ran[r], flushes[r], attached[r])
  BY DEF IInv, Typed, GoodOne
<1> QED
  BY <1>1 DEF Request

LEMMA InterceptStep ==
    ASSUME IInv, NEW r \in Requests, Intercept(r)
    PROVE  IInv'
<1> DEFINE q == [req[r] EXCEPT !.pc = IF loaded = <<>> THEN "handler" ELSE "pre",
                           !.plugins = loaded]
<1>1. /\ req[r] \in Request /\ ran[r] \in Seq(Hook)
      /\ Good(req[r], ran[r], flushes[r], attached[r])
      /\ req[r].plugins \in Seq(Plugins) /\ Len(req[r].plugins) \in Nat
      /\ req[r].buffer \in Seq(Hook) /\ req[r].ctxLogs \in Seq(Hook)
      /\ req[r].captured \in Seq(Hook)
  BY Known
<1>2. q \in Request
  BY <1>1, HooksAssumption DEF Request, IInv, Typed
<1>3. Good(q, ran[r], flushes[r], attached[r])
  BY <1>1, HooksAssumption DEF Request, Nests, Intercept, Good, Arrived, InFront,
     AtHandler, Behind,
     Leaving, Streams, Stored, InStream, Untouched, Nesting, Logged, Before,
        IInv, Typed
<1>4. Becomes(r, q) /\ UNCHANGED <<server, traces, ran>>
  BY DEF Intercept
<1> HIDE DEF q
<1> QED
  BY <1>2, <1>3, <1>4, QuietStep

LEMMA HandleStep ==
    ASSUME IInv, NEW r \in Requests, Handle(r)
    PROVE  IInv'
<1> DEFINE q == [req[r] EXCEPT !.pc = "after", !.answer = "handler"]
<1>1. /\ req[r] \in Request /\ ran[r] \in Seq(Hook)
      /\ Good(req[r], ran[r], flushes[r], attached[r])
      /\ req[r].plugins \in Seq(Plugins) /\ Len(req[r].plugins) \in Nat
      /\ req[r].buffer \in Seq(Hook) /\ req[r].ctxLogs \in Seq(Hook)
      /\ req[r].captured \in Seq(Hook)
  BY Known
<1>2. q \in Request
  BY <1>1 DEF Request
<1>3. Good(q, ran[r], flushes[r], attached[r])
  BY <1>1 DEF Request, Nests, Handle, Good, Arrived, InFront, AtHandler, Behind,
     Leaving, Streams, Stored, InStream, Untouched, Nesting, Logged, Before
<1>4. Becomes(r, q) /\ UNCHANGED <<server, traces, ran>>
  BY DEF Handle
<1> HIDE DEF q
<1> QED
  BY <1>2, <1>3, <1>4, QuietStep

LEMMA SkipPostHooksStep ==
    ASSUME IInv, NEW r \in Requests, SkipPostHooks(r)
    PROVE  IInv'
<1> DEFINE q == [req[r] EXCEPT !.pc = "unwind"]
<1>1. /\ req[r] \in Request /\ ran[r] \in Seq(Hook)
      /\ Good(req[r], ran[r], flushes[r], attached[r])
      /\ req[r].plugins \in Seq(Plugins) /\ Len(req[r].plugins) \in Nat
      /\ req[r].buffer \in Seq(Hook) /\ req[r].ctxLogs \in Seq(Hook)
      /\ req[r].captured \in Seq(Hook)
  BY Known
<1>2. q \in Request
  BY <1>1 DEF Request
<1>3. Good(q, ran[r], flushes[r], attached[r])
  BY <1>1 DEF Request, Nests, SkipPostHooks, Good, Arrived, InFront, AtHandler,
     Behind,
     Leaving, Streams, Stored, InStream, Untouched, Nesting, Logged, Before
<1>4. Becomes(r, q) /\ UNCHANGED <<server, traces, ran>>
  BY DEF SkipPostHooks
<1> HIDE DEF q
<1> QED
  BY <1>2, <1>3, <1>4, QuietStep

LEMMA StoreCompleterStep ==
    ASSUME IInv, NEW r \in Requests, StoreCompleter(r)
    PROVE  IInv'
<1> DEFINE q == [req[r] EXCEPT !.pc = "unwind", !.slot = "filled",
                           !.captured = req[r].ctxLogs]
<1>1. /\ req[r] \in Request /\ ran[r] \in Seq(Hook)
      /\ Good(req[r], ran[r], flushes[r], attached[r])
      /\ req[r].plugins \in Seq(Plugins) /\ Len(req[r].plugins) \in Nat
      /\ req[r].buffer \in Seq(Hook) /\ req[r].ctxLogs \in Seq(Hook)
      /\ req[r].captured \in Seq(Hook)
  BY Known
<1>2. q \in Request
  BY <1>1 DEF Request
<1>3. Good(q, ran[r], flushes[r], attached[r])
  BY <1>1 DEF Request, Nests, StoreCompleter, Good, Arrived, InFront, AtHandler,
     Behind,
     Leaving, Streams, Stored, InStream, Untouched, Nesting, Logged, Before
<1>4. Becomes(r, q) /\ UNCHANGED <<server, traces, ran>>
  BY DEF StoreCompleter
<1> HIDE DEF q
<1> QED
  BY <1>2, <1>3, <1>4, QuietStep

LEMMA StartPostHooksStep ==
    ASSUME IInv, NEW r \in Requests, StartPostHooks(r)
    PROVE  IInv'
<1> DEFINE q == [req[r] EXCEPT !.pc = "post", !.i = Len(req[r].plugins)]
<1>1. /\ req[r] \in Request /\ ran[r] \in Seq(Hook)
      /\ Good(req[r], ran[r], flushes[r], attached[r])
      /\ req[r].plugins \in Seq(Plugins) /\ Len(req[r].plugins) \in Nat
      /\ req[r].buffer \in Seq(Hook) /\ req[r].ctxLogs \in Seq(Hook)
      /\ req[r].captured \in Seq(Hook)
  BY Known
<1>2. q \in Request
  BY <1>1, Joined DEF Request
<1>a. /\ ran[r] = req[r].ctxLogs /\ req[r].buffer = <<>>
      /\ Len(ran[r]) = Len(req[r].plugins)
  BY <1>1 DEF StartPostHooks, Good, AtHandler
<1>b. req[r].ctxLogs \o <<>> = req[r].ctxLogs
  BY <1>1, Joined
<1>c. 2 * Len(req[r].plugins) - Len(req[r].plugins) = Len(req[r].plugins)
  BY <1>1, Half
<1>d. /\ q.pc = "post" /\ q.stream = req[r].stream /\ q.answer = req[r].answer
      /\ q.i = Len(req[r].plugins) /\ q.plugins = req[r].plugins
      /\ q.ctxLogs = req[r].ctxLogs /\ q.buffer = req[r].buffer
  BY <1>1 DEF Request
<1>e. Behind(q, ran[r])
  <2>1. ran[r] = q.ctxLogs \o q.buffer
    BY <1>a, <1>b, <1>d
  <2>2. /\ q.i <= Len(q.plugins)
        /\ Len(ran[r]) = 2 * Len(q.plugins) - q.i
    BY <1>1, <1>a, <1>c, <1>d
  <2> QED
    BY <1>1, <1>a, <1>d, <2>1, <2>2 DEF StartPostHooks, Behind, Before, Good,
       AtHandler,
       Streams
<1>3. Good(q, ran[r], flushes[r], attached[r])
  BY <1>1, <1>e DEF Request, Nests, StartPostHooks, Good, Arrived, InFront,
     AtHandler, Behind,
     Leaving, Streams, Stored, InStream, Untouched, Nesting, Logged, Before
<1>4. Becomes(r, q) /\ UNCHANGED <<server, traces, ran>>
  BY DEF StartPostHooks
<1> HIDE DEF q
<1> QED
  BY <1>2, <1>3, <1>4, QuietStep

LEMMA PostHooksDoneStep ==
    ASSUME IInv, NEW r \in Requests, PostHooksDone(r)
    PROVE  IInv'
<1> DEFINE q == [req[r] EXCEPT !.pc = "unwind", !.buffer = <<>>,
                           !.ctxLogs = req[r].ctxLogs \o req[r].buffer]
<1>1. /\ req[r] \in Request /\ ran[r] \in Seq(Hook)
      /\ Good(req[r], ran[r], flushes[r], attached[r])
      /\ req[r].plugins \in Seq(Plugins) /\ Len(req[r].plugins) \in Nat
      /\ req[r].buffer \in Seq(Hook) /\ req[r].ctxLogs \in Seq(Hook)
      /\ req[r].captured \in Seq(Hook)
  BY Known
<1>2. q \in Request
  BY <1>1, Joined DEF Request
<1>3. Good(q, ran[r], flushes[r], attached[r])
  BY <1>1, Joined DEF Request, Nests, PostHooksDone, Good, Arrived, InFront,
     AtHandler, Behind,
     Leaving, Streams, Stored, InStream, Untouched, Nesting, Logged, Before
<1>4. Becomes(r, q) /\ UNCHANGED <<server, traces, ran>>
  BY DEF PostHooksDone
<1> HIDE DEF q
<1> QED
  BY <1>2, <1>3, <1>4, QuietStep

LEMMA StreamHooksDoneStep ==
    ASSUME IInv, NEW r \in Requests, StreamHooksDone(r)
    PROVE  IInv'
<1> DEFINE q == [req[r] EXCEPT !.stream = "complete", !.buffer = <<>>,
                           !.captured = req[r].captured \o req[r].buffer]
<1>1. /\ req[r] \in Request /\ ran[r] \in Seq(Hook)
      /\ Good(req[r], ran[r], flushes[r], attached[r])
      /\ req[r].plugins \in Seq(Plugins) /\ Len(req[r].plugins) \in Nat
      /\ req[r].buffer \in Seq(Hook) /\ req[r].ctxLogs \in Seq(Hook)
      /\ req[r].captured \in Seq(Hook)
  BY Known
<1>2. q \in Request
  BY <1>1, Joined DEF Request
<1>3. Good(q, ran[r], flushes[r], attached[r])
  BY <1>1, Joined DEF Request, Nests, StreamHooksDone, Good, Arrived, InFront,
     AtHandler, Behind,
     Leaving, Streams, Stored, InStream, Untouched, Nesting, Logged, Before
<1>4. Becomes(r, q) /\ UNCHANGED <<server, traces, ran>>
  BY DEF StreamHooksDone, PreHookLogs
<1> HIDE DEF q
<1> QED
  BY <1>2, <1>3, <1>4, QuietStep

LEMMA RecycleStep ==
    ASSUME IInv, NEW r \in Requests, Recycle(r)
    PROVE  IInv'
<1> DEFINE q == [req[r] EXCEPT !.pc = "recycled", !.ctxLogs = <<>>,
                           !.deferred = FALSE]
<1>1. /\ req[r] \in Request /\ ran[r] \in Seq(Hook)
      /\ Good(req[r], ran[r], flushes[r], attached[r])
      /\ req[r].plugins \in Seq(Plugins) /\ Len(req[r].plugins) \in Nat
      /\ req[r].buffer \in Seq(Hook) /\ req[r].ctxLogs \in Seq(Hook)
      /\ req[r].captured \in Seq(Hook)
  BY Known
<1>2. q \in Request
  BY <1>1, Joined DEF Request
<1>3. Good(q, ran[r], flushes[r], attached[r])
  BY <1>1, Joined DEF Request, Nests, Recycle, Good, Arrived, InFront, AtHandler,
     Behind,
     Leaving, Streams, Stored, InStream, Untouched, Nesting, Logged, Before
<1>4. Becomes(r, q) /\ UNCHANGED <<server, traces, ran>>
  BY DEF Recycle
<1> HIDE DEF q
<1> QED
  BY <1>2, <1>3, <1>4, QuietStep

LEMMA PreHooksDoneStep ==
    ASSUME IInv, NEW r \in Requests, PreHooksDone(r)
    PROVE  IInv'
<1>1. /\ req[r] \in Request /\ ran[r] \in Seq(Hook)
      /\ flushes[r] \in Nat /\ attached[r] \in Seq(Hook)
      /\ Good(req[r], ran[r], flushes[r], attached[r])
      /\ req[r].plugins \in Seq(Plugins) /\ Len(req[r].plugins) \in Nat
      /\ req[r].buffer \in Seq(Hook) /\ req[r].ctxLogs \in Seq(Hook)
      /\ req[r].captured \in Seq(Hook)
  BY Known
<1>2. PICK answer \in {"none", "conflict"} :
        Becomes(r, [req[r] EXCEPT !.pc = "handler", !.buffer = <<>>,
                      !.ctxLogs = req[r].buffer, !.answer = answer])
  BY DEF PreHooksDone
<1> DEFINE q == [req[r] EXCEPT !.pc = "handler", !.buffer = <<>>,
                      !.ctxLogs = req[r].buffer, !.answer = answer]
<1>3. q \in Request
  BY <1>1, Joined DEF Request
<1>4. Good(q, ran[r], flushes[r], attached[r])
  BY <1>1, Joined DEF Request, Nests, PreHooksDone, Good, Arrived, InFront,
     AtHandler, Behind,
     Leaving, Streams, Stored, InStream, Untouched, Nesting, Logged, Before
<1>5. Becomes(r, q) /\ UNCHANGED <<server, traces, ran>>
  BY <1>2 DEF PreHooksDone
<1> HIDE DEF q
<1> QED
  BY <1>3, <1>4, <1>5, QuietStep

LEMMA HandleStreamStep ==
    ASSUME IInv, NEW r \in Requests, HandleStream(r)
    PROVE  IInv'
<1>1. /\ req[r] \in Request /\ ran[r] \in Seq(Hook)
      /\ flushes[r] \in Nat /\ attached[r] \in Seq(Hook)
      /\ Good(req[r], ran[r], flushes[r], attached[r])
      /\ req[r].plugins \in Seq(Plugins) /\ Len(req[r].plugins) \in Nat
      /\ req[r].buffer \in Seq(Hook) /\ req[r].ctxLogs \in Seq(Hook)
      /\ req[r].captured \in Seq(Hook)
  BY Known
<1>2. PICK slot \in {"absent", "empty"} :
        Becomes(r, [req[r] EXCEPT !.pc = "after", !.answer = "handler",
                      !.deferred = TRUE, !.slot = slot, !.stream = "running"])
  BY DEF HandleStream
<1> DEFINE q == [req[r] EXCEPT !.pc = "after", !.answer = "handler",
                      !.deferred = TRUE, !.slot = slot, !.stream = "running"]
<1>3. q \in Request
  BY <1>1, Joined DEF Request
<1>4. Good(q, ran[r], flushes[r], attached[r])
  BY <1>1, Joined DEF Request, Nests, HandleStream, Good, Arrived, InFront,
     AtHandler, Behind,
     Leaving, Streams, Stored, InStream, Untouched, Nesting, Logged, Before
<1>5. Becomes(r, q) /\ UNCHANGED <<server, traces, ran>>
  BY <1>2 DEF HandleStream
<1> HIDE DEF q
<1> QED
  BY <1>3, <1>4, <1>5, QuietStep

LEMMA StreamEndsStep ==
    ASSUME IInv, NEW r \in Requests, StreamEnds(r)
    PROVE  IInv'
<1>1. /\ req[r] \in Request /\ ran[r] \in Seq(Hook)
      /\ flushes[r] \in Nat /\ attached[r] \in Seq(Hook)
      /\ Good(req[r], ran[r], flushes[r], attached[r])
      /\ req[r].plugins \in Seq(Plugins) /\ Len(req[r].plugins) \in Nat
      /\ req[r].buffer \in Seq(Hook) /\ req[r].ctxLogs \in Seq(Hook)
      /\ req[r].captured \in Seq(Hook)
  BY Known
<1>2. CASE req[r].slot = "filled"
  <2> DEFINE q == [req[r] EXCEPT !.stream = "hooks", !.taken = TRUE,
                               !.i = Len(req[r].plugins)]
  <2>1. q \in Request
    BY <1>1 DEF Request
  <2>a. /\ ran[r] = req[r].captured /\ req[r].buffer = <<>>
        /\ Len(ran[r]) = Len(req[r].plugins)
    BY <1>1, <1>2 DEF StreamEnds, Good, Stored
  <2>b. req[r].captured \o <<>> = req[r].captured
    BY <1>1, Joined
  <2>c. 2 * Len(req[r].plugins) - Len(req[r].plugins) = Len(req[r].plugins)
    BY <1>1, Half
  <2>d. /\ q.stream = "hooks" /\ q.taken
        /\ q.i = Len(req[r].plugins) /\ q.plugins = req[r].plugins
        /\ q.captured = req[r].captured /\ q.buffer = req[r].buffer
        /\ q.pc = req[r].pc /\ q.slot = req[r].slot /\ q.answer = req[r].answer
        /\ q.deferred = req[r].deferred
    BY <1>1 DEF Request
  <2>e. InStream(q, ran[r])
    <3>1. ran[r] = q.captured \o q.buffer
      BY <2>a, <2>b, <2>d
    <3>2. /\ q.i <= Len(q.plugins)
          /\ Len(ran[r]) = 2 * Len(q.plugins) - q.i
      BY <1>1, <2>a, <2>c, <2>d
    <3> QED
      BY <1>1, <2>a, <2>d, <3>1, <3>2, <1>2 DEF StreamEnds, InStream, Before,
         Good, AtHandler,
         Streams
  <2> HIDE DEF q
  <2>f. req[r].stream = "running" /\ ~Before(req[r])
    BY DEF StreamEnds, Before
  <2>g. ~Before(q)
    BY <2>d DEF Before
  <2>h. req[r].pc \in {"unwind", "done", "recycled"}
    BY <1>1, <1>2, <2>f DEF Good, Streams, AtHandler
  <2>3. Good(q, ran[r], flushes[r], attached[r])
    <3>1. Arrived(q, ran[r]) /\ InFront(q, ran[r]) /\ AtHandler(q, ran[r])
          /\ Behind(q, ran[r]) /\ Leaving(q, ran[r])
      BY <2>d, <2>g, <2>h DEF Arrived, InFront, AtHandler, Behind, Leaving
    <3>2. Streams(q)
      BY <1>1, <2>d, <2>f, <2>g, <2>h DEF Good, Streams
    <3>3. Stored(q, ran[r])
      BY <1>1, <1>2, <2>d, <2>g DEF Good, Stored
    <3>4. Untouched(q, flushes[r], attached[r])
      BY <1>1, <2>d, <2>f DEF Good, Untouched
    <3>5. Nesting(q, ran[r])
      BY <1>1, <2>d DEF Good, Nesting
    <3>6. Logged(q, ran[r], flushes[r], attached[r])
      BY <1>1, <2>f DEF Good, Untouched, Logged
    <3> QED
      BY <2>e, <3>1, <3>2, <3>3, <3>4, <3>5, <3>6 DEF Good
  <2> USE DEF q
  <2>4. Becomes(r, q) /\ UNCHANGED <<server, traces, ran>>
    BY <1>2 DEF StreamEnds
  <2> HIDE DEF q
  <2> QED
    BY <2>1, <2>3, <2>4, QuietStep
<1>3. CASE req[r].slot # "filled"
  <2> DEFINE q == [req[r] EXCEPT !.stream = "complete"]
  <2>1. q \in Request
    BY <1>1 DEF Request
  <2>3. Good(q, ran[r], flushes[r], attached[r])
    BY <1>1, <1>3 DEF Request, Nests, StreamEnds, Good, Arrived, InFront,
       AtHandler, Behind,
     Leaving, Streams, Stored, InStream, Untouched, Nesting, Logged, Before
  <2>4. Becomes(r, q) /\ UNCHANGED <<server, traces, ran>>
    BY <1>3 DEF StreamEnds
  <2> HIDE DEF q
  <2> QED
    BY <2>1, <2>3, <2>4, QuietStep
<1> QED
  BY <1>2, <1>3

LEMMA PreHookStep ==
    ASSUME IInv, NEW r \in Requests, PreHook(r)
    PROVE  IInv'
<1>1. /\ req[r] \in Request /\ ran[r] \in Seq(Hook)
      /\ flushes[r] \in Nat /\ attached[r] \in Seq(Hook)
      /\ Good(req[r], ran[r], flushes[r], attached[r])
      /\ req[r].plugins \in Seq(Plugins) /\ Len(req[r].plugins) \in Nat
      /\ req[r].buffer \in Seq(Hook) /\ req[r].ctxLogs \in Seq(Hook)
      /\ req[r].captured \in Seq(Hook)
  BY Known
<1> DEFINE hook == <<"pre", req[r].plugins[req[r].i]>>
           q == [[req[r] EXCEPT !.i = req[r].i + 1] EXCEPT
                      !.buffer = Append(req[r].buffer, hook)]
<1>2. /\ req[r].i \in 1 .. Len(req[r].plugins)
      /\ Len(ran[r]) < 2 * Len(req[r].plugins)
      /\ req[r].i = Len(ran[r]) + 1 /\ ran[r] = req[r].buffer
  BY <1>1 DEF PreHook, InFront, Good, Request
<1>3. hook \in Hook
  BY <1>1, <1>2, HookOf
<1>4. hook = Nested(req[r].plugins)[Len(ran[r]) + 1]
  BY <1>1, <1>2, NextPre
<1>5. Nests(Append(ran[r], hook), req[r].plugins)
  BY <1>1, <1>2, <1>3, <1>4, NestsNext DEF Good, Nesting
<1>6. Becomes(r, q) /\ ran' = [ran EXCEPT ![r] = Append(ran[r], hook)]
      /\ UNCHANGED <<server, traces>>
  BY DEF PreHook, RunHook
<1> HIDE DEF hook
<1>7. /\ Append(ran[r], hook) \in Seq(Hook)
      /\ Append(req[r].buffer, hook) \in Seq(Hook)
      /\ Len(Append(ran[r], hook)) = Len(ran[r]) + 1
  BY <1>1, <1>3
<1>a. req[r].i + 1 \in Nat
  BY <1>1, <1>2
<1>b. [req[r] EXCEPT !.i = req[r].i + 1] \in Request
  BY <1>1, <1>a DEF Request
<1>8. q \in Request
  BY <1>b, <1>7 DEF Request
<1>f. /\ q.pc = req[r].pc
      /\ q.i = req[r].i + 1
      /\ q.buffer = Append(req[r].buffer, hook)
      /\ q.ctxLogs = req[r].ctxLogs
      /\ q.answer = req[r].answer
      /\ q.stream = req[r].stream
      /\ q.plugins = req[r].plugins
      /\ q.deferred = req[r].deferred
      /\ q.slot = req[r].slot
      /\ q.captured = req[r].captured
      /\ q.taken = req[r].taken
  BY <1>1, <1>2 DEF Request, PreHook
<1> HIDE DEF q
<1>9. Good(q, Append(ran[r], hook), flushes[r], attached[r])
  <2>1. InFront(q, Append(ran[r], hook))
    BY <1>1, <1>2, <1>7, <1>f DEF Good, InFront, Before, PreHook
  <2>2. Arrived(q, Append(ran[r], hook)) /\ AtHandler(q, Append(ran[r], hook))
        /\ Behind(q, Append(ran[r], hook)) /\ Leaving(q, Append(ran[r], hook))
    BY <1>1, <1>f DEF PreHook, Good, Streams, Before, Arrived, AtHandler, Behind,
       Leaving
  <2>3. Streams(q)
    BY <1>1, <1>f DEF PreHook, Good, Streams, InFront, Before
  <2>4. Stored(q, Append(ran[r], hook))
    BY <1>1, <1>f DEF PreHook, Good, InFront, Behind, InStream, Stored, Before
  <2>5. InStream(q, Append(ran[r], hook))
    BY <1>1, <1>f DEF PreHook, Good, Streams, InFront, Behind, InStream, Leaving,
       Before
  <2>6. Untouched(q, flushes[r], attached[r])
        /\ Logged(q, Append(ran[r], hook), flushes[r], attached[r])
    BY <1>1, <1>f DEF PreHook, Good, Untouched, Logged, InFront, Behind, Before
  <2>7. Nesting(q, Append(ran[r], hook))
    BY <1>1, <1>2, <1>5, <1>7, <1>f DEF PreHook, Good, Nesting, InFront, Behind,
       Streams, Before
  <2> QED
    BY <2>1, <2>2, <2>3, <2>4, <2>5, <2>6, <2>7 DEF Good
<1> QED
  BY <1>3, <1>6, <1>8, <1>9, HookStep

LEMMA PreHookStopsStep ==
    ASSUME IInv, NEW r \in Requests, PreHookStops(r)
    PROVE  IInv'
<1>1. /\ req[r] \in Request /\ ran[r] \in Seq(Hook)
      /\ flushes[r] \in Nat /\ attached[r] \in Seq(Hook)
      /\ Good(req[r], ran[r], flushes[r], attached[r])
      /\ req[r].plugins \in Seq(Plugins) /\ Len(req[r].plugins) \in Nat
      /\ req[r].buffer \in Seq(Hook) /\ req[r].ctxLogs \in Seq(Hook)
      /\ req[r].captured \in Seq(Hook)
  BY Known
<1> DEFINE hook == <<"pre", req[r].plugins[req[r].i]>>
           q == [req[r] EXCEPT !.pc = "unwind", !.answer = "plugin",
                             !.buffer = <<>>,
                             !.ctxLogs = Append(req[r].buffer, hook)]
<1>2. /\ req[r].i \in 1 .. Len(req[r].plugins)
      /\ Len(ran[r]) < 2 * Len(req[r].plugins)
      /\ req[r].i = Len(ran[r]) + 1 /\ ran[r] = req[r].buffer
  BY <1>1 DEF PreHookStops, InFront, Good, Request
<1>3. hook \in Hook
  BY <1>1, <1>2, HookOf
<1>4. hook = Nested(req[r].plugins)[Len(ran[r]) + 1]
  BY <1>1, <1>2, NextPre
<1>5. Nests(Append(ran[r], hook), req[r].plugins)
  BY <1>1, <1>2, <1>3, <1>4, NestsNext DEF Good, Nesting
<1>6. Becomes(r, q) /\ ran' = [ran EXCEPT ![r] = Append(ran[r], hook)]
      /\ UNCHANGED <<server, traces>>
  BY DEF PreHookStops
<1> HIDE DEF hook
<1>7. /\ Append(ran[r], hook) \in Seq(Hook)
      /\ Append(req[r].buffer, hook) \in Seq(Hook)
      /\ Len(Append(ran[r], hook)) = Len(ran[r]) + 1
  BY <1>1, <1>3
<1>8. q \in Request
  BY <1>1, <1>7, Joined DEF Request
<1>f. /\ q.pc = "unwind"
      /\ q.i = req[r].i
      /\ q.buffer = <<>>
      /\ q.ctxLogs = Append(req[r].buffer, hook)
      /\ q.answer = "plugin"
      /\ q.stream = req[r].stream
      /\ q.plugins = req[r].plugins
      /\ q.deferred = req[r].deferred
      /\ q.slot = req[r].slot
      /\ q.captured = req[r].captured
      /\ q.taken = req[r].taken
  BY <1>1, <1>2 DEF Request, PreHookStops
<1> HIDE DEF q
<1>9. Good(q, Append(ran[r], hook), flushes[r], attached[r])
  <2>1. Leaving(q, Append(ran[r], hook))
    BY <1>2, <1>f DEF Leaving
  <2>2. Arrived(q, Append(ran[r], hook)) /\ InFront(q, Append(ran[r], hook))
        /\ AtHandler(q, Append(ran[r], hook)) /\ Behind(q, Append(ran[r], hook))
    BY <1>1, <1>f DEF PreHookStops, Good, Streams, Before, Arrived, InFront,
       AtHandler, Behind
  <2>3. Streams(q)
    BY <1>1, <1>f DEF PreHookStops, Good, Streams, InFront, Before
  <2>4. Stored(q, Append(ran[r], hook))
    BY <1>1, <1>f DEF PreHookStops, Good, InFront, Behind, InStream, Stored, Before
  <2>5. InStream(q, Append(ran[r], hook))
    BY <1>1, <1>f DEF PreHookStops, Good, Streams, InFront, Behind, InStream,
       Leaving, Before
  <2>6. Untouched(q, flushes[r], attached[r])
        /\ Logged(q, Append(ran[r], hook), flushes[r], attached[r])
    BY <1>1, <1>f DEF PreHookStops, Good, Untouched, Logged, InFront, Behind, Before
  <2>7. Nesting(q, Append(ran[r], hook))
    BY <1>1, <1>2, <1>5, <1>7, <1>f DEF PreHookStops, Good, Nesting, InFront,
       Behind, Streams, Before
  <2> QED
    BY <2>1, <2>2, <2>3, <2>4, <2>5, <2>6, <2>7 DEF Good
<1> QED
  BY <1>3, <1>6, <1>8, <1>9, HookStep

LEMMA PostHookStep ==
    ASSUME IInv, NEW r \in Requests, PostHook(r)
    PROVE  IInv'
<1>1. /\ req[r] \in Request /\ ran[r] \in Seq(Hook)
      /\ flushes[r] \in Nat /\ attached[r] \in Seq(Hook)
      /\ Good(req[r], ran[r], flushes[r], attached[r])
      /\ req[r].plugins \in Seq(Plugins) /\ Len(req[r].plugins) \in Nat
      /\ req[r].buffer \in Seq(Hook) /\ req[r].ctxLogs \in Seq(Hook)
      /\ req[r].captured \in Seq(Hook)
  BY Known
<1> DEFINE hook == <<"post", req[r].plugins[req[r].i]>>
           q == [[req[r] EXCEPT !.i = req[r].i - 1] EXCEPT
                      !.buffer = Append(req[r].buffer, hook)]
<1>2. /\ req[r].i \in 1 .. Len(req[r].plugins)
      /\ Len(ran[r]) < 2 * Len(req[r].plugins)
      /\ Len(ran[r]) = 2 * Len(req[r].plugins) - req[r].i
  BY <1>1 DEF PostHook, Behind, Good, Request
<1>3. hook \in Hook
  BY <1>1, <1>2, HookOf
<1>4. hook = Nested(req[r].plugins)[Len(ran[r]) + 1]
  BY <1>1, <1>2, NextPost
<1>5. Nests(Append(ran[r], hook), req[r].plugins)
  BY <1>1, <1>2, <1>3, <1>4, NestsNext DEF Good, Nesting
<1>6. Becomes(r, q) /\ ran' = [ran EXCEPT ![r] = Append(ran[r], hook)]
      /\ UNCHANGED <<server, traces>>
  BY DEF PostHook, RunHook
<1> HIDE DEF hook
<1>7. /\ Append(ran[r], hook) \in Seq(Hook)
      /\ Append(req[r].buffer, hook) \in Seq(Hook)
      /\ Len(Append(ran[r], hook)) = Len(ran[r]) + 1
  BY <1>1, <1>3
<1>a. req[r].i - 1 \in Nat
  BY <1>1, <1>2
<1>b. [req[r] EXCEPT !.i = req[r].i - 1] \in Request
  BY <1>1, <1>a DEF Request
<1>8. q \in Request
  BY <1>b, <1>7 DEF Request
<1>f. /\ q.pc = req[r].pc
      /\ q.i = req[r].i - 1
      /\ q.buffer = Append(req[r].buffer, hook)
      /\ q.ctxLogs = req[r].ctxLogs
      /\ q.answer = req[r].answer
      /\ q.stream = req[r].stream
      /\ q.plugins = req[r].plugins
      /\ q.deferred = req[r].deferred
      /\ q.slot = req[r].slot
      /\ q.captured = req[r].captured
      /\ q.taken = req[r].taken
  BY <1>1, <1>2 DEF Request, PostHook
<1> HIDE DEF q
<1>9. Good(q, Append(ran[r], hook), flushes[r], attached[r])
  <2>b. ran[r] = req[r].ctxLogs \o req[r].buffer
    BY <1>1 DEF PostHook, Good, Behind
  <2>c. Append(req[r].ctxLogs \o req[r].buffer, hook)
          = req[r].ctxLogs \o Append(req[r].buffer, hook)
    BY <1>1, <1>3, AppendInside
  <2>d. Len(ran[r]) + 1 = 2 * Len(req[r].plugins) - (req[r].i - 1)
    BY <1>1, <1>2
  <2>a. /\ Append(ran[r], hook) = req[r].ctxLogs \o Append(req[r].buffer, hook)
        /\ Len(ran[r]) + 1 = 2 * Len(req[r].plugins) - (req[r].i - 1)
    BY <2>b, <2>c, <2>d
  <2>1. Behind(q, Append(ran[r], hook))
    BY <1>1, <1>2, <1>7, <1>f, <2>a DEF Good, Behind, Before, PostHook
  <2>2. Arrived(q, Append(ran[r], hook)) /\ InFront(q, Append(ran[r], hook))
        /\ AtHandler(q, Append(ran[r], hook)) /\ Leaving(q, Append(ran[r], hook))
    BY <1>1, <1>f DEF PostHook, Good, Streams, Before, Arrived, InFront,
       AtHandler, Leaving
  <2>3. Streams(q)
    BY <1>1, <1>f DEF PostHook, Good, Streams, InFront, Before
  <2>4. Stored(q, Append(ran[r], hook))
    BY <1>1, <1>f DEF PostHook, Good, InFront, Behind, InStream, Stored, Before
  <2>5. InStream(q, Append(ran[r], hook))
    BY <1>1, <1>f DEF PostHook, Good, Streams, InFront, Behind, InStream,
       Leaving, Before
  <2>6. Untouched(q, flushes[r], attached[r])
        /\ Logged(q, Append(ran[r], hook), flushes[r], attached[r])
    BY <1>1, <1>f DEF PostHook, Good, Untouched, Logged, InFront, Behind, Before
  <2>7. Nesting(q, Append(ran[r], hook))
    BY <1>1, <1>2, <1>5, <1>7, <1>f DEF PostHook, Good, Nesting, InFront, Behind,
       Streams, Before
  <2> QED
    BY <2>1, <2>2, <2>3, <2>4, <2>5, <2>6, <2>7 DEF Good
<1> QED
  BY <1>3, <1>6, <1>8, <1>9, HookStep

LEMMA StreamHookStep ==
    ASSUME IInv, NEW r \in Requests, StreamHook(r)
    PROVE  IInv'
<1>1. /\ req[r] \in Request /\ ran[r] \in Seq(Hook)
      /\ flushes[r] \in Nat /\ attached[r] \in Seq(Hook)
      /\ Good(req[r], ran[r], flushes[r], attached[r])
      /\ req[r].plugins \in Seq(Plugins) /\ Len(req[r].plugins) \in Nat
      /\ req[r].buffer \in Seq(Hook) /\ req[r].ctxLogs \in Seq(Hook)
      /\ req[r].captured \in Seq(Hook)
  BY Known
<1> DEFINE hook == <<"post", req[r].plugins[req[r].i]>>
           q == [[req[r] EXCEPT !.i = req[r].i - 1] EXCEPT
                      !.buffer = Append(req[r].buffer, hook)]
<1>2. /\ req[r].i \in 1 .. Len(req[r].plugins)
      /\ Len(ran[r]) < 2 * Len(req[r].plugins)
      /\ Len(ran[r]) = 2 * Len(req[r].plugins) - req[r].i
  BY <1>1 DEF StreamHook, InStream, Good, Request
<1>3. hook \in Hook
  BY <1>1, <1>2, HookOf
<1>4. hook = Nested(req[r].plugins)[Len(ran[r]) + 1]
  BY <1>1, <1>2, NextPost
<1>5. Nests(Append(ran[r], hook), req[r].plugins)
  BY <1>1, <1>2, <1>3, <1>4, NestsNext DEF Good, Nesting
<1>6. Becomes(r, q) /\ ran' = [ran EXCEPT ![r] = Append(ran[r], hook)]
      /\ UNCHANGED <<server, traces>>
  BY DEF StreamHook, RunHook
<1> HIDE DEF hook
<1>7. /\ Append(ran[r], hook) \in Seq(Hook)
      /\ Append(req[r].buffer, hook) \in Seq(Hook)
      /\ Len(Append(ran[r], hook)) = Len(ran[r]) + 1
  BY <1>1, <1>3
<1>a. req[r].i - 1 \in Nat
  BY <1>1, <1>2
<1>b. [req[r] EXCEPT !.i = req[r].i - 1] \in Request
  BY <1>1, <1>a DEF Request
<1>8. q \in Request
  BY <1>b, <1>7 DEF Request
<1>f. /\ q.pc = req[r].pc
      /\ q.i = req[r].i - 1
      /\ q.buffer = Append(req[r].buffer, hook)
      /\ q.ctxLogs = req[r].ctxLogs
      /\ q.answer = req[r].answer
      /\ q.stream = req[r].stream
      /\ q.plugins = req[r].plugins
      /\ q.deferred = req[r].deferred
      /\ q.slot = req[r].slot
      /\ q.captured = req[r].captured
      /\ q.taken = req[r].taken
  BY <1>1, <1>2 DEF Request, StreamHook
<1> HIDE DEF q
<1>9. Good(q, Append(ran[r], hook), flushes[r], attached[r])
  <2>b. ran[r] = req[r].captured \o req[r].buffer
    BY <1>1 DEF StreamHook, Good, InStream
  <2>c. Append(req[r].captured \o req[r].buffer, hook)
          = req[r].captured \o Append(req[r].buffer, hook)
    BY <1>1, <1>3, AppendInside
  <2>d. Len(ran[r]) + 1 = 2 * Len(req[r].plugins) - (req[r].i - 1)
    BY <1>1, <1>2
  <2>a. /\ Append(ran[r], hook) = req[r].captured \o Append(req[r].buffer, hook)
        /\ Len(ran[r]) + 1 = 2 * Len(req[r].plugins) - (req[r].i - 1)
    BY <2>b, <2>c, <2>d
  <2>1. InStream(q, Append(ran[r], hook))
    BY <1>1, <1>2, <1>7, <1>f, <2>a DEF Good, InStream, StreamHook
  <2>2. Arrived(q, Append(ran[r], hook)) /\ InFront(q, Append(ran[r], hook))
        /\ AtHandler(q, Append(ran[r], hook))
        /\ Behind(q, Append(ran[r], hook)) /\ Leaving(q, Append(ran[r], hook))
    BY <1>1, <1>f DEF StreamHook, Good, Streams, Before, Arrived, InFront,
       AtHandler, Behind, Leaving, Stored, InStream
  <2>3. Streams(q)
    BY <1>1, <1>f DEF StreamHook, Good, Streams, InFront, Before
  <2>4. Stored(q, Append(ran[r], hook))
    BY <1>1, <1>f DEF StreamHook, Good, InFront, Behind, InStream, Stored, Before
  <2>5. Leaving(q, Append(ran[r], hook))
    BY <1>1, <1>f DEF StreamHook, Good, Streams, InFront, Behind, InStream,
       Leaving, Before
  <2>6. Untouched(q, flushes[r], attached[r])
        /\ Logged(q, Append(ran[r], hook), flushes[r], attached[r])
    BY <1>1, <1>f DEF StreamHook, Good, Untouched, Logged, InFront, Behind, Before
  <2>7. Nesting(q, Append(ran[r], hook))
    BY <1>1, <1>2, <1>5, <1>7, <1>f DEF StreamHook, Good, Nesting, InFront,
       Behind, Streams, Before
  <2> QED
    BY <2>1, <2>2, <2>3, <2>4, <2>5, <2>6, <2>7 DEF Good
<1> QED
  BY <1>3, <1>6, <1>8, <1>9, HookStep

LEMMA UnwindStep ==
    ASSUME IInv, NEW r \in Requests, Unwind(r)
    PROVE  IInv'
<1>1. /\ req[r] \in Request /\ ran[r] \in Seq(Hook)
      /\ flushes[r] \in Nat /\ attached[r] \in Seq(Hook)
      /\ Good(req[r], ran[r], flushes[r], attached[r])
      /\ req[r].plugins \in Seq(Plugins) /\ Len(req[r].plugins) \in Nat
      /\ req[r].buffer \in Seq(Hook) /\ req[r].ctxLogs \in Seq(Hook)
      /\ req[r].captured \in Seq(Hook)
  BY Known
<1> DEFINE q == [req[r] EXCEPT !.pc = "done"]
           logs == req[r].ctxLogs
<1>2. q \in Request /\ logs \in Seq(Hook)
  BY <1>1, Joined DEF Request
<1>3. Becomes(r, q) /\ UNCHANGED <<server, ran>>
  BY DEF Unwind
<1>4. Good(q, ran[r], flushes[r], attached[r])
  BY <1>1 DEF Request, Unwind, Good, Arrived, InFront, AtHandler, Behind,
     Leaving, Streams, Stored, InStream, Untouched, Nesting, Logged, Before
<1>5. CASE req[r].deferred
  <2>1. UNCHANGED <<server, traces, ran>>
    BY <1>3, <1>5 DEF Unwind, server
  <2> HIDE DEF q
  <2> QED
    BY <1>2, <1>3, <1>4, <2>1, QuietStep
<1>6. CASE ~req[r].deferred
  <2>1. /\ flushes[r] = 0 /\ attached[r] = <<>> /\ ran[r] = logs /\ Before(req[r])
    BY <1>1, <1>6 DEF Unwind, Good, Untouched, Leaving, Streams, Before
  <2>2. attached[r] \o logs = ran[r] /\ flushes[r] + 1 = 1
    BY <1>1, <2>1, Joined
  <2>a. q.pc = "done" /\ q.stream = req[r].stream /\ q.stream = "none"
    BY <1>1, <2>1 DEF Request, Before
  <2>b. Untouched(q, 1, ran[r]) /\ Logged(q, ran[r], 1, ran[r])
    BY <2>a DEF Untouched, Logged, Before
  <2>3. Good(q, ran[r], 1, ran[r])
    BY <1>4, <2>b DEF Good
  <2>4. Complete(r, logs)
    BY <1>6 DEF Unwind
  <2> HIDE DEF q, logs
  <2> QED
    BY <1>2, <1>3, <1>4, <2>2, <2>3, <2>4, CompleteStep
<1> QED
  BY <1>5, <1>6

LEMMA StreamCompletesStep ==
    ASSUME IInv, NEW r \in Requests, StreamCompletes(r)
    PROVE  IInv'
<1>1. /\ req[r] \in Request /\ ran[r] \in Seq(Hook)
      /\ flushes[r] \in Nat /\ attached[r] \in Seq(Hook)
      /\ Good(req[r], ran[r], flushes[r], attached[r])
      /\ req[r].plugins \in Seq(Plugins) /\ Len(req[r].plugins) \in Nat
      /\ req[r].buffer \in Seq(Hook) /\ req[r].ctxLogs \in Seq(Hook)
      /\ req[r].captured \in Seq(Hook)
  BY Known
<1> DEFINE q == [req[r] EXCEPT !.stream = "ended"]
           logs == IF req[r].taken THEN req[r].captured ELSE <<>>
<1>2. q \in Request /\ logs \in Seq(Hook)
  BY <1>1, Joined DEF Request
<1>3. Becomes(r, q) /\ UNCHANGED <<server, ran>>
  BY DEF StreamCompletes
<1>4. Good(q, ran[r], flushes[r], attached[r])
  BY <1>1 DEF Request, StreamCompletes, Good, Arrived, InFront, AtHandler, Behind,
     Leaving, Streams, Stored, InStream, Untouched, Nesting, Logged, Before
<1>5. /\ flushes[r] = 0 /\ attached[r] = <<>> /\ ~Before(req[r])
      /\ logs = IF req[r].taken THEN ran[r] ELSE <<>>
  BY <1>1 DEF StreamCompletes, Good, Untouched, InStream, Before
<1>6. attached[r] \o logs = logs /\ flushes[r] + 1 = 1
  BY <1>2, <1>5, Joined
<1>7. Good(q, ran[r], 1, logs)
  BY <1>1, <1>5 DEF Request, StreamCompletes, Good, Arrived, InFront, AtHandler,
     Behind,
     Leaving, Streams, Stored, InStream, Untouched, Nesting, Logged, Before
<1>8. Complete(r, logs)
  BY DEF StreamCompletes
<1> HIDE DEF q, logs
<1> QED
  BY <1>2, <1>3, <1>4, <1>6, <1>7, <1>8, CompleteStep

LEMMA TraceStep ==
    ASSUME IInv, NEW r \in Requests, Trace(r)
    PROVE  IInv'
<1>1. /\ req[r] \in Request /\ ran[r] \in Seq(Hook)
      /\ flushes[r] \in Nat /\ attached[r] \in Seq(Hook)
      /\ Good(req[r], ran[r], flushes[r], attached[r])
      /\ req[r].plugins \in Seq(Plugins) /\ Len(req[r].plugins) \in Nat
      /\ req[r].buffer \in Seq(Hook) /\ req[r].ctxLogs \in Seq(Hook)
      /\ req[r].captured \in Seq(Hook)
  BY Known
<1> DEFINE q == [req[r] EXCEPT !.pc = "intercept", !.tracer = tracer]
<1>2. q \in Request
  BY <1>1 DEF Request, IInv, Typed
<1>3. Good(q, ran[r], flushes[r], attached[r])
  BY <1>1 DEF Request, Trace, Good, Arrived, InFront, AtHandler, Behind,
     Leaving, Streams, Stored, InStream, Untouched, Nesting, Logged, Before
<1>4. Becomes(r, q) /\ UNCHANGED <<server, attached, flushes, ran>>
  BY DEF Trace
<1>5. open' \in [Tracers -> SUBSET Requests]
  BY DEF Trace, IInv, Typed
<1> HIDE DEF q
<1> QED
  BY <1>2, <1>3, <1>4, <1>5, OneRequest DEF IInv, Typed, server

-----------------------------------------------------------------------------
LEMMA Starts == Init => IInv
<1> SUFFICES ASSUME Init PROVE IInv
  OBVIOUS
<1>1. IdleRequest \in Request
  BY Joined DEF IdleRequest, Request
<1>2. Typed
  BY <1>1, Joined DEF Init, Typed
<1>3. Good(IdleRequest, <<>>, 0, <<>>)
  BY DEF IdleRequest, Nests, Good, Arrived, InFront, AtHandler, Behind,
     Leaving, Streams, Stored, InStream, Untouched, Nesting, Logged, Before
<1>4. \A r \in Requests : GoodOne(r)
  BY <1>3 DEF Init, GoodOne
<1> QED
  BY <1>2, <1>4 DEF IInv

LEMMA Steps == IInv /\ [Next]_vars => IInv'
<1> SUFFICES ASSUME IInv, [Next]_vars PROVE IInv'
  OBVIOUS
<1>1. CASE UNCHANGED vars
  BY <1>1 DEF vars, IInv, Typed, GoodOne
<1>2. ASSUME NEW r \in Requests, Trace(r) \/ Recycle(r) PROVE IInv'
  BY <1>2, TraceStep, RecycleStep
<1>3. ASSUME NEW r \in Requests, Served(r) PROVE IInv'
  BY <1>3, InterceptStep, PreHookStep, PreHookStopsStep, PreHooksDoneStep,
     HandleStep, HandleStreamStep, SkipPostHooksStep, StoreCompleterStep,
     StartPostHooksStep, PostHookStep, PostHooksDoneStep, UnwindStep DEF Served
<1>4. ASSUME NEW r \in Requests, Streamed(r) PROVE IInv'
  BY <1>4, StreamEndsStep, StreamHookStep, StreamHooksDoneStep,
     StreamCompletesStep DEF Streamed
<1>5. ASSUME NEW t \in Tracers \cup {None}, SetTracer(t) PROVE IInv'
  BY <1>5 DEF SetTracer, IInv, Typed, GoodOne, traces
<1>6. ASSUME NEW list \in PluginLists, Reload(list) PROVE IInv'
  BY <1>6 DEF Reload, IInv, Typed, GoodOne, traces
<1> QED
  BY <1>1, <1>2, <1>3, <1>4, <1>5, <1>6 DEF Next

\* In every reachable state each request has run the hooks its place says and
\* their logs are where it says.
THEOREM Invariant == Spec => []IInv
<1>1. IInv /\ [Next]_vars => IInv'
  BY Steps
<1> QED
  BY Starts, <1>1, PTL DEF Spec

\* Type correctness, and the loops over the post hooks stay inside the list.
THEOREM TypeCorrect == Spec => []TypeOK
<1>1. IInv => TypeOK
  BY DEF IInv, Typed, TypeOK, GoodOne, Good, Behind, InStream
<1> QED
  BY <1>1, Invariant, PTL

\* Hooks nest around the handler (runTransportPostHooks walks the list of
\* the pre hooks backwards), for lists of any length and any reloads.
THEOREM HooksNestHolds == Spec => []HooksNest
<1>1. IInv => HooksNest
  BY DEF IInv, HooksNest, GoodOne, Good, Nesting, Nests
<1> QED
  BY <1>1, Invariant, PTL

\* The log of every hook that ran reaches the trace before it is completed,
\* also after the context of the request has been recycled.
THEOREM LogsReachTraceHolds == Spec => []LogsReachTrace
<1>1. IInv => LogsReachTrace
  BY DEF IInv, LogsReachTrace, GoodOne, Good, Logged, Before
<1> QED
  BY <1>1, Invariant, PTL

\* The deferred function of the middleware and the goroutine of the stream
\* never both complete a trace, and neither does while hooks run.
THEOREM CompletedOnceHolds == Spec => []CompletedOnce
<1>1. IInv => CompletedOnce
  BY DEF IInv, CompletedOnce, GoodOne, Good, Untouched, Arrived, InFront, Behind,
     Before
<1> QED
  BY <1>1, Invariant, PTL

-----------------------------------------------------------------------------
(* The promise of HookedRequest.  The simulation needs to know, besides the *)
(* invariant, who has answered at each place of a request.                 *)

Settled(q) ==
    /\ q.pc \in {"idle", "intercept", "pre"} => q.answer = "none"
    /\ q.pc = "handler" => q.answer \in {"none", "conflict"}
    /\ q.pc \in {"after", "post"} => q.answer = "handler"
    /\ q.pc \in {"unwind", "done", "recycled"} => q.answer \in {"plugin", "handler"}
    /\ q.stream # "none" => q.answer = "handler"

AllSettled == \A r \in Requests : Settled(req[r])

LEMMA SettledStep ==
    ASSUME IInv, AllSettled, NEW r \in Requests, NEW q, Becomes(r, q), Settled(q)
    PROVE  AllSettled'
BY DEF IInv, Typed, Becomes, AllSettled

LEMMA SettledNext == IInv /\ AllSettled /\ [Next]_vars => AllSettled'
<1> SUFFICES ASSUME IInv, AllSettled, [Next]_vars PROVE AllSettled'
  OBVIOUS
<1>0. ASSUME NEW r \in Requests
      PROVE  /\ req[r] \in Request /\ Settled(req[r])
             /\ req[r].pc = "handler" => req[r].stream = "none"
  BY Known DEF AllSettled, Good, AtHandler, Before
<1>1. CASE UNCHANGED vars
  BY <1>1 DEF AllSettled, vars
<1>2. ASSUME NEW r \in Requests, Trace(r) \/ Recycle(r) PROVE AllSettled'
  BY <1>0, <1>2, SettledStep DEF Trace, Recycle, Settled, Request
<1>3. ASSUME NEW r \in Requests,
             \/ Intercept(r) \/ PreHookStops(r) \/ PreHooksDone(r)
             \/ Handle(r) \/ HandleStream(r) \/ SkipPostHooks(r)
      PROVE  AllSettled'
  BY <1>0, <1>3, SettledStep
  DEF Intercept, PreHookStops, PreHooksDone, Handle, HandleStream,
      SkipPostHooks, Settled, Request
<1>4. ASSUME NEW r \in Requests, PreHook(r) \/ PostHook(r) \/ StreamHook(r)
      PROVE  AllSettled'
  BY <1>0, <1>4, SettledStep
  DEF PreHook, PostHook, StreamHook, RunHook, Settled, Request
<1>5. ASSUME NEW r \in Requests,
             \/ StoreCompleter(r) \/ StartPostHooks(r) \/ PostHooksDone(r)
             \/ Unwind(r)
      PROVE  AllSettled'
  BY <1>0, <1>5, SettledStep
  DEF StoreCompleter, StartPostHooks, PostHooksDone, Unwind, Settled, Request
<1>6. ASSUME NEW r \in Requests,
             StreamEnds(r) \/ StreamHooksDone(r) \/ StreamCompletes(r)
      PROVE  AllSettled'
  BY <1>0, <1>6, SettledStep
  DEF StreamEnds, StreamHooksDone, StreamCompletes, Settled, Request
<1>7. ASSUME \/ \E t \in Tracers \cup {None} : SetTracer(t)
             \/ \E list \in PluginLists : Reload(list)
      PROVE  AllSettled'
  BY <1>7 DEF SetTracer, Reload, AllSettled
<1> QED
  BY <1>1, <1>2, <1>3, <1>4, <1>5, <1>6, <1>7 DEF Next, Served, Streamed

LEMMA AlwaysSettled == Spec => []AllSettled
<1>1. Settled(IdleRequest)
  BY DEF Settled, IdleRequest
<1>2. Init => AllSettled
  BY <1>1 DEF Init, AllSettled
<1> QED
  BY <1>2, SettledNext, Invariant, PTL DEF Spec

\* What HookedRequest sees of a state.
Lists == [r \in Requests |-> req[r].plugins]
OutcomeOf(q) ==
    CASE q.answer = "handler" -> IF q.stream = "none" THEN "handler" ELSE "stream"
      [] q.answer = "plugin" -> "plugin"
      [] OTHER -> "none"
Outcomes == [r \in Requests |-> Outcome(r)]

LEMMA OutcomesAre ==
    ASSUME NEW r \in Requests
    PROVE  Lists[r] = req[r].plugins /\ Outcomes[r] = OutcomeOf(req[r])
BY DEF Lists, Outcomes, Outcome, OutcomeOf

LEMMA Seen ==
    ASSUME IInv, NEW r \in Requests, NEW q, Becomes(r, q)
    PROVE  /\ Lists' = [Lists EXCEPT ![r] = q.plugins]
           /\ Outcomes' = [Outcomes EXCEPT ![r] = OutcomeOf(q)]
<1>1. \A s \in Requests : req'[s] = IF s = r THEN q ELSE req[s]
  BY DEF IInv, Typed, Becomes
<1>2. \A s \in Requests : Outcome(s)' = IF s = r THEN OutcomeOf(q) ELSE Outcome(s)
  BY <1>1 DEF Outcome, OutcomeOf
<1>3. Lists' = [Lists EXCEPT ![r] = q.plugins]
  BY <1>1 DEF Lists
<1>4. Outcomes' = [Outcomes EXCEPT ![r] = OutcomeOf(q)]
  BY <1>2 DEF Outcomes
<1> QED
  BY <1>3, <1>4

\* A step that leaves list and outcome of its request alone.
LEMMA SameView ==
    ASSUME IInv, NEW r \in Requests, NEW q, Becomes(r, q),
           q.plugins = req[r].plugins, OutcomeOf(q) = OutcomeOf(req[r])
    PROVE  Lists' = Lists /\ Outcomes' = Outcomes
<1>1. /\ Lists[r] = q.plugins /\ Outcomes[r] = OutcomeOf(q)
  BY OutcomesAre
<1>2. /\ Lists' = [Lists EXCEPT ![r] = Lists[r]]
      /\ Outcomes' = [Outcomes EXCEPT ![r] = Outcomes[r]]
  BY <1>1, Seen
<1> QED
  BY <1>2 DEF Lists, Outcomes

\* The steps HookedRequest knows nothing of.
LEMMA Unseen ==
    ASSUME Lists' = Lists, Outcomes' = Outcomes, UNCHANGED <<ran, flushes, attached>>
    PROVE  UNCHANGED Rounds!vars
BY DEF Rounds!vars, Lists, Outcomes

\* The trace of an answered request is completed, or is not in the store.
LEMMA Completes ==
    ASSUME IInv, NEW r \in Requests, NEW logs, Complete(r, logs),
           Lists' = Lists, Outcomes' = Outcomes, ran' = ran,
           Outcomes[r] # "none", flushes[r] = 0,
           logs = ran[r] \/ (Outcomes[r] = "stream" /\ logs = <<>>)
    PROVE  Rounds!Next \/ UNCHANGED Rounds!vars
<1>1. attached[r] = <<>> /\ ran[r] \in Seq(Hook)
  BY Known DEF Good, Untouched
<1>2. attached[r] \o logs = logs
  BY <1>1, Joined
<1>3. CASE UNCHANGED traces
  BY <1>3, Unseen DEF traces
<1>4. CASE /\ attached' = [attached EXCEPT ![r] = attached[r] \o logs]
           /\ flushes' = [flushes EXCEPT ![r] = flushes[r] + 1]
  <2>1. attached' = [attached EXCEPT ![r] = logs] /\ flushes' = [flushes EXCEPT ![r] = 1]
    BY <1>2, <1>4
  <2>2. Rounds!Record(r, logs)
    BY <2>1 DEF Rounds!Record, Lists, Outcomes
  <2>3. logs \in {ran[r], <<>>}
    OBVIOUS
  <2> QED
    BY <2>2, <2>3 DEF Rounds!Next
<1> QED
  BY <1>3, <1>4 DEF Complete

\* The next post hook, run by the middleware or by the goroutine.
LEMMA PostHooks ==
    ASSUME IInv, AllSettled, NEW r \in Requests, PostHook(r) \/ StreamHook(r)
    PROVE  Rounds!Next
<1> DEFINE hook == <<"post", req[r].plugins[req[r].i]>>
           q == [[req[r] EXCEPT !.i = req[r].i - 1] EXCEPT
                     !.buffer = Append(req[r].buffer, hook)]
           n == Len(req[r].plugins)
<1>1. /\ req[r] \in Request /\ n \in Nat /\ Len(ran[r]) \in Nat /\ req[r].i \in Nat
      /\ Good(req[r], ran[r], flushes[r], attached[r]) /\ Settled(req[r])
  BY Known DEF AllSettled, Request
<1>2. /\ req[r].i > 0 /\ req[r].i <= n /\ Len(ran[r]) = 2 * n - req[r].i
      /\ req[r].answer = "handler" /\ flushes[r] = 0
  BY <1>1 DEF PostHook, StreamHook, Good, Behind, InStream, Untouched, Settled, Before
<1>3. 2 * n - Len(ran[r]) = req[r].i /\ Len(ran[r]) < 2 * n
  BY <1>1, <1>2
<1>4. Outcomes[r] \in {"handler", "stream"} /\ Lists[r] = req[r].plugins
  BY <1>2, OutcomesAre DEF OutcomeOf
<1>5. /\ Becomes(r, q) /\ ran' = [ran EXCEPT ![r] = Append(ran[r], hook)]
      /\ UNCHANGED <<flushes, attached>>
  BY DEF PostHook, StreamHook, RunHook, traces
<1>6. q.plugins = req[r].plugins /\ OutcomeOf(q) = OutcomeOf(req[r])
  BY <1>1 DEF Request, OutcomeOf
<1>7. Lists' = Lists /\ Outcomes' = Outcomes
  BY <1>5, <1>6, SameView
<1>8. Rounds!PostHook(r)
  <2>1. hook = <<"post", Lists[r][2 * Len(Lists[r]) - Len(ran[r])]>>
    BY <1>3, <1>4
  <2>2. Len(ran[r]) < 2 * Len(Lists[r])
    BY <1>3, <1>4
  <2> HIDE DEF hook, q, n
  <2> QED
    BY <1>2, <1>4, <1>5, <1>7, <2>1, <2>2
    DEF Rounds!PostHook, Rounds!Run, Lists, Outcomes
<1> QED
  BY <1>8 DEF Rounds!Next

\* The next pre hook, whether it lets the request pass or not.
LEMMA PreHooks ==
    ASSUME IInv, AllSettled, NEW r \in Requests, PreHook(r) \/ PreHookStops(r)
    PROVE  Rounds!Next
<1> DEFINE hook == <<"pre", req[r].plugins[req[r].i]>>
<1>1. /\ req[r] \in Request /\ Len(req[r].plugins) \in Nat /\ Len(ran[r]) \in Nat
      /\ Good(req[r], ran[r], flushes[r], attached[r]) /\ Settled(req[r])
  BY Known DEF AllSettled
<1>2. /\ req[r].i = Len(ran[r]) + 1 /\ Len(ran[r]) < Len(req[r].plugins)
      /\ req[r].answer = "none"
  BY <1>1 DEF PreHook, PreHookStops, Good, InFront, Settled
<1>3. Outcomes[r] = "none" /\ Lists[r] = req[r].plugins
  BY <1>2, OutcomesAre DEF OutcomeOf
<1>4. PICK q : /\ Becomes(r, q) /\ q.plugins = req[r].plugins
               /\ OutcomeOf(q) \in {"none", "plugin"}
  <2>1. CASE PreHook(r)
    <3> DEFINE q == [[req[r] EXCEPT !.i = req[r].i + 1] EXCEPT
                         !.buffer = Append(req[r].buffer, hook)]
    <3>1. q.plugins = req[r].plugins /\ q.answer = "none"
      BY <1>1, <1>2 DEF Request
    <3>2. Becomes(r, q)
      BY <2>1 DEF PreHook, RunHook
    <3>3. OutcomeOf(q) = "none"
      BY <3>1 DEF OutcomeOf
    <3> QED
      BY <3>1, <3>2, <3>3
  <2>2. CASE PreHookStops(r)
    <3> DEFINE q == [req[r] EXCEPT !.pc = "unwind", !.answer = "plugin",
                         !.buffer = <<>>, !.ctxLogs = Append(req[r].buffer, hook)]
    <3>1. q.plugins = req[r].plugins /\ q.answer = "plugin"
      BY <1>1 DEF Request
    <3>2. Becomes(r, q)
      BY <2>2 DEF PreHookStops
    <3>3. OutcomeOf(q) = "plugin"
      BY <3>1 DEF OutcomeOf
    <3> QED
      BY <3>1, <3>2, <3>3
  <2> QED
    BY <2>1, <2>2
<1>5. /\ ran' = [ran EXCEPT ![r] = Append(ran[r], hook)]
      /\ UNCHANGED <<flushes, attached>>
  BY DEF PreHook, PreHookStops, RunHook, traces
<1>6. /\ Lists' = [Lists EXCEPT ![r] = Lists[r]]
      /\ Outcomes' = [Outcomes EXCEPT ![r] = OutcomeOf(q)]
  BY <1>3, <1>4, Seen
<1>7. Lists' = Lists
  BY <1>6 DEF Lists
<1>8. Rounds!PreHook(r, OutcomeOf(q))
  <2>1. hook = <<"pre", Lists[r][Len(ran[r]) + 1]>> /\ Len(ran[r]) < Len(Lists[r])
    BY <1>2, <1>3
  <2> HIDE DEF hook
  <2> QED
    BY <1>3, <1>5, <1>6, <1>7, <2>1
    DEF Rounds!PreHook, Rounds!Run, Lists, Outcomes
<1> QED
  BY <1>4, <1>8 DEF Rounds!Next

\* The handler answers, after all pre hooks.
LEMMA Answers ==
    ASSUME IInv, AllSettled, NEW r \in Requests, Handle(r) \/ HandleStream(r)
    PROVE  Rounds!Next
<1>1. /\ req[r] \in Request /\ Settled(req[r])
      /\ Good(req[r], ran[r], flushes[r], attached[r])
  BY Known DEF AllSettled
<1>2. /\ Len(ran[r]) = Len(req[r].plugins) /\ req[r].stream = "none"
      /\ req[r].answer \in {"none", "conflict"}
  BY <1>1 DEF Handle, HandleStream, Good, AtHandler, Settled, Before
<1>3. Outcomes[r] = "none" /\ Lists[r] = req[r].plugins
  BY <1>2, OutcomesAre DEF OutcomeOf
<1>4. PICK q : /\ Becomes(r, q) /\ q.plugins = req[r].plugins
               /\ OutcomeOf(q) \in {"handler", "stream"}
  <2>1. CASE Handle(r)
    <3> DEFINE q == [req[r] EXCEPT !.pc = "after", !.answer = "handler"]
    <3>1. q.plugins = req[r].plugins /\ q.answer = "handler"
      BY <1>1 DEF Request
    <3>2. Becomes(r, q)
      BY <2>1 DEF Handle
    <3>3. OutcomeOf(q) \in {"handler", "stream"}
      BY <3>1 DEF OutcomeOf
    <3> QED
      BY <3>1, <3>2, <3>3
  <2>2. CASE HandleStream(r)
    <3>1. PICK slot \in {"absent", "empty"} :
              Becomes(r, [req[r] EXCEPT !.pc = "after", !.answer = "handler",
                                        !.deferred = TRUE, !.slot = slot,
                                        !.stream = "running"])
      BY <2>2 DEF HandleStream
    <3> DEFINE q == [req[r] EXCEPT !.pc = "after", !.answer = "handler",
                                   !.deferred = TRUE, !.slot = slot,
                                   !.stream = "running"]
    <3>2. q.plugins = req[r].plugins /\ q.answer = "handler"
      BY <1>1 DEF Request
    <3>3. OutcomeOf(q) \in {"handler", "stream"}
      BY <3>2 DEF OutcomeOf
    <3> QED
      BY <3>1, <3>2, <3>3
  <2> QED
    BY <2>1, <2>2
<1>5. UNCHANGED <<ran, flushes, attached>>
  BY DEF Handle, HandleStream, traces
<1>6. /\ Lists' = [Lists EXCEPT ![r] = Lists[r]]
      /\ Outcomes' = [Outcomes EXCEPT ![r] = OutcomeOf(q)]
  BY <1>3, <1>4, Seen
<1>7. Lists' = Lists
  BY <1>6 DEF Lists
<1>8. Rounds!Answer(r, OutcomeOf(q))
  BY <1>2, <1>3, <1>5, <1>6, <1>7 DEF Rounds!Answer, Lists, Outcomes
<1> QED
  BY <1>4, <1>8 DEF Rounds!Next

\* The list is pinned; without plugins there is nothing to meet.
LEMMA Meets ==
    ASSUME IInv, AllSettled, NEW r \in Requests, Intercept(r)
    PROVE  Rounds!Next
<1> DEFINE q == [req[r] EXCEPT !.pc = IF loaded = <<>> THEN "handler" ELSE "pre",
                               !.plugins = loaded]
<1>1. /\ req[r] \in Request /\ req[r].plugins = <<>> /\ req[r].answer = "none"
      /\ loaded \in PluginLists
  BY Known DEF Intercept, IInv, Typed, Good, Arrived
<1>2. Outcomes[r] = "none" /\ Lists[r] = <<>>
  BY <1>1, OutcomesAre DEF OutcomeOf
<1>3. q.plugins = loaded /\ q.answer = "none"
  BY <1>1 DEF Request
<1>4. OutcomeOf(q) = "none"
  BY <1>3 DEF OutcomeOf
<1>5. Becomes(r, q) /\ UNCHANGED <<ran, flushes, attached>>
  BY DEF Intercept, traces
<1> HIDE DEF q
<1>6. /\ Lists' = [Lists EXCEPT ![r] = loaded]
      /\ Outcomes' = [Outcomes EXCEPT ![r] = Outcomes[r]]
  BY <1>2, <1>3, <1>4, <1>5, Seen
<1>7. Outcomes' = Outcomes
  BY <1>6 DEF Outcomes
<1>8. PICK plugins \in PluginLists : plugins = loaded
  BY <1>1
<1>9. Rounds!Meet(r, plugins)
  BY <1>2, <1>5, <1>6, <1>7, <1>8 DEF Rounds!Meet, Lists, Outcomes
<1> QED
  BY <1>9 DEF Rounds!Next

\* The deferred function of the middleware: the trace of a streamed answer is
\* left alone, that of any other is recorded with all its hooks.
LEMMA Unwinds ==
    ASSUME IInv, AllSettled, NEW r \in Requests, Unwind(r)
    PROVE  Rounds!Next \/ UNCHANGED Rounds!vars
<1> DEFINE q == [req[r] EXCEPT !.pc = "done"]
<1>1. /\ req[r] \in Request /\ Settled(req[r])
      /\ Good(req[r], ran[r], flushes[r], attached[r])
  BY Known DEF AllSettled
<1>2. q.plugins = req[r].plugins /\ OutcomeOf(q) = OutcomeOf(req[r])
  BY <1>1 DEF Request, OutcomeOf
<1>3. Becomes(r, q) /\ ran' = ran
  BY DEF Unwind
<1>4. Lists' = Lists /\ Outcomes' = Outcomes
  BY <1>2, <1>3, SameView
<1>5. CASE req[r].deferred
  <2>1. UNCHANGED <<flushes, attached>>
    BY <1>5 DEF Unwind, traces
  <2> QED
    BY <1>3, <1>4, <2>1, Unseen
<1>6. CASE ~req[r].deferred
  <2>1. /\ req[r].answer \in {"plugin", "handler"} /\ flushes[r] = 0
        /\ req[r].ctxLogs = ran[r]
    BY <1>1, <1>6
    DEF Unwind, Good, Settled, Streams, Leaving, Untouched, Before
  <2>2. Outcomes[r] # "none"
    BY <2>1, OutcomesAre DEF OutcomeOf
  <2>3. Complete(r, req[r].ctxLogs)
    BY <1>6 DEF Unwind
  <2> QED
    BY <1>3, <1>4, <2>1, <2>2, <2>3, Completes
<1> QED
  BY <1>5, <1>6

\* The trace completer of a stream.
LEMMA StreamRecords ==
    ASSUME IInv, AllSettled, NEW r \in Requests, StreamCompletes(r)
    PROVE  Rounds!Next \/ UNCHANGED Rounds!vars
<1> DEFINE q == [req[r] EXCEPT !.stream = "ended"]
           logs == IF req[r].taken THEN req[r].captured ELSE <<>>
<1>1. /\ req[r] \in Request /\ Settled(req[r]) /\ req[r].stream = "complete"
      /\ Good(req[r], ran[r], flushes[r], attached[r])
  BY Known DEF AllSettled, StreamCompletes
<1>2. /\ q.plugins = req[r].plugins /\ q.answer = req[r].answer
      /\ q.stream = "ended"
  BY <1>1 DEF Request
<1>3. OutcomeOf(q) = OutcomeOf(req[r]) /\ OutcomeOf(req[r]) = "stream"
  BY <1>1, <1>2 DEF OutcomeOf, Settled
<1>4. Becomes(r, q) /\ ran' = ran
  BY DEF StreamCompletes
<1>5. Lists' = Lists /\ Outcomes' = Outcomes /\ Outcomes[r] = "stream"
  BY <1>2, <1>3, <1>4, SameView, OutcomesAre
<1>6. flushes[r] = 0 /\ logs \in {ran[r], <<>>}
  BY <1>1 DEF Good, Untouched, InStream
<1>7. Complete(r, logs)
  BY DEF StreamCompletes
<1> HIDE DEF q, logs
<1> QED
  BY <1>4, <1>5, <1>6, <1>7, Completes

\* Contexts, slots and loops are no business of HookedRequest.
LEMMA InnerStep ==
    ASSUME IInv, NEW r \in Requests, NEW q, Becomes(r, q),
           q.plugins = req[r].plugins, OutcomeOf(q) = OutcomeOf(req[r]),
           UNCHANGED <<ran, flushes, attached>>
    PROVE  UNCHANGED Rounds!vars
BY SameView, Unseen

LEMMA SameAnswer ==
    ASSUME NEW q, NEW p, q.answer = p.answer, q.stream = "none" <=> p.stream = "none"
    PROVE  OutcomeOf(q) = OutcomeOf(p)
BY DEF OutcomeOf

LEMMA InnerSteps ==
    ASSUME IInv, AllSettled, NEW r \in Requests,
           \/ Trace(r) \/ Recycle(r) \/ PreHooksDone(r) \/ SkipPostHooks(r)
           \/ StoreCompleter(r) \/ StartPostHooks(r) \/ PostHooksDone(r)
           \/ StreamEnds(r) \/ StreamHooksDone(r)
    PROVE  UNCHANGED Rounds!vars
<1>1. req[r] \in Request /\ Settled(req[r])
  BY Known DEF AllSettled
<1>2. UNCHANGED <<ran, flushes, attached>>
  BY DEF Trace, Recycle, PreHooksDone, SkipPostHooks, StoreCompleter,
         StartPostHooks, PostHooksDone, StreamEnds, StreamHooksDone, traces
<1>3. ASSUME NEW q, Becomes(r, q), q.plugins = req[r].plugins,
             q.answer = req[r].answer,
             q.stream = "none" <=> req[r].stream = "none"
      PROVE  UNCHANGED Rounds!vars
  BY <1>2, <1>3, SameAnswer, InnerStep
<1>4. CASE Trace(r) \/ Recycle(r)
  BY <1>1, <1>3, <1>4 DEF Trace, Recycle, Request
<1>5. CASE PreHooksDone(r)
  <2>1. PICK answer \in {"none", "conflict"} :
            Becomes(r, [req[r] EXCEPT !.pc = "handler", !.buffer = <<>>,
                            !.ctxLogs = req[r].buffer, !.answer = answer])
    BY <1>5 DEF PreHooksDone
  <2> DEFINE q == [req[r] EXCEPT !.pc = "handler", !.buffer = <<>>,
                            !.ctxLogs = req[r].buffer, !.answer = answer]
  <2>2. q.plugins = req[r].plugins /\ q.answer = answer
    BY <1>1 DEF Request
  <2>3. req[r].answer = "none"
    BY <1>1, <1>5 DEF PreHooksDone, Settled
  <2>4. OutcomeOf(q) = OutcomeOf(req[r])
    BY <2>2, <2>3 DEF OutcomeOf
  <2> HIDE DEF q
  <2> QED
    BY <1>2, <2>1, <2>2, <2>4, InnerStep DEF q
<1>6. CASE SkipPostHooks(r) \/ StoreCompleter(r) \/ StartPostHooks(r)
           \/ PostHooksDone(r)
  BY <1>1, <1>3, <1>6 DEF SkipPostHooks, StoreCompleter, StartPostHooks,
                          PostHooksDone, Request
<1>7. CASE StreamEnds(r) \/ StreamHooksDone(r)
  BY <1>1, <1>3, <1>7 DEF StreamEnds, StreamHooksDone, Request
<1> QED
  BY <1>4, <1>5, <1>6, <1>7

LEMMA Simulates ==
    ASSUME IInv, AllSettled, [Next]_vars
    PROVE  [Rounds!Next]_Rounds!vars
<1> DEFINE Goal == Rounds!Next \/ UNCHANGED Rounds!vars
<1> SUFFICES Goal
  OBVIOUS
<1>1. ASSUME UNCHANGED <<req, traces, ran>> PROVE Goal
  <2>1. Lists' = Lists /\ Outcomes' = Outcomes
    BY <1>1 DEF Lists, Outcomes, Outcome
  <2> QED
    BY <1>1, <2>1, Unseen DEF traces
<1>2. CASE UNCHANGED vars
  BY <1>1, <1>2 DEF vars, traces
<1>3. ASSUME \/ \E t \in Tracers \cup {None} : SetTracer(t)
             \/ \E list \in PluginLists : Reload(list)
      PROVE  Goal
  BY <1>1, <1>3 DEF SetTracer, Reload
<1>4. ASSUME NEW r \in Requests, Trace(r) \/ Served(r) \/ Streamed(r) \/ Recycle(r)
      PROVE  Goal
  BY <1>4, Meets, PreHooks, Answers, PostHooks, Unwinds, StreamRecords, InnerSteps
  DEF Served, Streamed
<1> QED
  BY <1>2, <1>3, <1>4 DEF Next

\* KeepsRounds holds for any number of requests and tracers and for plugin
\* lists of any length (middlewares.go).
THEOREM KeepsRoundsHolds == Spec => KeepsRounds
<1>1. Init => Rounds!Init
  BY DEF Init, Rounds!Init, Outcome, IdleRequest
<1> QED
  BY <1>1, Simulates, Invariant, AlwaysSettled, PTL DEF Spec, KeepsRounds, Rounds!Spec
=============================================================================

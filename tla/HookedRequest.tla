----------------------------- MODULE HookedRequest -----------------------------
(***************************************************************************)
(* What plugins and operators may rely on, without middlewares, contexts,  *)
(* slots and goroutines: a request meets one list of plugins, the hook of  *)
(* each in turn before its answer and in reverse behind it; a plugin may   *)
(* answer itself; and the request is recorded once, after its last hook,   *)
(* with every hook that ran or, if it was streamed, perhaps with none.     *)
(* TransportHooks implements it (TransportHooks!KeepsRounds).              *)
(***************************************************************************)
EXTENDS Naturals, Sequences

CONSTANTS Requests, PluginLists

VARIABLES
    list,      \* [Requests -> plugins the request meets]
    ran,       \* [Requests -> hooks that ran, in order]
    outcome,   \* [Requests -> "none", "plugin", "handler" or "stream"]
    recorded,  \* [Requests -> times it was recorded]
    record     \* [Requests -> hooks in its record]

vars == <<list, ran, outcome, recorded, record>>

Init ==
    /\ list = [r \in Requests |-> <<>>]
    /\ ran = [r \in Requests |-> <<>>]
    /\ outcome = [r \in Requests |-> "none"]
    /\ recorded = [r \in Requests |-> 0]
    /\ record = [r \in Requests |-> <<>>]

\* Whatever is loaded later, this is the list.
Meet(r, plugins) ==
    /\ list[r] = <<>> /\ outcome[r] = "none"
    /\ list' = [list EXCEPT ![r] = plugins]
    /\ UNCHANGED <<ran, outcome, recorded, record>>

Run(r, hook) == ran' = [ran EXCEPT ![r] = Append(ran[r], hook)]

PreHook(r, next) ==
    /\ outcome[r] = "none" /\ Len(ran[r]) < Len(list[r])
    /\ Run(r, <<"pre", list[r][Len(ran[r]) + 1]>>)
    /\ outcome' = [outcome EXCEPT ![r] = next]
    /\ UNCHANGED <<list, recorded, record>>

Answer(r, how) ==
    /\ outcome[r] = "none" /\ Len(ran[r]) = Len(list[r])
    /\ outcome' = [outcome EXCEPT ![r] = how]
    /\ UNCHANGED <<list, ran, recorded, record>>

PostHook(r) ==
    /\ outcome[r] \in {"handler", "stream"} /\ recorded[r] = 0
    /\ Len(ran[r]) < 2 * Len(list[r])
    /\ Run(r, <<"post", list[r][2 * Len(list[r]) - Len(ran[r])]>>)
    /\ UNCHANGED <<list, outcome, recorded, record>>

Record(r, hooks) ==
    /\ outcome[r] # "none" /\ recorded[r] = 0
    /\ hooks = ran[r] \/ (outcome[r] = "stream" /\ hooks = <<>>)
    /\ recorded' = [recorded EXCEPT ![r] = 1]
    /\ record' = [record EXCEPT ![r] = hooks]
    /\ UNCHANGED <<list, ran, outcome>>

Next == \E r \in Requests :
    \/ \E plugins \in PluginLists : Meet(r, plugins)
    \/ \E next \in {"none", "plugin"} : PreHook(r, next)
    \/ \E how \in {"handler", "stream"} : Answer(r, how)
    \/ PostHook(r)
    \/ \E hooks \in {ran[r], <<>>} : Record(r, hooks)

Spec == Init /\ [][Next]_vars
=============================================================================

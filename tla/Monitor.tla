------------------------------- MODULE Monitor -------------------------------
(***************************************************************************)
(* The web dashboard (observability/monitor/monitor.go, prometheus.go):    *)
(* SSE handlers with one bounded channel each, broadcast to all of them,   *)
(* the metrics loop, the registration of providers while it runs, the      *)
(* optional Prometheus server, and a Close that waits for every handler.   *)
(* A client may stop reading: the handler's write then blocks.             *)
(***************************************************************************)
EXTENDS Naturals, FiniteSets

CONSTANTS Clients,   \* SSE requests
          Buf,       \* capacity of a client's channel (64)
          MaxEvents, \* bound: broadcasts
          MaxTrackers, \* bound: RegisterTSNHealth calls
          MaxProm    \* bound: WithPrometheus calls

Readers == {"tick", "api"}   \* the two places that iterate m.tsnTrackers

VARIABLES
  ctx,       \* is m.ctx cancelled
  mclose,    \* Close: "no", "cancel", "prom", "shutdown", "returned"
  clients,   \* m.clients
  sse,       \* per request, [at, ch]: where its handler is, events in its channel
  stalled,   \* requests whose client has stopped reading
  events,    \* broadcasts so far
  loop,      \* metricsLoop: "wait" or "ended"
  trackers,  \* entries of m.tsnTrackers; 0: the map is nil
  iter,      \* per reader, is it iterating over the map it fetched under tsnMu
  fatal,     \* the runtime stopped the process: map iteration and map write
  proms,     \* Prometheus servers that are serving
  prom       \* m.promServer: 0 for nil

vars == <<ctx, mclose, clients, sse, stalled, events, loop, trackers, iter, fatal, proms, prom>>

Init ==
  /\ ctx = FALSE /\ mclose = "no" /\ clients = {} /\ stalled = {} /\ events = 0
  /\ sse = [c \in Clients |-> [at |-> "out", ch |-> 0]]
  /\ loop = "wait" /\ trackers = 0 /\ iter = [r \in Readers |-> FALSE] /\ fatal = FALSE
  /\ proms = {} /\ prom = 0

\* A request arrives while the server accepts; its handler registers a channel.
handleSSE(c) ==
  /\ sse[c].at = "out" /\ mclose \in {"no", "cancel", "prom"}
  /\ sse' = [sse EXCEPT ![c].at = "select"] /\ clients' = clients \cup {c}
  /\ UNCHANGED <<ctx, mclose, stalled, events, loop, trackers, iter, fatal, proms, prom>>

\* An event is written out: to a client that reads, at once.
SseEvent(c) ==
  /\ \/ sse[c].at = "select" /\ sse[c].ch > 0
        /\ sse' = [sse EXCEPT ![c] = [at |-> "write", ch |-> @.ch - 1]]
     \/ sse[c].at = "write" /\ c \notin stalled /\ sse' = [sse EXCEPT ![c].at = "select"]
  /\ UNCHANGED <<ctx, mclose, clients, stalled, events, loop, trackers, iter, fatal, proms, prom>>

\* (a bug for the checks: m.ctx not watched)
SseEndsDeaf(c) == sse[c].at = "select" /\ ctx /\ FALSE /\ UNCHANGED vars

\* The handler returns when the monitor's context ends; the deferred delete runs.
SseEnds(c) ==
  /\ sse[c].at = "select" /\ ctx
  /\ sse' = [sse EXCEPT ![c].at = "ended"] /\ clients' = clients \ {c}
  /\ UNCHANGED <<ctx, mclose, stalled, events, loop, trackers, iter, fatal, proms, prom>>

\* The client leaves: the request's context ends and a blocked write fails.
ClientLeaves(c) ==
  /\ sse[c].at \in {"select", "write"}
  /\ sse' = [sse EXCEPT ![c].at = "ended"] /\ clients' = clients \ {c}
  /\ UNCHANGED <<ctx, mclose, stalled, events, loop, trackers, iter, fatal, proms, prom>>

ClientStalls(c) ==
  /\ sse[c].at \in {"select", "write"} /\ c \notin stalled /\ stalled' = stalled \cup {c}
  /\ UNCHANGED <<ctx, mclose, clients, sse, events, loop, trackers, iter, fatal, proms, prom>>

\* Under the read lock, to every channel that has room.
Delivered ==
  [c \in Clients |-> IF c \in clients /\ sse[c].ch < Buf THEN [sse[c] EXCEPT !.ch = @ + 1] ELSE sse[c]]

\* Publish and PublishSafetyEvent, called by the application or by WatchSafety.
Publish ==
  /\ events < MaxEvents /\ events' = events + 1 /\ sse' = Delivered
  /\ UNCHANGED <<ctx, mclose, clients, stalled, loop, trackers, iter, fatal, proms, prom>>

\* metricsLoop: a tick broadcasts the snapshots and goes on to the TSN trackers.
tickMetrics ==
  /\ loop = "wait" /\ ~iter["tick"] /\ events < MaxEvents
  /\ events' = events + 1 /\ sse' = Delivered /\ iter' = [iter EXCEPT !["tick"] = trackers > 0]
  /\ UNCHANGED <<ctx, mclose, clients, stalled, loop, trackers, fatal, proms, prom>>

metricsLoopEnds ==
  /\ loop = "wait" /\ ~iter["tick"] /\ ctx /\ loop' = "ended"
  /\ UNCHANGED <<ctx, mclose, clients, sse, stalled, events, trackers, iter, fatal, proms, prom>>

\* GET /api/tsn fetches the map under the lock and iterates after it.
handleAPITSN ==
  /\ ~iter["api"] /\ mclose \in {"no", "cancel", "prom"}
  /\ iter' = [iter EXCEPT !["api"] = trackers > 0]
  /\ UNCHANGED <<ctx, mclose, clients, sse, stalled, events, loop, trackers, fatal, proms, prom>>

IterationEnds(r) ==
  /\ iter[r] /\ iter' = [iter EXCEPT ![r] = FALSE]
  /\ UNCHANGED <<ctx, mclose, clients, sse, stalled, events, loop, trackers, fatal, proms, prom>>

\* A write to the map under tsnMu.  A goroutine iterating over it at that moment
\* does so without the lock: the runtime may notice.
RegisterTSNHealth ==
  /\ trackers < MaxTrackers /\ trackers' = trackers + 1
  /\ fatal' \in {FALSE, \E r \in Readers : iter[r]}
  /\ UNCHANGED <<ctx, mclose, clients, sse, stalled, events, loop, iter, proms, prom>>

\* A second call replaces m.promServer; the first server goes on serving.
WithPrometheus ==
  /\ prom < MaxProm /\ prom' = prom + 1 /\ proms' = proms \cup {prom + 1}
  /\ UNCHANGED <<ctx, mclose, clients, sse, stalled, events, loop, trackers, iter, fatal>>

\* cancel, closePrometheus, and Shutdown, which waits for the handlers.
Close ==
  /\ \/ mclose = "no" /\ ctx' = TRUE /\ mclose' = "cancel" /\ UNCHANGED proms
     \/ mclose = "cancel" /\ proms' = proms \ {prom} /\ mclose' = "prom" /\ UNCHANGED ctx
     \/ mclose = "prom" /\ mclose' = "shutdown" /\ UNCHANGED <<ctx, proms>>
     \/ /\ mclose = "shutdown" /\ ~iter["api"] /\ \A c \in Clients : sse[c].at \in {"out", "ended"}
        /\ mclose' = "returned" /\ UNCHANGED <<ctx, proms>>
  /\ UNCHANGED <<clients, sse, stalled, events, loop, trackers, iter, fatal, prom>>

Next ==
  /\ ~fatal
  /\ \/ \E c \in Clients : handleSSE(c) \/ SseEvent(c) \/ SseEnds(c) \/ ClientLeaves(c) \/ ClientStalls(c)
     \/ Publish \/ tickMetrics \/ metricsLoopEnds \/ handleAPITSN \/ RegisterTSNHealth
     \/ \E r \in Readers : IterationEnds(r)
     \/ WithPrometheus \/ Close

Spec == Init /\ [][Next]_vars

-----------------------------------------------------------------------------
\* The variables hold what the fields they model can hold.
MonitorTypeOK ==
  /\ clients \subseteq Clients /\ stalled \subseteq Clients /\ events \in 0..MaxEvents
  /\ \A c \in Clients : sse[c].at \in {"out", "select", "write", "ended"} /\ sse[c].ch \in 0..Buf
  /\ mclose \in {"no", "cancel", "prom", "shutdown", "returned"} /\ loop \in {"wait", "ended"}

\* A Close that has been called goes on.
CloseGoesOn == mclose # "no" /\ Close

CloseStuck == mclose # "no" /\ ~(mclose = "returned" /\ loop = "ended") /\ ~fatal /\ stalled = {}

\* "Close stops the HTTP server(s) and all background goroutines": it returns,
\* unless a handler is held up by a client that no longer reads.
MonitorCloseReturns == []<>~CloseStuck

\* "May be called after New returns": registering a tracker on a running monitor
\* does not end the process.
\* The code does not keep this: README.md says where it differs.
RegisterAnytime == ~fatal
=============================================================================

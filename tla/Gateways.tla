------------------------------ MODULE Gateways ------------------------------
(***************************************************************************)
(* The gRPC gateway (bridge/grpc/grpc.go) and the REST gateway             *)
(* (bridge/rest/rest.go).  Both create one subscriber and one publisher    *)
(* per topic on demand, share them among all their clients, and close them *)
(* in Close; gRPC first waits for the calls in progress, REST waits for    *)
(* nobody.  A Subscribe call (an SSE stream) and a Publish call (a POST)   *)
(* are the two kinds of call; StreamPublish is a call that publishes more  *)
(* than once.  One topic.                                                  *)
(***************************************************************************)
EXTENDS Naturals

CONSTANTS Streams,    \* Subscribe calls
          Publishes,  \* Publish and StreamPublish calls
          None,
          MaxEach,    \* bound: subscribers, and publishers, created in all
          MaxSamples  \* bound: samples on the topic

Ids == 1..MaxEach
Kinds == {"grpc", "rest"}

VARIABLES
  gate,       \* which gateway this is
  gclose,     \* Close: "no", "drain" (GracefulStop), "close" or "returned"
  subs, pubs, \* the entries of Bridge.subs and Bridge.pubs: an id or None
  gsub, gpub, \* per id, "none", "open" or "closed"
  gchan,      \* per subscriber, samples in its channel
  arrived,    \* samples so far
  stream,     \* per Subscribe call, [at, on]
  gone,       \* Subscribe calls whose client cancelled
  pcall       \* per Publish call, [at, on, n]: n samples written

vars == <<gate, gclose, subs, pubs, gsub, gpub, gchan, arrived, stream, gone, pcall>>

Init ==
  /\ gate \in Kinds /\ gclose = "no" /\ subs = None /\ pubs = None
  /\ gsub = [i \in Ids |-> "none"] /\ gpub = [i \in Ids |-> "none"]
  /\ gchan = [i \in Ids |-> 0] /\ arrived = 0 /\ gone = {}
  /\ stream = [s \in Streams |-> [at |-> "idle", on |-> None]]
  /\ pcall = [p \in Publishes |-> [at |-> "idle", on |-> None, n |-> 0]]

\* GracefulStop refuses new calls; the REST handler belongs to a server of the
\* application, which Close does not stop.
Accepting == gate = "rest" \/ gclose = "no"

Begin ==
  /\ Accepting
  /\ \/ \E s \in Streams : stream[s].at = "idle" /\ stream' = [stream EXCEPT ![s].at = "begun"]
                           /\ UNCHANGED pcall
     \/ \E p \in Publishes : pcall[p].at = "idle" /\ pcall' = [pcall EXCEPT ![p].at = "begun"]
                           /\ UNCHANGED stream
  /\ UNCHANGED <<gate, gclose, subs, pubs, gsub, gpub, gchan, arrived, gone>>

Fresh(f, i) == f[i] = "none" /\ \A j \in Ids : j < i => f[j] # "none"

\* The shared subscriber, created under b.mu if the map has none; or an error.
getOrCreateSub(s) ==
  /\ stream[s].at = "begun"
  /\ \/ /\ subs # None /\ stream' = [stream EXCEPT ![s] = [at |-> "select", on |-> subs]]
        /\ UNCHANGED <<subs, gsub>>
     \/ \E i \in Ids : /\ subs = None /\ Fresh(gsub, i)
                       /\ gsub' = [gsub EXCEPT ![i] = "open"] /\ subs' = i
                       /\ stream' = [stream EXCEPT ![s] = [at |-> "select", on |-> i]]
     \/ /\ subs = None /\ stream' = [stream EXCEPT ![s].at = "ended"]
        /\ UNCHANGED <<subs, gsub>>
  /\ UNCHANGED <<gate, gclose, pubs, gpub, gchan, arrived, gone, pcall>>

\* The loop of Subscribe and of handleSubscribe: a sample for this call alone,
\* which the Filter or the Transform of the gRPC gateway may drop, ...
StreamSample(s) ==
  /\ stream[s].at = "select" /\ gchan[stream[s].on] > 0
  /\ gchan' = [gchan EXCEPT ![stream[s].on] = @ - 1]
  /\ \/ stream' = [stream EXCEPT ![s].at = "send"]
     \/ gate = "grpc" /\ UNCHANGED stream
  /\ UNCHANGED <<gate, gclose, subs, pubs, gsub, gpub, arrived, gone, pcall>>

\* ... or the ticker of the REST gateway ...
Keepalive(s) ==
  /\ gate = "rest" /\ stream[s].at = "select"
  /\ stream' = [stream EXCEPT ![s].at = "send"]
  /\ UNCHANGED <<gate, gclose, subs, pubs, gsub, gpub, gchan, arrived, gone, pcall>>

\* stream.Send, or Fprintf and Flush, which block until the client reads ...
SendDone(s) ==
  /\ stream[s].at = "send" /\ s \notin gone
  /\ stream' = [stream EXCEPT ![s].at = "select"]
  /\ UNCHANGED <<gate, gclose, subs, pubs, gsub, gpub, gchan, arrived, gone, pcall>>

\* ... and fail once it has gone; what is still buffered may be taken.
SendFails(s) ==
  /\ stream[s].at = "send" /\ s \in gone
  /\ \E at \in {"select", "ended"} : stream' = [stream EXCEPT ![s].at = at]
  /\ UNCHANGED <<gate, gclose, subs, pubs, gsub, gpub, gchan, arrived, gone, pcall>>

\* ... or the closed channel, or the cancelled context.
StreamEnds(s) ==
  /\ stream[s].at = "select"
  /\ s \in gone \/ (gsub[stream[s].on] = "closed" /\ gchan[stream[s].on] = 0)
  /\ stream' = [stream EXCEPT ![s].at = "ended"]
  /\ UNCHANGED <<gate, gclose, subs, pubs, gsub, gpub, gchan, arrived, gone, pcall>>

getOrCreatePub(p) ==
  /\ pcall[p].at = "begun"
  /\ \/ pubs # None /\ pcall' = [pcall EXCEPT ![p].at = "write", ![p].on = pubs] /\ UNCHANGED <<pubs, gpub>>
     \/ \E i \in Ids : /\ pubs = None /\ Fresh(gpub, i)
                       /\ gpub' = [gpub EXCEPT ![i] = "open"] /\ pubs' = i
                       /\ pcall' = [pcall EXCEPT ![p].at = "write", ![p].on = i]
     \/ pubs = None /\ pcall' = [pcall EXCEPT ![p].at = "failed"] /\ UNCHANGED <<pubs, gpub>>
  /\ UNCHANGED <<gate, gclose, subs, gsub, gchan, arrived, stream, gone>>

\* The write succeeds on an open publisher; a StreamPublish may have more.
PublishWrites(p) ==
  /\ pcall[p].at = "write"
  /\ IF gpub[pcall[p].on] = "closed" THEN pcall' = [pcall EXCEPT ![p].at = "failed"]
     ELSE \/ pcall' = [pcall EXCEPT ![p].at = "acked", ![p].n = @ + 1]
          \/ gate = "grpc" /\ pcall[p].n = 0 /\ pcall' = [pcall EXCEPT ![p].at = "begun", ![p].n = 1]
  /\ UNCHANGED <<gate, gclose, subs, pubs, gsub, gpub, gchan, arrived, stream, gone>>

\* A sample for the shared subscriber.
Arrive ==
  /\ subs # None /\ gsub[subs] = "open" /\ arrived < MaxSamples
  /\ arrived' = arrived + 1 /\ gchan' = [gchan EXCEPT ![subs] = @ + 1]
  /\ UNCHANGED <<gate, gclose, subs, pubs, gsub, gpub, stream, gone, pcall>>

Cancel(s) ==
  /\ stream[s].at \notin {"idle", "ended"} /\ s \notin gone /\ gone' = gone \cup {s}
  /\ UNCHANGED <<gate, gclose, subs, pubs, gsub, gpub, gchan, arrived, stream, pcall>>

Busy == \/ \E s \in Streams : stream[s].at \in {"begun", "select", "send"}
        \/ \E p \in Publishes : pcall[p].at \in {"begun", "write"}

Shut(f, e) == IF e = None THEN f ELSE [f EXCEPT ![e] = "closed"]

\* Under b.mu: close what the maps hold and empty them.
CloseMaps ==
  /\ gclose' = "returned" /\ subs' = None /\ pubs' = None
  /\ gsub' = Shut(gsub, subs) /\ gpub' = Shut(gpub, pubs)
  /\ UNCHANGED <<gate, gchan, arrived, stream, gone, pcall>>

\* (a bug for the checks: the subscribers before the calls have gone)
CloseEarly ==
  /\ gclose = "no" /\ CloseMaps

\* (a bug for the checks: the maps emptied without closing what they hold)
CloseForgets ==
  /\ gclose = "no" /\ gclose' = "returned" /\ subs' = None /\ pubs' = None
  /\ UNCHANGED <<gate, gsub, gpub, gchan, arrived, stream, gone, pcall>>

\* gRPC: GracefulStop, which returns when no call is in progress, then the maps.
\* REST: the maps.
Close ==
  \/ gate = "rest" /\ gclose = "no" /\ CloseMaps
  \/ /\ gate = "grpc" /\ gclose = "no" /\ gclose' = "drain"
     /\ UNCHANGED <<gate, subs, pubs, gsub, gpub, gchan, arrived, stream, gone, pcall>>
  \/ gate = "grpc" /\ gclose = "drain" /\ ~Busy /\ CloseMaps

Next ==
  \/ Begin \/ Arrive \/ Close
  \/ \E s \in Streams : \/ getOrCreateSub(s) \/ StreamSample(s) \/ Keepalive(s) \/ SendDone(s)
                        \/ SendFails(s) \/ StreamEnds(s) \/ Cancel(s)
  \/ \E p \in Publishes : getOrCreatePub(p) \/ PublishWrites(p)

Spec == Init /\ [][Next]_vars

-----------------------------------------------------------------------------
\* The variables hold what the fields they model can hold.
GatewaysTypeOK ==
  /\ gate \in Kinds /\ gclose \in {"no", "drain", "returned"}
  /\ {subs, pubs} \subseteq Ids \cup {None} /\ arrived \in 0..MaxSamples
  /\ \A s \in Streams : stream[s].at \in {"idle", "begun", "select", "send", "ended"}
  /\ \A p \in Publishes : pcall[p].at \in {"idle", "begun", "write", "acked", "failed"}

\* "Close closes all open subscribers, publishers, and the gRPC server": nothing
\* of the gRPC gateway is open when its Close returns or ever after, although a
\* call that was being set up when Close began creates what it needs.
GrpcClosedClean ==
  gate = "grpc" /\ gclose = "returned" => \A i \in Ids : gsub[i] # "open" /\ gpub[i] # "open"

\* A Close that has been called goes on.
CloseGoesOn == gclose # "no" /\ Close

\* "Close closes the Bridge and all open subscribers and publishers" (rest.go):
\* nothing of the REST gateway is open from then on.
\* The code does not keep this: README.md says where it differs.
RestClosedClean ==
  gate = "rest" /\ gclose = "returned" => \A i \in Ids : gsub[i] # "open" /\ gpub[i] # "open"

\* A REST stream whose subscriber Close has closed.
Orphaned(s) == gate = "rest" /\ gclose = "returned" /\ stream[s].at \in {"select", "send"} /\ stream[s].on # subs

\* A write that waits for a client that is there.
Unread(s) == stream[s].at = "send" /\ s \notin gone

\* A REST stream that was established when Close ran comes to an end, unless its
\* client stays and never again reads what is written to it.
RestStreamsEnd == \A s \in Streams : []<>~Orphaned(s) \/ <>[]Unread(s)

\* The same whatever the client does.
\* The code does not keep this: README.md says where it differs.
RestStreamsAlwaysEnd == \A s \in Streams : []<>~Orphaned(s)

\* The gRPC gateway's Close, of which its comment says that it closes the
\* subscribers, comes to that point.
\* The code does not keep this: README.md says where it differs.
GrpcCloseReturns == gclose = "drain" ~> gclose = "returned"
=============================================================================

------------------------------ MODULE WsBridge ------------------------------
(***************************************************************************)
(* The WebSocket gateway (bridge/ws/ws.go): one session per client, whose  *)
(* run loop creates subscribers and publishers as the client's messages    *)
(* ask, one forwardSamples goroutine per subscriber, a write mutex they    *)
(* share, and a Bridge.Close that races all of them.  The client may leave,*)
(* or stop reading: a write to a full connection blocks with the mutex.    *)
(* One topic: the sessions' maps treat topics independently.               *)
(***************************************************************************)
EXTENDS Naturals, FiniteSets

CONSTANTS Sessions,
          None,
          MaxSubs,  \* bound: subscribers a session creates
          MaxMsgs,  \* bound: messages a client sends
          Pipe      \* bound: frames in flight to a client

Ids == 1..MaxSubs
Ops == {"subscribe", "unsubscribe", "publish", "other"}

VARIABLES
  bclosed,    \* Bridge.closed
  bclose,     \* Bridge.Close: "no", "loop" or "returned"
  left,       \* the sessions Close has still to close
  sessions,   \* Bridge.sessions
  run,        \* per session, where its ServeHTTP goroutine is
  closed,     \* per session, session.closed
  closer,     \* per session, its close(): "none", "teardown", "conn" or "over"
  by,         \* per session, which goroutine is in close(): "run" or "bridge"
  done,       \* per session, is done closed
  conn,       \* per session, [mine, peer]: is each end of nc open
  subs,       \* per session, the subscriber in session.subs, or None; once the
              \* session is marked closed, the one close() took out of it
  pub,        \* per session, the publisher: "none", "open" or "closed"
  sub,        \* per session and subscriber, "none", "open" or "closed"
  fwd,        \* per session and subscriber, its forwardSamples: "none", "select", "send", "ended"
  writeMu,    \* per session, holder: "run", a subscriber's forwardSamples, or None
  wire,       \* per session, frames in flight
  msgs        \* per session, messages dispatched

bvars == <<bclosed, bclose, left, sessions>>
cvars == <<closed, closer, by, done>>
evars == <<subs, pub, sub>>
wvars == <<writeMu, wire>>
vars == <<bvars, run, cvars, conn, evars, fwd, wvars, msgs>>

Init ==
  /\ bclosed = FALSE /\ bclose = "no" /\ left = {} /\ sessions = {}
  /\ run = [s \in Sessions |-> "http"] /\ closed = [s \in Sessions |-> FALSE]
  /\ closer = [s \in Sessions |-> "none"] /\ by = [s \in Sessions |-> "run"]
  /\ done = [s \in Sessions |-> FALSE]
  /\ conn = [s \in Sessions |-> [mine |-> TRUE, peer |-> TRUE]]
  /\ subs = [s \in Sessions |-> None] /\ pub = [s \in Sessions |-> "none"]
  /\ sub = [s \in Sessions |-> [i \in Ids |-> "none"]]
  /\ fwd = [s \in Sessions |-> [i \in Ids |-> "none"]]
  /\ writeMu = [s \in Sessions |-> None] /\ wire = [s \in Sessions |-> 0]
  /\ msgs = [s \in Sessions |-> 0]

Go(s, at) == run' = [run EXCEPT ![s] = at]

-----------------------------------------------------------------------------
\* (a bug for the checks: The registration step of ServeHTTP without the check of b.closed)
ServeHTTPUnchecked(s) ==
  /\ run[s] = "http" /\ Go(s, "read") /\ sessions' = sessions \cup {s}
  /\ UNCHANGED <<bclosed, bclose, left, cvars, conn, evars, fwd, wvars, msgs>>

\* After the handshake a session is registered, unless the bridge was closed
\* meanwhile: then its connection is.
ServeHTTP(s) ==
  /\ run[s] = "http"
  /\ Go(s, IF bclosed THEN "left" ELSE "read")
  /\ conn' = IF bclosed THEN [conn EXCEPT ![s].mine = FALSE] ELSE conn
  /\ sessions' = IF bclosed THEN sessions ELSE sessions \cup {s}
  /\ UNCHANGED <<bclosed, bclose, left, cvars, evars, fwd, wvars, msgs>>

\* readMessage returned a message of the client (a Ping has been answered and
\* takes no part) ...
ReadMessage(s, op) ==
  /\ run[s] = "read" /\ conn[s].mine /\ conn[s].peer /\ msgs[s] < MaxMsgs
  /\ msgs' = [msgs EXCEPT ![s] = @ + 1]
  /\ Go(s, IF op = "other" THEN "reply" ELSE op)
  /\ UNCHANGED <<bvars, cvars, conn, evars, fwd, wvars>>

\* ... or a Close frame, or one too large ...
ReadClose(s) ==
  /\ run[s] = "read" /\ conn[s].mine /\ conn[s].peer /\ Go(s, "close")
  /\ UNCHANGED <<bvars, cvars, conn, evars, fwd, wvars, msgs>>

\* ... or an error: the deferred close runs.
ReadFails(s) ==
  /\ run[s] = "read" /\ ~(conn[s].mine /\ conn[s].peer) /\ Go(s, "close")
  /\ UNCHANGED <<bvars, cvars, conn, evars, fwd, wvars, msgs>>

Created(s) == {i \in Ids : sub[s][i] # "none"}

\* A new subscriber, with its goroutine.
NewSubscriber(s) ==
  \E i \in Ids \ Created(s) :
    /\ \A j \in Ids : j < i => j \in Created(s)
    /\ subs' = [subs EXCEPT ![s] = i] /\ sub' = [sub EXCEPT ![s][i] = "open"]
    /\ fwd' = [fwd EXCEPT ![s][i] = "select"]

\* (a bug for the checks: the check of s.closed left out)
handleSubscribeUnchecked(s) ==
  /\ run[s] = "subscribe" /\ Go(s, "reply")
  /\ IF subs[s] # None THEN UNCHANGED <<subs, sub, fwd>> ELSE NewSubscriber(s)
  /\ UNCHANGED <<bvars, cvars, conn, pub, wvars, msgs>>

\* Under s.mu: nothing on a closed session, nothing twice, else a subscriber and
\* its goroutine, or the participant's error.
handleSubscribe(s) ==
  /\ run[s] = "subscribe"
  /\ Go(s, IF closed[s] THEN "read" ELSE "reply")
  /\ \/ UNCHANGED <<subs, sub, fwd>>
     \/ ~closed[s] /\ subs[s] = None /\ NewSubscriber(s)
  /\ UNCHANGED <<bvars, cvars, conn, pub, wvars, msgs>>

\* The map entry goes under s.mu, the subscriber is closed after it.
handleUnsubscribe(s) ==
  /\ \/ run[s] = "unsubscribe"
        /\ subs' = (IF closed[s] THEN subs ELSE [subs EXCEPT ![s] = None])
        /\ Go(s, IF closed[s] \/ subs[s] = None THEN "reply" ELSE "unsub") /\ UNCHANGED sub
     \/ run[s] = "unsub" /\ Go(s, "reply") /\ UNCHANGED subs
        /\ sub' = [sub EXCEPT ![s] = [i \in Ids |-> IF i = Cardinality(Created(s)) THEN "closed" ELSE @[i]]]
  /\ UNCHANGED <<bvars, cvars, conn, pub, fwd, wvars, msgs>>

\* Under s.mu the publisher is found or created; the write outside it fails if
\* close has closed the publisher.
handlePublish(s) ==
  /\ \/ run[s] = "publish" /\ closed[s] /\ Go(s, "read") /\ UNCHANGED pub
     \/ run[s] = "publish" /\ ~closed[s] /\ Go(s, "write") /\ pub' = [pub EXCEPT ![s] = "open"]
     \/ run[s] = "publish" /\ ~closed[s] /\ pub[s] = "none" /\ Go(s, "reply") /\ UNCHANGED pub
     \/ run[s] = "write" /\ UNCHANGED pub /\ Go(s, IF pub[s] = "closed" THEN "reply" ELSE "read")
  /\ UNCHANGED <<bvars, cvars, conn, subs, sub, fwd, wvars, msgs>>

\* forwardSamples: a sample, which a closed subscriber's channel may still hold ...
Sample(s, i) ==
  /\ fwd[s][i] = "select" /\ fwd' = [fwd EXCEPT ![s][i] = "send"]
  /\ UNCHANGED <<bvars, run, cvars, conn, evars, wvars, msgs>>

\* ... or the channel is closed, or done is.
SelectEnds(s, i) ==
  /\ fwd[s][i] = "select" /\ (sub[s][i] = "closed" \/ done[s])
  /\ fwd' = [fwd EXCEPT ![s][i] = "ended"]
  /\ UNCHANGED <<bvars, run, cvars, conn, evars, wvars, msgs>>

\* send: the mutex ...
Lock(s, w) ==
  /\ writeMu[s] = None /\ writeMu' = [writeMu EXCEPT ![s] = w]
  /\ IF w = 0 THEN run[s] = "reply" ELSE fwd[s][w] = "send"
  /\ UNCHANGED <<bvars, run, cvars, conn, evars, fwd, wire, msgs>>

\* ... and the frame, or an error nobody looks at.
WriteFrame(s, w) ==
  /\ writeMu[s] = w /\ writeMu' = [writeMu EXCEPT ![s] = None]
  /\ \/ ~(conn[s].mine /\ conn[s].peer) /\ UNCHANGED wire
     \/ conn[s].mine /\ conn[s].peer /\ wire[s] < Pipe /\ wire' = [wire EXCEPT ![s] = @ + 1]
  /\ IF w = 0 THEN Go(s, "read") /\ UNCHANGED fwd
     ELSE fwd' = [fwd EXCEPT ![s][w] = "select"] /\ UNCHANGED run
  /\ UNCHANGED <<bvars, cvars, conn, evars, msgs>>

\* session.close, by run's defer or by Bridge.Close: the first to find it open
\* marks it and takes the lists; the other returns at once.
Mark(s, who) ==
  /\ closed' = [closed EXCEPT ![s] = TRUE]
  /\ closer' = IF closed[s] THEN closer ELSE [closer EXCEPT ![s] = "teardown"]
  /\ by' = IF closed[s] THEN by ELSE [by EXCEPT ![s] = who]

Closed(x) == IF x = "open" THEN "closed" ELSE x

\* (a bug for the checks: the connection left open)
TeardownNoConn(s) ==
  /\ closer[s] = "teardown" /\ closer' = [closer EXCEPT ![s] = "over"]
  /\ done' = [done EXCEPT ![s] = TRUE] /\ subs' = [subs EXCEPT ![s] = None]
  /\ sub' = [sub EXCEPT ![s] = [i \in Ids |-> IF i = subs[s] THEN "closed" ELSE @[i]]]
  /\ pub' = [pub EXCEPT ![s] = Closed(@)]
  /\ UNCHANGED <<bvars, run, closed, by, conn, fwd, wvars, msgs>>

\* Then done, the subscribers, the publishers, and the connection.
Teardown(s) ==
  /\ \/ closer[s] = "teardown" /\ closer' = [closer EXCEPT ![s] = "conn"]
        /\ done' = [done EXCEPT ![s] = TRUE] /\ subs' = [subs EXCEPT ![s] = None]
        /\ sub' = [sub EXCEPT ![s] = [i \in Ids |-> IF i = subs[s] THEN "closed" ELSE @[i]]]
        /\ pub' = [pub EXCEPT ![s] = Closed(@)] /\ UNCHANGED conn
     \/ closer[s] = "conn" /\ closer' = [closer EXCEPT ![s] = "over"]
        /\ conn' = [conn EXCEPT ![s].mine = FALSE] /\ UNCHANGED <<done, evars>>
  /\ UNCHANGED <<bvars, run, closed, by, fwd, wvars, msgs>>

\* The goroutine that marked the session goes on when its close has returned.
RunCloses(s) ==
  /\ \/ run[s] = "close" /\ Mark(s, "run") /\ Go(s, "closing") /\ UNCHANGED sessions
     \/ run[s] = "closing" /\ (by[s] = "bridge" \/ closer[s] = "over") /\ Go(s, "left")
        /\ sessions' = sessions \ {s} /\ UNCHANGED <<closed, closer, by>>
  /\ UNCHANGED <<bclosed, bclose, left, done, conn, evars, fwd, wvars, msgs>>

\* Bridge.Close: the flag and the snapshot under b.mu, then session by session.
Close ==
  /\ \/ bclose = "no" /\ bclosed' = TRUE /\ left' = sessions /\ bclose' = "loop"
        /\ UNCHANGED <<closed, closer, by>>
     \/ /\ bclose = "loop" /\ \A s \in Sessions : by[s] = "bridge" => closer[s] \in {"none", "over"}
        /\ IF left = {} THEN bclose' = "returned" /\ UNCHANGED <<left, closed, closer, by>>
           ELSE \E s \in left : left' = left \ {s} /\ Mark(s, "bridge") /\ UNCHANGED bclose
        /\ UNCHANGED bclosed
  /\ UNCHANGED <<sessions, run, done, conn, evars, fwd, wvars, msgs>>

\* The client reads a frame, or leaves.
Client(s) ==
  /\ run[s] # "http"
  /\ \/ wire[s] > 0 /\ wire' = [wire EXCEPT ![s] = @ - 1] /\ UNCHANGED conn
     \/ conn[s].peer /\ conn' = [conn EXCEPT ![s].peer = FALSE] /\ UNCHANGED wire
  /\ UNCHANGED <<bvars, run, cvars, evars, fwd, writeMu, msgs>>

RunLoop(s) ==
  \/ ServeHTTP(s) \/ ReadFails(s) \/ RunCloses(s) \/ handleSubscribe(s) \/ handleUnsubscribe(s)
  \/ handlePublish(s) \/ WriteFrame(s, 0)

Next ==
  \/ \E s \in Sessions : RunLoop(s) \/ ReadClose(s) \/ Teardown(s) \/ Client(s) \/ Lock(s, 0)
  \/ \E s \in Sessions, op \in Ops : ReadMessage(s, op)
  \/ \E s \in Sessions, i \in Ids : Sample(s, i) \/ SelectEnds(s, i) \/ Lock(s, i) \/ WriteFrame(s, i)
  \/ Close

Spec == Init /\ [][Next]_vars

-----------------------------------------------------------------------------
\* The variables hold what the fields they model can hold.
WsTypeOK ==
  /\ left \subseteq Sessions /\ sessions \subseteq Sessions /\ bclose \in {"no", "loop", "returned"}
  /\ run \in [Sessions -> {"http", "read", "subscribe", "unsubscribe", "unsub", "publish", "write",
                           "reply", "close", "closing", "left"}]
  /\ closer \in [Sessions -> {"none", "teardown", "conn", "over"}]
  /\ subs \in [Sessions -> Ids \cup {None}] /\ wire \in [Sessions -> 0..Pipe]
  /\ fwd \in [Sessions -> [Ids -> {"none", "select", "send", "ended"}]]
  /\ writeMu \in [Sessions -> 0..MaxSubs \cup {None}]

\* "Close closes every currently-connected client session": when it returns no
\* session is left that nobody has begun to close, although clients connect and
\* leave while it runs.
NoSessionMissed ==
  bclose = "returned" => \A s \in sessions : closed[s]

Released(s) == ~conn[s].mine /\ pub[s] # "open" /\ \A i \in Ids : sub[s][i] # "open"

\* Once a session's run loop and its close are over, no subscriber, publisher or
\* connection of it is open, whatever message was being handled meanwhile.
NothingLeftOpen ==
  \A s \in Sessions : run[s] = "left" /\ closer[s] \in {"none", "over"} => Released(s)

\* "It always cleans up every subscriber/publisher this session created before
\* returning" (run): not only once a close that Bridge.Close has begun is over too.
\* The code does not keep this: README.md says where it differs.
CleanBeforeReturning == \A s \in Sessions : run[s] = "left" => Released(s)

\* A Close that has been called goes on.
CloseGoesOn == bclose # "no" /\ Close

AllEnded == \A s \in Sessions : run[s] = "left" /\ \A i \in Ids : fwd[s][i] \in {"none", "ended"}
Stuck == bclose = "returned" /\ ~AllEnded

\* Every goroutine of every session ends after Close, even with a client that
\* never reads again.
WsGoroutinesEnd == []<>~Stuck
=============================================================================

------------------------------- MODULE Relay -------------------------------
(***************************************************************************)
(* The TURN-style relay: the server (bridge/relay/relay.go) and the        *)
(* participants' client sockets (rtps/transport_relay.go).  A client       *)
(* registers an ID and asks the server to forward frames to other IDs; a   *)
(* reconnecting client replaces its earlier connection.  Every frame is    *)
(* written under its connection's write mutex, so a frame is one item of   *)
(* a pipe; a write to a full pipe blocks.                                  *)
(***************************************************************************)
EXTENDS Naturals, Sequences

CONSTANTS Conns,    \* connections to the server, each dialled at most once
          IDs,      \* relay IDs
          Register, \* the REGISTER frame; a SEND frame is its target ID
          IdOf,     \* the ID each connection registers
          None,
          MaxSend,  \* bound: SENDs in all
          Pipe      \* bound: frames in flight per direction

VARIABLES
  ksock,     \* per connection, the client: "out", "dialled", "open", "closing", "closed"
  kloop,     \* per connection, readLoop: "none", "loop", "ended"
  ksent,     \* SENDs issued
  up, down,  \* per connection, frames in flight to and from the server
  kend, hend,\* is the client's / the server's end of the connection closed
  handler,   \* per connection, [at, fr, to] of handleConn
  clients,   \* Server.clients
  raccept,   \* acceptLoop: "accept" or "ended"
  rclose,    \* Server.Close: "no", "conns", "wait", "returned"
  latest     \* history: the connection that registered each ID last

kvars == <<ksock, kloop, ksent>>
net == <<up, down, kend, hend>>
rvars == <<handler, clients, raccept, rclose, latest>>
vars == <<kvars, net, rvars>>

Init ==
  /\ ksock = [k \in Conns |-> "out"] /\ kloop = [k \in Conns |-> "none"]
  /\ ksent = 0
  /\ up = [k \in Conns |-> << >>] /\ down = [k \in Conns |-> << >>]
  /\ kend = [k \in Conns |-> FALSE] /\ hend = [k \in Conns |-> FALSE]
  /\ handler = [k \in Conns |-> [at |-> "none", fr |-> None, to |-> None]]
  /\ clients = [i \in IDs |-> None] /\ latest = [i \in IDs |-> None]
  /\ raccept = "accept" /\ rclose = "no"

At(k, a) == handler' = [handler EXCEPT ![k].at = a]

-----------------------------------------------------------------------------
\* newRelaySocket: dial, then the REGISTER frame, then the read loop.  A frame
\* that cannot be written closes the connection again.
Dial(k) ==
  /\ \/ /\ ksock[k] = "out" /\ rclose = "no" /\ ksock' = [ksock EXCEPT ![k] = "dialled"]
        /\ UNCHANGED <<kloop, up, kend>>
     \/ /\ ksock[k] = "dialled" /\ ksock' = [ksock EXCEPT ![k] = "open"]
        /\ kloop' = [kloop EXCEPT ![k] = "loop"] /\ UNCHANGED kend
        /\ up' = [up EXCEPT ![k] = <<Register>>]
     \/ /\ ksock[k] = "dialled" /\ hend[k] /\ ksock' = [ksock EXCEPT ![k] = "closed"]
        /\ kend' = [kend EXCEPT ![k] = TRUE] /\ UNCHANGED <<kloop, up>>
  /\ UNCHANGED <<ksent, down, hend, rvars>>

\* send, under wmu: blocked by a full pipe, an error (ignored by the caller's
\* other transports) once either end is closed.
Send(k, i) ==
  /\ ksock[k] = "open" /\ ksent < MaxSend
  /\ ksent' = ksent + 1
  /\ \/ /\ ~kend[k] /\ ~hend[k] /\ Len(up[k]) < Pipe
        /\ up' = [up EXCEPT ![k] = Append(@, i)]
     \/ (kend[k] \/ hend[k]) /\ UNCHANGED up
  /\ UNCHANGED <<ksock, kloop, down, kend, hend, rvars>>

\* readLoop: a DELIVER frame goes to recv, or is dropped when recv is full; an
\* ERROR frame is ignored; a read error ends the loop.
readLoop(k) ==
  /\ kloop[k] = "loop"
  /\ \/ /\ ~kend[k] /\ down[k] # << >>
        /\ down' = [down EXCEPT ![k] = Tail(@)] /\ UNCHANGED kloop
     \/ /\ kend[k] \/ (hend[k] /\ down[k] = << >>)
        /\ kloop' = [kloop EXCEPT ![k] = "ended"] /\ UNCHANGED down
  /\ UNCHANGED <<ksock, ksent, up, kend, hend, rvars>>

\* close: done and conn.Close, then wg.Wait.
SocketClose(k) ==
  /\ \/ /\ ksock[k] = "open"
        /\ ksock' = [ksock EXCEPT ![k] = "closing"] /\ kend' = [kend EXCEPT ![k] = TRUE]
     \/ /\ ksock[k] = "closing" /\ kloop[k] = "ended"
        /\ ksock' = [ksock EXCEPT ![k] = "closed"] /\ UNCHANGED kend
  /\ UNCHANGED <<kloop, ksent, up, down, hend, rvars>>

-----------------------------------------------------------------------------
\* acceptLoop: a connection of the backlog, or the closed listener's error.
acceptLoop ==
  /\ raccept = "accept"
  /\ \/ /\ rclose = "no" /\ UNCHANGED raccept
        /\ \E k \in Conns : ksock[k] # "out" /\ handler[k].at = "none" /\ At(k, "register")
     \/ rclose # "no" /\ raccept' = "ended" /\ UNCHANGED handler
  /\ UNCHANGED <<kvars, net, clients, rclose, latest>>

\* A read of the server on connection k blocks, fails or returns a frame.
Fails(k) == hend[k] \/ (kend[k] /\ up[k] = << >>)

\* The mandatory REGISTER frame; without it the connection is dropped.
ReadRegister(k) ==
  /\ handler[k].at = "register"
  /\ \/ Fails(k) /\ At(k, "close") /\ UNCHANGED up
     \/ /\ ~Fails(k) /\ up[k] # << >> /\ up' = [up EXCEPT ![k] = Tail(@)]
        /\ At(k, IF Head(up[k]) = Register THEN "publish" ELSE "close")
  /\ UNCHANGED <<kvars, down, kend, hend, clients, raccept, rclose, latest>>

\* register: the last registration of an ID wins; the loser is closed after
\* the lock is released.
register(k) ==
  /\ handler[k].at = "publish"
  /\ clients' = [clients EXCEPT ![IdOf[k]] = k]
  /\ latest' = [latest EXCEPT ![IdOf[k]] = k]
  /\ handler' = [handler EXCEPT ![k] = [at |-> "replace", fr |-> None, to |-> clients[IdOf[k]]]]
  /\ UNCHANGED <<kvars, net, raccept, rclose>>

CloseOld(k) ==
  /\ handler[k].at = "replace" /\ At(k, "loop")
  /\ hend' = IF handler[k].to = None THEN hend ELSE [hend EXCEPT ![handler[k].to] = TRUE]
  /\ UNCHANGED <<kvars, up, down, kend, clients, raccept, rclose, latest>>

\* handleConn's loop: anything but a SEND is ignored.
ReadSend(k) ==
  /\ handler[k].at = "loop"
  /\ \/ Fails(k) /\ At(k, "unregister") /\ UNCHANGED up
     \/ /\ ~Fails(k) /\ up[k] # << >> /\ up' = [up EXCEPT ![k] = Tail(@)]
        /\ handler' = IF Head(up[k]) # Register
                      THEN [handler EXCEPT ![k] = [at |-> "lookup", fr |-> Head(up[k]), to |-> None]]
                      ELSE handler
  /\ UNCHANGED <<kvars, down, kend, hend, clients, raccept, rclose, latest>>

\* forward: the target is looked up under the read lock ...
Lookup(k) ==
  /\ handler[k].at = "lookup"
  /\ handler' = [handler EXCEPT ![k].at = "write", ![k].to = clients[handler[k].fr]]
  /\ UNCHANGED <<kvars, net, clients, raccept, rclose, latest>>

\* ... and written to outside it: by then it may be closed, which is ignored.
\* An unknown target is reported to the sender.
Forward(k) ==
  /\ handler[k].at = "write" /\ At(k, "loop")
  /\ LET to == IF handler[k].to = None THEN k ELSE handler[k].to
         fr == IF handler[k].to = None THEN "ERROR" ELSE "DELIVER"
     IN  \/ /\ ~hend[to] /\ Len(down[to]) < Pipe
            /\ down' = [down EXCEPT ![to] = Append(@, fr)]
         \/ (hend[to] \/ kend[to]) /\ UNCHANGED down
  /\ UNCHANGED <<kvars, up, kend, hend, clients, raccept, rclose, latest>>

\* (a bug for the checks: unregister as a "delete whatever is there")
unregisterAny(k) == [clients EXCEPT ![IdOf[k]] = None]

\* unregister: only if k is still the current registration of its ID.
unregister(k) == IF clients[IdOf[k]] = k THEN [clients EXCEPT ![IdOf[k]] = None] ELSE clients

\* The deferred calls of handleConn: unregister, conn.Close, wg.Done.
HandlerEnds(k) ==
  /\ \/ handler[k].at = "unregister" /\ At(k, "close") /\ clients' = unregister(k) /\ UNCHANGED hend
     \/ handler[k].at = "close" /\ At(k, "ended") /\ hend' = [hend EXCEPT ![k] = TRUE] /\ UNCHANGED clients
  /\ UNCHANGED <<kvars, up, down, kend, raccept, rclose, latest>>

\* (a bug for the checks: Close that leaves the connections open)
RegisteredNone == {}

\* Under mu: the connections Close closes.
Registered == {clients[i] : i \in IDs} \ {None}

\* Close: the listener, the registered connections, then wg.Wait.
RelayClose ==
  /\ \/ rclose = "no" /\ rclose' = "conns" /\ UNCHANGED <<hend, clients>>
     \/ /\ rclose = "conns" /\ rclose' = "wait"
        /\ hend' = [k \in Conns |-> hend[k] \/ k \in Registered]
        /\ clients' = [i \in IDs |-> None]
     \/ /\ rclose = "wait" /\ rclose' = "returned" /\ UNCHANGED <<hend, clients>>
        /\ raccept = "ended" /\ \A k \in Conns : handler[k].at \in {"none", "ended"}
  /\ UNCHANGED <<kvars, up, down, kend, handler, raccept, latest>>

handleConn(k) ==
  \/ ReadRegister(k) \/ register(k) \/ CloseOld(k)
  \/ ReadSend(k) \/ Lookup(k) \/ Forward(k) \/ HandlerEnds(k)

Next ==
  \/ \E k \in Conns : Dial(k) \/ readLoop(k) \/ SocketClose(k) \/ handleConn(k)
  \/ \E k \in Conns, i \in IDs : Send(k, i)
  \/ acceptLoop \/ RelayClose

Spec == Init /\ [][Next]_vars

-----------------------------------------------------------------------------
\* The variables hold what the fields they model can hold.
RelayTypeOK ==
  /\ ksock \in [Conns -> {"out", "dialled", "open", "closing", "closed"}]
  /\ kloop \in [Conns -> {"none", "loop", "ended"}] /\ ksent \in 0..MaxSend
  /\ {kend, hend} \subseteq [Conns -> BOOLEAN]
  /\ \A k \in Conns : Len(up[k]) <= Pipe /\ Len(down[k]) <= Pipe
  /\ \A k \in Conns : handler[k].to \in Conns \cup {None}
  /\ clients \in [IDs -> Conns \cup {None}] /\ latest \in [IDs -> Conns \cup {None}]
  /\ raccept \in {"accept", "ended"} /\ rclose \in {"no", "conns", "wait", "returned"}

\* Until the server is closed, the connection that registered an ID last stays
\* reachable under it for as long as its handler serves it, however the handlers
\* of earlier connections with that ID come to an end; and no ID leads to a
\* connection whose handler has gone.
NewestReachable ==
  /\ rclose \in {"no", "conns"} =>
       \A i \in IDs : latest[i] # None =>
         (handler[latest[i]].at \in {"replace", "loop", "lookup", "write"} => clients[i] = latest[i])
  /\ \A i \in IDs : clients[i] # None => handler[clients[i]].at \notin {"none", "register", "publish", "close", "ended"}

\* A Close that has been called goes on.
CloseGoesOn == rclose # "no" /\ RelayClose

CloseStuck ==
  rclose = "wait" /\ \A k \in Conns : handler[k].at \notin {"register", "publish"} /\ clients[IdOf[k]] # k

\* "Close ... closes every registered client connection, and waits for all
\* goroutines to exit": it returns once no connection is left that was accepted
\* but had not registered when Close looked; those it waits for, however long.
RelayCloseReturns == []<>~CloseStuck

\* The same without the exception, which the code does not keep.
RelayCloseAlways == rclose = "wait" ~> rclose = "returned"
=============================================================================

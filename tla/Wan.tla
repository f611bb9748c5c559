-------------------------------- MODULE Wan --------------------------------
(***************************************************************************)
(* The WAN bridge (bridge/wan/wan.go): a client Bridge forwards the        *)
(* samples of its topics over one TCP connection, one goroutine per topic  *)
(* sharing a write mutex, and a server Bridge publishes what it decodes.   *)
(* A frame is two writes, the length and the body.  The connection is a    *)
(* byte stream of at most Buf pieces in flight: a write to a full one      *)
(* blocks with the mutex held.  Both bridges may be closed at any moment.  *)
(***************************************************************************)
EXTENDS Naturals, Sequences, FiniteSets

CONSTANTS Topics,   \* Options.Topics
          None,     \* no holder of the mutex
          MaxPub,   \* bound: samples per topic at the client's participant
          Buf       \* bound: pieces in flight on the connection

VARIABLES
  subch,    \* per topic, [q: samples in the subscriber's channel, open: BOOLEAN]
  npub,     \* per topic, samples published so far
  sender,   \* per topic, [at, n] of its goroutine in sendLoop
  wmu,      \* holder of sendLoop's write mutex
  cend,     \* the client's end of the connection: "open" or "closed"
  cclose,   \* client Close(): "no", "conns", "wait", "returned"
  pipe,     \* pieces written and not yet read
  send,     \* the server's end: "backlog", "open" or "closed"
  accept,   \* acceptLoop: "accept", "got" or "ended"
  tracked,  \* is the connection in the server's conns
  recv,     \* [at, t, n] of receiveLoop
  sclose,   \* server Close()
  passed,   \* per topic, the samples the server published
  garbled   \* has the server decoded a frame nobody wrote

cvars == <<subch, npub, sender, wmu, cend, cclose>>
svars == <<send, accept, tracked, recv, sclose, passed, garbled>>
wvars == <<cvars, pipe, svars>>

Sender(at, n) == [at |-> at, n |-> n]

\* Serve and Connect have returned; the token, right or wrong, is on its way.
Init ==
  /\ subch = [t \in Topics |-> [q |-> << >>, open |-> TRUE]]
  /\ npub = [t \in Topics |-> 0]
  /\ sender = [t \in Topics |-> Sender("select", 0)]
  /\ wmu = None /\ cend = "open" /\ cclose = "no"
  /\ pipe \in {<<<<"auth", ok, 0>>>> : ok \in BOOLEAN}
  /\ send = "backlog" /\ accept = "accept" /\ tracked = FALSE
  /\ recv = [at |-> "none", t |-> None, n |-> 0] /\ sclose = "no"
  /\ passed = [t \in Topics |-> << >>] /\ garbled = FALSE

\* A local publication reaches the subscriber's channel.
Publish(t) ==
  /\ subch[t].open /\ npub[t] < MaxPub
  /\ npub' = [npub EXCEPT ![t] = @ + 1]
  /\ subch' = [subch EXCEPT ![t].q = Append(@, npub[t] + 1)]
  /\ UNCHANGED <<sender, wmu, cend, cclose, pipe, svars>>

closeAllSubs == [t \in Topics |-> [subch[t] EXCEPT !.open = FALSE]]

\* select: a sample, the closed channel, or done (which Close has closed).
Select(t) ==
  /\ sender[t].at = "select"
  /\ \/ /\ subch[t].q # << >>
        /\ sender' = [sender EXCEPT ![t] = Sender("lock", Head(subch[t].q))]
        /\ subch' = [subch EXCEPT ![t].q = Tail(@)]
     \/ /\ \/ subch[t].q = << >> /\ ~subch[t].open
           \/ cclose # "no"
        /\ sender' = [sender EXCEPT ![t] = Sender("ended", 0)]
        /\ UNCHANGED subch
  /\ UNCHANGED <<npub, wmu, cend, cclose, pipe, svars>>

\* (a bug for the checks: the lock is not taken)
LockNone(t) ==
  /\ sender[t].at = "lock"
  /\ UNCHANGED wmu /\ sender' = [sender EXCEPT ![t].at = "hdr"]
  /\ UNCHANGED <<subch, npub, cend, cclose, pipe, svars>>

Lock(t) ==
  /\ sender[t].at = "lock" /\ wmu = None
  /\ wmu' = t /\ sender' = [sender EXCEPT ![t].at = "hdr"]
  /\ UNCHANGED <<subch, npub, cend, cclose, pipe, svars>>

\* One Write of the connection: it fails on a closed end, may fail or be lost
\* once the peer has closed, and blocks while the connection is full.
Put(piece, ok) ==
  \/ ok /\ cend = "open" /\ send # "closed" /\ Len(pipe) < Buf /\ pipe' = Append(pipe, piece)
  \/ ok /\ cend = "open" /\ send = "closed" /\ pipe' = pipe
  \/ ~ok /\ (cend = "closed" \/ send = "closed") /\ pipe' = pipe

Unlock(t) == IF wmu = t THEN None ELSE wmu

\* writeFrame: the length, then the body; an error closes every subscriber.
writeFrame(t) ==
  /\ sender[t].at \in {"hdr", "body"}
  /\ \E ok \in BOOLEAN :
       /\ Put(<<sender[t].at, t, sender[t].n>>, ok)
       /\ LET next == IF ~ok THEN "ended" ELSE IF sender[t].at = "hdr" THEN "body" ELSE "select"
          IN  /\ sender' = [sender EXCEPT ![t].at = next]
              /\ wmu' = IF next = "body" THEN wmu ELSE Unlock(t)
              /\ subch' = IF ok THEN subch ELSE closeAllSubs
  /\ UNCHANGED <<npub, cend, cclose, svars>>

\* sendLoop after innerWg.Wait(): the deferred closes.
SendLoopEnds ==
  /\ \A t \in Topics : sender[t].at = "ended"
  /\ cend = "open" \/ \E t \in Topics : subch[t].open
  /\ cend' = "closed" /\ subch' = closeAllSubs
  /\ UNCHANGED <<npub, sender, wmu, cclose, pipe, svars>>

\* Close of the client bridge: done, closeAllConns, then wg.Wait().
ClientClose ==
  /\ \/ cclose = "no" /\ cclose' = "conns" /\ UNCHANGED cend
     \/ cclose = "conns" /\ cclose' = "wait" /\ cend' = "closed"
     \/ cclose = "wait" /\ cclose' = "returned" /\ UNCHANGED cend
        /\ \A t \in Topics : sender[t].at = "ended" /\ ~subch[t].open
  /\ UNCHANGED <<subch, npub, sender, wmu, pipe, svars>>

-----------------------------------------------------------------------------
\* acceptLoop: Accept returns a connection, or fails once the listener is closed ...
Accept ==
  /\ accept = "accept"
  /\ \/ sclose = "no" /\ send = "backlog" /\ accept' = "got" /\ send' = "open"
     \/ sclose # "no" /\ accept' = "ended" /\ UNCHANGED send
  /\ UNCHANGED <<cvars, pipe, tracked, recv, sclose, passed, garbled>>

\* ... and the connection is added to conns and served, whatever Close did since.
AddConn ==
  /\ accept = "got" /\ accept' = "accept"
  /\ tracked' = TRUE /\ recv' = [recv EXCEPT !.at = "auth"]
  /\ UNCHANGED <<cvars, pipe, send, sclose, passed, garbled>>

\* receiveLoop returns: conn.Close and removeConn, deferred.
RecvEnds ==
  /\ recv' = [recv EXCEPT !.at = "ended"] /\ send' = "closed" /\ tracked' = FALSE
  /\ UNCHANGED <<passed, garbled>>

\* A read of the next piece: an error on a closed end, or when the client has
\* closed and nothing is left; otherwise it blocks for one.
Broken == send = "closed" \/ (pipe = << >> /\ cend = "closed")

readAuth ==
  /\ recv.at = "auth"
  /\ \/ Broken /\ RecvEnds /\ UNCHANGED pipe
     \/ /\ ~Broken /\ pipe # << >> /\ pipe' = Tail(pipe)
        /\ IF Head(pipe)[2] = TRUE
           THEN recv' = [recv EXCEPT !.at = "hdr"] /\ UNCHANGED <<send, tracked, passed, garbled>>
           ELSE RecvEnds
  /\ UNCHANGED <<cvars, accept, sclose>>

readFrame ==
  /\ recv.at \in {"hdr", "body"}
  /\ \/ Broken /\ RecvEnds /\ UNCHANGED pipe
     \/ /\ ~Broken /\ pipe # << >> /\ pipe' = Tail(pipe)
        /\ LET p == Head(pipe) IN
             IF recv.at = "hdr"
             THEN /\ recv' = [at |-> "body", t |-> p[2], n |-> p[3]]
                  /\ garbled' = (garbled \/ p[1] # "hdr")
             ELSE /\ recv' = [recv EXCEPT !.at = "write"]
                  /\ garbled' = (garbled \/ p # <<"body", recv.t, recv.n>>)
        /\ UNCHANGED <<send, tracked, passed>>
  /\ UNCHANGED <<cvars, accept, sclose>>

\* The topic's publisher, created on its first frame, writes the sample; an
\* error of either ends the loop.
PublishFrame ==
  /\ recv.at = "write"
  /\ \/ /\ passed' = [passed EXCEPT ![recv.t] = Append(@, recv.n)]
        /\ recv' = [recv EXCEPT !.at = "hdr"] /\ UNCHANGED <<send, tracked, garbled>>
     \/ RecvEnds
  /\ UNCHANGED <<cvars, pipe, accept, sclose>>

\* (a bug for the checks: the connections stay open)
closeAllConnsNot == send

closeAllConns == IF tracked THEN "closed" ELSE send

ServerClose ==
  /\ \/ sclose = "no" /\ sclose' = "conns" /\ UNCHANGED <<send, tracked>>
     \/ sclose = "conns" /\ sclose' = "wait" /\ send' = closeAllConns /\ tracked' = FALSE
     \/ sclose = "wait" /\ sclose' = "returned" /\ UNCHANGED <<send, tracked>>
        /\ accept = "ended" /\ recv.at \in {"none", "ended"}
  /\ UNCHANGED <<cvars, pipe, accept, recv, passed, garbled>>

\* The goroutines: one per topic, acceptLoop, receiveLoop.
TopicLoop(t) == Select(t) \/ writeFrame(t)
acceptLoop == Accept \/ AddConn
receiveLoop == readAuth \/ readFrame \/ PublishFrame

Next ==
  \/ \E t \in Topics : Publish(t) \/ TopicLoop(t) \/ Lock(t)
  \/ SendLoopEnds \/ ClientClose \/ acceptLoop \/ receiveLoop \/ ServerClose

Spec == Init /\ [][Next]_wvars

\* The variables hold what the fields they model can hold.
TypeOK ==
  /\ subch \in [Topics -> [q : Seq(1..MaxPub), open : BOOLEAN]]
  /\ npub \in [Topics -> 0..MaxPub]
  /\ sender \in [Topics -> [at : {"select", "lock", "hdr", "body", "ended"}, n : 0..MaxPub]]
  /\ wmu \in Topics \cup {None} /\ Len(pipe) <= Buf
  /\ {cclose, sclose} \subseteq {"no", "conns", "wait", "returned"}
  /\ cend \in {"open", "closed"} /\ send \in {"backlog", "open", "closed"}
  /\ accept \in {"accept", "got", "ended"} /\ tracked \in BOOLEAN
  /\ recv.at \in {"none", "auth", "hdr", "body", "write", "ended"}
  /\ passed \in [Topics -> Seq(1..MaxPub)] /\ garbled \in BOOLEAN

\* The server publishes, per topic, an initial run of what the client's
\* subscriber received: in order, nothing twice and nothing left out before the
\* point where the connection ended, although topics share one connection.
ForwardedInOrder ==
  /\ ~garbled
  /\ \A t \in Topics : \A i \in 1..Len(passed[t]) : passed[t][i] = i

\* A Close that has been called goes on, at either end.
ClientGoesOn == cclose # "no" /\ ClientClose
ServerGoesOn == sclose # "no" /\ ServerClose

ClientStuck == cclose = "wait"
ServerStuck == sclose = "wait" /\ ~tracked

\* "Close stops the bridge and waits for all goroutines to exit": it returns,
\* on both sides, whatever the peer does; unless the accept loop adds a connection
\* after Close has closed those in conns.
ClosesReturn == []<>~ClientStuck /\ []<>~ServerStuck

\* The same without the exception, which the code does not keep.
CloseAlwaysReturns == sclose = "wait" ~> sclose = "returned"
=============================================================================

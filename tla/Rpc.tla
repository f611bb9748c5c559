--------------------------------- MODULE Rpc ---------------------------------
(* Request-reply over two topics (rpc/rpc.go): one Requester with concurrent *)
(* Request calls and its demux goroutine, and Repliers with their pumps.     *)
(* The topics are best effort: requests and replies may be lost, reordered   *)
(* and, with several Repliers, duplicated.                                   *)
EXTENDS Integers, Sequences, FiniteSets, TLAPS

CONSTANTS Calls,      \* Request calls; each draws a correlation id of its own
          Repliers,
          None

VARIABLES call,       \* where each Request is
          pending,    \* r.pending: ids waiting for a reply
          replyCh,    \* the one-place channel of each call
          demux,      \* the reply demux holds and the call whose channel it has looked up, or that it has returned
          rpcDone,    \* the Requester is closed
          requests,   \* requests in flight: <<replier, id>>
          replies,    \* replies in flight: [id, by]
          serving,    \* rl.requests of each Replier: ids handed to the application
          up,         \* Repliers not closed
          answer      \* what each finished Request returned

vars == <<call, pending, replyCh, demux, rpcDone, requests, replies, serving, up, answer>>
Reply == [id : Calls, by : Repliers]
Err(e) == [err |-> e]
Held == [ch : Calls, msg : Reply]

\* The variables hold what the fields they model can hold.
TypeOK ==
  /\ call \in [Calls -> {"new", "send", "sent", "wait", "returned"}] /\ pending \subseteq Calls
  /\ replyCh \in [Calls -> Reply \cup {None}] /\ demux \in Held \cup {None, Err("gone")}
  /\ requests \subseteq Repliers \X Calls /\ replies \subseteq Reply /\ up \subseteq Repliers
  /\ serving \in [Repliers -> SUBSET Calls]
  /\ answer \in [Calls -> Reply \cup {None} \cup {Err(e) : e \in {"ErrNoReply", "ErrClosed", "ErrSend"}}]

Init ==
  /\ call = [c \in Calls |-> "new"] /\ pending = {} /\ replyCh = [c \in Calls |-> None]
  /\ demux = None /\ rpcDone = FALSE /\ requests = {} /\ replies = {} /\ up = Repliers
  /\ serving = [l \in Repliers |-> {}] /\ answer = [c \in Calls |-> None]

Return(c, v) ==
  /\ call' = [call EXCEPT ![c] = "returned"]
  /\ answer' = [answer EXCEPT ![c] = v]

\* Request registers its channel before it writes.
Request(c) ==
  /\ call[c] = "new"
  /\ call' = [call EXCEPT ![c] = "send"]
  /\ pending' = pending \cup {c}
  /\ UNCHANGED <<replyCh, demux, rpcDone, requests, replies, serving, up, answer>>

\* WriteCtx reaches any of the Repliers, or fails: the context has expired or
\* the publisher is closed.
SendRequest(c) ==
  /\ call[c] = "send"
  /\ \/ /\ ~rpcDone
        /\ \E to \in SUBSET up : requests' = requests \cup (to \X {c})
        /\ call' = [call EXCEPT ![c] = "sent"]
        /\ UNCHANGED <<pending, answer>>
     \/ /\ Return(c, Err("ErrSend")) /\ pending' = pending \ {c}
        /\ UNCHANGED requests
  /\ UNCHANGED <<replyCh, demux, rpcDone, replies, serving, up>>

\* Write has returned; the select of Request takes whichever case is ready.
Await(c) ==
  /\ call[c] = "sent"
  /\ call' = [call EXCEPT ![c] = "wait"]
  /\ UNCHANGED <<pending, replyCh, demux, rpcDone, requests, replies, serving, up, answer>>

GetReply(c) ==
  /\ call[c] = "wait" /\ replyCh[c] # None
  /\ Return(c, replyCh[c])
  /\ replyCh' = [replyCh EXCEPT ![c] = None]
  /\ UNCHANGED <<pending, demux, rpcDone, requests, replies, serving, up>>

\* (a bug for the checks: the entry is left in the table)
ExpireKeeps(c) ==
  /\ call[c] = "wait"
  /\ Return(c, Err("ErrNoReply"))
  /\ UNCHANGED <<pending, replyCh, demux, rpcDone, requests, replies, serving, up>>

Expire(c) ==
  /\ call[c] = "wait"
  /\ Return(c, Err("ErrNoReply"))
  /\ pending' = pending \ {c}
  /\ UNCHANGED <<replyCh, demux, rpcDone, requests, replies, serving, up>>

SeeClosed(c) ==
  /\ call[c] = "wait" /\ rpcDone
  /\ Return(c, Err("ErrClosed"))
  /\ UNCHANGED <<pending, replyCh, demux, rpcDone, requests, replies, serving, up>>

\* (a bug for the checks: the id is not compared)
TakeAny(m) ==
  /\ demux = None /\ m \in replies
  /\ replies' = replies \ {m}
  /\ \/ pending = {} /\ UNCHANGED <<demux, pending>>
     \/ \E c \in pending : demux' = [ch |-> c, msg |-> m] /\ pending' = pending \ {c}
  /\ UNCHANGED <<call, replyCh, rpcDone, requests, serving, up, answer>>

\* demux takes the entry of the reply's id under the lock ...
Take(m) ==
  /\ demux = None /\ m \in replies
  /\ replies' = replies \ {m}
  /\ demux' = IF m.id \in pending THEN [ch |-> m.id, msg |-> m] ELSE None
  /\ pending' = pending \ {m.id}
  /\ UNCHANGED <<call, replyCh, rpcDone, requests, serving, up, answer>>

\* (a bug for the checks: the reply is handed over only to a caller that waits)
HandUnbuffered ==
  /\ demux \in Held
  /\ replyCh' = [replyCh EXCEPT ![demux.ch] = IF call[demux.ch] = "wait" THEN demux.msg ELSE @]
  /\ demux' = None
  /\ UNCHANGED <<call, pending, rpcDone, requests, replies, serving, up, answer>>

\* ... and sends to its channel after unlocking, without blocking.
Hand ==
  /\ demux \in Held
  /\ replyCh' = [replyCh EXCEPT ![demux.ch] = IF @ = None THEN demux.msg ELSE @]
  /\ demux' = None
  /\ UNCHANGED <<call, pending, rpcDone, requests, replies, serving, up, answer>>

DemuxReturn ==
  /\ demux = None /\ rpcDone
  /\ demux' = Err("gone")
  /\ UNCHANGED <<call, pending, replyCh, rpcDone, requests, replies, serving, up, answer>>

CloseRequester ==
  /\ ~rpcDone /\ rpcDone' = TRUE
  /\ UNCHANGED <<call, pending, replyCh, demux, requests, replies, serving, up, answer>>

\* A Replier's pump hands the request to the application, which replies once.
PumpRequest(l, c) ==
  /\ l \in up /\ <<l, c>> \in requests
  /\ requests' = requests \ {<<l, c>>}
  /\ serving' = [serving EXCEPT ![l] = @ \cup {c}]
  /\ UNCHANGED <<call, pending, replyCh, demux, rpcDone, replies, up, answer>>

ReplyTo(l, c) ==
  /\ l \in up /\ c \in serving[l]
  /\ serving' = [serving EXCEPT ![l] = @ \ {c}]
  /\ replies' = replies \cup {[id |-> c, by |-> l]}
  /\ UNCHANGED <<call, pending, replyCh, demux, rpcDone, requests, up, answer>>

CloseReplier(l) ==
  /\ l \in up
  /\ up' = up \ {l}
  /\ UNCHANGED <<call, pending, replyCh, demux, rpcDone, requests, replies, serving, answer>>

LoseReply(m) ==
  /\ m \in replies
  /\ replies' = replies \ {m}
  /\ UNCHANGED <<call, pending, replyCh, demux, rpcDone, requests, serving, up, answer>>

CallStep(c) == Request(c) \/ SendRequest(c) \/ Await(c) \/ GetReply(c) \/ Expire(c) \/ SeeClosed(c)

Next ==
  \/ \E c \in Calls : CallStep(c)
  \/ \E m \in replies : Take(m) \/ LoseReply(m)
  \/ Hand \/ DemuxReturn \/ CloseRequester
  \/ \E l \in Repliers : CloseReplier(l) \/ \E c \in Calls : PumpRequest(l, c) \/ ReplyTo(l, c)

Spec == Init /\ [][Next]_vars

-----------------------------------------------------------------------------
\* A Request that returns a reply returns one to its own correlation id.
RightReply == \A c \in Calls : answer[c] \in Reply => answer[c].id = c

\* r.pending holds no entry of a finished Request, whichever of the reply, the
\* context and a failed write came first; only Close may leave entries behind.
NoLeak == ~rpcDone => \A c \in pending : call[c] \in {"send", "sent", "wait"}

\* While the Requester is open a waiting Request can still be answered: its id
\* is pending, or its reply is in its channel or in demux's hands.
Answerable ==
  \A c \in Calls : call[c] \in {"sent", "wait"} =>
     \/ c \in pending \/ replyCh[c] # None \/ rpcDone
     \/ demux \in Held /\ demux.ch = c

-----------------------------------------------------------------------------
\* None is neither a reply nor what demux holds.
Fresh == None \notin Reply \cup Held

\* Why a reply goes to its own Request: what demux holds and what is in a channel
\* carries the id it was looked up with.
Addressed ==
  /\ \A c \in Calls : replyCh[c] # None => replyCh[c].id = c
  /\ demux \in Held => demux.msg.id = demux.ch

\* A call's reply is in demux's hands or in its channel.
Taken(c) == replyCh[c] # None \/ (demux \in Held /\ demux.ch = c)

\* An id leaves r.pending when its reply is taken, and comes in once.
Once == \A c \in Calls : /\ Taken(c) => c \notin pending /\ call[c] # "new"
                         /\ c \in pending => call[c] # "new"

\* Answerable, from the registration on.
Reachable == \A c \in Calls : call[c] \in {"send", "sent", "wait"} => c \in pending \/ Taken(c) \/ rpcDone

IInv == TypeOK /\ Addressed /\ Once /\ Reachable /\ RightReply /\ NoLeak

\* An error is neither a reply nor what demux holds.
LEMMA Errors == ASSUME NEW e PROVE Err(e) \notin Reply /\ Err(e) \notin Held
<1>1. DOMAIN Err(e) = {"err"}
  BY DEF Err
<1>2. \A x \in Reply : DOMAIN x = {"id", "by"}
  BY DEF Reply
<1>3. \A x \in Held : DOMAIN x = {"ch", "msg"}
  BY DEF Held
<1> QED BY <1>1, <1>2, <1>3

\* A reply in demux's hands has a call and an id.
LEMMA HeldFields == \A x \in Held : x.ch \in Calls /\ x.msg \in Reply
BY DEF Held

\* The types are kept.
LEMMA NextTypes == ASSUME Fresh, IInv, [Next]_vars PROVE TypeOK'
<1> USE HeldFields DEF IInv, TypeOK
<1>1. ASSUME NEW c \in Calls, Request(c) PROVE TypeOK'
  BY <1>1 DEF Request
<1>2. ASSUME NEW c \in Calls, SendRequest(c) PROVE TypeOK'
  BY <1>2 DEF SendRequest, Return
<1>3. ASSUME NEW c \in Calls, Await(c) PROVE TypeOK'
  BY <1>3 DEF Await
<1>4. ASSUME NEW c \in Calls, GetReply(c) PROVE TypeOK'
  BY <1>4 DEF GetReply, Return
<1>5. ASSUME NEW c \in Calls, Expire(c) PROVE TypeOK'
  BY <1>5 DEF Expire, Return
<1>6. ASSUME NEW c \in Calls, SeeClosed(c) PROVE TypeOK'
  BY <1>6 DEF SeeClosed, Return
<1>7. ASSUME NEW m \in replies, Take(m) PROVE TypeOK'
  <2>1. m \in Reply /\ m.id \in Calls
    BY <1>7 DEF Reply
  <2>2. [ch |-> m.id, msg |-> m] \in Held
    BY <2>1 DEF Held
  <2> QED BY <1>7, <2>2 DEF Take
<1>8. ASSUME NEW m \in replies, LoseReply(m) PROVE TypeOK'
  BY <1>8 DEF LoseReply
<1>9. ASSUME Hand PROVE TypeOK'
  BY <1>9 DEF Hand
<1>10. ASSUME DemuxReturn PROVE TypeOK'
  BY <1>10 DEF DemuxReturn
<1>11. ASSUME CloseRequester PROVE TypeOK'
  BY <1>11 DEF CloseRequester
<1>12. ASSUME NEW l \in Repliers, CloseReplier(l) PROVE TypeOK'
  BY <1>12 DEF CloseReplier
<1>13. ASSUME NEW l \in Repliers, NEW c \in Calls, PumpRequest(l, c) PROVE TypeOK'
  BY <1>13 DEF PumpRequest
<1>14. ASSUME NEW l \in Repliers, NEW c \in Calls, ReplyTo(l, c) PROVE TypeOK'
  <2>1. [id |-> c, by |-> l] \in Reply
    BY DEF Reply
  <2> QED BY <1>14, <2>1 DEF ReplyTo
<1>15. CASE UNCHANGED vars
  BY <1>15 DEF vars
<1> QED BY <1>1, <1>2, <1>3, <1>4, <1>5, <1>6, <1>7, <1>8, <1>9, <1>10, <1>11, <1>12, <1>13, <1>14, <1>15 DEF Next, CallStep

\* Replies stay with their ids.
LEMMA NextAddressed == ASSUME Fresh, IInv, [Next]_vars PROVE Addressed' /\ RightReply'
<1> USE Errors, HeldFields DEF IInv, TypeOK, Addressed, RightReply, Fresh
<1>1. ASSUME NEW c \in Calls, Request(c) PROVE Addressed' /\ RightReply'
  BY <1>1 DEF Request
<1>2. ASSUME NEW c \in Calls, SendRequest(c) PROVE Addressed' /\ RightReply'
  BY <1>2 DEF SendRequest, Return
<1>3. ASSUME NEW c \in Calls, Await(c) PROVE Addressed' /\ RightReply'
  BY <1>3 DEF Await
<1>4. ASSUME NEW c \in Calls, GetReply(c) PROVE Addressed' /\ RightReply'
  BY <1>4 DEF GetReply, Return
<1>5. ASSUME NEW c \in Calls, Expire(c) PROVE Addressed' /\ RightReply'
  BY <1>5 DEF Expire, Return
<1>6. ASSUME NEW c \in Calls, SeeClosed(c) PROVE Addressed' /\ RightReply'
  BY <1>6 DEF SeeClosed, Return
<1>7. ASSUME NEW m \in replies, Take(m) PROVE Addressed' /\ RightReply'
  <2>1. m \in Reply /\ m.id \in Calls
    BY <1>7 DEF Reply
  <2>2. [ch |-> m.id, msg |-> m] \in Held
    BY <2>1 DEF Held
  <2> QED BY <1>7, <2>2 DEF Take
<1>8. ASSUME NEW m \in replies, LoseReply(m) PROVE Addressed' /\ RightReply'
  BY <1>8 DEF LoseReply
<1>9. ASSUME Hand PROVE Addressed' /\ RightReply'
  BY <1>9 DEF Hand
<1>10. ASSUME DemuxReturn PROVE Addressed' /\ RightReply'
  BY <1>10 DEF DemuxReturn
<1>11. ASSUME CloseRequester PROVE Addressed' /\ RightReply'
  BY <1>11 DEF CloseRequester
<1>12. ASSUME NEW l \in Repliers, CloseReplier(l) PROVE Addressed' /\ RightReply'
  BY <1>12 DEF CloseReplier
<1>13. ASSUME NEW l \in Repliers, NEW c \in Calls, PumpRequest(l, c) PROVE Addressed' /\ RightReply'
  BY <1>13 DEF PumpRequest
<1>14. ASSUME NEW l \in Repliers, NEW c \in Calls, ReplyTo(l, c) PROVE Addressed' /\ RightReply'
  BY <1>14 DEF ReplyTo
<1>15. CASE UNCHANGED vars
  BY <1>15 DEF vars
<1> QED BY <1>1, <1>2, <1>3, <1>4, <1>5, <1>6, <1>7, <1>8, <1>9, <1>10, <1>11, <1>12, <1>13, <1>14, <1>15 DEF Next, CallStep

\* Ids are taken once.
LEMMA NextOnce == ASSUME Fresh, IInv, [Next]_vars PROVE Once'
<1> USE Errors, HeldFields DEF IInv, TypeOK, Once, Taken, Fresh
<1>1. ASSUME NEW c \in Calls, Request(c) PROVE Once'
  BY <1>1 DEF Request
<1>2. ASSUME NEW c \in Calls, SendRequest(c) PROVE Once'
  BY <1>2 DEF SendRequest, Return
<1>3. ASSUME NEW c \in Calls, Await(c) PROVE Once'
  BY <1>3 DEF Await
<1>4. ASSUME NEW c \in Calls, GetReply(c) PROVE Once'
  BY <1>4 DEF GetReply, Return
<1>5. ASSUME NEW c \in Calls, Expire(c) PROVE Once'
  BY <1>5 DEF Expire, Return
<1>6. ASSUME NEW c \in Calls, SeeClosed(c) PROVE Once'
  BY <1>6 DEF SeeClosed, Return
<1>7. ASSUME NEW m \in replies, Take(m) PROVE Once'
  <2>1. m \in Reply /\ m.id \in Calls
    BY <1>7 DEF Reply
  <2> QED BY <1>7, <2>1 DEF Take
<1>8. ASSUME NEW m \in replies, LoseReply(m) PROVE Once'
  BY <1>8 DEF LoseReply
<1>9. ASSUME Hand PROVE Once'
  <2>1. demux.ch \in Calls /\ demux.msg # None /\ Taken(demux.ch)
    BY <1>9 DEF Hand
  <2>2. /\ replyCh'[demux.ch] # None /\ \A c \in Calls \ {demux.ch} : replyCh'[c] = replyCh[c]
        /\ demux' \notin Held /\ UNCHANGED <<call, pending, rpcDone>>
    BY <1>9, <2>1 DEF Hand
  <2>3. \A c \in Calls : Taken(c)' <=> Taken(c)
    BY <1>9, <2>1, <2>2
  <2> HIDE DEF Taken
  <2> QED BY <2>2, <2>3
<1>10. ASSUME DemuxReturn PROVE Once'
  <2>1. demux' \notin Held /\ demux \notin Held /\ UNCHANGED <<call, pending, replyCh>>
    BY <1>10 DEF DemuxReturn
  <2>2. \A c \in Calls : Taken(c)' <=> Taken(c)
    BY <2>1
  <2> HIDE DEF Taken
  <2> QED BY <2>1, <2>2
<1>11. ASSUME CloseRequester PROVE Once'
  BY <1>11 DEF CloseRequester
<1>12. ASSUME NEW l \in Repliers, CloseReplier(l) PROVE Once'
  BY <1>12 DEF CloseReplier
<1>13. ASSUME NEW l \in Repliers, NEW c \in Calls, PumpRequest(l, c) PROVE Once'
  BY <1>13 DEF PumpRequest
<1>14. ASSUME NEW l \in Repliers, NEW c \in Calls, ReplyTo(l, c) PROVE Once'
  BY <1>14 DEF ReplyTo
<1>15. CASE UNCHANGED vars
  BY <1>15 DEF vars
<1> QED BY <1>1, <1>2, <1>3, <1>4, <1>5, <1>6, <1>7, <1>8, <1>9, <1>10, <1>11, <1>12, <1>13, <1>14, <1>15 DEF Next, CallStep

\* A Request in progress can be answered.
LEMMA NextReachable == ASSUME Fresh, IInv, [Next]_vars PROVE Reachable'
<1> USE Errors, HeldFields DEF IInv, TypeOK, Reachable, Taken, Fresh
<1>1. ASSUME NEW c \in Calls, Request(c) PROVE Reachable'
  BY <1>1 DEF Request
<1>2. ASSUME NEW c \in Calls, SendRequest(c) PROVE Reachable'
  BY <1>2 DEF SendRequest, Return
<1>3. ASSUME NEW c \in Calls, Await(c) PROVE Reachable'
  BY <1>3 DEF Await
<1>4. ASSUME NEW c \in Calls, GetReply(c) PROVE Reachable'
  BY <1>4 DEF GetReply, Return
<1>5. ASSUME NEW c \in Calls, Expire(c) PROVE Reachable'
  BY <1>5 DEF Expire, Return
<1>6. ASSUME NEW c \in Calls, SeeClosed(c) PROVE Reachable'
  BY <1>6 DEF SeeClosed, Return
<1>7. ASSUME NEW m \in replies, Take(m) PROVE Reachable'
  <2>1. m \in Reply /\ m.id \in Calls
    BY <1>7 DEF Reply
  <2>2. [ch |-> m.id, msg |-> m] \in Held
    BY <2>1 DEF Held
  <2>3. UNCHANGED <<call, replyCh, rpcDone>> /\ demux \notin Held /\ pending' = pending \ {m.id}
    BY <1>7 DEF Take
  <2>4. m.id \in pending => demux' \in Held /\ demux'.ch = m.id
    BY <1>7, <2>2 DEF Take
  <2> QED BY <2>1, <2>3, <2>4
<1>8. ASSUME NEW m \in replies, LoseReply(m) PROVE Reachable'
  BY <1>8 DEF LoseReply
<1>9. ASSUME Hand PROVE Reachable'
  <2>1. demux.ch \in Calls /\ demux.msg # None /\ Taken(demux.ch)
    BY <1>9 DEF Hand
  <2>2. /\ replyCh'[demux.ch] # None /\ \A c \in Calls \ {demux.ch} : replyCh'[c] = replyCh[c]
        /\ demux' \notin Held /\ UNCHANGED <<call, pending, rpcDone>>
    BY <1>9, <2>1 DEF Hand
  <2>3. \A c \in Calls : Taken(c)' <=> Taken(c)
    BY <1>9, <2>1, <2>2
  <2> HIDE DEF Taken
  <2> QED BY <2>2, <2>3
<1>10. ASSUME DemuxReturn PROVE Reachable'
  BY <1>10 DEF DemuxReturn
<1>11. ASSUME CloseRequester PROVE Reachable'
  BY <1>11 DEF CloseRequester
<1>12. ASSUME NEW l \in Repliers, CloseReplier(l) PROVE Reachable'
  BY <1>12 DEF CloseReplier
<1>13. ASSUME NEW l \in Repliers, NEW c \in Calls, PumpRequest(l, c) PROVE Reachable'
  BY <1>13 DEF PumpRequest
<1>14. ASSUME NEW l \in Repliers, NEW c \in Calls, ReplyTo(l, c) PROVE Reachable'
  BY <1>14 DEF ReplyTo
<1>15. CASE UNCHANGED vars
  BY <1>15 DEF vars
<1> QED BY <1>1, <1>2, <1>3, <1>4, <1>5, <1>6, <1>7, <1>8, <1>9, <1>10, <1>11, <1>12, <1>13, <1>14, <1>15 DEF Next, CallStep

\* A finished Request leaves nothing pending.
LEMMA NextLeak == ASSUME Fresh, IInv, [Next]_vars PROVE NoLeak'
<1> USE DEF IInv, TypeOK, NoLeak, Once, Taken
<1>1. ASSUME NEW c \in Calls, Request(c) PROVE NoLeak'
  BY <1>1 DEF Request
<1>2. ASSUME NEW c \in Calls, SendRequest(c) PROVE NoLeak'
  BY <1>2 DEF SendRequest, Return
<1>3. ASSUME NEW c \in Calls, Await(c) PROVE NoLeak'
  BY <1>3 DEF Await
<1>4. ASSUME NEW c \in Calls, GetReply(c) PROVE NoLeak'
  <2>1. c \notin pending
    BY <1>4 DEF GetReply
  <2>2. /\ UNCHANGED <<pending, rpcDone>> /\ \A d \in Calls \ {c} : call'[d] = call[d]
    BY <1>4 DEF GetReply, Return
  <2> QED BY <2>1, <2>2
<1>5. ASSUME NEW c \in Calls, Expire(c) PROVE NoLeak'
  BY <1>5 DEF Expire, Return
<1>6. ASSUME NEW c \in Calls, SeeClosed(c) PROVE NoLeak'
  BY <1>6 DEF SeeClosed, Return
<1>7. ASSUME NEW m \in replies, Take(m) PROVE NoLeak'
  BY <1>7 DEF Take
<1>8. ASSUME NEW m \in replies, LoseReply(m) PROVE NoLeak'
  BY <1>8 DEF LoseReply
<1>9. ASSUME Hand PROVE NoLeak'
  BY <1>9 DEF Hand
<1>10. ASSUME DemuxReturn PROVE NoLeak'
  BY <1>10 DEF DemuxReturn
<1>11. ASSUME CloseRequester PROVE NoLeak'
  BY <1>11 DEF CloseRequester
<1>12. ASSUME NEW l \in Repliers, CloseReplier(l) PROVE NoLeak'
  BY <1>12 DEF CloseReplier
<1>13. ASSUME NEW l \in Repliers, NEW c \in Calls, PumpRequest(l, c) PROVE NoLeak'
  BY <1>13 DEF PumpRequest
<1>14. ASSUME NEW l \in Repliers, NEW c \in Calls, ReplyTo(l, c) PROVE NoLeak'
  BY <1>14 DEF ReplyTo
<1>15. CASE UNCHANGED vars
  BY <1>15 DEF vars
<1> QED BY <1>1, <1>2, <1>3, <1>4, <1>5, <1>6, <1>7, <1>8, <1>9, <1>10, <1>11, <1>12, <1>13, <1>14, <1>15 DEF Next, CallStep

\* The invariant holds and is kept.
LEMMA Invariant == ASSUME Fresh PROVE Spec => []IInv
<1>1. Init => IInv
  BY DEF Fresh, Init, IInv, TypeOK, Addressed, Once, Taken, Reachable, RightReply, NoLeak
<1>2. IInv /\ [Next]_vars => IInv'
  BY NextTypes, NextAddressed, NextOnce, NextReachable, NextLeak DEF IInv
<1> QED BY <1>1, <1>2, PTL DEF Spec

\* The table, the channels and what is in flight hold only ids of calls that were made.
THEOREM TypeCorrect == ASSUME Fresh PROVE Spec => []TypeOK
<1>1. IInv => TypeOK
  BY DEF IInv
<1> QED BY <1>1, Invariant, PTL

\* Any number of concurrent Requests and Repliers: no Request gets the reply of
\* another.
THEOREM RepliesMatch == ASSUME Fresh PROVE Spec => []RightReply
<1>1. IInv => RightReply
  BY DEF IInv
<1> QED BY <1>1, Invariant, PTL

\* r.pending does not grow with finished Requests.
THEOREM PendingBounded == ASSUME Fresh PROVE Spec => []NoLeak
<1>1. IInv => NoLeak
  BY DEF IInv
<1> QED BY <1>1, Invariant, PTL

\* The race of demux with the registration and the write loses no reply.
THEOREM NoReplyLost == ASSUME Fresh PROVE Spec => []Answerable
<1>1. IInv => Answerable
  BY DEF IInv, Reachable, Taken, Answerable
<1> QED BY <1>1, Invariant, PTL
=============================================================================

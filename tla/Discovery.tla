----------------------------- MODULE Discovery -----------------------------
(***************************************************************************)
(* Discovery between RTPS participants: SPDP (rtps/spdp.go) keeps the table *)
(* of live peers, SEDP (rtps/sedp.go) the tables of their endpoints and the *)
(* matches with local readers.  In every participant four goroutines run:   *)
(* the SPDP and the SEDP receive loop, the eviction loop and the            *)
(* application, which creates endpoints and unsubscribes readers.  A step   *)
(* is what a goroutine does between taking and releasing a lock.            *)
(*                                                                          *)
(* A participant's SPDP announcement is periodic, so its receipt by a peer  *)
(* is a step that may be taken at any time while the sender lives.  A SEDP  *)
(* datagram may be lost, delayed and reordered, and is repeated with every  *)
(* announcement.  A lease may expire whenever announcements were lost for   *)
(* long enough.                                                             *)
(***************************************************************************)
EXTENDS Integers, FiniteSets, TLAPS

CONSTANTS
  Parts,      \* participants
  Writers, Readers,
  Owner,      \* the participant of each endpoint
  Topic,      \* the topic (and partition) of each endpoint
  Mortal,     \* the participants that may crash
  MaxExpiries,\* bound: how many leases of live peers expire in each participant
  None

Endpoints == Writers \cup Readers

ASSUME DiscoveryAssumption ==
  /\ Writers \cap Readers = {} /\ Mortal \subseteq Parts
  /\ Owner \in [Endpoints -> Parts] /\ DOMAIN Topic = Endpoints
  /\ MaxExpiries \in [Parts -> Nat] /\ None \notin Parts \cup Endpoints \cup {"app", "sedp"}

VARIABLES
  alive,       \* the participants that have not crashed
  peers,       \* spdp.peers
  local,       \* sedp.localWriters and sedp.localReaders
  readers,     \* participant.readers
  remote,      \* sedp.remoteWriters and sedp.remoteReaders (with their locators)
  locators,    \* participant.writerLocators
  sources,     \* r.sources of every reader
  spdp,        \* the SPDP receive loop: where it is, and about which peer
  sedp,        \* the SEDP receive loop: where it is, the writer, the readers to notify
  evict,       \* the eviction loop: where it is, the peer, the peers after it
  app,         \* the application goroutine: where it is, and the endpoint
  pmu, smu,    \* who holds participant.mu and sedp.mu
  net,         \* SEDP datagrams under way: <<to, endpoint>>
  expiries,    \* how many leases of live peers have expired in each participant
  late         \* history: the peers whose SEDP datagrams have outlived a lease

tables == <<peers, local, readers, remote, locators, sources>>
loops  == <<spdp, sedp, evict, app, pmu, smu>>
rest   == <<alive, expiries, late>>
vars   == <<tables, loops, rest, net>>

Idle == [at |-> "idle", who |-> None, todo |-> {}]

Init ==
  /\ alive = Parts
  /\ peers = [p \in Parts |-> {}] /\ local = [p \in Parts |-> {}]
  /\ readers = [p \in Parts |-> {}] /\ remote = [p \in Parts |-> {}]
  /\ locators = [p \in Parts |-> {}] /\ sources = [r \in Readers |-> {}]
  /\ spdp = [p \in Parts |-> Idle] /\ sedp = [p \in Parts |-> Idle]
  /\ evict = [p \in Parts |-> Idle] /\ app = [p \in Parts |-> Idle]
  /\ pmu = [p \in Parts |-> None] /\ smu = [p \in Parts |-> None]
  /\ net = {} /\ expiries = [p \in Parts |-> 0] /\ late = {}

OwnedBy(q) == {e \in Endpoints : Owner[e] = q}

----------------------------------------------------------------------------
\* A bug for the checks: a participant takes its own announcement for a peer's.
storePeerOwn(p, q) ==
  /\ {p, q} \subseteq alive /\ spdp[p].at = "idle"
  /\ peers' = [peers EXCEPT ![p] = @ \cup {q}]
  /\ spdp' = [spdp EXCEPT ![p] = [Idle EXCEPT !.at = "announce", !.who = q]]
  /\ UNCHANGED <<local, readers, remote, locators, sources, sedp, evict, app, pmu, smu, net, rest>>

\* SPDP receive loop: a packet of the participant's own is ignored.  storePeer,
\* under spdp.mu (and the LivelinessGained callback for a peer that was not known) ...
storePeer(p, q) ==
  /\ {p, q} \subseteq alive /\ p # q /\ spdp[p].at = "idle"
  /\ peers' = [peers EXCEPT ![p] = @ \cup {q}]
  /\ spdp' = [spdp EXCEPT ![p] = [Idle EXCEPT !.at = "announce", !.who = q]]
  /\ UNCHANGED <<local, readers, remote, locators, sources, sedp, evict, app, pmu, smu, net, rest>>

\* A bug for the checks: only the writers are announced again.
onNewPeerWriters(p) ==
  /\ p \in alive /\ spdp[p].at = "announce" /\ smu[p] = None
  /\ net' = net \cup ({spdp[p].who} \X (local[p] \cap Writers))
  /\ spdp' = [spdp EXCEPT ![p] = Idle]
  /\ UNCHANGED <<tables, sedp, evict, app, pmu, smu, rest>>

\* ... and onNewPeer, which announces every local endpoint to the peer, known or not.
onNewPeer(p) ==
  /\ p \in alive /\ spdp[p].at = "announce" /\ smu[p] = None
  /\ net' = net \cup ({spdp[p].who} \X local[p])
  /\ spdp' = [spdp EXCEPT ![p] = Idle]
  /\ UNCHANGED <<tables, sedp, evict, app, pmu, smu, rest>>

----------------------------------------------------------------------------
\* Eviction loop.  evictExpired drops the expired peers, under spdp.mu ...
evictExpired(p, Q) ==
  /\ p \in alive /\ evict[p].at = "idle" /\ Q # {} /\ Q \subseteq peers[p]
  /\ expiries[p] < MaxExpiries[p] \/ Q \cap alive = {}
  /\ late' = late \cup {q \in Q : \E e \in OwnedBy(q) : <<p, e>> \in net \/ sedp[p].who = e}
  /\ expiries' = [expiries EXCEPT ![p] = IF Q \cap alive = {} THEN @ ELSE @ + 1]
  /\ peers' = [peers EXCEPT ![p] = @ \ Q]
  /\ \E q \in Q : evict' = [evict EXCEPT ![p] = [at |-> "sedp", who |-> q, todo |-> Q \ {q}]]
  /\ UNCHANGED <<local, readers, remote, locators, sources, spdp, sedp, app, pmu, smu, net,
                 alive>>

\* A bug for the checks: the peer's writers stay in the table.
onPeerEvictedReaders(p) ==
  /\ p \in alive /\ evict[p].at = "sedp" /\ smu[p] = None
  /\ remote' = [remote EXCEPT ![p] = @ \ (OwnedBy(evict[p].who) \cap Readers)]
  /\ evict' = [evict EXCEPT ![p].at = "locators"]
  /\ UNCHANGED <<peers, local, readers, locators, sources, spdp, sedp, app, pmu, smu, net, rest>>

\* ... onPeerEvicted forgets the peer's endpoints under sedp.mu ...
onPeerEvicted(p) ==
  /\ p \in alive /\ evict[p].at = "sedp" /\ smu[p] = None
  /\ remote' = [remote EXCEPT ![p] = @ \ OwnedBy(evict[p].who)]
  /\ evict' = [evict EXCEPT ![p].at = "locators"]
  /\ UNCHANGED <<peers, local, readers, locators, sources, spdp, sedp, app, pmu, smu, net, rest>>

\* ... and its writers' locators under participant.mu (and the LivelinessLost
\* callback is made); then the next peer.
forgetLocators(p) ==
  /\ p \in alive /\ evict[p].at = "locators" /\ pmu[p] = None
  /\ locators' = [locators EXCEPT ![p] = @ \ OwnedBy(evict[p].who)]
  /\ IF evict[p].todo = {} THEN evict' = [evict EXCEPT ![p] = Idle]
     ELSE \E q \in evict[p].todo :
            evict' = [evict EXCEPT ![p] = [at |-> "sedp", who |-> q, todo |-> @.todo \ {q}]]
  /\ UNCHANGED <<peers, local, readers, remote, sources, spdp, sedp, app, pmu, smu, net, rest>>

----------------------------------------------------------------------------
\* SEDP receive loop.
Matched(p, w) == {r \in local[p] \cap Readers : Topic[r] = Topic[w]}

\* handleEndpointAnnounce for a subscription: onRemoteReader.
onRemoteReader(p, r) ==
  /\ p \in alive /\ r \in Readers /\ sedp[p].at = "idle" /\ <<p, r>> \in net /\ smu[p] = None
  /\ remote' = [remote EXCEPT ![p] = @ \cup {r}]
  /\ net' = net \ {<<p, r>>}
  /\ UNCHANGED <<peers, local, readers, locators, sources, loops, rest>>

\* handleEndpointAnnounce for a publication: onRemoteWriter locks sedp.mu, records
\* the writer and collects the readers that match ...
onRemoteWriter(p, w) ==
  /\ p \in alive /\ w \in Writers /\ sedp[p].at = "idle" /\ <<p, w>> \in net /\ smu[p] = None
  /\ smu' = [smu EXCEPT ![p] = "sedp"]
  /\ remote' = [remote EXCEPT ![p] = @ \cup {w}]
  /\ sedp' = [sedp EXCEPT ![p] = [at |-> "locked", who |-> w, todo |-> Matched(p, w)]]
  /\ net' = net \ {<<p, w>>}
  /\ UNCHANGED <<peers, local, readers, locators, sources, spdp, evict, app, pmu, rest>>

\* A bug for the checks: sedp.mu is still held when the participant is called.
unlockSedpNot(p) ==
  /\ p \in alive /\ sedp[p].at = "locked"
  /\ sedp' = [sedp EXCEPT ![p].at = "notify"]
  /\ UNCHANGED <<tables, spdp, evict, app, pmu, smu, net, rest>>

\* ... unlocks it ...
unlockSedp(p) ==
  /\ p \in alive /\ sedp[p].at = "locked"
  /\ smu' = [smu EXCEPT ![p] = None]
  /\ sedp' = [sedp EXCEPT ![p] = IF @.todo = {} THEN Idle ELSE [@ EXCEPT !.at = "notify"]]
  /\ UNCHANGED <<tables, spdp, evict, app, pmu, net, rest>>

\* ... tells each of them, looked up again under participant.mu ...
readerByEID(p) ==
  /\ p \in alive /\ sedp[p].at = "notify" /\ pmu[p] = None
  /\ \E r \in sedp[p].todo :
       /\ sources' = IF r \in readers[p] THEN [sources EXCEPT ![r] = @ \cup {sedp[p].who}] ELSE sources
       /\ sedp' = [sedp EXCEPT ![p] = [at |-> IF @.todo = {r} THEN "locator" ELSE "notify",
                                       who |-> @.who, todo |-> @.todo \ {r}]]
  /\ UNCHANGED <<peers, local, readers, remote, locators, spdp, evict, app, pmu, smu, net, rest>>

\* ... and keeps the writer's locator.
addWriterLocator(p) ==
  /\ p \in alive /\ sedp[p].at = "locator" /\ pmu[p] = None
  /\ locators' = [locators EXCEPT ![p] = @ \cup {sedp[p].who}]
  /\ sedp' = [sedp EXCEPT ![p] = Idle]
  /\ UNCHANGED <<peers, local, readers, remote, sources, spdp, evict, app, pmu, smu, net, rest>>

----------------------------------------------------------------------------
\* NewPublisher and NewSubscriber take participant.mu for the whole call ...
NewEndpoint(p, e) ==
  /\ p \in alive /\ app[p].at = "idle" /\ pmu[p] = None
  /\ Owner[e] = p /\ e \notin local[p]
  /\ pmu' = [pmu EXCEPT ![p] = "app"]
  /\ readers' = [readers EXCEPT ![p] = @ \cup ({e} \cap Readers)]
  /\ app' = [app EXCEPT ![p] = [Idle EXCEPT !.at = "register", !.who = e]]
  /\ UNCHANGED <<peers, local, remote, locators, sources, spdp, sedp, evict, smu, net, rest>>

\* A bug for the checks: writers discovered before the reader are not linked.
registerUnlinked(p) ==
  /\ p \in alive /\ app[p].at = "register" /\ smu[p] = None
  /\ local' = [local EXCEPT ![p] = @ \cup {app[p].who}]
  /\ app' = [app EXCEPT ![p].at = "broadcast"]
  /\ UNCHANGED <<peers, readers, remote, locators, sources, spdp, sedp, evict, pmu, smu, net, rest>>

\* ... registerWriter or registerReader takes sedp.mu inside it; a reader is
\* linked to the remote writers already known ...
register(p) ==
  LET e == app[p].who
  IN  /\ p \in alive /\ app[p].at = "register" /\ smu[p] = None
      /\ local' = [local EXCEPT ![p] = @ \cup {e}]
      /\ sources' = IF e \in Writers THEN sources
                    ELSE [sources EXCEPT ![e] = {w \in remote[p] \cap Writers : Topic[w] = Topic[e]}]
      /\ app' = [app EXCEPT ![p].at = "broadcast"]
      /\ UNCHANGED <<peers, readers, remote, locators, spdp, sedp, evict, pmu, smu, net, rest>>

\* ... and the endpoint is announced to all known peers.
broadcast(p) ==
  /\ p \in alive /\ app[p].at = "broadcast"
  /\ net' = net \cup (peers[p] \X {app[p].who})
  /\ pmu' = [pmu EXCEPT ![p] = None]
  /\ app' = [app EXCEPT ![p] = Idle]
  /\ UNCHANGED <<tables, spdp, sedp, evict, smu, rest>>

\* Unsubscribe: the reader leaves the participant, but not sedp.localReaders.
Unsubscribe(p, r) ==
  /\ p \in alive /\ app[p].at = "idle" /\ r \in readers[p] /\ pmu[p] = None
  /\ readers' = [readers EXCEPT ![p] = @ \ {r}]
  /\ UNCHANGED <<peers, local, remote, locators, sources, loops, rest, net>>

----------------------------------------------------------------------------
Lose == net # {} /\ (\E m \in net : net' = net \ {m}) /\ UNCHANGED <<tables, loops, rest>>

Crash(q) ==
  /\ q \in alive \cap Mortal /\ Cardinality(alive) > 1
  /\ alive' = alive \ {q}
  /\ UNCHANGED <<tables, loops, net, expiries, late>>

sedpLoop(p)  == unlockSedp(p) \/ readerByEID(p) \/ addWriterLocator(p)
evictLoop(p) == onPeerEvicted(p) \/ forgetLocators(p)
appCall(p)   == register(p) \/ broadcast(p)

Next ==
  \/ \E p, q \in Parts : storePeer(p, q)
  \/ \E p \in Parts : onNewPeer(p)
  \/ \E p \in Parts, Q \in SUBSET Parts : evictExpired(p, Q)
  \/ \E p \in Parts : onPeerEvicted(p)
  \/ \E p \in Parts : forgetLocators(p)
  \/ \E p \in Parts, r \in Readers : onRemoteReader(p, r)
  \/ \E p \in Parts, w \in Writers : onRemoteWriter(p, w)
  \/ \E p \in Parts : unlockSedp(p)
  \/ \E p \in Parts : readerByEID(p)
  \/ \E p \in Parts : addWriterLocator(p)
  \/ \E p \in Parts, e \in Endpoints : NewEndpoint(p, e)
  \/ \E p \in Parts : register(p)
  \/ \E p \in Parts : broadcast(p)
  \/ \E p \in Parts, r \in Readers : Unsubscribe(p, r)
  \/ Lose
  \/ \E q \in Parts : Crash(q)

Spec == Init /\ [][Next]_vars

\* Goroutines that can run do; announcements are periodic, so an idle SPDP loop
\* receives one, and a busy one gets sedp.mu (Go's locks starve nobody); a SEDP
\* datagram that is sent again and again is received; the lease of a crashed peer
\* expires.
Fairness ==
  /\ \A p, q \in Parts : p # q =>
       /\ SF_vars(storePeer(p, q) \/ onNewPeer(p))
       /\ WF_vars(q \notin alive /\ evictExpired(p, {q}))
  /\ \A p \in Parts : WF_vars(sedpLoop(p)) /\ WF_vars(evictLoop(p)) /\ WF_vars(appCall(p))
  /\ \A p \in Parts : \A e \in Endpoints : Owner[e] # p => SF_vars(onRemoteReader(p, e) \/ onRemoteWriter(p, e))

FairSpec == Spec /\ Fairness

----------------------------------------------------------------------------
\* The variables have their types.
TypeOK ==
  /\ alive \subseteq Parts /\ late \subseteq Parts /\ net \subseteq Parts \X Endpoints
  /\ peers \in [Parts -> SUBSET Parts]
  /\ {local, remote} \subseteq [Parts -> SUBSET Endpoints]
  /\ readers \in [Parts -> SUBSET Readers] /\ locators \in [Parts -> SUBSET Writers]
  /\ sources \in [Readers -> SUBSET Writers]
  /\ \A p \in Parts : p \notin peers[p] /\ (\A e \in local[p] : Owner[e] = p) /\ (\A e \in remote[p] : Owner[e] # p)

\* No match is lost between registerReader and onRemoteWriter, whichever comes
\* first: a subscribed reader accepts every matching writer in the table, unless
\* the SEDP loop is about to tell it or the reader's own registration has not come.
NoMissedMatch ==
  \A p \in Parts : \A w \in remote[p] \cap Writers : \A r \in local[p] \cap readers[p] :
    Topic[w] = Topic[r] =>
      w \in sources[r] \/ (sedp[p].who = w /\ r \in sedp[p].todo)

\* The lock order participant.mu before sedp.mu is kept (the comment on sedp.mu):
\* the application, inside participant.mu, never waits for a SEDP loop that holds
\* sedp.mu and waits for participant.mu.
NoLockCycle ==
  \A p \in Parts :
    ~ (/\ pmu[p] = "app" /\ app[p].at = "register"
       /\ smu[p] = "sedp" /\ sedp[p].at \in {"notify", "locator"})

\* Discovery converges whatever SEDP datagrams are lost and however evictions
\* interleave: endpoints of participants that live on end up matched both ways,
\* the reader accepting the writer and the writer routing to the reader.
Converges ==
  \A w \in Writers, r \in Readers :
    Topic[w] = Topic[r] /\ Owner[w] # Owner[r] =>
      <>[]({Owner[w], Owner[r]} \subseteq alive /\ w \in local[Owner[w]] /\ r \in local[Owner[r]] =>
             r \in remote[Owner[w]] /\ (r \in readers[Owner[r]] => w \in sources[r]))

\* A crashed peer is forgotten, unless a SEDP datagram of it outlives its lease:
\* it leaves the peers of every participant that knew it and lives on, and its
\* endpoints leave the SEDP tables and the locators.
CrashedForgotten ==
  \A q \in Mortal : \A p \in Parts \ {q} :
    q \in peers[p] /\ q \notin alive ~>
      \/ p \notin alive \/ q \in late
      \/ q \notin peers[p] /\ (remote[p] \cup locators[p]) \cap OwnedBy(q) = {}

----------------------------------------------------------------------------
\* Proofs of the safety properties, for any participants, endpoints, topics and
\* bounds.  The types of what the goroutines remember between two locks.
SpdpState  == [at : {"idle", "announce"}, who : Parts \cup {None}, todo : SUBSET Parts]
SedpState  == [at : {"idle", "locked", "notify", "locator"}, who : Endpoints \cup {None}, todo : SUBSET Readers]
EvictState == [at : {"idle", "sedp", "locators"}, who : Parts \cup {None}, todo : SUBSET Parts]
AppState   == [at : {"idle", "register", "broadcast"}, who : Endpoints \cup {None}, todo : SUBSET Readers]

LoopTypes ==
  /\ spdp \in [Parts -> SpdpState] /\ sedp \in [Parts -> SedpState]
  /\ evict \in [Parts -> EvictState] /\ app \in [Parts -> AppState]
  /\ smu \in [Parts -> {None, "sedp"}]

\* What the SPDP loop and the application remember, and what is on the wire, never
\* leads a participant to take itself for a peer or an own endpoint for a remote one.
Foreign ==
  /\ \A p \in Parts : spdp[p].at # "idle" => spdp[p].who \in Parts \ {p}
  /\ \A p \in Parts : app[p].at # "idle" => app[p].who \in Endpoints /\ Owner[app[p].who] = p
  /\ \A p \in Parts : sedp[p].at # "idle" => sedp[p].who \in Writers
  /\ \A m \in net : Owner[m[2]] # m[1]

\* The SEDP loop owes a notification only between onRemoteWriter and the last
\* readerByEID, and holds sedp.mu only in onRemoteWriter.
Owing ==
  \A p \in Parts :
    /\ sedp[p].at \in {"idle", "locator"} => sedp[p].todo = {}
    /\ smu[p] = "sedp" => sedp[p].at = "locked"

IInv == TypeOK /\ LoopTypes /\ Foreign /\ Owing /\ NoMissedMatch

\* The idle record is of the type of every loop.
LEMMA IdleFields == Idle.at = "idle" /\ Idle.who = None /\ Idle.todo = {}
BY DEF Idle

\* The invariant holds initially.
LEMMA InitInv == Init => IInv
<1> SUFFICES ASSUME Init PROVE IInv
  OBVIOUS
<1> USE DiscoveryAssumption, IdleFields
<1>1. TypeOK
  BY DEF Init, TypeOK
<1>2. LoopTypes
  BY DEF Init, LoopTypes, Idle, SpdpState, SedpState, EvictState, AppState
<1>3. Foreign
  BY DEF Init, Foreign
<1>4. Owing
  BY DEF Init, Owing
<1>5. NoMissedMatch
  BY DEF Init, NoMissedMatch
<1> QED BY <1>1, <1>2, <1>3, <1>4, <1>5 DEF IInv
\* The types are kept by every step.
LEMMA NextTypes == ASSUME IInv, [Next]_vars PROVE TypeOK'
<1> USE DiscoveryAssumption, IdleFields DEF IInv, TypeOK, tables, loops, rest
<1>1. ASSUME NEW p \in Parts, NEW q \in Parts, storePeer(p, q) PROVE TypeOK'
  BY <1>1 DEF storePeer, LoopTypes, Foreign
<1>2. ASSUME NEW p \in Parts, onNewPeer(p) PROVE TypeOK'
  BY <1>2 DEF onNewPeer, LoopTypes, Foreign
<1>3. ASSUME NEW p \in Parts, NEW Q \in SUBSET Parts, evictExpired(p, Q) PROVE TypeOK'
  BY <1>3 DEF evictExpired, LoopTypes, Foreign
<1>4. ASSUME NEW p \in Parts, onPeerEvicted(p) PROVE TypeOK'
  BY <1>4 DEF onPeerEvicted, LoopTypes, Foreign
<1>5. ASSUME NEW p \in Parts, forgetLocators(p) PROVE TypeOK'
  BY <1>5 DEF forgetLocators, LoopTypes, Foreign
<1>6. ASSUME NEW p \in Parts, NEW r \in Readers, onRemoteReader(p, r) PROVE TypeOK'
  BY <1>6 DEF onRemoteReader, LoopTypes, Foreign
<1>7. ASSUME NEW p \in Parts, NEW w \in Writers, onRemoteWriter(p, w) PROVE TypeOK'
  BY <1>7 DEF onRemoteWriter, LoopTypes, Foreign
<1>8. ASSUME NEW p \in Parts, unlockSedp(p) PROVE TypeOK'
  BY <1>8 DEF unlockSedp, LoopTypes, Foreign
<1>9. ASSUME NEW p \in Parts, readerByEID(p) PROVE TypeOK'
  BY <1>9 DEF readerByEID, LoopTypes, Foreign
<1>10. ASSUME NEW p \in Parts, addWriterLocator(p) PROVE TypeOK'
  BY <1>10 DEF addWriterLocator, LoopTypes, Foreign
<1>11. ASSUME NEW p \in Parts, NEW e \in Endpoints, NewEndpoint(p, e) PROVE TypeOK'
  BY <1>11 DEF NewEndpoint, LoopTypes, Foreign
<1>12. ASSUME NEW p \in Parts, register(p) PROVE TypeOK'
  <2> DEFINE e == app[p].who
  <2>1. e \in Endpoints /\ Owner[e] = p
    BY <1>12 DEF register, Foreign
  <2>2. local' = [local EXCEPT ![p] = @ \cup {e}]
    BY <1>12 DEF register
  <2>3. sources' \in [Readers -> SUBSET Writers]
    <3>1. CASE e \in Writers
      BY <1>12, <3>1 DEF register
    <3>2. CASE e \notin Writers
      BY <1>12, <2>1, <3>2 DEF register, Endpoints
    <3> QED BY <3>1, <3>2
  <2> HIDE DEF e
  <2>4. /\ local' \in [Parts -> SUBSET Endpoints]
        /\ \A x \in Parts : \A d \in local'[x] : Owner[d] = x
    BY <2>1, <2>2
  <2> QED BY <1>12, <2>3, <2>4 DEF register
<1>13. ASSUME NEW p \in Parts, broadcast(p) PROVE TypeOK'
  BY <1>13 DEF broadcast, LoopTypes, Foreign
<1>14. ASSUME NEW p \in Parts, NEW r \in Readers, Unsubscribe(p, r) PROVE TypeOK'
  BY <1>14 DEF Unsubscribe, LoopTypes, Foreign
<1>15. ASSUME Lose PROVE TypeOK'
  BY <1>15 DEF Lose, LoopTypes, Foreign
<1>16. ASSUME NEW q \in Parts, Crash(q) PROVE TypeOK'
  BY <1>16 DEF Crash, LoopTypes, Foreign
<1>17. CASE UNCHANGED vars
  BY <1>17 DEF vars, LoopTypes, Foreign
<1> QED BY <1>1, <1>2, <1>3, <1>4, <1>5, <1>6, <1>7, <1>8, <1>9, <1>10, <1>11, <1>12, <1>13, <1>14, <1>15, <1>16, <1>17 DEF Next

\* So are those of the loops.
LEMMA NextLoops == ASSUME IInv, [Next]_vars PROVE LoopTypes'
<1> USE DiscoveryAssumption DEF IInv, LoopTypes, loops
<1>1. ASSUME NEW p \in Parts, NEW q \in Parts, storePeer(p, q) PROVE LoopTypes'
  BY <1>1 DEF storePeer, TypeOK, Idle, SpdpState
<1>2. ASSUME NEW p \in Parts, onNewPeer(p) PROVE LoopTypes'
  BY <1>2 DEF onNewPeer, TypeOK, Idle, SpdpState
<1>3. ASSUME NEW p \in Parts, NEW Q \in SUBSET Parts, evictExpired(p, Q) PROVE LoopTypes'
  BY <1>3 DEF evictExpired, TypeOK, Idle, EvictState
<1>4. ASSUME NEW p \in Parts, onPeerEvicted(p) PROVE LoopTypes'
  <2>1. [evict[p] EXCEPT !.at = "locators"] \in EvictState
    <3>1. evict[p] \in EvictState
      OBVIOUS
    <3> QED BY ONLY <3>1 DEF EvictState
  <2>2. evict' = [evict EXCEPT ![p] = [evict[p] EXCEPT !.at = "locators"]]
    BY <1>4 DEF onPeerEvicted
  <2> QED BY <1>4, <2>1, <2>2 DEF onPeerEvicted
<1>5. ASSUME NEW p \in Parts, forgetLocators(p) PROVE LoopTypes'
  <2>1. Idle \in EvictState
    BY DEF Idle, EvictState
  <2>2. \A q \in evict[p].todo : [at |-> "sedp", who |-> q, todo |-> evict[p].todo \ {q}] \in EvictState
    BY DEF EvictState
  <2>3. \E v \in EvictState : evict' = [evict EXCEPT ![p] = v]
    BY <1>5, <2>1, <2>2 DEF forgetLocators
  <2> QED BY <1>5, <2>3 DEF forgetLocators
<1>6. ASSUME NEW p \in Parts, NEW r \in Readers, onRemoteReader(p, r) PROVE LoopTypes'
  BY <1>6 DEF onRemoteReader, TypeOK, Idle
<1>7. ASSUME NEW p \in Parts, NEW w \in Writers, onRemoteWriter(p, w) PROVE LoopTypes'
  <2>1. [at |-> "locked", who |-> w, todo |-> Matched(p, w)] \in SedpState
    BY DEF SedpState, Matched, Endpoints
  <2> QED BY <1>7, <2>1 DEF onRemoteWriter
<1>8. ASSUME NEW p \in Parts, unlockSedp(p) PROVE LoopTypes'
  <2>1. Idle \in SedpState /\ [sedp[p] EXCEPT !.at = "notify"] \in SedpState
    BY DEF Idle, SedpState
  <2>2. \E v \in SedpState : sedp' = [sedp EXCEPT ![p] = v]
    BY <1>8, <2>1 DEF unlockSedp
  <2> QED BY <1>8, <2>2 DEF unlockSedp
<1>9. ASSUME NEW p \in Parts, readerByEID(p) PROVE LoopTypes'
  <2>1. PICK r \in sedp[p].todo :
          sedp' = [sedp EXCEPT ![p] = [at |-> IF @.todo = {r} THEN "locator" ELSE "notify",
                                        who |-> @.who, todo |-> @.todo \ {r}]]
    BY <1>9 DEF readerByEID
  <2> DEFINE v == [at |-> IF sedp[p].todo = {r} THEN "locator" ELSE "notify", who |-> sedp[p].who, todo |-> sedp[p].todo \ {r}]
  <2>2. v \in SedpState
    BY DEF SedpState
  <2>3. sedp' = [sedp EXCEPT ![p] = v]
    BY <2>1
  <2> HIDE DEF v
  <2> QED BY <1>9, <2>2, <2>3 DEF readerByEID
<1>10. ASSUME NEW p \in Parts, addWriterLocator(p) PROVE LoopTypes'
  BY <1>10 DEF addWriterLocator, TypeOK, Idle, SedpState
<1>11. ASSUME NEW p \in Parts, NEW e \in Endpoints, NewEndpoint(p, e) PROVE LoopTypes'
  BY <1>11 DEF NewEndpoint, TypeOK, Idle, AppState
<1>12. ASSUME NEW p \in Parts, register(p) PROVE LoopTypes'
  <2>1. [app[p] EXCEPT !.at = "broadcast"] \in AppState
    <3>1. app[p] \in AppState
      OBVIOUS
    <3> QED BY ONLY <3>1 DEF AppState
  <2>2. app' = [app EXCEPT ![p] = [app[p] EXCEPT !.at = "broadcast"]]
    BY <1>12 DEF register
  <2> QED BY <1>12, <2>1, <2>2 DEF register
<1>13. ASSUME NEW p \in Parts, broadcast(p) PROVE LoopTypes'
  BY <1>13 DEF broadcast, TypeOK, Idle, AppState
<1>14. ASSUME NEW p \in Parts, NEW r \in Readers, Unsubscribe(p, r) PROVE LoopTypes'
  BY <1>14 DEF Unsubscribe, TypeOK, Idle
<1>15. ASSUME Lose PROVE LoopTypes'
  BY <1>15 DEF Lose, TypeOK, Idle
<1>16. ASSUME NEW q \in Parts, Crash(q) PROVE LoopTypes'
  BY <1>16 DEF Crash, TypeOK, Idle
<1>17. CASE UNCHANGED vars
  BY <1>17 DEF vars, TypeOK, Idle
<1> QED BY <1>1, <1>2, <1>3, <1>4, <1>5, <1>6, <1>7, <1>8, <1>9, <1>10, <1>11, <1>12, <1>13, <1>14, <1>15, <1>16, <1>17 DEF Next

\* A participant never meets itself.
LEMMA NextForeign == ASSUME IInv, [Next]_vars PROVE Foreign'
<1> USE DiscoveryAssumption, IdleFields DEF IInv, Foreign, tables, loops
<1>1. ASSUME NEW p \in Parts, NEW q \in Parts, storePeer(p, q) PROVE Foreign'
  BY <1>1 DEF storePeer, TypeOK, LoopTypes
<1>2. ASSUME NEW p \in Parts, onNewPeer(p) PROVE Foreign'
  BY <1>2 DEF onNewPeer, TypeOK, LoopTypes
<1>3. ASSUME NEW p \in Parts, NEW Q \in SUBSET Parts, evictExpired(p, Q) PROVE Foreign'
  BY <1>3 DEF evictExpired, TypeOK, LoopTypes
<1>4. ASSUME NEW p \in Parts, onPeerEvicted(p) PROVE Foreign'
  BY <1>4 DEF onPeerEvicted, TypeOK, LoopTypes
<1>5. ASSUME NEW p \in Parts, forgetLocators(p) PROVE Foreign'
  BY <1>5 DEF forgetLocators, TypeOK, LoopTypes
<1>6. ASSUME NEW p \in Parts, NEW r \in Readers, onRemoteReader(p, r) PROVE Foreign'
  BY <1>6 DEF onRemoteReader, TypeOK, LoopTypes
<1>7. ASSUME NEW p \in Parts, NEW w \in Writers, onRemoteWriter(p, w) PROVE Foreign'
  BY <1>7 DEF onRemoteWriter, TypeOK, LoopTypes
<1>8. ASSUME NEW p \in Parts, unlockSedp(p) PROVE Foreign'
  BY <1>8 DEF unlockSedp, TypeOK, LoopTypes
<1>9. ASSUME NEW p \in Parts, readerByEID(p) PROVE Foreign'
  BY <1>9 DEF readerByEID, TypeOK, LoopTypes
<1>10. ASSUME NEW p \in Parts, addWriterLocator(p) PROVE Foreign'
  BY <1>10 DEF addWriterLocator, TypeOK, LoopTypes
<1>11. ASSUME NEW p \in Parts, NEW e \in Endpoints, NewEndpoint(p, e) PROVE Foreign'
  BY <1>11 DEF NewEndpoint, TypeOK, LoopTypes
<1>12. ASSUME NEW p \in Parts, register(p) PROVE Foreign'
  BY <1>12 DEF register, TypeOK, LoopTypes
<1>13. ASSUME NEW p \in Parts, broadcast(p) PROVE Foreign'
  <2>1. \A m \in peers[p] \X {app[p].who} : Owner[m[2]] # m[1]
    BY <1>13 DEF broadcast, TypeOK
  <2>2. /\ net' = net \cup (peers[p] \X {app[p].who}) /\ app' = [app EXCEPT ![p] = Idle]
        /\ UNCHANGED <<spdp, sedp>>
    BY <1>13 DEF broadcast
  <2> QED BY <2>1, <2>2 DEF LoopTypes
<1>14. ASSUME NEW p \in Parts, NEW r \in Readers, Unsubscribe(p, r) PROVE Foreign'
  BY <1>14 DEF Unsubscribe, TypeOK, LoopTypes
<1>15. ASSUME Lose PROVE Foreign'
  BY <1>15 DEF Lose, TypeOK, LoopTypes
<1>16. ASSUME NEW q \in Parts, Crash(q) PROVE Foreign'
  BY <1>16 DEF Crash, TypeOK, LoopTypes
<1>17. CASE UNCHANGED vars
  BY <1>17 DEF vars, TypeOK, LoopTypes
<1> QED BY <1>1, <1>2, <1>3, <1>4, <1>5, <1>6, <1>7, <1>8, <1>9, <1>10, <1>11, <1>12, <1>13, <1>14, <1>15, <1>16, <1>17 DEF Next

\* The SEDP loop has told everyone when it goes on, and holds no lock then.
LEMMA NextOwing == ASSUME IInv, [Next]_vars PROVE Owing'
<1> USE DiscoveryAssumption, IdleFields DEF IInv, Owing, loops
<1>1. ASSUME NEW p \in Parts, NEW q \in Parts, storePeer(p, q) PROVE Owing'
  BY <1>1 DEF storePeer, LoopTypes
<1>2. ASSUME NEW p \in Parts, onNewPeer(p) PROVE Owing'
  BY <1>2 DEF onNewPeer, LoopTypes
<1>3. ASSUME NEW p \in Parts, NEW Q \in SUBSET Parts, evictExpired(p, Q) PROVE Owing'
  BY <1>3 DEF evictExpired, LoopTypes
<1>4. ASSUME NEW p \in Parts, onPeerEvicted(p) PROVE Owing'
  BY <1>4 DEF onPeerEvicted, LoopTypes
<1>5. ASSUME NEW p \in Parts, forgetLocators(p) PROVE Owing'
  BY <1>5 DEF forgetLocators, LoopTypes
<1>6. ASSUME NEW p \in Parts, NEW r \in Readers, onRemoteReader(p, r) PROVE Owing'
  BY <1>6 DEF onRemoteReader, LoopTypes
<1>7. ASSUME NEW p \in Parts, NEW w \in Writers, onRemoteWriter(p, w) PROVE Owing'
  BY <1>7 DEF onRemoteWriter, LoopTypes
<1>8. ASSUME NEW p \in Parts, unlockSedp(p) PROVE Owing'
  BY <1>8 DEF unlockSedp, LoopTypes
<1>9. ASSUME NEW p \in Parts, readerByEID(p) PROVE Owing'
  <2>1. PICK r \in sedp[p].todo :
          sedp' = [sedp EXCEPT ![p] = [at |-> IF @.todo = {r} THEN "locator" ELSE "notify",
                                        who |-> @.who, todo |-> @.todo \ {r}]]
    BY <1>9 DEF readerByEID
  <2>2. /\ sedp'[p].todo = sedp[p].todo \ {r}
        /\ sedp'[p].at = IF sedp[p].todo = {r} THEN "locator" ELSE "notify"
    BY <2>1 DEF LoopTypes, SedpState
  <2>3. \A x \in Parts \ {p} : sedp'[x] = sedp[x]
    BY <2>1 DEF LoopTypes
  <2>4. smu' = smu /\ sedp[p].at = "notify"
    BY <1>9 DEF readerByEID
  <2> QED BY <2>2, <2>3, <2>4
<1>10. ASSUME NEW p \in Parts, addWriterLocator(p) PROVE Owing'
  BY <1>10 DEF addWriterLocator, LoopTypes
<1>11. ASSUME NEW p \in Parts, NEW e \in Endpoints, NewEndpoint(p, e) PROVE Owing'
  BY <1>11 DEF NewEndpoint, LoopTypes
<1>12. ASSUME NEW p \in Parts, register(p) PROVE Owing'
  BY <1>12 DEF register, LoopTypes
<1>13. ASSUME NEW p \in Parts, broadcast(p) PROVE Owing'
  BY <1>13 DEF broadcast, LoopTypes
<1>14. ASSUME NEW p \in Parts, NEW r \in Readers, Unsubscribe(p, r) PROVE Owing'
  BY <1>14 DEF Unsubscribe, LoopTypes
<1>15. ASSUME Lose PROVE Owing'
  BY <1>15 DEF Lose, LoopTypes
<1>16. ASSUME NEW q \in Parts, Crash(q) PROVE Owing'
  BY <1>16 DEF Crash, LoopTypes
<1>17. CASE UNCHANGED vars
  BY <1>17 DEF vars, LoopTypes
<1> QED BY <1>1, <1>2, <1>3, <1>4, <1>5, <1>6, <1>7, <1>8, <1>9, <1>10, <1>11, <1>12, <1>13, <1>14, <1>15, <1>16, <1>17 DEF Next

\* A step that adds no writer and no reader, and drops no notification, loses no match.
LEMMA MatchFrame ==
  ASSUME NoMissedMatch, UNCHANGED sources,
         \A x \in Parts : /\ remote'[x] \cap Writers \subseteq remote[x] /\ local'[x] \subseteq local[x]
                          /\ readers'[x] \subseteq readers[x]
                          /\ \/ sedp[x].todo = {}
                             \/ sedp'[x].who = sedp[x].who /\ sedp[x].todo \subseteq sedp'[x].todo
  PROVE  NoMissedMatch'
BY DEF NoMissedMatch

\* No match is lost by any step.
LEMMA NextMatch == ASSUME IInv, [Next]_vars PROVE NoMissedMatch'
<1> USE DiscoveryAssumption, IdleFields DEF IInv, tables, loops
<1>1. ASSUME NEW p \in Parts, NEW q \in Parts, storePeer(p, q) PROVE NoMissedMatch'
  BY <1>1 DEF storePeer, NoMissedMatch
<1>2. ASSUME NEW p \in Parts, onNewPeer(p) PROVE NoMissedMatch'
  BY <1>2 DEF onNewPeer, NoMissedMatch
<1>3. ASSUME NEW p \in Parts, NEW Q \in SUBSET Parts, evictExpired(p, Q) PROVE NoMissedMatch'
  BY <1>3 DEF evictExpired, NoMissedMatch
<1>4. ASSUME NEW p \in Parts, onPeerEvicted(p) PROVE NoMissedMatch'
  <2>1. \A x \in Parts : remote'[x] \subseteq remote[x]
    BY <1>4 DEF onPeerEvicted, TypeOK
  <2> QED BY <1>4, <2>1, MatchFrame DEF onPeerEvicted
<1>5. ASSUME NEW p \in Parts, forgetLocators(p) PROVE NoMissedMatch'
  <2>1. UNCHANGED <<remote, local, readers, sources, sedp>>
    BY <1>5 DEF forgetLocators
  <2> QED BY <2>1 DEF NoMissedMatch
<1>6. ASSUME NEW p \in Parts, NEW r \in Readers, onRemoteReader(p, r) PROVE NoMissedMatch'
  <2>1. \A x \in Parts : remote'[x] \cap Writers \subseteq remote[x]
    BY <1>6 DEF onRemoteReader, TypeOK
  <2> QED BY <1>6, <2>1, MatchFrame DEF onRemoteReader
<1>7. ASSUME NEW p \in Parts, NEW w \in Writers, onRemoteWriter(p, w) PROVE NoMissedMatch'
  <2>1. /\ remote' = [remote EXCEPT ![p] = @ \cup {w}] /\ UNCHANGED <<local, readers, sources>>
        /\ sedp' = [sedp EXCEPT ![p] = [at |-> "locked", who |-> w, todo |-> Matched(p, w)]]
        /\ sedp[p].at = "idle"
    BY <1>7 DEF onRemoteWriter
  <2>2. sedp'[p].who = w /\ sedp'[p].todo = Matched(p, w) /\ sedp[p].todo = {}
    BY <2>1 DEF LoopTypes, Owing
  <2>3. \A x \in Parts \ {p} : sedp'[x] = sedp[x] /\ remote'[x] = remote[x]
    <3>1. \A x \in Parts \ {p} : sedp'[x] = sedp[x]
      BY <2>1 DEF LoopTypes
    <3>2. \A x \in Parts \ {p} : remote'[x] = remote[x]
      BY <2>1 DEF TypeOK
    <3> QED BY <3>1, <3>2
  <2>4. remote'[p] = remote[p] \cup {w}
    BY <2>1 DEF TypeOK
  <2>5. \A r \in local[p] \cap readers[p] : Topic[w] = Topic[r] => r \in Matched(p, w)
    BY DEF Matched, TypeOK
  <2> QED BY <2>1, <2>2, <2>3, <2>4, <2>5 DEF NoMissedMatch
<1>8. ASSUME NEW p \in Parts, unlockSedp(p) PROVE NoMissedMatch'
  <2>1. \A x \in Parts \ {p} : sedp'[x] = sedp[x]
    BY <1>8 DEF unlockSedp, LoopTypes
  <2>2. sedp[p].todo # {} => sedp'[p].who = sedp[p].who /\ sedp'[p].todo = sedp[p].todo
    BY <1>8 DEF unlockSedp, LoopTypes, SedpState
  <2> QED BY <1>8, <2>1, <2>2, MatchFrame DEF unlockSedp
<1>9. ASSUME NEW p \in Parts, readerByEID(p) PROVE NoMissedMatch'
  <2>1. PICK r \in sedp[p].todo :
          /\ sources' = IF r \in readers[p] THEN [sources EXCEPT ![r] = @ \cup {sedp[p].who}] ELSE sources
          /\ sedp' = [sedp EXCEPT ![p] = [at |-> IF @.todo = {r} THEN "locator" ELSE "notify",
                                        who |-> @.who, todo |-> @.todo \ {r}]]
    BY <1>9 DEF readerByEID
  <2>2. sedp'[p].todo = sedp[p].todo \ {r} /\ sedp'[p].who = sedp[p].who
    BY <2>1 DEF LoopTypes, SedpState
  <2>3. \A x \in Parts \ {p} : sedp'[x] = sedp[x]
    BY <2>1 DEF LoopTypes
  <2>4. \A d \in Readers : sources[d] \subseteq sources'[d]
    BY <2>1 DEF TypeOK
  <2>5. r \in readers[p] => sedp[p].who \in sources'[r]
    BY <2>1 DEF TypeOK
  <2>6. UNCHANGED <<remote, local, readers>> /\ \A x \in Parts : readers[x] \subseteq Readers
    BY <1>9 DEF readerByEID, TypeOK
  <2> QED BY <2>2, <2>3, <2>4, <2>5, <2>6 DEF NoMissedMatch
<1>10. ASSUME NEW p \in Parts, addWriterLocator(p) PROVE NoMissedMatch'
  <2>1. sedp[p].todo = {}
    BY <1>10 DEF addWriterLocator, Owing
  <2>2. sedp' = [sedp EXCEPT ![p] = Idle] /\ UNCHANGED <<remote, local, readers, sources>>
    BY <1>10 DEF addWriterLocator
  <2>3. \A x \in Parts \ {p} : sedp'[x] = sedp[x]
    BY <2>2 DEF LoopTypes
  <2> QED BY <2>1, <2>2, <2>3, MatchFrame
<1>11. ASSUME NEW p \in Parts, NEW e \in Endpoints, NewEndpoint(p, e) PROVE NoMissedMatch'
  BY <1>11 DEF NewEndpoint, TypeOK, NoMissedMatch
<1>12. ASSUME NEW p \in Parts, register(p) PROVE NoMissedMatch'
  <2> DEFINE e == app[p].who
  <2>1. e \in Endpoints /\ Owner[e] = p
    BY <1>12 DEF register, Foreign
  <2>2. local' = [local EXCEPT ![p] = @ \cup {e}] /\ UNCHANGED <<remote, readers, sedp>>
    BY <1>12 DEF register
  <2>3. /\ local'[p] = local[p] \cup {e} /\ \A x \in Parts \ {p} : local'[x] = local[x]
        /\ \A x \in Parts \ {p} : e \notin local[x]
    BY <2>1, <2>2 DEF TypeOK
  <2>4. \A d \in Readers \ {e} : sources'[d] = sources[d]
    BY <1>12 DEF register, TypeOK
  <2>5. e \in Readers => sources'[e] = {w \in remote[p] \cap Writers : Topic[w] = Topic[e]}
    BY <1>12 DEF register, TypeOK
  <2>6. \A x \in Parts : readers[x] \subseteq Readers
    BY DEF TypeOK
  <2> HIDE DEF e
  <2> QED BY <2>2, <2>3, <2>4, <2>5, <2>6 DEF NoMissedMatch
<1>13. ASSUME NEW p \in Parts, broadcast(p) PROVE NoMissedMatch'
  BY <1>13 DEF broadcast, NoMissedMatch
<1>14. ASSUME NEW p \in Parts, NEW r \in Readers, Unsubscribe(p, r) PROVE NoMissedMatch'
  <2>1. \A x \in Parts : readers'[x] \subseteq readers[x]
    BY <1>14 DEF Unsubscribe, TypeOK
  <2> QED BY <1>14, <2>1, MatchFrame DEF Unsubscribe
<1>15. ASSUME Lose PROVE NoMissedMatch'
  BY <1>15 DEF Lose, NoMissedMatch
<1>16. ASSUME NEW q \in Parts, Crash(q) PROVE NoMissedMatch'
  BY <1>16 DEF Crash, NoMissedMatch
<1>17. CASE UNCHANGED vars
  BY <1>17 DEF vars, NoMissedMatch
<1> QED BY <1>1, <1>2, <1>3, <1>4, <1>5, <1>6, <1>7, <1>8, <1>9, <1>10, <1>11, <1>12, <1>13, <1>14, <1>15, <1>16, <1>17 DEF Next

\* The invariant is inductive.
LEMMA Inductive == IInv /\ [Next]_vars => IInv'
BY NextTypes, NextLoops, NextForeign, NextOwing, NextMatch DEF IInv

\* Every variable keeps its type; no participant is its own peer, and no own
\* endpoint is in its table of remote ones.
THEOREM TypeCorrect == Spec => []TypeOK
<1>1. IInv => TypeOK
  BY DEF IInv
<1> QED BY <1>1, InitInv, Inductive, PTL DEF Spec

\* However registerReader, onRemoteWriter, evictions, losses and crashes interleave
\* in any number of participants, no match is lost.
THEOREM MatchesKept == Spec => []NoMissedMatch
<1>1. IInv => NoMissedMatch
  BY DEF IInv
<1> QED BY <1>1, InitInv, Inductive, PTL DEF Spec

\* sedp.mu is released before the participant is called back, so the two locks are
\* never waited for in a cycle.
THEOREM LocksOrdered == Spec => []NoLockCycle
<1>1. IInv => NoLockCycle
  BY DEF IInv, Owing, NoLockCycle
<1> QED BY <1>1, InitInv, Inductive, PTL DEF Spec
=============================================================================

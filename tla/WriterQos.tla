----------------------------- MODULE WriterQos -----------------------------
(***************************************************************************)
(* The active QoS policies of rtps/qos_enforce.go at one participant, for   *)
(* one topic and one reader: ownership arbitration among the writers, the   *)
(* per-writer liveliness lease and the time-based filter.  Some writers are *)
(* the participant's own, the others belong to one remote participant.      *)
(*                                                                          *)
(* Time is kept as ages, in ticks, capped just above the duration they are  *)
(* compared with, so it never runs out.  A dispatch takes less than a tick. *)
(***************************************************************************)
EXTENDS Integers, Sequences, FiniteSets, FiniteSetsExt, SequencesExt, FiniteSetTheorems,
        WellFoundedInduction, TLAPS

CONSTANTS
  Writers, Own,   \* all writers, and those of this participant
  GuidRank,       \* their GUIDs, as ranks
  Strength,       \* their OwnershipStrength
  Exclusive,      \* the writers with ExclusiveOwnership
  Manual,         \* the writers with ManualByTopicLiveliness
  Lease,          \* LivelinessLeaseDuration, in ticks
  MinSeparation,  \* the reader's, in ticks
  NoWriter

VARIABLES
  wstate,     \* each writer: new, open, closed
  remoteUp,   \* whether the remote participant runs
  strengths,  \* DOMAIN of ownershipState.strengths
  active,     \* ownershipState.active
  sources,    \* r.sources, and every own writer
  tracked,    \* DOMAIN of r.writerLease
  age,        \* ticks since r.lastSeenAlive
  fired,      \* r.livelinessFired
  lastAge,    \* ticks since r.lastDelivered, capped (at the cap: never)
  gotAge,     \* history: ticks since a sample was really delivered, capped
  early       \* history: writers with a sample delivered too soon after another

vars == <<wstate, remoteUp, strengths, active, sources, tracked, age, fired, lastAge, gotAge, early>>
ownership  == <<strengths, active>>
liveliness == <<tracked, age, fired>>
tbf        == <<lastAge, gotAge, early>>

Remote == Writers \ Own

Init ==
  /\ wstate = [w \in Writers |-> "new"] /\ remoteUp = TRUE
  /\ strengths = {} /\ active = NoWriter /\ sources = {} /\ tracked = {}
  /\ age = [w \in Writers |-> 0] /\ fired = [w \in Writers |-> FALSE]
  /\ lastAge = [w \in Writers |-> MinSeparation] /\ gotAge = [w \in Writers |-> MinSeparation]
  /\ early = {}

----------------------------------------------------------------------------
\* A bug for the checks: of writers of the same strength the last one seen wins.
betterLast(best, g) ==
  IF best = NoWriter \/ Strength[g] >= Strength[best] THEN g ELSE best

\* One step of the loop of recomputeLocked.
better(best, g) ==
  IF best = NoWriter \/ Strength[g] > Strength[best]
       \/ (Strength[g] = Strength[best] /\ GuidRank[g] < GuidRank[best])
  THEN g ELSE best

\* recomputeLocked ranges over a Go map, in any order.
recompute(S) == {FoldLeft(better, NoWriter, order) : order \in SetToSeqs(S)}

register(w) == strengths' = strengths \cup {w} /\ active' \in recompute(strengths')

\* A bug for the checks: the active owner is not recomputed.
unregisterStale(W) == strengths' = strengths \ W /\ UNCHANGED active

unregister(W) == strengths' = strengths \ W /\ active' \in recompute(strengths')

allows(w) == strengths = {} \/ w = active

\* registerWriterLease.
registerWriterLease(w) ==
  /\ tracked' = tracked \cup {w}
  /\ age' = [age EXCEPT ![w] = 0]
  /\ fired' = [fired EXCEPT ![w] = FALSE]

\* A bug for the checks: the latch is not re-armed.
touchLivelinessLatched(w) ==
  /\ age' = IF w \in tracked THEN [age EXCEPT ![w] = 0] ELSE age
  /\ UNCHANGED <<fired, tracked>>

touchLiveliness(w) ==
  /\ age' = IF w \in tracked THEN [age EXCEPT ![w] = 0] ELSE age
  /\ fired' = IF w \in tracked THEN [fired EXCEPT ![w] = FALSE] ELSE fired
  /\ UNCHANGED tracked

----------------------------------------------------------------------------
\* newPublisherLocked for an own writer; for a remote one this happens elsewhere.
NewPublisher(w) ==
  /\ wstate[w] = "new" /\ (w \in Remote => remoteUp)
  /\ wstate' = [wstate EXCEPT ![w] = "open"]
  /\ IF w \in Own
     THEN /\ IF w \in Exclusive THEN register(w) ELSE UNCHANGED ownership
          /\ registerWriterLease(w) /\ sources' = sources \cup {w}
     ELSE UNCHANGED <<ownership, liveliness, sources>>
  /\ UNCHANGED <<remoteUp, tbf>>

\* onRemoteWriter: a SEDP announcement.  The peer repeats it with every SPDP
\* round, also for a writer it has closed, which stays in its localWriters.
onRemoteWriter(w) ==
  /\ w \in Remote /\ remoteUp /\ wstate[w] # "new"
  /\ IF w \in Exclusive THEN register(w) ELSE UNCHANGED ownership
  /\ sources' = sources \cup {w} /\ registerWriterLease(w)
  /\ UNCHANGED <<wstate, remoteUp, tbf>>

\* A sample of w is in the reader's channel.
Given(w) ==
  /\ gotAge' = [gotAge EXCEPT ![w] = 0]
  /\ early' = IF gotAge[w] < MinSeparation THEN early \cup {w} ELSE early

\* A bug for the checks: the time of the sample is not kept.
deliverForgetful(w, accepted) ==
  /\ IF lastAge[w] >= MinSeparation /\ accepted THEN Given(w) ELSE UNCHANGED <<gotAge, early>>
  /\ UNCHANGED lastAge

\* passesTimeBasedFilter, then the reader's own filter.
deliver(w, accepted) ==
  IF lastAge[w] >= MinSeparation
  THEN /\ lastAge' = [lastAge EXCEPT ![w] = 0]
       /\ IF accepted THEN Given(w) ELSE UNCHANGED <<gotAge, early>>
  ELSE UNCHANGED tbf

\* dispatchToReaders of a sample of w; accepted is what the reader's filter says.
dispatchToReaders(w, accepted) ==
  /\ wstate[w] = "open" /\ (w \in Remote => remoteUp) /\ w \in sources
  /\ touchLiveliness(w)
  /\ IF allows(w) THEN deliver(w, accepted) ELSE UNCHANGED tbf
  /\ UNCHANGED <<wstate, remoteUp, ownership, sources>>

\* assertLiveliness, of an own writer or received as a liveliness HEARTBEAT.
assertLiveliness(w) ==
  /\ wstate[w] = "open" /\ (w \in Remote => remoteUp) /\ w \notin Manual
  /\ touchLiveliness(w)
  /\ UNCHANGED <<wstate, remoteUp, ownership, sources, tbf>>

\* checkLiveliness: the callback is made for every writer newly marked.
checkLiveliness ==
  /\ fired' = [w \in Writers |-> fired[w] \/ (w \in tracked /\ age[w] > Lease)]
  /\ UNCHANGED <<wstate, remoteUp, ownership, sources, tracked, age, tbf>>

\* rtpsWriter.Close; this participant hears nothing of a remote one.
Close(w) ==
  /\ wstate[w] = "open" /\ (w \in Remote => remoteUp)
  /\ wstate' = [wstate EXCEPT ![w] = "closed"]
  /\ IF w \in Own \cap Exclusive THEN unregister({w}) ELSE UNCHANGED ownership
  /\ UNCHANGED <<remoteUp, sources, liveliness, tbf>>

\* The remote participant crashes; later its lease expires (onPeerEvicted).
Crash ==
  /\ remoteUp /\ remoteUp' = FALSE
  /\ UNCHANGED <<wstate, ownership, sources, liveliness, tbf>>

\* A bug for the checks: the evicted writers stay in the arbitration.
onPeerEvictedOwners ==
  /\ ~remoteUp /\ strengths \cap Remote # {}
  /\ UNCHANGED vars

onPeerEvicted ==
  /\ ~remoteUp /\ strengths \cap Remote # {}
  /\ unregister(Remote)
  /\ UNCHANGED <<wstate, remoteUp, sources, liveliness, tbf>>

Capped(n, cap) == IF n < cap THEN n + 1 ELSE n

Tick ==
  /\ age' = [w \in Writers |-> IF w \in tracked THEN Capped(age[w], Lease + 1) ELSE age[w]]
  /\ lastAge' = [w \in Writers |-> Capped(lastAge[w], MinSeparation)]
  /\ gotAge' = [w \in Writers |-> Capped(gotAge[w], MinSeparation)]
  /\ UNCHANGED <<wstate, remoteUp, ownership, sources, tracked, fired, early>>

Next ==
  \/ \E w \in Writers : NewPublisher(w)
  \/ \E w \in Writers : onRemoteWriter(w)
  \/ \E w \in Writers, accepted \in BOOLEAN : dispatchToReaders(w, accepted)
  \/ \E w \in Writers : assertLiveliness(w)
  \/ checkLiveliness
  \/ \E w \in Writers : Close(w)
  \/ Crash
  \/ onPeerEvicted
  \/ Tick

Spec == Init /\ [][Next]_vars

\* Time passes, the monitor polls, writers with automatic liveliness assert it,
\* the peer announces its writers and, once crashed, its lease expires.
FairSpec ==
  /\ Spec /\ WF_vars(Tick) /\ WF_vars(checkLiveliness) /\ WF_vars(onPeerEvicted)
  /\ \A w \in Writers : WF_vars(onRemoteWriter(w)) /\ WF_vars(assertLiveliness(w))

----------------------------------------------------------------------------
\* The variables have their types.
TypeOK ==
  /\ wstate \in [Writers -> {"new", "open", "closed"}] /\ remoteUp \in BOOLEAN
  /\ strengths \subseteq Exclusive /\ active \in strengths \cup {NoWriter}
  /\ sources \subseteq Writers /\ tracked \subseteq sources
  /\ age \in [Writers -> 0 .. Lease + 1] /\ fired \in [Writers -> BOOLEAN]
  /\ {lastAge, gotAge} \subseteq [Writers -> 0 .. MinSeparation] /\ early \subseteq Writers

Beats(v, w) ==
  Strength[v] > Strength[w] \/ (Strength[v] = Strength[w] /\ GuidRank[v] < GuidRank[w])

\* Ties are broken deterministically, so all subscribers converge on the same
\* active writer: it is the one that beats all others, in whatever order the map
\* was ranged over, and there is one as soon as a writer is registered.
ActiveIsStrongest ==
  IF strengths = {} THEN active = NoWriter
  ELSE active \in strengths /\ \A v \in strengths \ {active} : Beats(active, v)

\* A writer is reported lost only while it has been silent for more than its
\* lease; one that was heard since can be reported again.
LostIsSilent == \A w \in Writers : fired[w] => w \in tracked /\ age[w] > Lease

\* No sample of a writer is delivered less than MinSeparation after the one before
\* it, in the same tick or a later one.
SeparationKept == early = {}

\* "drops any sample from a given writer that arrives less than MinSeparation after
\* the previous delivered sample" (dds.go, MinSeparation), and no other: while the
\* filter drops, the clock it keeps is that of a sample the reader was given.
\* The code does not keep this: README.md says where it differs.
DropsEarlyOnly == \A w \in Writers : lastAge[w] < MinSeparation => gotAge[w] = lastAge[w]

Noticed(w) == ~remoteUp => (w \in tracked => fired[w]) /\ active # w

\* Every writer of a participant that crashed is reported lost, and the ownership
\* they had is given up.
CrashNoticed == \A w \in Remote : <>[]Noticed(w)

\* What ExclusiveOwnership says: the others are silenced until the active writer is
\* closed, evicted, or loses liveliness.
OwnershipYields ==
  \A w \in Writers : active = w /\ (fired[w] \/ wstate[w] = "closed") ~> active # w \/ ~fired[w]
----------------------------------------------------------------------------
\* Proofs.  What the QoS of a topic provides: finitely many writers, of which none is
\* the zero GUID, and no two with the same GUID.
Settings ==
  /\ IsFiniteSet(Writers) /\ NoWriter \notin Writers /\ Exclusive \subseteq Writers
  /\ Strength \in [Writers -> Int] /\ GuidRank \in [Writers -> Int]
  /\ \A v, w \in Writers : GuidRank[v] = GuidRank[w] => v = w
  /\ Lease \in Nat /\ MinSeparation \in Nat

\* A set of naturals has a least element: what inductions over data are made of.
LEMMA LeastNat ==
  ASSUME NEW T, T \subseteq Nat, T # {}
  PROVE  \E x \in T : \A y \in T : x <= y
<1>1. \E x \in T : \A y \in T : ~ (<<y, x>> \in OpToRel(<, Nat))
  BY NatLessThanWellFounded, WFMin
<1>2. \A x, y \in Nat : y < x => <<y, x>> \in OpToRel(<, Nat)
  BY DEF OpToRel
<1>3. PICK x \in T : \A y \in T : ~ (<<y, x>> \in OpToRel(<, Nat))
  BY <1>1
<1>4. \A y \in T : x <= y
  <2> TAKE y \in T
  <2>1. x \in Nat /\ y \in Nat /\ ~ (y < x)
    BY <1>2, <1>3
  <2> QED BY ONLY <2>1
<1> QED
  BY <1>4

\* A family of subsets of a finite set has a minimal member.
LEMMA MinimalSubset ==
  ASSUME NEW S, IsFiniteSet(S), NEW F, F \subseteq SUBSET S, F # {}
  PROVE  \E T \in F : \A U \in F : U \subseteq T => U = T
<1>1. IsWellFoundedOn(StrictSubsetOrdering(S), SUBSET S)
  BY FS_StrictSubsetOrderingWellFounded, FS_FiniteSubsetsOfFinite
<1>2. \E T \in F : \A U \in F : ~ (<<U, T>> \in StrictSubsetOrdering(S))
  BY <1>1, WFMin
<1>3. \A T, U \in SUBSET S : U \subseteq T /\ U # T => <<U, T>> \in StrictSubsetOrdering(S)
  BY DEF StrictSubsetOrdering
<1> QED
  BY <1>2, <1>3

\* Max of community module FiniteSetsExt, of some of the indices of a sequence.
LEMMA MaxIndex ==
  ASSUME NEW n \in Nat, NEW s \in SUBSET (1 .. n), s # {}
  PROVE  Max(s) \in s
<1> DEFINE T == {n - i : i \in s}
<1>1. T \subseteq Nat /\ T # {}
  <2>1. \A i \in s : n - i \in Nat
    OBVIOUS
  <2> QED BY <2>1
<1>2. PICK x \in T : \A y \in T : x <= y
  BY <1>1, LeastNat
<1>3. PICK i \in s : x = n - i
  BY <1>2
<1>4. \A j \in s : i >= j
  <2> TAKE j \in s
  <2>1. n - i <= n - j
    BY <1>2, <1>3
  <2>2. i \in 1 .. n /\ j \in 1 .. n
    OBVIOUS
  <2> QED BY ONLY <2>1, <2>2, n \in Nat
<1> QED
  BY <1>4 DEF Max

\* Arbitration is a strict total order: no two writers beat each other, and of two
\* different ones one beats the other.
LEMMA BeatsOrder ==
  ASSUME Settings
  PROVE  /\ \A v, w \in Writers : v # w => Beats(v, w) \/ Beats(w, v)
         /\ \A v, w \in Writers : ~ (Beats(v, w) /\ Beats(w, v))
         /\ \A u, v, w \in Writers : Beats(u, v) /\ Beats(v, w) => Beats(u, w)
BY DEF Settings, Beats

\* The writer of T that beats all others.
Best(T) == IF T = {} THEN NoWriter ELSE CHOOSE w \in T : \A v \in T \ {w} : Beats(w, v)

\* There is one, since T is finite.
LEMMA BestExists ==
  ASSUME Settings, NEW T \in SUBSET Writers, T # {}
  PROVE  Best(T) \in T /\ \A v \in T \ {Best(T)} : Beats(Best(T), v)
<1> DEFINE Wins(U) == \E w \in U : \A v \in U \ {w} : Beats(w, v)
           Bad == {U \in SUBSET Writers : U # {} /\ ~ Wins(U)}
<1>1. Bad = {}
  <2> SUFFICES ASSUME Bad # {} PROVE FALSE
    OBVIOUS
  <2>1. PICK U \in Bad : \A V \in Bad : V \subseteq U => V = U
    <3>1. IsFiniteSet(Writers) /\ Bad \subseteq SUBSET Writers
      BY DEF Settings
    <3> HIDE DEF Bad
    <3> QED BY <3>1, MinimalSubset
  <2>2. PICK x \in U : TRUE
    BY <2>1
  <2>3. U \ {x} = {} \/ Wins(U \ {x})
    <3>1. U \ {x} \notin Bad
      BY <2>1, <2>2
    <3>2. U \ {x} \in SUBSET Writers
      BY <2>1
    <3> HIDE DEF Wins
    <3> QED BY <3>1, <3>2
  <2>4. CASE U \ {x} = {}
    BY <2>1, <2>2, <2>4
  <2>5. CASE Wins(U \ {x})
    <3>1. PICK w \in U \ {x} : \A v \in U \ {x, w} : Beats(w, v)
      BY <2>5
    <3>2. x \in Writers /\ w \in Writers /\ U \subseteq Writers /\ x # w
      BY <2>1, <2>2, <3>1
    <3>3. CASE Beats(x, w)
      <4>1. \A v \in U \ {x} : Beats(x, v)
        BY <3>1, <3>2, <3>3, BeatsOrder
      <4> QED BY <4>1, <2>1, <2>2
    <3>4. CASE Beats(w, x)
      <4>1. \A v \in U \ {w} : Beats(w, v)
        BY <3>1, <3>4
      <4> QED BY <4>1, <2>1, <3>1
    <3> QED BY <3>2, <3>3, <3>4, BeatsOrder
  <2> QED BY <2>3, <2>4, <2>5
<1>2. Wins(T)
  BY <1>1
<1> QED
  BY <1>2 DEF Best

\* One step of the loop adds one writer to those it has compared.
LEMMA BetterAdds ==
  ASSUME Settings, NEW T \in SUBSET Writers, NEW v \in Writers, v \notin T
  PROVE  better(Best(T), v) = Best(T \cup {v})
<1>1. CASE T = {}
  <2>1. Best(T) = NoWriter /\ better(NoWriter, v) = v
    BY <1>1 DEF Best, better
  <2>2. Best(T \cup {v}) \in {v}
    BY <1>1, BestExists
  <2> QED BY <2>1, <2>2
<1>2. CASE T # {}
  <2> DEFINE b == Best(T)
             c == Best(T \cup {v})
  <2>1. b \in T /\ \A u \in T \ {b} : Beats(b, u)
    BY <1>2, BestExists
  <2>2. c \in T \cup {v} /\ \A u \in (T \cup {v}) \ {c} : Beats(c, u)
    BY <1>2, BestExists
  <2>3. b \in Writers /\ c \in Writers /\ b # NoWriter /\ b # v
    BY <2>1, <2>2 DEF Settings
  <2>4. better(b, v) = IF Beats(v, b) THEN v ELSE b
    BY <2>3 DEF better, Beats
  <2> HIDE DEF b, c
  <2>5. CASE Beats(v, b)
    <3>1. c = v
      BY <2>1, <2>2, <2>3, <2>5, BeatsOrder
    <3> QED BY <3>1, <2>4, <2>5 DEF b, c
  <2>6. CASE ~ Beats(v, b)
    <3>1. c = b
      BY <2>1, <2>2, <2>3, <2>6, BeatsOrder
    <3> QED BY <3>1, <2>4, <2>6 DEF b, c
  <2> QED BY <2>5, <2>6
<1> QED BY <1>1, <1>2

\* What recomputeLocked has picked after the loop, in the order it met the writers.
Picked(order) == FoldLeft(better, NoWriter, order)

Image(order, s) == {order[i] : i \in s}

\* The loop picks the best of the writers it has met, whatever the order.
LEMMA LoopPicksBest ==
  ASSUME Settings, NEW S \in SUBSET Writers, NEW order \in SetToSeqs(S)
  PROVE  Picked(order) = Best(S)
<1> DEFINE n == Cardinality(S)
           D == 1 .. n
           Step(g, s) == IF s = {} THEN NoWriter ELSE better(g[s \ {Max(s)}], order[Max(s)])
           known == [s \in SUBSET D |-> Best(Image(order, s))]
<1>1. IsFiniteSet(S) /\ n \in Nat /\ IsFiniteSet(D) /\ Cardinality(D) = n
  <2>1. IsFiniteSet(S)
    BY FS_Subset DEF Settings
  <2>2. n \in Nat
    BY <2>1, FS_CardinalityType
  <2> HIDE DEF n
  <2>3. IsFiniteSet(1 .. n) /\ Cardinality(1 .. n) = n
    BY <2>2, FS_Interval
  <2> QED BY <2>1, <2>2, <2>3
<1>2. order \in [D -> S] /\ \A i, j \in D : i # j => order[i] # order[j]
  BY DEF SetToSeqs
<1> HIDE DEF n
<1>3. DOMAIN order = D /\ Image(order, D) = S
  <2>1. order \in Injection(D, S)
    BY <1>2 DEF Injection, IsInjective
  <2>2. order \in Surjection(D, S)
    BY <1>1, <2>1, FS_Injection DEF n
  <2> QED BY <1>2, <2>2 DEF Surjection, Image
<1>4. \A s \in SUBSET D : Best(Image(order, s)) = Step(known, s)
  <2> SUFFICES ASSUME NEW s \in SUBSET D PROVE Best(Image(order, s)) = Step(known, s)
    OBVIOUS
  <2>1. CASE s = {}
    BY <2>1 DEF Best, Image
  <2>2. CASE s # {}
    <3> DEFINE x == Max(s)
    <3>1. x \in s
      BY <2>2, <1>1, MaxIndex
    <3> HIDE DEF x
    <3>2. /\ Image(order, s \ {x}) \in SUBSET Writers /\ order[x] \in Writers
          /\ order[x] \notin Image(order, s \ {x})
          /\ Image(order, s) = Image(order, s \ {x}) \cup {order[x]}
      BY <3>1, <1>2 DEF Image
    <3>3. better(Best(Image(order, s \ {x})), order[x]) = Best(Image(order, s))
      BY <3>2, BetterAdds
    <3>4. known[s \ {x}] = Best(Image(order, s \ {x}))
      OBVIOUS
    <3> QED BY <2>2, <3>3, <3>4 DEF x
  <2> QED BY <2>1, <2>2
<1> DEFINE loop == CHOOSE g : g = [s \in SUBSET D |-> Step(g, s)]
<1>5. Picked(order) = loop[D]
  BY <1>3 DEF Picked, FoldLeft, MapThenFoldSet
<1>6. loop = [s \in SUBSET D |-> Step(loop, s)]
  <2>1. known = [s \in SUBSET D |-> Step(known, s)]
    BY <1>4
  <2> HIDE DEF known
  <2> QED BY <2>1
<1>7. \A s \in SUBSET D : loop[s] = Best(Image(order, s))
  <2> DEFINE Bad == {s \in SUBSET D : loop[s] # Best(Image(order, s))}
  <2> SUFFICES ASSUME Bad # {} PROVE FALSE
    OBVIOUS
  <2> HIDE DEF loop
  <2>1. PICK s \in Bad : \A u \in Bad : u \subseteq s => u = s
    <3>1. Bad \subseteq SUBSET D
      OBVIOUS
    <3>2. IsFiniteSet(D)
      BY <1>1
    <3> HIDE DEF Bad, D
    <3> QED BY ONLY <3>1, <3>2, Bad # {}, MinimalSubset
  <2>2. loop[s] = Step(loop, s)
    BY <1>6, <2>1
  <2>3. s # {}
    BY <2>1, <2>2 DEF Best, Image
  <2>4. Max(s) \in s
    BY <2>1, <2>3, <1>1, MaxIndex
  <2>5. loop[s \ {Max(s)}] = Best(Image(order, s \ {Max(s)}))
    BY <2>1, <2>4
  <2>6. Step(loop, s) = Step(known, s)
    BY <2>1, <2>3, <2>5
  <2>7. s \in SUBSET D /\ loop[s] # Best(Image(order, s))
    BY <2>1
  <2> HIDE DEF Step, known, Bad
  <2> QED BY <1>4, <2>2, <2>6, <2>7
<1> HIDE DEF loop
<1>8. loop[D] = Best(Image(order, D))
  BY <1>7
<1> QED BY <1>3, <1>5, <1>8

\* So the order in which Go ranges over the map makes no difference.
LEMMA RecomputePicksBest ==
  ASSUME Settings, NEW S \in SUBSET Writers, NEW a \in recompute(S)
  PROVE  a = Best(S)
BY LoopPicksBest DEF recompute, Picked

\* The time-based filter's clock of a writer is never behind the real deliveries.
FilterInv == \A w \in Writers : lastAge[w] <= gotAge[w]

Inv == TypeOK /\ ActiveIsStrongest /\ LostIsSilent /\ FilterInv /\ SeparationKept

\* register and unregister leave the strongest of the registered writers active.
LEMMA Arbitrated ==
  ASSUME Settings, strengths' \subseteq Exclusive, active' \in recompute(strengths')
  PROVE  active' \in strengths' \cup {NoWriter} /\ ActiveIsStrongest'
<1>1. strengths' \in SUBSET Writers
  BY DEF Settings
<1>2. active' = Best(strengths')
  BY <1>1, RecomputePicksBest
<1>3. CASE strengths' = {}
  BY <1>2, <1>3 DEF Best, ActiveIsStrongest
<1>4. CASE strengths' # {}
  <2>1. active' \in strengths' /\ \A v \in strengths' \ {active'} : Beats(active', v)
    BY <1>1, <1>2, <1>4, BestExists
  <2> QED BY <1>4, <2>1 DEF ActiveIsStrongest, Beats
<1> QED BY <1>3, <1>4

\* So does every step: those that change the table compute active again.
LEMMA OwnershipStep ==
  ASSUME Settings, Inv, [Next]_vars
  PROVE  /\ strengths' \subseteq Exclusive /\ active' \in strengths' \cup {NoWriter}
         /\ ActiveIsStrongest'
<1> DEFINE Goal == /\ strengths' \subseteq Exclusive /\ active' \in strengths' \cup {NoWriter}
                   /\ ActiveIsStrongest'
<1> SUFFICES Goal
  OBVIOUS
<1>0. strengths \subseteq Exclusive /\ active \in strengths \cup {NoWriter} /\ ActiveIsStrongest
  BY DEF Inv, TypeOK
<1>1. ASSUME UNCHANGED ownership PROVE Goal
  BY <1>0, <1>1 DEF ownership, ActiveIsStrongest
<1>2. ASSUME NEW w \in Exclusive, register(w) PROVE Goal
  <2>1. strengths' \subseteq Exclusive
    BY <1>0, <1>2 DEF register
  <2> QED BY <2>1, <1>2, Arbitrated DEF register
<1>3. ASSUME NEW W, unregister(W) PROVE Goal
  <2>1. strengths' \subseteq Exclusive
    BY <1>0, <1>3 DEF unregister
  <2> QED BY <2>1, <1>3, Arbitrated DEF unregister
<1> HIDE DEF Goal
<1>4. ASSUME NEW w \in Writers, NewPublisher(w) PROVE Goal
  BY <1>1, <1>2, <1>4 DEF NewPublisher, ownership
<1>5. ASSUME NEW w \in Writers, onRemoteWriter(w) PROVE Goal
  BY <1>1, <1>2, <1>5 DEF onRemoteWriter, ownership
<1>6. ASSUME NEW w \in Writers, Close(w) PROVE Goal
  BY <1>1, <1>3, <1>6 DEF Close
<1>7. CASE onPeerEvicted
  BY <1>3, <1>7 DEF onPeerEvicted
<1>8. ASSUME NEW w \in Writers, \/ \E accepted \in BOOLEAN : dispatchToReaders(w, accepted)
                                \/ assertLiveliness(w)
      PROVE  Goal
  BY <1>1, <1>8 DEF dispatchToReaders, assertLiveliness
<1>9. CASE checkLiveliness \/ Crash \/ Tick
  BY <1>1, <1>9 DEF checkLiveliness, Crash, Tick
<1>10. CASE UNCHANGED vars
  BY <1>1, <1>10 DEF vars, ownership
<1> QED
  BY <1>4, <1>5, <1>6, <1>7, <1>8, <1>9, <1>10 DEF Next

\* The leases: a writer is marked lost only after silence, and unmarked when heard.
LEMMA LeaseStep ==
  ASSUME Settings, Inv, [Next]_vars
  PROVE  /\ sources' \subseteq Writers /\ tracked' \subseteq sources'
         /\ age' \in [Writers -> 0 .. Lease + 1] /\ fired' \in [Writers -> BOOLEAN]
         /\ LostIsSilent'
<1> DEFINE Goal == /\ sources' \subseteq Writers /\ tracked' \subseteq sources'
                   /\ age' \in [Writers -> 0 .. Lease + 1] /\ fired' \in [Writers -> BOOLEAN]
                   /\ LostIsSilent'
<1> SUFFICES Goal
  OBVIOUS
<1>0. /\ sources \subseteq Writers /\ tracked \subseteq sources
      /\ age \in [Writers -> 0 .. Lease + 1] /\ fired \in [Writers -> BOOLEAN]
      /\ LostIsSilent /\ Lease \in Nat
  BY DEF Inv, TypeOK, Settings
<1>1. ASSUME UNCHANGED <<sources, liveliness>> PROVE Goal
  BY <1>0, <1>1 DEF liveliness, LostIsSilent
<1>2. ASSUME NEW w \in Writers, sources' = sources \cup {w}, registerWriterLease(w) PROVE Goal
  BY <1>0, <1>2 DEF registerWriterLease, LostIsSilent
<1>3. ASSUME NEW w \in Writers, UNCHANGED sources, touchLiveliness(w) PROVE Goal
  BY <1>0, <1>3 DEF touchLiveliness, LostIsSilent
<1>4. CASE checkLiveliness
  BY <1>0, <1>4 DEF checkLiveliness, LostIsSilent
<1>5. CASE Tick
  BY <1>0, <1>5 DEF Tick, Capped, LostIsSilent
<1> HIDE DEF Goal
<1>6. ASSUME NEW w \in Writers, NewPublisher(w) \/ onRemoteWriter(w) PROVE Goal
  BY <1>1, <1>2, <1>6 DEF NewPublisher, onRemoteWriter
<1>7. ASSUME NEW w \in Writers, \/ \E accepted \in BOOLEAN : dispatchToReaders(w, accepted)
                                \/ assertLiveliness(w)
      PROVE  Goal
  BY <1>3, <1>7 DEF dispatchToReaders, assertLiveliness
<1>8. ASSUME NEW w \in Writers, Close(w) PROVE Goal
  BY <1>1, <1>8 DEF Close
<1>9. CASE onPeerEvicted \/ Crash
  BY <1>1, <1>9 DEF onPeerEvicted, Crash
<1>10. CASE UNCHANGED vars
  BY <1>1, <1>10 DEF vars, liveliness
<1> QED
  BY <1>4, <1>5, <1>6, <1>7, <1>8, <1>9, <1>10 DEF Next

\* The time-based filter: the two clocks go on together, and only a sample that has
\* passed the first is delivered.
LEMMA FilterStep ==
  ASSUME Settings, Inv, [Next]_vars
  PROVE  /\ lastAge' \in [Writers -> 0 .. MinSeparation] /\ gotAge' \in [Writers -> 0 .. MinSeparation]
         /\ FilterInv' /\ SeparationKept'
<1> DEFINE Goal == /\ lastAge' \in [Writers -> 0 .. MinSeparation]
                   /\ gotAge' \in [Writers -> 0 .. MinSeparation]
                   /\ FilterInv' /\ SeparationKept'
<1> SUFFICES Goal
  OBVIOUS
<1>0. /\ lastAge \in [Writers -> 0 .. MinSeparation] /\ gotAge \in [Writers -> 0 .. MinSeparation]
      /\ FilterInv /\ SeparationKept /\ MinSeparation \in Nat
  BY DEF Inv, TypeOK, Settings
<1>1. ASSUME UNCHANGED tbf PROVE Goal
  BY <1>0, <1>1 DEF tbf, FilterInv, SeparationKept
<1>2. ASSUME NEW w \in Writers, NEW accepted \in BOOLEAN, deliver(w, accepted) PROVE Goal
  BY <1>0, <1>2 DEF deliver, Given, tbf, FilterInv, SeparationKept
<1>3. CASE Tick
  BY <1>0, <1>3 DEF Tick, Capped, FilterInv, SeparationKept
<1> HIDE DEF Goal
<1>4. ASSUME NEW w \in Writers, NEW accepted \in BOOLEAN, dispatchToReaders(w, accepted)
      PROVE  Goal
  BY <1>1, <1>2, <1>4 DEF dispatchToReaders
<1>5. ASSUME NEW w \in Writers, \/ NewPublisher(w) \/ onRemoteWriter(w)
                                \/ assertLiveliness(w) \/ Close(w)
      PROVE  Goal
  BY <1>1, <1>5 DEF NewPublisher, onRemoteWriter, assertLiveliness, Close
<1>6. CASE checkLiveliness \/ onPeerEvicted \/ Crash
  BY <1>1, <1>6 DEF checkLiveliness, onPeerEvicted, Crash
<1>7. CASE UNCHANGED vars
  BY <1>1, <1>7 DEF vars, tbf
<1> QED
  BY <1>3, <1>4, <1>5, <1>6, <1>7 DEF Next

\* The states of the writers.
LEMMA WriterStep ==
  ASSUME Inv, [Next]_vars
  PROVE  wstate' \in [Writers -> {"new", "open", "closed"}] /\ remoteUp' \in BOOLEAN
<1>0. wstate \in [Writers -> {"new", "open", "closed"}] /\ remoteUp \in BOOLEAN
  BY DEF Inv, TypeOK
<1>1. ASSUME NEW w \in Writers, NewPublisher(w) \/ onRemoteWriter(w) \/ Close(w)
      PROVE  wstate' \in [Writers -> {"new", "open", "closed"}] /\ remoteUp' \in BOOLEAN
  BY <1>0, <1>1 DEF NewPublisher, onRemoteWriter, Close
<1>2. ASSUME NEW w \in Writers, \/ \E accepted \in BOOLEAN : dispatchToReaders(w, accepted)
                                \/ assertLiveliness(w)
      PROVE  wstate' \in [Writers -> {"new", "open", "closed"}] /\ remoteUp' \in BOOLEAN
  BY <1>0, <1>2 DEF dispatchToReaders, assertLiveliness
<1>3. CASE checkLiveliness \/ Crash \/ onPeerEvicted \/ Tick \/ UNCHANGED vars
  BY <1>0, <1>3 DEF checkLiveliness, Crash, onPeerEvicted, Tick, vars
<1> QED
  BY <1>1, <1>2, <1>3 DEF Next

\* The invariant holds initially.
LEMMA InitInv == Settings /\ Init => Inv
BY DEF Settings, Init, Inv, TypeOK, ActiveIsStrongest, LostIsSilent, FilterInv, SeparationKept

\* Every step keeps it.
LEMMA StepInv == Settings /\ Inv /\ [Next]_vars => Inv'
BY OwnershipStep, LeaseStep, FilterStep, WriterStep DEF Inv, TypeOK, SeparationKept

\* The variables keep their types; in particular a lease is kept only for a source.
THEOREM TypeCorrect == ASSUME Settings PROVE Spec => []TypeOK
<1>1. Inv => TypeOK
  BY DEF Inv
<1> QED BY <1>1, InitInv, StepInv, PTL DEF Spec

\* recomputeLocked: for any writers, strengths and GUIDs and any order of the map,
\* the active writer is the one that beats all registered ones.
THEOREM StrongestOwns == ASSUME Settings PROVE Spec => []ActiveIsStrongest
<1>1. Inv => ActiveIsStrongest
  BY DEF Inv
<1> QED BY <1>1, InitInv, StepInv, PTL DEF Spec

\* checkLiveliness: whoever is marked lost is tracked and silent beyond its lease.
THEOREM LostAreSilent == ASSUME Settings PROVE Spec => []LostIsSilent
<1>1. Inv => LostIsSilent
  BY DEF Inv
<1> QED BY <1>1, InitInv, StepInv, PTL DEF Spec

\* passesTimeBasedFilter: whatever dispatches, refusals of the reader's filter and
\* changes of ownership come between, no two deliveries of one writer are less
\* than MinSeparation apart.
THEOREM SeparationHolds == ASSUME Settings PROVE Spec => []SeparationKept
<1>1. Inv => SeparationKept
  BY DEF Inv
<1> QED BY <1>1, InitInv, StepInv, PTL DEF Spec
=============================================================================

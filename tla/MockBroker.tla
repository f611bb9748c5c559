----------------------------- MODULE MockBroker -----------------------------
(* The in-process broker of mock/mock.go, for one topic: its subscription  *)
(* list, the snapshot every Write iterates over outside the broker's lock, *)
(* the last sample kept for late joiners, and ownership arbitration.       *)
(*                                                                         *)
(* b.subs[topic] is a Go slice.  Its backing array is shared with every    *)
(* snapshot taken of it, so the arrays are modelled: array[a] is a backing *)
(* array and a slice is [a, len].                                          *)
EXTENDS Integers, Sequences, FiniteSets, Functions

CONSTANTS Pubs,       \* publishers of the topic
          Exact,      \* subscribers of the topic itself
          Wild,       \* subscribers of a pattern that matches the topic
          None,       \* no sample, no subscription
          Durable,    \* the publishers and subscribers with TransientLocal
          Strength,   \* publisher -> OwnershipStrength, 0 for SharedOwnership
          Together,   \* <<p, s>> whose partitions intersect
          Passes,     \* <<p, s>> with p's samples passing the filters of s
          Policy,     \* subscriber -> "DropNewest", "DropOldest" or "Block"
          Depth,      \* subscriber -> capacity of its channel
          MaxWrites   \* bound on the Writes of a publisher

VARIABLES array,      \* backing arrays of b.subs[topic], in order of allocation
          subs,       \* b.subs[topic]
          wild,       \* b.subs[pattern]
          last,       \* b.lastSample[topic]
          owners,     \* writers registered in the topic's mockOwnershipState
          pub,        \* where each publisher is in its Write, and its snapshot
          member,     \* life of each subscriber
          chan,       \* how many samples wait in each subscriber's channel
          panic,      \* a send on a closed channel ended the process
          newest,     \* history: the last sample written by a durable publisher
          sent        \* history: the samples sent to each channel, dropped ones included

vars == <<array, subs, wild, last, owners, pub, member, chan, panic, newest, sent>>

Subs == Exact \cup Wild
Sample == Pubs \X (1..MaxWrites)
Writing(p) == pub[p].at \in {"claim", "fetch", "deliver", "evict", "retry"}

Idle(n) == [at |-> "idle", n |-> n, a |-> 0, len |-> 0, i |-> 1, cur |-> None,
            want |-> {}, seen |-> << >>, calm |-> TRUE, still |-> TRUE, owned |-> TRUE]

\* The variables hold what the fields they model can hold.
TypeOK ==
  /\ subs.a \in 0..Len(array) /\ (subs.a = 0 => subs.len = 0)
  /\ subs.a # 0 => subs.len \in 0..Len(array[subs.a])
  /\ last \in Sample \cup {None} /\ newest \in Sample \cup {None}
  /\ owners \in SUBSET Pubs /\ panic \in BOOLEAN
  /\ \A s \in Subs : /\ member[s].at \in {"new", "joining", "on", "off", "closed"}
                     /\ chan[s] \in 0..Depth[s] /\ sent[s] \in Seq(Sample)

Init ==
  /\ array = << >> /\ subs = [a |-> 0, len |-> 0] /\ wild = << >>
  /\ last = None /\ owners = {} /\ panic = FALSE /\ newest = None
  /\ pub = [p \in Pubs |-> [Idle(0) EXCEPT !.at = "new"]]
  /\ member = [s \in Subs |-> [at |-> "new", replay |-> None]]
  /\ chan = [s \in Subs |-> 0] /\ sent = [s \in Subs |-> << >>]

-----------------------------------------------------------------------------
\* Go's append: in place while the capacity suffices, else into a new array of
\* at least twice the capacity.
Cap(sl) == IF sl.a = 0 THEN 0 ELSE Len(array[sl.a])
Grown(cap, n) == IF n > 2 * cap THEN n ELSE 2 * cap
InPlace(sl, es) == sl.len + Len(es) <= Cap(sl)

Appended(sl, es) ==
  IF es = << >> THEN sl
  ELSE [a |-> IF InPlace(sl, es) THEN sl.a ELSE Len(array) + 1, len |-> sl.len + Len(es)]

Stored(sl, es) ==
  LET new(k) == IF k \in sl.len + 1 .. sl.len + Len(es) THEN es[k - sl.len]
                ELSE IF k <= Cap(sl) THEN array[sl.a][k] ELSE None
  IN  IF es = << >> THEN array
      ELSE IF InPlace(sl, es)
           THEN [array EXCEPT ![sl.a] = [k \in 1..Cap(sl) |-> new(k)]]
           ELSE Append(array, [k \in 1..Grown(Cap(sl), sl.len + Len(es)) |-> new(k)])

Entries(sl) == {array[sl.a][k] : k \in 1..sl.len}

\* NewPublisher registers an exclusive writer for arbitration.
NewPublisher(p) ==
  /\ pub[p].at = "new"
  /\ pub' = [pub EXCEPT ![p].at = "idle"]
  /\ owners' = IF Strength[p] > 0 THEN owners \cup {p} ELSE owners
  /\ UNCHANGED <<array, subs, wild, last, member, chan, panic, newest, sent>>

ClosePublisher(p) ==
  /\ pub[p].at = "idle"
  /\ pub' = [pub EXCEPT ![p].at = "closed"]
  /\ owners' = owners \ {p}
  /\ UNCHANGED <<array, subs, wild, last, member, chan, panic, newest, sent>>

\* (a bug for the checks: the sample is kept only when nobody subscribes)
WriteUncached(p) ==
  LET sample == <<p, pub[p].n + 1>> IN
  /\ pub[p].at = "idle" /\ pub[p].n < MaxWrites
  /\ last' = IF p \in Durable /\ subs.len = 0 THEN sample ELSE last
  /\ newest' = IF p \in Durable THEN sample ELSE newest
  /\ array' = Stored(subs, wild)
  /\ LET view == Appended(subs, wild) IN
     pub' = [pub EXCEPT ![p] = [Idle(@.n + 1) EXCEPT !.at = "claim", !.a = view.a,
                                  !.len = view.len, !.want = Entries(subs) \cup Range(wild)]]
  /\ UNCHANGED <<subs, wild, owners, member, chan, panic, sent>>

\* broker.publish under b.mu: keep the sample, take the snapshot, append the
\* pattern subscribers to it (into spare capacity of the shared array, if any).
Write(p) ==
  LET sample == <<p, pub[p].n + 1>> IN
  /\ pub[p].at = "idle" /\ pub[p].n < MaxWrites
  /\ last' = IF p \in Durable THEN sample ELSE last
  /\ newest' = IF p \in Durable THEN sample ELSE newest
  /\ array' = Stored(subs, wild)
  /\ LET view == Appended(subs, wild) IN
     pub' = [pub EXCEPT ![p] = [Idle(@.n + 1) EXCEPT !.at = "claim", !.a = view.a,
                                  !.len = view.len, !.want = Entries(subs) \cup Range(wild)]]
  /\ UNCHANGED <<subs, wild, owners, member, chan, panic, sent>>

\* mockOwnershipState.allows: with exclusive writers registered, the strongest
\* of them only (equal strengths are settled by GUID: here by CHOOSE).
Active == CHOOSE p \in owners : \A q \in owners : Strength[p] >= Strength[q]
Allows(p) == owners = {} \/ p = Active

Claim(p) ==
  /\ pub[p].at = "claim"
  /\ pub' = IF Allows(p) THEN [pub EXCEPT ![p].at = "fetch"]
            ELSE [pub EXCEPT ![p] = [Idle(@.n) EXCEPT !.owned = FALSE]]
  /\ UNCHANGED <<array, subs, wild, last, owners, member, chan, panic, newest, sent>>

\* (a bug for the checks: the loop stops one entry short)
FetchShort(p) ==
  LET s == array[pub[p].a][pub[p].i] IN
  /\ pub[p].at = "fetch"
  /\ pub' = IF pub[p].i >= pub[p].len
            THEN [pub EXCEPT ![p].at = "idle"]
            ELSE [pub EXCEPT ![p].at = IF <<p, s>> \in Together \cap Passes THEN "deliver" ELSE "fetch",
                             ![p].cur = s, ![p].i = @ + 1, ![p].seen = Append(@, s)]
  /\ UNCHANGED <<array, subs, wild, last, owners, member, chan, panic, newest, sent>>

\* One turn of the loop reads the entry of the live array; partitions and
\* filters may skip it.
Fetch(p) ==
  LET s == array[pub[p].a][pub[p].i] IN
  /\ pub[p].at = "fetch"
  /\ pub' = IF pub[p].i > pub[p].len
            THEN [pub EXCEPT ![p].at = "idle"]
            ELSE [pub EXCEPT ![p].at = IF <<p, s>> \in Together \cap Passes THEN "deliver" ELSE "fetch",
                             ![p].cur = s, ![p].i = @ + 1, ![p].seen = Append(@, s)]
  /\ UNCHANGED <<array, subs, wild, last, owners, member, chan, panic, newest, sent>>

\* broker.deliver: a select with a default per attempt; at is where to go on when
\* the channel is full.  A send to a closed channel panics.
Put(p, s, at) ==
  LET room == member[s].at # "closed" /\ chan[s] < Depth[s] IN
  /\ panic' = (member[s].at = "closed")
  /\ pub' = [pub EXCEPT ![p].at = IF room THEN "fetch" ELSE at]
  /\ chan' = IF room THEN [chan EXCEPT ![s] = @ + 1] ELSE chan
  /\ sent' = IF room \/ at = "fetch" THEN [sent EXCEPT ![s] = Append(@, <<p, pub[p].n>>)] ELSE sent

Deliver(p) ==
  LET s == pub[p].cur IN
  /\ pub[p].at = "deliver"
  /\ Policy[s] = "Block" => member[s].at = "closed" \/ chan[s] < Depth[s]
  /\ Put(p, s, IF Policy[s] = "DropOldest" THEN "evict" ELSE "fetch")
  /\ UNCHANGED <<array, subs, wild, last, owners, member, newest>>

Evict(p) ==
  /\ pub[p].at = "evict"
  /\ pub' = [pub EXCEPT ![p].at = "retry"]
  /\ chan' = [chan EXCEPT ![pub[p].cur] = IF @ = 0 THEN 0 ELSE @ - 1]
  /\ UNCHANGED <<array, subs, wild, last, owners, member, panic, newest, sent>>

Retry(p) ==
  /\ pub[p].at = "retry"
  /\ Put(p, pub[p].cur, "fetch")
  /\ UNCHANGED <<array, subs, wild, last, owners, member, newest>>

-----------------------------------------------------------------------------
\* broker.subscribe: register and read the last sample under b.mu ...
Subscribe(s) ==
  /\ member[s].at = "new"
  /\ member' = [member EXCEPT ![s] = [at |-> "joining",
                  replay |-> IF s \in Durable /\ s \in Exact THEN last ELSE None]]
  /\ IF s \in Wild
     THEN wild' = Append(wild, s) /\ UNCHANGED <<array, subs>>
     ELSE array' = Stored(subs, <<s>>) /\ subs' = Appended(subs, <<s>>) /\ UNCHANGED wild
  /\ pub' = [p \in Pubs |-> [pub[p] EXCEPT !.still = @ /\ ~Writing(p)]]
  /\ UNCHANGED <<last, owners, chan, panic, newest, sent>>

\* ... and send it after unlocking, if there is room; partitions are not looked at.
Replay(s) ==
  LET r == member[s].replay IN
  /\ member[s].at = "joining"
  /\ member' = [member EXCEPT ![s] = [at |-> "on", replay |-> None]]
  /\ IF r # None /\ <<r[1], s>> \in Passes
     THEN /\ chan' = [chan EXCEPT ![s] = IF @ < Depth[s] THEN @ + 1 ELSE @]
          /\ sent' = [sent EXCEPT ![s] = Append(@, r)]
     ELSE UNCHANGED <<chan, sent>>
  /\ UNCHANGED <<array, subs, wild, last, owners, pub, panic, newest>>

\* removeSubscription: append(list[:i], list[i+1:]...) shifts the rest down in
\* the shared array and leaves the old last entry in place.
Shifted(arr, s, n) ==
  LET i == CHOOSE k \in 1..n : arr[k] = s
  IN  [k \in 1..Len(arr) |-> IF k \in i..n - 1 THEN arr[k + 1] ELSE arr[k]]

Unsubscribe(s) ==
  /\ member[s].at = "on"
  /\ member' = [member EXCEPT ![s].at = "off"]
  /\ pub' = [p \in Pubs |-> [pub[p] EXCEPT !.calm = @ /\ ~Writing(p)]]
  /\ IF s \in Wild
     THEN wild' = SelectSeq(wild, LAMBDA x : x # s) /\ UNCHANGED <<array, subs>>
     ELSE /\ array' = [array EXCEPT ![subs.a] = Shifted(@, s, subs.len)]
          /\ subs' = [subs EXCEPT !.len = @ - 1]
          /\ UNCHANGED wild
  /\ UNCHANGED <<last, owners, chan, panic, newest, sent>>

\* Close: Unsubscribe, then close(ch).
CloseSubscriber(s) ==
  /\ member[s].at = "off"
  /\ member' = [member EXCEPT ![s].at = "closed"]
  /\ UNCHANGED <<array, subs, wild, last, owners, pub, chan, panic, newest, sent>>

TryRead(s) ==
  /\ member[s].at # "new" /\ chan[s] > 0
  /\ chan' = [chan EXCEPT ![s] = @ - 1]
  /\ UNCHANGED <<array, subs, wild, last, owners, pub, member, panic, newest, sent>>

Next ==
  /\ ~panic
  /\ \/ \E p \in Pubs : \/ NewPublisher(p) \/ ClosePublisher(p) \/ Write(p) \/ Claim(p)
                        \/ Fetch(p) \/ Deliver(p) \/ Evict(p) \/ Retry(p)
     \/ \E s \in Subs : \/ Subscribe(s) \/ Replay(s) \/ Unsubscribe(s)
                        \/ CloseSubscriber(s) \/ TryRead(s)

Spec == Init /\ [][Next]_vars

-----------------------------------------------------------------------------
Finished(p) == pub[p].at = "idle" /\ pub[p].n > 0 /\ pub[p].owned
Visits(p, s) == Cardinality({k \in DOMAIN pub[p].seen : pub[p].seen[k] = s})

\* A Write that no removeSubscription overlaps visits every subscriber of the
\* topic itself that was registered at its snapshot exactly once, however many
\* subscribers join meanwhile and although the snapshot shares its array with the
\* list they are appended to; and every subscriber of a matching pattern too, when
\* nobody joins meanwhile.
StayersServed ==
  \A p \in Pubs : Finished(p) /\ pub[p].calm =>
     \A s \in pub[p].want : s \in Exact \/ pub[p].still => Visits(p, s) = 1

\* When nobody is writing, a TransientLocal subscriber that has joined has been
\* sent the newest TransientLocal sample, whichever way the join raced the Writes:
\* unless ownership silenced the sample or a removal overlapped its Write.
JoinersCurrent ==
  (newest # None /\ \A p \in Pubs : ~Writing(p)) =>
     LET w == newest[1] IN
     Finished(w) /\ pub[w].calm /\ pub[w].n = newest[2] =>
        \A s \in Exact \cap Durable :
           member[s].at = "on" /\ <<w, s>> \in Together \cap Passes => newest \in Range(sent[s])

\* "A Publisher.Write on topic T is delivered synchronously to every
\* Subscriber.C() for topic T" (mock.go), "Also deliver to wildcard subscribers
\* whose pattern matches topic": every subscriber registered at the snapshot and
\* still registered when Write returns was visited.
\* The code does not keep this: README.md says where it differs.
DeliveredToAll ==
  \A p \in Pubs : Finished(p) =>
     \A s \in pub[p].want : member[s].at = "on" => Visits(p, s) >= 1

\* The samples of a writer reach a subscriber in the order of its Writes, the
\* replayed one included.
\* The code does not keep this: README.md says where it differs.
ReplayedInOrder ==
  \A s \in Subs : \A i, j \in DOMAIN sent[s] :
     i < j /\ sent[s][i][1] = sent[s][j][1] => sent[s][i][2] < sent[s][j][2]

\* "a publisher and subscriber only match when their Partition sets intersect"
\* (dds.go): no sample crosses partitions.
\* The code does not keep this: README.md says where it differs.
PartitionsApart == \A s \in Subs : \A x \in Range(sent[s]) : <<x[1], s>> \in Together

\* No send meets a channel that Close has closed.
\* The code does not keep this: README.md says where it differs.
NoPanic == ~panic
=============================================================================

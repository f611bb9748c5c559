------------------------------ MODULE ReplayGuard ------------------------------
(* The sliding-window duplicate filter of security/replay.go.  Timestamps come *)
(* with the messages, in any order.                                            *)
EXTENDS Integers, FiniteSets, TLAPS

CONSTANTS Seqs,      \* sequence numbers
          Window,    \* length of the window
          MaxTime,   \* bound on timestamps
          MaxChecks  \* bound on the acceptances of a sequence number

VARIABLES seen,      \* g.seen: sequence number -> timestamp it was accepted with
          wallClock, \* time.Now, used by an explicit Purge
          past       \* history of each sequence number: how often it was accepted,
                     \* the last timestamp, the greatest time purged for since; of the
                     \* last acceptance, how far it came after the one before and how
                     \* far behind what was purged for in between

vars == <<seen, wallClock, past>>
Times == 0..MaxTime

\* The variables hold what the fields they model can hold.
TypeOK ==
  /\ DOMAIN seen \subseteq Seqs /\ \A q \in DOMAIN seen : seen[q] \in Times
  /\ wallClock \in Times
  /\ past \in [Seqs -> [times : 0..MaxChecks, at : Times, peak : Times, gap : Int, ahead : Int]]

Init ==
  /\ seen = << >> /\ wallClock = 0
  /\ past = [q \in Seqs |-> [times |-> 0, at |-> 0, peak |-> 0, gap |-> 0, ahead |-> 0]]

\* (a bug for the checks: the edge of the window is dropped)
purgeEarly(now) == [q \in {q \in DOMAIN seen : seen[q] > now - Window} |-> seen[q]]

\* purge drops the entries recorded more than Window before now.
purge(now) == [q \in {q \in DOMAIN seen : ~(seen[q] < now - Window)} |-> seen[q]]

Purged(now) == [q \in Seqs |-> [past[q] EXCEPT !.peak = IF now > @ THEN now ELSE @]]

\* Check purges for the message's own timestamp, then looks the number up.
Check(q, ts) ==
  LET kept == purge(ts)
      h == Purged(ts)
  IN
  /\ past[q].times < MaxChecks
  /\ IF q \in DOMAIN kept
     THEN seen' = kept /\ past' = h
     ELSE /\ seen' = [x \in DOMAIN kept \cup {q} |-> IF x = q THEN ts ELSE kept[x]]
          /\ past' = [h EXCEPT ![q] = [times |-> @.times + 1, at |-> ts, peak |-> ts,
                                        gap |-> ts - @.at, ahead |-> @.peak - ts]]
  /\ UNCHANGED wallClock

Purge ==
  /\ seen' = purge(wallClock) /\ past' = Purged(wallClock)
  /\ UNCHANGED wallClock

Tick == wallClock < MaxTime /\ wallClock' = wallClock + 1 /\ UNCHANGED <<seen, past>>

Next == Purge \/ Tick \/ \E q \in Seqs, ts \in Times : Check(q, ts)

Spec == Init /\ [][Next]_vars

\* "If seq has not been seen within window of ts, it is recorded": of messages
\* in the order of their timestamps, a sequence number is accepted again only with
\* a timestamp more than Window after that of its earlier acceptance.  Messages
\* that come before it, and entries purged for other numbers, change nothing.
OncePerWindow ==
  \A q \in Seqs : past[q].times >= 2 /\ past[q].ahead = 0 => past[q].gap > Window

\* The same in any order of the timestamps.
\* The code does not keep this: README.md says where it differs.
OnceInAnyOrder == \A q \in Seqs : past[q].times >= 2 => past[q].gap > Window

-----------------------------------------------------------------------------
\* Why: an entry is the last acceptance, and one that is gone was purged for a
\* time more than Window after it.
SeenInv ==
  \A q \in Seqs :
    /\ q \in DOMAIN seen => past[q].times >= 1 /\ seen[q] = past[q].at
    /\ q \notin DOMAIN seen /\ past[q].times >= 1 => past[q].peak - past[q].at > Window
IInv == TypeOK /\ SeenInv /\ OncePerWindow

\* What purge keeps is SeenInv of what it leaves, with the peak of Purged.
LEMMA PurgeStep ==
  ASSUME Window \in Int, IInv, NEW now \in Times
  PROVE  /\ Purged(now) \in [Seqs -> [times : 0..MaxChecks, at : Times, peak : Times, gap : Int, ahead : Int]]
         /\ DOMAIN purge(now) \subseteq DOMAIN seen
         /\ \A q \in DOMAIN purge(now) : purge(now)[q] = seen[q]
         /\ \A q \in Seqs :
              /\ Purged(now)[q].times = past[q].times /\ Purged(now)[q].at = past[q].at
              /\ Purged(now)[q].gap = past[q].gap /\ Purged(now)[q].ahead = past[q].ahead
              /\ q \notin DOMAIN purge(now) /\ past[q].times >= 1 =>
                   Purged(now)[q].peak - past[q].at > Window
<1> USE DEF IInv, TypeOK, Times
<1>1. \A q \in Seqs : past[q] \in [times : 0..MaxChecks, at : Times, peak : Times, gap : Int, ahead : Int]
  OBVIOUS
<1>2. \A q \in Seqs : LET v == [past[q] EXCEPT !.peak = IF now > @ THEN now ELSE @]
                      IN  /\ v \in [times : 0..MaxChecks, at : Times, peak : Times, gap : Int, ahead : Int]
                          /\ v.times = past[q].times /\ v.at = past[q].at
                          /\ v.gap = past[q].gap /\ v.ahead = past[q].ahead
                          /\ v.peak = IF now > past[q].peak THEN now ELSE past[q].peak
  BY <1>1
<1>3. /\ Purged(now) \in [Seqs -> [times : 0..MaxChecks, at : Times, peak : Times, gap : Int, ahead : Int]]
      /\ \A q \in Seqs : /\ Purged(now)[q].times = past[q].times /\ Purged(now)[q].at = past[q].at
                         /\ Purged(now)[q].gap = past[q].gap /\ Purged(now)[q].ahead = past[q].ahead
                         /\ Purged(now)[q].peak = IF now > past[q].peak THEN now ELSE past[q].peak
  BY <1>2 DEF Purged
<1>4. /\ DOMAIN purge(now) = {q \in DOMAIN seen : ~(seen[q] < now - Window)}
      /\ \A q \in DOMAIN purge(now) : purge(now)[q] = seen[q]
  BY DEF purge
<1>5. ASSUME NEW q \in Seqs, q \notin DOMAIN purge(now), past[q].times >= 1
      PROVE  Purged(now)[q].peak - past[q].at > Window
  <2>1. past[q].peak \in Int /\ past[q].at \in Int
    BY <1>1
  <2>2. CASE q \in DOMAIN seen
    <3>1. past[q].at < now - Window
      BY <1>4, <1>5, <2>2 DEF SeenInv
    <3> QED BY <1>3, <2>1, <3>1
  <2>3. CASE q \notin DOMAIN seen
    <3>1. past[q].peak - past[q].at > Window
      BY <1>5, <2>3 DEF SeenInv
    <3> QED BY <1>3, <2>1, <3>1
  <2> QED BY <2>2, <2>3
<1> QED BY <1>3, <1>4, <1>5

\* The invariant is inductive.
LEMMA Inductive == ASSUME Window \in Int, MaxTime \in Nat, MaxChecks \in Nat, IInv, [Next]_vars PROVE IInv'
<1>1. CASE Purge
  <2>1. wallClock \in Times /\ seen' = purge(wallClock) /\ past' = Purged(wallClock) /\ wallClock' = wallClock
    BY <1>1 DEF Purge, IInv, TypeOK
  <2>2. TypeOK'
    BY <2>1, PurgeStep DEF IInv, TypeOK
  <2>3. SeenInv'
    BY <2>1, PurgeStep DEF IInv, SeenInv
  <2>4. OncePerWindow'
    BY <2>1, PurgeStep DEF IInv, OncePerWindow
  <2> QED BY <2>2, <2>3, <2>4 DEF IInv
<1>2. CASE Tick
  BY <1>2 DEF Tick, IInv, TypeOK, SeenInv, OncePerWindow, Times
<1>3. ASSUME NEW q \in Seqs, NEW ts \in Times, Check(q, ts) PROVE IInv'
  <2>1. CASE q \in DOMAIN purge(ts)
    <3>1. seen' = purge(ts) /\ past' = Purged(ts) /\ wallClock' = wallClock
      BY <1>3, <2>1 DEF Check
    <3>2. TypeOK'
      BY <3>1, PurgeStep DEF IInv, TypeOK
    <3>3. SeenInv'
      BY <3>1, PurgeStep DEF IInv, SeenInv
    <3>4. OncePerWindow'
      BY <3>1, PurgeStep DEF IInv, OncePerWindow
    <3> QED BY <3>2, <3>3, <3>4 DEF IInv
  <2>2. CASE q \notin DOMAIN purge(ts)
    <3> DEFINE k == purge(ts)
               h == Purged(ts)
    <3>1. /\ seen' = [x \in DOMAIN k \cup {q} |-> IF x = q THEN ts ELSE k[x]]
          /\ past' = [h EXCEPT ![q] = [times |-> h[q].times + 1, at |-> ts, peak |-> ts,
                                       gap |-> ts - h[q].at, ahead |-> h[q].peak - ts]]
          /\ past[q].times < MaxChecks /\ wallClock' = wallClock
      BY <1>3, <2>2 DEF Check
    <3>2. /\ h \in [Seqs -> [times : 0..MaxChecks, at : Times, peak : Times, gap : Int, ahead : Int]]
          /\ DOMAIN k \subseteq DOMAIN seen /\ \A x \in DOMAIN k : k[x] = seen[x]
          /\ \A x \in Seqs : /\ h[x].times = past[x].times /\ h[x].at = past[x].at
                             /\ h[x].gap = past[x].gap /\ h[x].ahead = past[x].ahead
                             /\ x \notin DOMAIN k /\ past[x].times >= 1 => h[x].peak - past[x].at > Window
      BY PurgeStep
    <3> HIDE DEF k, h
    <3>3. /\ past'[q] = [times |-> h[q].times + 1, at |-> ts, peak |-> ts,
                         gap |-> ts - h[q].at, ahead |-> h[q].peak - ts]
          /\ \A x \in Seqs \ {q} : past'[x] = h[x]
      BY <3>1, <3>2
    <3>4. h[q].times + 1 \in 0..MaxChecks /\ h[q].times >= 0 /\ h[q].peak - ts \in Int /\ ts - h[q].at \in Int
      BY <3>1, <3>2 DEF Times, IInv, TypeOK
    <3>5. TypeOK'
      <4>1. past' \in [Seqs -> [times : 0..MaxChecks, at : Times, peak : Times, gap : Int, ahead : Int]]
        BY <3>1, <3>2, <3>4
      <4> QED BY <3>1, <3>2, <4>1 DEF IInv, TypeOK
    <3>6. SeenInv'
      BY <3>1, <3>2, <3>3, <3>4, <2>2 DEF IInv, SeenInv, k
    <3>7. OncePerWindow'
      <4>1. past'[q].times >= 2 /\ past'[q].ahead = 0 => past'[q].gap > Window
        <5>1. ts \in Int /\ h[q].peak \in Int /\ h[q].at \in Int /\ h[q].times \in Int
          BY <3>2 DEF Times
        <5>2. h[q].times >= 1 => h[q].peak - h[q].at > Window
          BY <2>2, <3>2 DEF k
        <5>3. /\ past'[q].times = h[q].times + 1 /\ past'[q].gap = ts - h[q].at
              /\ past'[q].ahead = h[q].peak - ts
          BY <3>3
        <5> QED BY <5>1, <5>2, <5>3
      <4> QED BY <3>2, <3>3, <4>1 DEF IInv, OncePerWindow
    <3> QED BY <3>5, <3>6, <3>7 DEF IInv
  <2> QED BY <2>1, <2>2
<1>4. CASE UNCHANGED vars
  BY <1>4 DEF vars, IInv, TypeOK, SeenInv, OncePerWindow
<1> QED BY <1>1, <1>2, <1>3, <1>4 DEF Next

\* The invariant holds of every behaviour.
LEMMA Invariant == ASSUME Window \in Int, MaxTime \in Nat, MaxChecks \in Nat PROVE Spec => []IInv
<1>1. Init => IInv
  BY DEF Init, IInv, TypeOK, SeenInv, OncePerWindow, Times
<1>2. IInv /\ [Next]_vars => IInv'
  BY Inductive
<1> QED BY <1>1, <1>2, PTL DEF Spec

\* The table holds timestamps that messages carried, of numbers they carried.
THEOREM TypeCorrect == ASSUME Window \in Int, MaxTime \in Nat, MaxChecks \in Nat PROVE Spec => []TypeOK
<1>1. IInv => TypeOK
  BY DEF IInv
<1> QED BY <1>1, Invariant, PTL

\* Whatever the window and the numbers, and whatever else was checked or purged in
\* between, a number is accepted twice within the window only by a message whose
\* timestamp is behind a time that was purged for.
THEOREM AcceptedOnce == ASSUME Window \in Int, MaxTime \in Nat, MaxChecks \in Nat PROVE Spec => []OncePerWindow
<1>1. IInv => OncePerWindow
  BY DEF IInv
<1> QED BY <1>1, Invariant, PTL
=============================================================================

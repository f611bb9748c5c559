------------------------------ MODULE WaitSet ------------------------------
(***************************************************************************)
(* dds.go: a WaitSet, with one goroutine in Wait while others attach and    *)
(* detach subscribers, publish, close subscribers and cancel the context.   *)
(* The cases of reflect.Select are the context's and one for each           *)
(* subscriber of the snapshot; dir is their direction.                      *)
(***************************************************************************)
EXTENDS Naturals, Sequences, SequencesExt

CONSTANTS
  Subs,        \* subscribers
  MaxSamples,  \* samples published to each
  MaxAttached  \* subscribers attached at once

VARIABLES
  subs,       \* ws.subs
  queue,      \* what C() of each subscriber holds
  published,  \* samples published to each
  closed,     \* whether each channel is closed
  cancelled,  \* whether the context of the current Wait is cancelled
  pc,         \* of the goroutine in Wait
  snapshot,
  dir,
  result      \* what the last Wait returned

vars == <<subs, queue, published, closed, cancelled, pc, snapshot, dir, result>>
channels == <<queue, published, closed>>
wait == <<pc, snapshot, dir, result>>

NoResult == [kind |-> "none"]

Init ==
  /\ subs = <<>> /\ queue = [s \in Subs |-> <<>>] /\ published = [s \in Subs |-> 0]
  /\ closed = [s \in Subs |-> FALSE] /\ cancelled = FALSE
  /\ pc = "idle" /\ snapshot = <<>> /\ dir = <<>> /\ result = NoResult

Attach(s) ==
  /\ Len(subs) < MaxAttached
  /\ subs' = Append(subs, s)
  /\ UNCHANGED <<channels, cancelled, wait>>

\* Detach: the first occurrence.
Detach(s) ==
  /\ subs' = IF Contains(subs, s) THEN RemoveFirst(subs, s) ELSE subs
  /\ UNCHANGED <<channels, cancelled, wait>>

Publish(s) ==
  /\ ~closed[s] /\ published[s] < MaxSamples
  /\ published' = [published EXCEPT ![s] = @ + 1]
  /\ queue' = [queue EXCEPT ![s] = Append(@, <<s, published'[s]>>)]
  /\ UNCHANGED <<subs, closed, cancelled, wait>>

Close(s) ==
  /\ closed' = [closed EXCEPT ![s] = TRUE]
  /\ UNCHANGED <<subs, queue, published, cancelled, wait>>

Cancel ==
  /\ pc = "select" /\ cancelled' = TRUE
  /\ UNCHANGED <<subs, channels, wait>>

----------------------------------------------------------------------------
\* Wait up to its loop.
Wait ==
  /\ pc \in {"idle", "returned"} /\ pc' = "select"
  /\ snapshot' = subs /\ dir' = [i \in DOMAIN subs |-> "recv"]
  /\ cancelled' = FALSE /\ result' = NoResult
  /\ UNCHANGED <<subs, channels>>

return(r) == pc' = "returned" /\ result' = r /\ UNCHANGED <<subs, published, closed, cancelled, snapshot, dir>>

Defaults == {i \in DOMAIN dir : dir[i] = "default"}
HasSample(i) == dir[i] = "recv" /\ queue[snapshot[i]] # <<>>
IsClosed(i)  == dir[i] = "recv" /\ queue[snapshot[i]] = <<>> /\ closed[snapshot[i]]

\* reflect.Select does not accept two default cases.
Accepts == \A i, j \in Defaults : i = j

Panic ==
  /\ pc = "select" /\ ~Accepts
  /\ pc' = "panic" /\ UNCHANGED <<subs, channels, cancelled, snapshot, dir, result>>

SelectCtx ==
  /\ pc = "select" /\ Accepts /\ cancelled
  /\ return([kind |-> "ctx"]) /\ UNCHANGED queue

\* A bug for the checks: the subscriber is looked up in ws.subs.
SelectSampleLive(i) ==
  /\ pc = "select" /\ Accepts /\ HasSample(i)
  /\ queue' = [queue EXCEPT ![snapshot[i]] = Tail(@)]
  /\ return([kind |-> "sample", sample |-> Head(queue[snapshot[i]]),
             sub |-> IF i \in DOMAIN subs THEN subs[i] ELSE snapshot[i]])

SelectSample(i) ==
  /\ pc = "select" /\ Accepts /\ HasSample(i)
  /\ queue' = [queue EXCEPT ![snapshot[i]] = Tail(@)]
  /\ return([kind |-> "sample", sample |-> Head(queue[snapshot[i]]), sub |-> snapshot[i]])

\* A bug for the checks: the first closed channel ends Wait.
allAny(d) == \E i \in DOMAIN d : d[i] = "default"

\* A bug for the checks: the loop starts at the case of the context.
allFromCtx(d) == FALSE

all(d) == \A i \in DOMAIN d : d[i] = "default"

SelectClosed(i) ==
  /\ pc = "select" /\ Accepts /\ IsClosed(i) /\ UNCHANGED queue
  /\ LET d == [dir EXCEPT ![i] = "default"]
     IN  IF all(d)
         THEN return([kind |-> IF cancelled THEN "ctx" ELSE "closed"])
         ELSE dir' = d /\ UNCHANGED <<subs, published, closed, cancelled, pc, snapshot, result>>

\* Nothing is ready and a closed channel left a default case: Select returns at
\* once, and Wait asks again.
SelectDefault ==
  /\ pc = "select" /\ Accepts /\ Defaults # {} /\ ~cancelled
  /\ \A i \in DOMAIN dir : ~HasSample(i) /\ ~IsClosed(i)
  /\ UNCHANGED vars

Select ==
  \/ Panic \/ SelectCtx \/ SelectDefault
  \/ \E i \in DOMAIN dir : SelectSample(i) \/ SelectClosed(i)

\* A panic ends the process.
Next ==
  /\ pc # "panic"
  /\ \/ \E s \in Subs : Attach(s) \/ Detach(s) \/ Publish(s) \/ Close(s)
     \/ Cancel \/ Wait \/ Select

Spec == Init /\ [][Next]_vars

\* The goroutine in Wait runs whenever Select does not block.
FairSpec == Spec /\ WF_vars(Select)

----------------------------------------------------------------------------
\* The variables have their types, and a channel holds the samples published last.
TypeOK ==
  /\ subs \in Seq(Subs) /\ Len(subs) <= MaxAttached /\ snapshot \in Seq(Subs)
  /\ published \in [Subs -> 0 .. MaxSamples] /\ closed \in [Subs -> BOOLEAN] /\ cancelled \in BOOLEAN
  /\ \A s \in Subs : \A k \in DOMAIN queue[s] :
       queue[s][k] = <<s, published[s] - Len(queue[s]) + k>>
  /\ pc \in {"idle", "select", "returned", "panic"}
  /\ DOMAIN dir = DOMAIN snapshot /\ \A i \in DOMAIN dir : dir[i] \in {"recv", "default"}

\* The subscriber Wait returns is the one its sample came from, and one that was
\* attached when Wait was called, whatever is attached and detached meanwhile.
RightSubscriber ==
  result.kind = "sample" => result.sample[1] = result.sub /\ Contains(snapshot, result.sub)

\* REQ-RT-004: Wait returns ErrClosed only when every subscriber it waits for is
\* closed and has no sample left.
ClosedMeansAll ==
  result.kind = "closed" => \A i \in DOMAIN snapshot : closed[snapshot[i]] /\ queue[snapshot[i]] = <<>>

WaitStuck ==
  pc = "select" /\ ( \/ cancelled
                     \/ \E i \in DOMAIN snapshot : queue[snapshot[i]] # <<>>
                     \/ snapshot # <<>> /\ \A i \in DOMAIN snapshot : closed[snapshot[i]] )

\* REQ-RT-001, REQ-RT-002, REQ-RT-004: Wait returns when a subscriber it waits for
\* has a sample, when the context is cancelled and when all of them are closed
\* (unless reflect.Select panics, which NoPanic is about).
WaitReturns == []<>~WaitStuck

\* What dds.go:837 says of Wait, that it blocks until a sample is available on any
\* attached subscriber or until ctx is cancelled: it does not panic.
NoPanic == pc # "panic"
=============================================================================

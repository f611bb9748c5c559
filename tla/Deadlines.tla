----------------------------- MODULE Deadlines ------------------------------
(***************************************************************************)
(* The deadline timers of rtps/participant.go.  A reader's timer restarts  *)
(* itself after each missed period and is restarted by each sample; a      *)
(* writer's is restarted by Write only.  time.AfterFunc runs its function  *)
(* in a goroutine of its own, which Stop and Reset do not wait for.        *)
(***************************************************************************)
EXTENDS Naturals

CONSTANTS Period,    \* QoS.Deadline, in ticks
          Calls      \* bound: timer goroutines alive at once

VARIABLES
  kind,      \* "reader" or "writer"
  end,       \* the endpoint: "new", "arming", "open", "stopping", "unsub", "closing" or "closed"
  timer,     \* ticks left, or Off
  calls,     \* the goroutines of the timer: "idle", "fn" or "reset"
  delivery,  \* deliverToReader: "idle", "taken" (a snapshot has the reader) or "sent"
  since,     \* ticks since the last sample, at most Period
  told,      \* has the callback run since the timer was last started
  clean,     \* was nothing under way when Close stopped the timer
  panicked   \* was tp.Load() nil

vars == <<kind, end, timer, calls, delivery, since, told, clean, panicked>>

Off == Period + 1
Running == \E c \in Calls : calls[c] # "idle"
Restarted == timer' = Period /\ told' = FALSE

Init ==
  /\ kind \in {"reader", "writer"} /\ end = "new" /\ timer = Off
  /\ calls = [c \in Calls |-> "idle"] /\ delivery = "idle"
  /\ since = 0 /\ told = FALSE /\ clean = FALSE /\ panicked = FALSE

\* NewPublisher, and NewSubscriber up to the result of AfterFunc ...
AfterFunc ==
  /\ end = "new" /\ end' = (IF kind = "reader" THEN "arming" ELSE "open")
  /\ Restarted /\ since' = 0
  /\ UNCHANGED <<kind, calls, delivery, clean, panicked>>

\* ... which tp.Store makes known to the callback.
Store ==
  /\ end = "arming" /\ end' = "open"
  /\ UNCHANGED <<kind, timer, calls, delivery, since, told, clean, panicked>>

Tick ==
  /\ end # "new"
  /\ timer' = (IF timer \in {0, Off} THEN timer ELSE timer - 1)
  /\ since' = (IF since = Period THEN since ELSE since + 1)
  /\ UNCHANGED <<kind, end, calls, delivery, told, clean, panicked>>

Fire(c) ==
  /\ timer = 0 /\ timer' = Off
  /\ calls[c] = "idle" /\ calls' = [calls EXCEPT ![c] = "fn"]
  /\ UNCHANGED <<kind, end, delivery, since, told, clean, panicked>>

\* The callback, of a reader or of the participant ...
fn(c) ==
  /\ calls[c] = "fn" /\ told' = TRUE
  /\ calls' = [calls EXCEPT ![c] = IF kind = "reader" THEN "reset" ELSE "idle"]
  /\ UNCHANGED <<kind, end, timer, delivery, since, clean, panicked>>

\* (a bug for the checks: the reader's timer runs once, as the writer's)
ResetOnce(c) ==
  /\ calls[c] = "reset" /\ calls' = [calls EXCEPT ![c] = "idle"]
  /\ told' = FALSE
  /\ UNCHANGED <<kind, end, timer, delivery, since, clean, panicked>>

\* ... after which a reader's timer is started again, whatever was done to it.
Reset(c) ==
  /\ calls[c] = "reset" /\ calls' = [calls EXCEPT ![c] = "idle"]
  /\ IF end = "arming" THEN panicked' = TRUE /\ UNCHANGED <<timer, told>>
                       ELSE Restarted /\ UNCHANGED panicked
  /\ UNCHANGED <<kind, end, delivery, since, clean>>

\* Write holds w.mu, as Close does.
Write ==
  /\ kind = "writer" /\ end = "open" /\ Restarted /\ since' = 0
  /\ UNCHANGED <<kind, end, calls, delivery, clean, panicked>>

\* dispatchToReaders takes its snapshot of p.readers ...
Snapshot ==
  /\ kind = "reader" /\ end \in {"open", "stopping"} /\ delivery = "idle" /\ delivery' = "taken"
  /\ UNCHANGED <<kind, end, timer, calls, since, told, clean, panicked>>

\* (a bug for the checks: the timer is restarted before the sample is sent)
deliverToReaderFirst ==
  /\ \/ delivery = "taken" /\ end # "closed" /\ delivery' = "sent" /\ Restarted /\ UNCHANGED since
     \/ delivery = "taken" /\ delivery' = "idle" /\ UNCHANGED <<timer, since, told>>
     \/ delivery = "sent" /\ delivery' = "idle" /\ since' = 0 /\ UNCHANGED <<timer, told>>
  /\ UNCHANGED <<kind, end, calls, clean, panicked>>

\* ... and delivers under r.mu, unless the reader has closed or its channel is
\* full, and then restarts the timer.
deliverToReader ==
  /\ \/ delivery = "taken" /\ end # "closed" /\ delivery' = "sent" /\ UNCHANGED <<timer, since, told>>
     \/ delivery = "taken" /\ delivery' = "idle" /\ UNCHANGED <<timer, since, told>>
     \/ delivery = "sent" /\ delivery' = "idle" /\ Restarted /\ since' = 0
  /\ UNCHANGED <<kind, end, calls, clean, panicked>>

\* Unsubscribe stops the timer, then leaves p.readers.
Unsubscribe ==
  /\ kind = "reader"
  /\ \/ end = "open" /\ end' = "stopping" /\ timer' = Off
     \/ end = "stopping" /\ end' = "unsub" /\ UNCHANGED timer
  /\ UNCHANGED <<kind, calls, delivery, since, told, clean, panicked>>

\* (a bug for the checks: the Stop in Unsubscribe is taken to be enough)
CloseOnce ==
  /\ \/ kind = "writer" /\ end = "open" /\ end' = "closed" /\ timer' = Off /\ clean' = ~Running
     \/ end = "unsub" /\ end' = "closing" /\ clean' = (~Running /\ delivery = "idle") /\ UNCHANGED timer
     \/ end = "closing" /\ delivery # "sent" /\ end' = "closed" /\ UNCHANGED <<timer, clean>>
  /\ UNCHANGED <<kind, calls, delivery, since, told, panicked>>

\* Close of a writer; of a reader after Unsubscribe, whose timer it stops again
\* before it takes r.mu.
Close ==
  /\ \/ kind = "writer" /\ end = "open" /\ end' = "closed" /\ timer' = Off /\ clean' = ~Running
     \/ end = "unsub" /\ end' = "closing" /\ timer' = Off /\ clean' = (~Running /\ delivery = "idle")
     \/ end = "closing" /\ delivery # "sent" /\ end' = "closed" /\ UNCHANGED <<timer, clean>>
  /\ UNCHANGED <<kind, calls, delivery, since, told, panicked>>

\* The process goes on unless it has panicked.
Live(A) == ~panicked /\ A

Next ==
  \/ Live(AfterFunc) \/ Live(Store) \/ Live(Tick) \/ Live(Write)
  \/ Live(Snapshot) \/ Live(deliverToReader) \/ Live(Unsubscribe) \/ Live(Close)
  \/ \E c \in Calls : Live(Fire(c)) \/ Live(fn(c)) \/ Live(Reset(c))

Spec == Init /\ [][Next]_vars

-----------------------------------------------------------------------------
\* The variables hold what the fields they model can hold.
DeadlinesTypeOK ==
  /\ end \in {"new", "arming", "open", "stopping", "unsub", "closing", "closed"}
  /\ timer \in 0..Off /\ since \in 0..Period /\ delivery \in {"idle", "taken", "sent"}
  /\ calls \in [Calls -> {"idle", "fn", "reset"}]
  /\ {told, clean, panicked} \subseteq BOOLEAN

\* "The callback shall not fire before the period elapses" (.fusa-reqs.json), of
\* the timer: when it runs out, whichever deliveries, writes and callbacks have
\* restarted it, a period has passed since the last delivery or write that ended.
NeverEarly == timer = 0 => since = Period

\* The same of the callback: when its goroutine calls it, no sample has come in
\* the period before.
\* The code does not keep this: README.md says where it differs.
CalledInSilence == \A c \in Calls : calls[c] = "fn" => since = Period

\* After a Close that no callback and no delivery overlapped, the callback does
\* not run again: Close stops the timer once more, because a delivery that found
\* the reader before Unsubscribe removed it has restarted the timer meanwhile.
QuietAfterClose == clean => timer = Off /\ ~Running

\* A period has passed in which an open endpoint had no sample and no callback.
Unmissed == ~panicked /\ end = "open" /\ since = Period /\ ~told

\* "shall invoke the deadline-missed callback if no sample is received within the
\* configured period": every silent period of an open endpoint is reported, for a
\* reader each further one too.
DeadlineReported == []<>~Unmissed
=============================================================================

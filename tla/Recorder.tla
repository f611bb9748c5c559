------------------------------ MODULE Recorder ------------------------------
(***************************************************************************)
(* RecorderService (observability/services/services.go) over Recorder      *)
(* (observability/record/record.go): one drain goroutine per topic writes  *)
(* lines to an output the caller owns; Start and Stop may be repeated.     *)
(***************************************************************************)
EXTENDS Naturals, Sequences

CONSTANTS Topics,
          MaxStarts,   \* bound: Start calls
          MaxSamples   \* bound: samples per topic

VARIABLES
  svc,       \* s.rec and the call in progress: "idle", "running" or "stopping"
  starts,    \* Start calls so far
  rsub,      \* per topic, the subscriber: "none", "open" or "closed"
  rchan,     \* per topic, samples in its channel
  heard,     \* per topic, samples so far
  rdone,     \* is the recorder's done channel closed
  drain,     \* per topic, "none", "select", "encode" or "ended"
  lines      \* lines written

vars == <<svc, starts, rsub, rchan, heard, rdone, drain, lines>>

Init ==
  /\ svc = "idle" /\ starts = 0 /\ rdone = FALSE /\ lines = 0
  /\ rsub = [t \in Topics |-> "none"] /\ rchan = [t \in Topics |-> 0]
  /\ heard = [t \in Topics |-> 0] /\ drain = [t \in Topics |-> "none"]

\* (a bug for the checks: subscribers kept when one of several fails)
StartKeeps ==
  /\ svc = "idle" /\ starts < MaxStarts /\ starts' = starts + 1
  /\ \E made \in SUBSET Topics :
       /\ rsub' = [t \in Topics |-> IF t \in made THEN "open" ELSE rsub[t]]
       /\ svc' = IF made = Topics THEN "running" ELSE "idle"
       /\ drain' = [t \in Topics |-> IF made = Topics THEN "select" ELSE drain[t]]
  /\ rdone' = FALSE /\ rchan' = [t \in Topics |-> 0] /\ UNCHANGED <<heard, lines>>

\* Start under s.mu: all subscribers and then the drains, or, if a NewSubscriber
\* fails, those made so far are closed again.
Start ==
  /\ svc = "idle" /\ starts < MaxStarts /\ starts' = starts + 1
  /\ \E made \in SUBSET Topics :
       IF made = Topics
       THEN /\ rsub' = [t \in Topics |-> "open"] /\ svc' = "running"
            /\ drain' = [t \in Topics |-> "select"]
       ELSE /\ rsub' = [t \in Topics |-> IF t \in made THEN "closed" ELSE rsub[t]]
            /\ UNCHANGED <<svc, drain>>
  /\ rdone' = FALSE /\ rchan' = [t \in Topics |-> 0] /\ UNCHANGED <<heard, lines>>

\* A sample reaches an open subscriber.
Sample(t) ==
  /\ rsub[t] = "open" /\ heard[t] < MaxSamples
  /\ heard' = [heard EXCEPT ![t] = @ + 1] /\ rchan' = [rchan EXCEPT ![t] = @ + 1]
  /\ UNCHANGED <<svc, starts, rsub, rdone, drain, lines>>

\* drain: a sample, a closed channel, or done; then the line, under r.mu.
Drain(t) ==
  /\ \/ drain[t] = "select" /\ rchan[t] > 0 /\ rchan' = [rchan EXCEPT ![t] = @ - 1]
        /\ drain' = [drain EXCEPT ![t] = "encode"] /\ UNCHANGED lines
     \/ drain[t] = "select" /\ (rdone \/ (rsub[t] = "closed" /\ rchan[t] = 0))
        /\ drain' = [drain EXCEPT ![t] = "ended"] /\ UNCHANGED <<rchan, lines>>
     \/ drain[t] = "encode" /\ lines' = lines + 1
        /\ drain' = [drain EXCEPT ![t] = "select"] /\ UNCHANGED rchan
  /\ UNCHANGED <<svc, starts, rsub, heard, rdone>>

\* (a bug for the checks: the drains not waited for)
StopEarly ==
  /\ svc = "running" /\ svc' = "idle" /\ rdone' = TRUE
  /\ rsub' = [t \in Topics |-> "closed"] /\ UNCHANGED <<starts, rchan, heard, drain, lines>>

\* Stop: done is closed, wg.Wait returns when every drain has, the subscribers
\* are closed.
Stop ==
  /\ \/ svc = "running" /\ svc' = "stopping" /\ rdone' = TRUE /\ UNCHANGED rsub
     \/ svc = "stopping" /\ (\A t \in Topics : drain[t] = "ended")
        /\ svc' = "idle" /\ rsub' = [t \in Topics |-> "closed"] /\ UNCHANGED rdone
  /\ UNCHANGED <<starts, rchan, heard, drain, lines>>

Next == Start \/ Stop \/ \E t \in Topics : Sample(t) \/ Drain(t)

Spec == Init /\ [][Next]_vars

-----------------------------------------------------------------------------
\* The variables hold what the fields they model can hold.
RecorderTypeOK ==
  /\ svc \in {"idle", "running", "stopping"} /\ rdone \in BOOLEAN /\ lines \in Nat
  /\ rsub \in [Topics -> {"none", "open", "closed"}]
  /\ drain \in [Topics -> {"none", "select", "encode", "ended"}]

\* A service that is not running holds nothing: no subscriber is open, after a
\* Start that failed half way as well as after Stop.
IdleHoldsNothing == svc = "idle" => \A t \in Topics : rsub[t] # "open"

Quiet == svc = "idle" => lines' = lines

\* "Stop signals all drain goroutines to exit and waits for them": the caller, who
\* owns the output, sees no line written to it after Stop has returned.
QuietAfterStop == [][Quiet]_vars
=============================================================================

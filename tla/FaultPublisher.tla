--------------------------- MODULE FaultPublisher ---------------------------
(***************************************************************************)
(* The fault injector (observability/record/fault.go): concurrent writes   *)
(* are lost, corrupted, delayed, duplicated or held back in a window that  *)
(* is emitted in random order when full; Close flushes the window.  The    *)
(* decisions and the window are under f.mu, the delay and the writes to    *)
(* the underlying publisher are not.                                       *)
(***************************************************************************)
EXTENDS Naturals, FiniteSets, Sequences

CONSTANTS Writers,   \* writing goroutines, one Write each
          Window     \* ReorderWindow; 1: none

VARIABLES
  fw,        \* per writer, [at, dup, held]: held are the samples it is to emit
  window,    \* f.window, as a set: it is shuffled before it is emitted
  fclose,    \* Close: "no", "flush", "closing" or "returned"
  flush,     \* samples Close has still to emit
  open,      \* is the underlying publisher open
  emitted,   \* how often each sample was written to it
  took,      \* samples whose Write returned nil and was not chosen to be lost
  buffered   \* the samples in the window when Close took it

vars == <<fw, window, fclose, flush, open, emitted, took, buffered>>

Init ==
  /\ fw = [w \in Writers |-> [at |-> "idle", dup |-> FALSE, held |-> {}]]
  /\ window = {} /\ fclose = "no" /\ flush = {} /\ open = TRUE /\ buffered = {}
  /\ emitted = [w \in Writers |-> 0] /\ took = {}

\* Under f.mu: refused after Close; else the faults are drawn.
Draw(w) ==
  /\ fw[w].at = "idle"
  /\ \/ fclose = "no" /\ \E drop, dup \in BOOLEAN :
          fw' = [fw EXCEPT ![w] = [at |-> IF drop THEN "lost" ELSE "delay", dup |-> dup, held |-> {}]]
     \/ fclose # "no" /\ fw' = [fw EXCEPT ![w].at = "failed"]
  /\ UNCHANGED <<window, fclose, flush, open, emitted, took, buffered>>

\* The delay, which the context may end with an error.
Delay(w) ==
  /\ fw[w].at = "delay" /\ \E a \in {"ready", "failed"} : fw' = [fw EXCEPT ![w].at = a]
  /\ UNCHANGED <<window, fclose, flush, open, emitted, took, buffered>>

\* With a window, under f.mu: buffered, or the window is taken to be emitted.
Buffer(w) ==
  /\ fw[w].at = "ready" /\ Window > 1
  /\ IF Cardinality(window) + 1 < Window
     THEN /\ window' = window \cup {w} /\ took' = took \cup {w}
          /\ fw' = [fw EXCEPT ![w].at = "done"]
     ELSE /\ window' = {} /\ fw' = [fw EXCEPT ![w] = [at |-> "emit", dup |-> FALSE, held |-> window \cup {w}]]
          /\ UNCHANGED took
  /\ UNCHANGED <<fclose, flush, open, emitted, buffered>>

\* Without a window the sample itself is to be emitted, twice if so drawn.
Direct(w) ==
  /\ fw[w].at = "ready" /\ Window <= 1
  /\ fw' = [fw EXCEPT ![w].at = "emit", ![w].held = {w}]
  /\ UNCHANGED <<window, fclose, flush, open, emitted, took, buffered>>

\* One write to the underlying publisher; an error ends the emission.
Emit(w) ==
  /\ fw[w].at = "emit"
  /\ IF ~open THEN fw' = [fw EXCEPT ![w].at = "failed"] /\ UNCHANGED <<emitted, took>>
     ELSE \E x \in fw[w].held :
            LET again == fw[w].dup /\ emitted[x] = 0
                held == IF again THEN fw[w].held ELSE fw[w].held \ {x}
            IN /\ emitted' = [emitted EXCEPT ![x] = @ + 1]
               /\ fw' = [fw EXCEPT ![w].held = held, ![w].at = IF held = {} THEN "done" ELSE "emit"]
               /\ took' = IF held = {} THEN took \cup {w} ELSE took
  /\ UNCHANGED <<window, fclose, flush, open, buffered>>

\* (a bug for the checks: the window dropped)
CloseDrops ==
  /\ \/ fclose = "no" /\ fclose' = "flush" /\ window' = {}
        /\ buffered' = window /\ UNCHANGED open
     \/ fclose = "flush" /\ fclose' = "returned" /\ open' = FALSE /\ UNCHANGED <<window, buffered>>
  /\ UNCHANGED <<fw, flush, emitted, took>>

\* Close: the flag and the window under f.mu; then the samples, then the publisher.
Close ==
  /\ \/ fclose = "no" /\ fclose' = "flush" /\ flush' = window /\ window' = {}
        /\ buffered' = window /\ UNCHANGED <<open, emitted>>
     \/ fclose = "flush" /\ \E x \in flush :
          /\ flush' = flush \ {x} /\ emitted' = [emitted EXCEPT ![x] = @ + 1]
          /\ UNCHANGED <<fclose, window, open, buffered>>
     \/ fclose = "flush" /\ flush = {} /\ fclose' = "returned" /\ open' = FALSE
        /\ UNCHANGED <<flush, window, buffered, emitted>>
  /\ UNCHANGED <<fw, took>>

Next == Close \/ \E w \in Writers : Draw(w) \/ Delay(w) \/ Buffer(w) \/ Direct(w) \/ Emit(w)

Spec == Init /\ [][Next]_vars

-----------------------------------------------------------------------------
\* The variables hold what the fields they model can hold.
FaultTypeOK ==
  /\ \A w \in Writers : fw[w].at \in {"idle", "lost", "delay", "ready", "emit", "done", "failed"}
  /\ window \subseteq Writers /\ flush \subseteq Writers /\ took \subseteq Writers
  /\ fclose \in {"no", "flush", "returned"} /\ Cardinality(window) <= Window

\* A sample is in the hands of the window, of Close or of a Write, failed or not.
Kept(x) == x \in window \cup flush \/ \E w \in Writers : x \in fw[w].held

\* "Samples buffered at Close() shall be flushed" (REQ-REC-009): whatever Writes
\* overlap Close, what the window held when Close began has been written when it
\* returns.  A sample whose Write returned nil, unless drawn to be lost, has been
\* written or is Kept; none is written more than twice.
FaultFlushed ==
  /\ fclose = "returned" => \A x \in buffered : emitted[x] > 0
  /\ \A x \in took : emitted[x] > 0 \/ Kept(x)
  /\ \A x \in Writers : emitted[x] <= 2

\* The same of every sample whose Write returned nil: written once Close has
\* returned and no Write is in progress.
\* The code does not keep this: README.md says where it differs.
NothingForgotten ==
  (fclose = "returned" /\ \A w \in Writers : fw[w].at \notin {"delay", "ready", "emit"})
    => \A x \in took : emitted[x] > 0
=============================================================================

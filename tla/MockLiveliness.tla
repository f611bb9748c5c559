--------------------------- MODULE MockLiveliness ---------------------------
(* The Liveliness QoS of the in-process mock broker (mock/qos_enforce.go):  *)
(* the lease table of one topic, the monitor goroutine that scans it, the   *)
(* assertion ticker of AutomaticLiveliness writers, and the subscribers     *)
(* that asked for a LivelinessLostCallback.  Time is counted in ticks since *)
(* a writer was last heard from; every method of topicLiveliness is one     *)
(* step because it runs under t.mu, except check, which collects under the  *)
(* lock and calls the callbacks after releasing it.                         *)
EXTENDS Integers, FiniteSets

CONSTANTS Writers, Subs,
          Lease,        \* QoS.LivelinessLeaseDuration, in ticks
          MinPeriod,    \* minLivelinessAssertPeriod, in ticks
          MaxSilences   \* bound: silences of a writer that are explored

VARIABLES kind,      \* writer -> "new", "auto", "manual", "closed"
          lastSeen,  \* writer -> ticks since lastSeen, stopping at Lease + 1
          fired,     \* writer -> the latch of the current silence
          since,     \* writer -> ticks since livelinessLoop's ticker last fired
          callbacks, \* subscribers in t.callbacks
          calls,     \* callbacks check has still to make: <<writer, subscriber, silence>>
          silences,  \* writer -> silences so far (history)
          present,   \* writer -> subscribers registered since its silence began (history)
          told,      \* writer -> subscriber -> callbacks made (history)
          heard      \* writer -> subscriber -> the last silence reported (history)

lvars == <<kind, lastSeen, fired, since, callbacks, calls, silences, present, told, heard>>

Tracked == {w \in Writers : kind[w] \in {"auto", "manual"}}

Silent(w) == w \in Tracked /\ lastSeen[w] > Lease

Init ==
    /\ kind = [w \in Writers |-> "new"]
    /\ lastSeen = [w \in Writers |-> 0]
    /\ fired = [w \in Writers |-> FALSE]
    /\ since = [w \in Writers |-> 0]
    /\ callbacks = {}
    /\ calls = {}
    /\ silences = [w \in Writers |-> 0]
    /\ present = [w \in Writers |-> {}]
    /\ told = [w \in Writers |-> [s \in Subs |-> 0]]
    /\ heard = told

\* (a bug for the checks: the assertion comes once a lease)
periodWhole == IF Lease < MinPeriod THEN MinPeriod ELSE Lease

\* How often livelinessLoop asserts: a third of the lease, floored.
period == LET third == Lease \div 3 IN IF third < MinPeriod THEN MinPeriod ELSE third

\* NewPublisher with a lease: registerWriter starts the clock; an automatic
\* writer also starts its ticker.
registerWriter(w) ==
    /\ kind[w] = "new"
    /\ \E k \in {"auto", "manual"} : kind' = [kind EXCEPT ![w] = k]
    /\ lastSeen' = [lastSeen EXCEPT ![w] = 0]
    /\ fired' = [fired EXCEPT ![w] = FALSE]
    /\ since' = [since EXCEPT ![w] = 0]
    /\ UNCHANGED <<callbacks, calls, silences, present, told, heard>>

\* publisher.Close: the ticker ends and the writer leaves the table.
unregisterWriter(w) ==
    /\ w \in Tracked
    /\ kind' = [kind EXCEPT ![w] = "closed"]
    /\ lastSeen' = [lastSeen EXCEPT ![w] = 0]
    /\ fired' = [fired EXCEPT ![w] = FALSE]
    /\ UNCHANGED <<since, callbacks, calls, silences, present, told, heard>>

\* (a bug for the checks: the latch is not reset)
touchLatched(w) ==
    /\ lastSeen' = [lastSeen EXCEPT ![w] = 0]
    /\ UNCHANGED fired

touch(w) ==
    /\ lastSeen' = [lastSeen EXCEPT ![w] = 0]
    /\ fired' = [fired EXCEPT ![w] = FALSE]

\* publisher.Write: a sample proves the writer alive.
Write(w) ==
    /\ w \in Tracked
    /\ touch(w)
    /\ UNCHANGED <<kind, since, callbacks, calls, silences, present, told, heard>>

\* One tick of an automatic writer's livelinessLoop.
livelinessLoop(w) ==
    /\ kind[w] = "auto"
    /\ since[w] >= period
    /\ since' = [since EXCEPT ![w] = 0]
    /\ touch(w)
    /\ UNCHANGED <<kind, callbacks, calls, silences, present, told, heard>>

addCallback(s) ==
    /\ s \notin callbacks
    /\ callbacks' = callbacks \cup {s}
    /\ UNCHANGED <<kind, lastSeen, fired, since, calls, silences, present, told, heard>>

\* Unsubscribe.
removeCallback(s) ==
    /\ s \in callbacks
    /\ callbacks' = callbacks \ {s}
    /\ present' = [w \in Writers |-> present[w] \ {s}]
    /\ UNCHANGED <<kind, lastSeen, fired, since, calls, silences, told, heard>>

\* (a bug for the checks: the latch is cleared instead of set)
checkRepeats ==
    /\ calls = {}
    /\ \E w \in Writers : Silent(w) /\ ~fired[w]
    /\ LET lost == {w \in Writers : Silent(w)}
       IN /\ fired' = [w \in Writers |-> fired[w] /\ w \notin lost]
          /\ calls' = {<<w, s, silences[w]>> : w \in lost, s \in callbacks}
    /\ UNCHANGED <<kind, lastSeen, since, callbacks, silences, present, told, heard>>

\* The locked half of check: latch the lost writers, snapshot the callbacks.
check ==
    /\ calls = {}
    /\ \E w \in Writers : Silent(w) /\ ~fired[w]
    /\ LET lost == {w \in Writers : Silent(w) /\ ~fired[w]}
       IN /\ fired' = [w \in Writers |-> fired[w] \/ w \in lost]
          /\ calls' = {<<w, s, silences[w]>> : w \in lost, s \in callbacks}
    /\ UNCHANGED <<kind, lastSeen, since, callbacks, silences, present, told, heard>>

\* The unlocked half of check: one callback of the snapshot runs.
Callback(c) ==
    /\ c \in calls
    /\ calls' = calls \ {c}
    /\ told' = [told EXCEPT ![c[1]][c[2]] = @ + 1]
    /\ heard' = [heard EXCEPT ![c[1]][c[2]] = c[3]]
    /\ UNCHANGED <<kind, lastSeen, fired, since, callbacks, silences, present>>

\* Time passes.  An assertion ticker runs at most one period late.
Tick ==
    /\ \A w \in Writers : kind[w] = "auto" => since[w] + 1 < 2 * period + 1
    /\ \A w \in Tracked : lastSeen[w] = Lease => silences[w] < MaxSilences
    /\ \E w \in Tracked : lastSeen[w] <= Lease
    /\ lastSeen' = [w \in Writers |-> IF w \in Tracked /\ lastSeen[w] <= Lease
                                      THEN lastSeen[w] + 1 ELSE lastSeen[w]]
    /\ since' = [w \in Writers |-> IF kind[w] = "auto" THEN since[w] + 1 ELSE since[w]]
    /\ LET falls == {w \in Tracked : lastSeen[w] = Lease}
       IN /\ silences' = [w \in Writers |-> silences[w] + (IF w \in falls THEN 1 ELSE 0)]
          /\ present' = [w \in Writers |-> IF w \in falls THEN callbacks ELSE present[w]]
    /\ UNCHANGED <<kind, fired, callbacks, calls, told, heard>>

Next ==
    \/ \E w \in Writers : registerWriter(w) \/ unregisterWriter(w) \/ Write(w) \/ livelinessLoop(w)
    \/ \E s \in Subs : addCallback(s) \/ removeCallback(s)
    \/ check
    \/ \E c \in calls : Callback(c)
    \/ Tick

SomeCallback == \E c \in calls : Callback(c)

\* The monitor goroutine is never blocked: its ticker keeps firing, and a
\* callback that returns lets the next one run.
Fairness == WF_lvars(check) /\ WF_lvars(SomeCallback)

Spec == Init /\ [][Next]_lvars /\ Fairness

-----------------------------------------------------------------------------
\* The lease table holds leases, latches and counters of their types.
LivelinessTypeOK ==
    /\ kind \in [Writers -> {"new", "auto", "manual", "closed"}]
    /\ lastSeen \in [Writers -> 0..(Lease + 1)]
    /\ fired \in [Writers -> BOOLEAN]
    /\ since \in [Writers -> 0..(2 * periodWhole)]
    /\ callbacks \subseteq Subs
    /\ calls \subseteq Writers \X Subs \X (0..MaxSilences)
    /\ silences \in [Writers -> 0..MaxSilences]
    /\ present \in [Writers -> SUBSET Subs]
    /\ told \in [Writers -> [Subs -> Nat]]
    /\ heard \in [Writers -> [Subs -> 0..MaxSilences]]

\* check is edge-triggered (qos_enforce.go "once per silence episode"): a
\* subscriber is called about a writer at most once for each time the writer
\* fell silent, whatever writes, scans and callbacks interleave.
OncePerSilence == \A w \in Writers, s \in Subs : told[w][s] <= silences[w]

\* "as long as the process is running, the writer is considered alive" (dds.go,
\* AutomaticLiveliness): a writer of that kind is never declared lost while open.
\* The code does not keep this: README.md says where it differs.
AutomaticNeverLost == \A w \in Writers : kind[w] = "auto" => ~fired[w] /\ silences[w] = 0

\* The same of a lease of at least two assertion periods, the floor of short
\* leases included, even when every tick of livelinessLoop comes a period late.
AutomaticStaysAlive == 2 * period <= Lease => AutomaticNeverLost

Unreported(w, s) == Silent(w) /\ s \in present[w] /\ heard[w][s] # silences[w]

\* A writer that stays silent is reported to every subscriber that was
\* registered when the silence began and stays registered: the latch of an
\* earlier silence does not swallow a later one.
SilenceReported == \A w \in Writers, s \in Subs : []<>~Unreported(w, s)

\* What removeCallback promises in Unsubscribe (mock.go "stop delivering loss
\* notifications to a subscriber that no longer receives samples"): no
\* callback runs for a subscriber that has unsubscribed.
\* The code does not keep this: README.md says where it differs.
QuietAfterUnsubscribe ==
    [][\A w \in Writers, s \in Subs : told'[w][s] # told[w][s] => s \in callbacks]_lvars
=============================================================================

------------------------------ MODULE Replayer ------------------------------
(***************************************************************************)
(* ReplayService (observability/services/services.go) over Player          *)
(* (observability/record/record.go): a goroutine replays the lines of an   *)
(* input, waiting until each is due, once or in a loop, until its context  *)
(* is cancelled by the caller or by Stop.                                  *)
(***************************************************************************)
EXTENDS Naturals

CONSTANTS Lines,     \* lines of the recording
          Topics,    \* the topics of the lines, 1..n: line i is of topic ((i - 1) % n) + 1
          MaxStops   \* bound: Stop calls

VARIABLES
  once,      \* has Start run its once
  loopOpt,   \* [loop, seekable, filter]: the options; filter is a set of topics, {} for all
  player,    \* "none", "line", "wait", "write", "seek" or "ended"
  pos,       \* lines decoded
  pubs,      \* topics with an open publisher
  rctx,      \* is the replay's context cancelled
  played,    \* lines written in this pass
  stop       \* per Stop call: "no", "early" (called before Start) or "blocked", "returned"

vars == <<once, loopOpt, player, pos, pubs, rctx, played, stop>>
Stops == 1..MaxStops
TopicOf(i) == ((i - 1) % Topics) + 1

Init ==
  /\ once = FALSE /\ player = "none" /\ pos = 0 /\ pubs = {} /\ rctx = FALSE /\ played = {}
  /\ loopOpt \in [loop : BOOLEAN, seekable : BOOLEAN, filter : {{}, {1}}]
  /\ stop = [i \in Stops |-> "no"]

Start ==
  /\ ~once /\ once' = TRUE /\ player' = "line"
  /\ UNCHANGED <<loopOpt, pos, pubs, rctx, played, stop>>

\* The caller's context ends.
Cancel ==
  /\ once /\ ~rctx /\ rctx' = TRUE
  /\ UNCHANGED <<once, loopOpt, player, pos, pubs, played, stop>>

Wanted(i) == loopOpt.filter = {} \/ TopicOf(i) \in loopOpt.filter

\* playFiltered returns: the deferred function closes its publishers; run then
\* stops, or seeks to the start if it loops, can, and no error came back.
Returns(err) ==
  /\ pubs' = {} /\ player' = IF err \/ ~loopOpt.loop \/ ~loopOpt.seekable THEN "ended" ELSE "seek"

\* One line after the other: the context is checked before a line is decoded; a
\* line of another topic is skipped; the delay ends early with the context; then
\* the line is written through its topic's publisher, which may fail.
playFiltered ==
  /\ \/ player = "line" /\ pos = Lines /\ Returns(FALSE) /\ UNCHANGED <<pos, played>>
     \/ player = "line" /\ pos < Lines /\ rctx /\ Returns(TRUE) /\ UNCHANGED <<pos, played>>
     \/ player = "line" /\ pos < Lines /\ ~rctx /\ pos' = pos + 1
        /\ player' = (IF Wanted(pos + 1) THEN "wait" ELSE "line") /\ UNCHANGED <<pubs, played>>
     \/ player = "line" /\ pos < Lines /\ ~rctx /\ Returns(TRUE) /\ UNCHANGED <<pos, played>>
     \/ player = "wait" /\ player' = "write" /\ UNCHANGED <<pos, pubs, played>>
     \/ player = "wait" /\ rctx /\ Returns(TRUE) /\ UNCHANGED <<pos, played>>
     \/ player = "write" /\ pubs' = pubs \cup {TopicOf(pos)} /\ played' = played \cup {pos}
        /\ player' = "line" /\ UNCHANGED pos
     \/ player = "write" /\ Returns(TRUE) /\ UNCHANGED <<pos, played>>
  /\ UNCHANGED <<once, loopOpt, rctx, stop>>

\* (a bug for the checks: the input is not sought back to its start)
RewindUnsought ==
  /\ player = "seek" /\ played' = {} /\ player' = IF rctx THEN "ended" ELSE "line"
  /\ UNCHANGED <<once, loopOpt, pos, pubs, rctx, stop>>

\* run: back to the start of the input, if the seek succeeds, and the context once
\* more.
Rewind ==
  /\ player = "seek" /\ pos' = 0 /\ played' = {}
  /\ \/ player' = IF rctx THEN "ended" ELSE "line"
     \/ player' = "ended"
  /\ UNCHANGED <<once, loopOpt, pubs, rctx, stop>>

\* The wait for done, after a cancel or before there was anything to cancel.
Wait(i) == stop[i] \in {"early", "blocked"} /\ player = "ended" /\ stop' = [stop EXCEPT ![i] = "returned"]

\* (a bug for the checks: the replay is not cancelled)
StopUncancelled(i) ==
  /\ \/ stop[i] = "no" /\ stop' = [stop EXCEPT ![i] = IF once THEN "blocked" ELSE "early"]
     \/ Wait(i)
  /\ UNCHANGED <<once, loopOpt, player, pos, pubs, rctx, played>>

\* Stop cancels, if Start has stored the cancel function, and waits for done.
Stop(i) ==
  /\ \/ stop[i] = "no" /\ stop' = [stop EXCEPT ![i] = IF once THEN "blocked" ELSE "early"] /\ rctx' = (rctx \/ once)
     \/ Wait(i) /\ UNCHANGED rctx
  /\ UNCHANGED <<once, loopOpt, player, pos, pubs, played>>

Next == Start \/ Cancel \/ playFiltered \/ Rewind \/ \E i \in Stops : Stop(i)

Spec == Init /\ [][Next]_vars

-----------------------------------------------------------------------------
\* The variables hold what the fields they model can hold.
ReplayerTypeOK ==
  /\ player \in {"none", "line", "wait", "write", "seek", "ended"} /\ pos \in 0..Lines
  /\ pubs \subseteq 1..Topics /\ played \subseteq 1..Lines
  /\ stop \in [Stops -> {"no", "early", "blocked", "returned"}]

\* A pass that came to its end without an error has written every line the filter
\* lets through, in every round of a loop: the seek and the decoder
\* start over together.
WholePass == player = "seek" => played = {i \in 1..Lines : Wanted(i)}

\* A Stop that has been called goes on.
StopGoesOn(i) == stop[i] # "no" /\ Stop(i)

StopStuck(i) == stop[i] = "blocked"

\* "Stop halts the replay.  It blocks until the replay goroutine exits": once
\* started, every Stop returns, also of a recording that loops.
ReplayStopReturns == \A i \in Stops : []<>~StopStuck(i)

\* "Safe to call multiple times", with nothing said of a service not yet started.
\* The code does not keep this: README.md says where it differs.
ReplayStopAlways == \A i \in Stops : stop[i] \in {"early", "blocked"} ~> stop[i] = "returned"
=============================================================================

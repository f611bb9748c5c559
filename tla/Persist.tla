------------------------------- MODULE Persist -------------------------------
(* Disk-backed TransientLocal history (rtps/persist.go) of one topic: Writes *)
(* of the participant's writers keep the last sample in memory and rewrite   *)
(* the topic's file, a new subscriber reads memory or, failing that, the     *)
(* file, and the process may crash between any two system calls.             *)
EXTENDS Integers, Sequences

CONSTANTS Writers,     \* writers of the topic
          Size,        \* payload length of each writer's samples
          MaxWrites, MaxJoins, MaxCrashes,  \* bounds
          None

VARIABLES mem,         \* p.lastSample of the topic
          file,        \* the topic's file: [hdr, body], None if there is none
          flush,       \* each writer's persistFlush: "idle", "create", "len" or "body"
          seq,         \* samples each writer has written
          joiner,      \* newSubscriber under p.mu: [at, n, v]
          joins, crashes,
          newest,      \* history: the sample written last
          flushed,     \* history: the sample whose flush completed last
          calm,        \* history: no two flushes overlapped since the file was last begun by one
          alone        \* history: no flush overlapped the current load

vars == <<mem, file, flush, seq, joiner, joins, crashes, newest, flushed, calm, alone>>

\* A payload is its bytes <<writer, sample number, index>>; zero bytes are 0.
Payload(w, n) == [i \in 1..Size[w] |-> <<w, n, i>>]
NoLoad == [at |-> "idle", n |-> 0, v |-> << >>]
Flushing == {w \in Writers : flush[w] # "idle"}

\* The variables hold what the fields they model can hold.
TypeOK ==
  /\ flush \in [Writers -> {"idle", "create", "len", "body"}]
  /\ joiner.at \in {"idle", "open", "hdr", "body", "store", "served"}
  /\ joins \in 0..MaxJoins /\ crashes \in 0..MaxCrashes /\ calm \in BOOLEAN /\ alone \in BOOLEAN

Init ==
  /\ mem = << >> /\ file = None /\ flush = [w \in Writers |-> "idle"]
  /\ seq = [w \in Writers |-> 0] /\ joiner = NoLoad /\ joins = 0 /\ crashes = 0
  /\ newest = << >> /\ flushed = << >> /\ calm = TRUE /\ alone = TRUE

\* writer.Write keeps the sample in memory, then calls persistFlush.
Write(w) ==
  /\ flush[w] = "idle" /\ seq[w] < MaxWrites
  /\ seq' = [seq EXCEPT ![w] = @ + 1]
  /\ mem' = Payload(w, seq'[w]) /\ newest' = mem'
  /\ flush' = [flush EXCEPT ![w] = "create"]
  /\ calm' = (calm /\ Flushing = {})
  /\ alone' = FALSE
  /\ UNCHANGED <<file, joiner, joins, crashes, flushed>>

\* persistFlush: os.Create truncates, then the length and the payload are
\* written at the file offsets of this writer.
Truncated == [hdr |-> None, body |-> << >>]
Body(f, p) == [i \in 1..(IF Len(f.body) > Len(p) THEN Len(f.body) ELSE Len(p)) |->
                 IF i <= Len(p) THEN p[i] ELSE f.body[i]]

Then(at) == CASE at = "create" -> "len" [] at = "len" -> "body" [] OTHER -> "idle"

\* (a bug for the checks: a length that is one too large)
persistFlushLong(w) ==
  LET p == Payload(w, seq[w]) IN
  /\ flush[w] # "idle"
  /\ flush' = [flush EXCEPT ![w] = Then(flush[w])]
  /\ file' = CASE flush[w] = "create" -> Truncated
               [] flush[w] = "len"    -> [file EXCEPT !.hdr = Size[w] + 1]
               [] OTHER               -> [hdr |-> IF file.hdr = None THEN 0 ELSE file.hdr,
                                          body |-> Body(file, p)]
  /\ flushed' = IF flush'[w] = "idle" THEN p ELSE flushed
  /\ calm' = (calm \/ (flush[w] = "create" /\ Flushing = {w}))
  /\ UNCHANGED <<mem, seq, joiner, joins, crashes, newest, alone>>

persistFlush(w) ==
  LET p == Payload(w, seq[w]) IN
  /\ flush[w] # "idle"
  /\ flush' = [flush EXCEPT ![w] = Then(flush[w])]
  /\ file' = CASE flush[w] = "create" -> Truncated
               [] flush[w] = "len"    -> [file EXCEPT !.hdr = Size[w]]
               [] OTHER               -> [hdr |-> IF file.hdr = None THEN 0 ELSE file.hdr,
                                          body |-> Body(file, p)]
  /\ flushed' = IF flush'[w] = "idle" THEN p ELSE flushed
  /\ calm' = (calm \/ (flush[w] = "create" /\ Flushing = {w}))
  /\ UNCHANGED <<mem, seq, joiner, joins, crashes, newest, alone>>

-----------------------------------------------------------------------------
\* newSubscriber, TransientLocal: the sample in memory, if there is one ...
Join ==
  /\ joiner.at \in {"idle", "served"} /\ joins < MaxJoins
  /\ joins' = joins + 1
  /\ joiner' = IF mem # << >> THEN [at |-> "served", n |-> 0, v |-> mem]
               ELSE [NoLoad EXCEPT !.at = "open"]
  /\ alone' = (Flushing = {})
  /\ UNCHANGED <<mem, file, flush, seq, crashes, newest, flushed, calm>>

\* ... or persistLoad: an unreadable file is no sample.
LoadHeader ==
  /\ joiner.at = "open"
  /\ joiner' = IF file = None THEN NoLoad
               ELSE IF file.hdr = None THEN NoLoad
               ELSE [joiner EXCEPT !.at = "body", !.n = file.hdr]
  /\ UNCHANGED <<mem, file, flush, seq, joins, crashes, newest, flushed, calm, alone>>

\* A single Read fills as much of the buffer as the file has; the rest stays
\* zero.  Only an empty read is an error.
Filled(body, n) == [i \in 1..n |-> IF i <= Len(body) THEN body[i] ELSE 0]

LoadBody ==
  /\ joiner.at = "body"
  /\ joiner' = IF joiner.n > 0 /\ file.body = << >> THEN NoLoad
               ELSE [joiner EXCEPT !.at = "store", !.v = Filled(file.body, joiner.n)]
  /\ UNCHANGED <<mem, file, flush, seq, joins, crashes, newest, flushed, calm, alone>>

\* The loaded sample becomes the participant's last sample and is delivered.
StoreLoaded ==
  /\ joiner.at = "store"
  /\ joiner' = [joiner EXCEPT !.at = "served"]
  /\ mem' = joiner.v
  /\ UNCHANGED <<file, flush, seq, joins, crashes, newest, flushed, calm, alone>>

Crash ==
  /\ crashes < MaxCrashes /\ crashes' = crashes + 1
  /\ mem' = << >> /\ flush' = [w \in Writers |-> "idle"] /\ joiner' = NoLoad
  /\ UNCHANGED <<file, seq, joins, newest, flushed, calm, alone>>

Next ==
  \/ \E w \in Writers : Write(w) \/ persistFlush(w)
  \/ Join \/ LoadHeader \/ LoadBody \/ StoreLoaded \/ Crash

Spec == Init /\ [][Next]_vars

-----------------------------------------------------------------------------
\* What a subscriber is given from disk is, byte for byte, the sample whose flush
\* completed last, over any number of restarts and wherever a crash cut a flush
\* short: persistLoad takes no unfinished record for a whole one.  Provided no two
\* flushes wrote the file at once and none ran during the load.
RestoredWhole ==
  joiner.at = "store" /\ calm /\ alone => joiner.v = flushed

Written == {Payload(w, n) : w \in Writers, n \in 1..MaxWrites}

\* The same of flushes that overlap each other or the load: what is given is a
\* sample that was written.
\* The code does not keep this: README.md says where it differs.
RestoredWritten == joiner.at = "store" => joiner.v \in Written

\* "on every Write the new last sample is flushed to disk" and loaded on the next
\* start: while nothing is being flushed, the file holds a sample as soon as one
\* flush has completed, crash or not.
\* The code does not keep this: README.md says where it differs.
FileKeepsSample ==
  Flushing = {} /\ flushed # << >> => file.hdr # None /\ Len(file.body) = file.hdr

\* "TransientLocal retains the last N samples so that late joiners receive
\* current state on subscription": with no Write in progress, a subscriber that
\* finds a sample in memory is given the one written last.
\* The code does not keep this: README.md says where it differs.
JoinersGetNewest ==
  [][joins' > joins /\ joiner'.at = "served" /\ Flushing = {} /\ newest # << >> /\ crashes = 0
       => joiner'.v = newest]_vars
=============================================================================

-------------------------------- MODULE Shmem --------------------------------
(* The shared-memory transport of shmem/shmem.go, for one topic directory.  *)
(* A Write delivers in its own process through the broker's channels and    *)
(* spawns shmPublish, which rewrites the topic's data file and sends one    *)
(* datagram to the socket path; the listener bound to that path reads the   *)
(* file back.  A subscriber's pump merges both sources.  Nothing orders the *)
(* file accesses of different goroutines or processes: every system call is *)
(* a step of its own.                                                       *)
EXTENDS Integers, Sequences, FiniteSets

CONSTANTS Writers, Readers,
          Home,        \* process of each writer and reader
          Size,        \* payload length of each writer's samples
          Durable,     \* the writers and readers with TransientLocal
          None,        \* no socket, no header, no data
          Depth        \* capacity of a subscriber's channels

VARIABLES shm,         \* each writer's Write, and the shmPublish goroutine it spawns
          rest,        \* the broker snapshot a Write has still to deliver to
          last,        \* lastSample of each process's broker, by its writer
          dataFile,    \* data.bin: [hdr, body]
          sock,        \* the reader whose listener is bound to notify.sock
          shmSub,      \* life of each subscriber
          replay,      \* the last sample subscribe has still to send it
          inProc,      \* the broker channel of a subscriber: waiting samples
          loop,        \* its listener goroutine: [at, pend, n, xp]
          pump,        \* its pump goroutine: "off", "on" or "ended"
          out,         \* its own channel: waiting samples
          crashed,     \* a send on a closed channel ended the process
          toucher,     \* history: the goroutine that last changed the file
          told,        \* history: the goroutines whose datagram a listener got
          overlap,     \* history: did two shmPublish write the file at once
          lastRead,    \* history: what a listener's last readData returned
          offered      \* history: the samples a broker channel took or was too full for

vars == <<shm, rest, last, dataFile, sock, shmSub, replay, inProc, loop, pump, out,
          crashed, toucher, told, overlap, lastRead, offered>>

files == <<dataFile, sock, toucher, told, overlap>>
joins == <<last, replay, offered>>
Processes == {Home[x] : x \in Writers \cup Readers}
Steps == {"idle", "deliver", "create", "len", "body", "notify", "done"}

\* The variables hold what the fields they model can hold.
TypeOK ==
  /\ shm \in [Writers -> Steps] /\ rest \in [Writers -> SUBSET Readers]
  /\ sock \in Readers \cup {None} /\ pump \in [Readers -> {"off", "on", "ended"}]
  /\ inProc \in [Readers -> 0..Depth] /\ out \in [Readers -> 0..Depth]
  /\ \A r \in Readers :
        /\ replay[r] \in Writers \cup {None} /\ offered[r] \subseteq Writers
        /\ shmSub[r] \in {"new", "replay", "remove", "listen", "on", "off", "done", "inproc", "closed"}
        /\ loop[r].at \in {"none", "wait", "hdr", "body", "ended"} /\ loop[r].xp \in 0..Depth

Init ==
  /\ shm = [w \in Writers |-> "idle"] /\ rest = [w \in Writers |-> {}]
  /\ dataFile = [hdr |-> None, body |-> << >>] /\ sock = None
  /\ shmSub = [r \in Readers |-> "new"] /\ pump = [r \in Readers |-> "off"]
  /\ inProc = [r \in Readers |-> 0] /\ out = [r \in Readers |-> 0]
  /\ loop = [r \in Readers |-> [at |-> "none", pend |-> 0, n |-> 0, xp |-> 0]]
  /\ crashed = FALSE /\ toucher = None /\ overlap = FALSE
  /\ last = [h \in Processes |-> None] /\ replay = [r \in Readers |-> None]
  /\ offered = [r \in Readers |-> {}]
  /\ told = [r \in Readers |-> {}] /\ lastRead = [r \in Readers |-> None]

-----------------------------------------------------------------------------
Registered(r) == shmSub[r] \in {"replay", "remove", "listen", "on"}
InProcClosed(r) == shmSub[r] \in {"inproc", "closed"}
Done(r) == shmSub[r] \in {"done", "inproc", "closed"}

\* shmBroker.publish keeps the sample of a TransientLocal writer and copies the
\* subscription list of its own process ...
Write(w) ==
  /\ shm[w] = "idle"
  /\ last' = IF w \in Durable THEN [last EXCEPT ![Home[w]] = w] ELSE last
  /\ shm' = [shm EXCEPT ![w] = "deliver"]
  /\ rest' = [rest EXCEPT ![w] = {r \in Readers : Home[r] = Home[w] /\ Registered(r)}]
  /\ UNCHANGED <<files, shmSub, replay, inProc, loop, pump, out, crashed, lastRead, offered>>

\* ... delivers to its entries one by one (DropNewest) outside the lock ...
Deliver(w, r) ==
  /\ shm[w] = "deliver" /\ r \in rest[w]
  /\ rest' = [rest EXCEPT ![w] = @ \ {r}]
  /\ crashed' = InProcClosed(r)
  /\ inProc' = [inProc EXCEPT ![r] = IF InProcClosed(r) \/ @ = Depth THEN @ ELSE @ + 1]
  /\ offered' = [offered EXCEPT ![r] = @ \cup {w}]
  /\ UNCHANGED <<shm, last, files, shmSub, replay, loop, pump, out, lastRead>>

\* ... and starts shmPublish in a goroutine.
Spawn(w) ==
  /\ shm[w] = "deliver" /\ rest[w] = {}
  /\ shm' = [shm EXCEPT ![w] = "create"]
  /\ UNCHANGED <<rest, files, shmSub, joins, inProc, loop, pump, out, crashed, lastRead>>

\* (a bug for the checks: the notification goes out before the payload)
ThenNotifyEarly(at) ==
  CASE at = "create" -> "notify" [] at = "notify" -> "len" [] at = "len" -> "body" [] OTHER -> "done"

\* The steps of shmPublish: os.Create truncates, the length and the payload are
\* written at the goroutine's own offsets, the datagram comes last.
Then(at) ==
  CASE at = "create" -> "len" [] at = "len" -> "body" [] at = "body" -> "notify" [] OTHER -> "done"

Payload(w) == [i \in 1..Size[w] |-> <<w, i>>]

\* Bytes 1..Len(p) of the body are overwritten, the rest stays; a missing header
\* becomes a hole of zeroes.
Overwritten(f, p) ==
  [hdr |-> IF f.hdr = None THEN 0 ELSE f.hdr,
   body |-> [i \in 1..(IF Len(f.body) > Len(p) THEN Len(f.body) ELSE Len(p)) |->
               IF i <= Len(p) THEN p[i] ELSE f.body[i]]]

shmPublish(w) ==
  /\ shm[w] \in {"create", "len", "body", "notify"}
  /\ shm' = [shm EXCEPT ![w] = Then(shm[w])]
  /\ dataFile' = CASE shm[w] = "create" -> [hdr |-> None, body |-> << >>]
                   [] shm[w] = "len"    -> [dataFile EXCEPT !.hdr = Size[w]]
                   [] shm[w] = "body"   -> Overwritten(dataFile, Payload(w))
                   [] OTHER             -> dataFile
  /\ toucher' = IF shm[w] = "notify" THEN toucher ELSE w
  /\ overlap' = (overlap \/ (shm[w] = "create" /\ \E v \in Writers : shm[v] \in {"len", "body"}))
  /\ IF shm[w] = "notify" /\ sock # None
     THEN /\ loop' = [loop EXCEPT ![sock].pend = @ + 1]
          /\ told' = [told EXCEPT ![sock] = @ \cup {w}]
     ELSE UNCHANGED <<loop, told>>
  /\ UNCHANGED <<rest, sock, shmSub, joins, inProc, pump, out, crashed, lastRead>>

-----------------------------------------------------------------------------
\* newSubscriberLocked: shmBroker.subscribe registers and reads the last sample
\* under the broker's lock ...
NewSubscriber(r) ==
  /\ shmSub[r] = "new"
  /\ shmSub' = [shmSub EXCEPT ![r] = "replay"]
  /\ replay' = [replay EXCEPT ![r] = IF r \in Durable THEN last[Home[r]] ELSE None]
  /\ UNCHANGED <<shm, rest, last, files, inProc, loop, pump, out, crashed, lastRead, offered>>

\* ... sends it after unlocking, if there is room; ...
Replay(r) ==
  /\ shmSub[r] = "replay"
  /\ shmSub' = [shmSub EXCEPT ![r] = "remove"]
  /\ replay' = [replay EXCEPT ![r] = None]
  /\ inProc' = [inProc EXCEPT ![r] = IF replay[r] = None \/ @ = Depth THEN @ ELSE @ + 1]
  /\ offered' = [offered EXCEPT ![r] = @ \cup ({replay[r]} \ {None})]
  /\ UNCHANGED <<shm, rest, last, files, loop, pump, out, crashed, lastRead>>

\* ... then newShmListener removes whatever is at the socket path and binds it; a
\* failure leaves no listener.
RemoveStale(r) ==
  /\ shmSub[r] = "remove"
  /\ shmSub' = [shmSub EXCEPT ![r] = "listen"]
  /\ sock' = None
  /\ UNCHANGED <<shm, rest, dataFile, toucher, told, overlap, joins, inProc, loop, pump, out, crashed, lastRead>>

Listen(r) ==
  /\ shmSub[r] = "listen"
  /\ shmSub' = [shmSub EXCEPT ![r] = "on"]
  /\ IF sock = None
     THEN sock' = r /\ loop' = [loop EXCEPT ![r].at = "wait"]
     ELSE UNCHANGED <<sock, loop>>
  /\ UNCHANGED <<shm, rest, dataFile, toucher, told, overlap, joins, inProc, pump, out, crashed, lastRead>>

\* shmListener.loop: every wake-up, by a datagram or by the 100 ms deadline,
\* looks at done first.
Receive(r) ==
  /\ loop[r].at = "wait" /\ (loop[r].pend > 0 \/ shmSub[r] = "closed")
  /\ loop' = [loop EXCEPT ![r].at = IF shmSub[r] = "closed" THEN "ended" ELSE "hdr",
                          ![r].pend = IF @ = 0 THEN 0 ELSE @ - 1]
  /\ UNCHANGED <<shm, rest, files, shmSub, joins, inProc, pump, out, crashed, lastRead>>

\* readData reads the length, then that many bytes; a short file is an error.
ReadHeader(r) ==
  /\ loop[r].at = "hdr"
  /\ IF dataFile.hdr = None
     THEN /\ loop' = [loop EXCEPT ![r].at = "wait"]
          /\ lastRead' = [lastRead EXCEPT ![r] = None]
     ELSE /\ loop' = [loop EXCEPT ![r].at = "body", ![r].n = dataFile.hdr]
          /\ UNCHANGED lastRead
  /\ UNCHANGED <<shm, rest, files, shmSub, joins, inProc, pump, out, crashed>>

Bytes(f, n) == IF Len(f.body) < n THEN None ELSE SubSeq(f.body, 1, n)

ReadBody(r) ==
  LET data == Bytes(dataFile, loop[r].n)
      full == data = None \/ loop[r].xp = Depth
  IN
  /\ loop[r].at = "body"
  /\ lastRead' = [lastRead EXCEPT ![r] = data]
  /\ loop' = [loop EXCEPT ![r].at = "wait", ![r].n = 0, ![r].xp = IF full THEN @ ELSE @ + 1]
  /\ UNCHANGED <<shm, rest, files, shmSub, joins, inProc, pump, out, crashed>>

\* The pump forwards from either source without blocking, and returns when the
\* subscriber is done or its broker channel is closed and empty.
Forward(r) ==
  \/ /\ Done(r) => out[r] < Depth
     /\ pump' = pump /\ out' = [out EXCEPT ![r] = IF @ = Depth THEN @ ELSE @ + 1]
  \/ Done(r) /\ pump' = [pump EXCEPT ![r] = "ended"] /\ out' = out

\* (a bug for the checks: the pump does not see that the subscriber is done)
PumpDeaf(r) ==
  /\ pump[r] = "on"
  /\ \/ inProc[r] > 0 /\ inProc' = [inProc EXCEPT ![r] = @ - 1] /\ Forward(r) /\ UNCHANGED loop
     \/ loop[r].xp > 0 /\ loop' = [loop EXCEPT ![r].xp = @ - 1] /\ Forward(r) /\ UNCHANGED inProc
  /\ UNCHANGED <<shm, rest, files, shmSub, joins, crashed, lastRead>>

Pump(r) ==
  /\ pump[r] = "on"
  /\ \/ inProc[r] > 0 /\ inProc' = [inProc EXCEPT ![r] = @ - 1] /\ Forward(r) /\ UNCHANGED loop
     \/ loop[r].xp > 0 /\ loop' = [loop EXCEPT ![r].xp = @ - 1] /\ Forward(r) /\ UNCHANGED inProc
     \/ /\ Done(r)
        /\ pump' = [pump EXCEPT ![r] = "ended"] /\ UNCHANGED <<inProc, loop, out>>
  /\ UNCHANGED <<shm, rest, files, shmSub, joins, crashed, lastRead>>

\* C and TryRead start the pump on first use.
C(r) ==
  /\ shmSub[r] \notin {"new", "replay", "remove", "listen"} /\ pump[r] = "off"
  /\ pump' = [pump EXCEPT ![r] = "on"]
  /\ UNCHANGED <<shm, rest, files, shmSub, joins, inProc, loop, out, crashed, lastRead>>

TryRead(r) ==
  /\ out[r] > 0
  /\ out' = [out EXCEPT ![r] = @ - 1]
  /\ UNCHANGED <<shm, rest, files, shmSub, joins, inProc, loop, pump, crashed, lastRead>>

\* Unsubscribe leaves the broker's list.  Close then closes done, then inProc,
\* then the listener, which removes the socket path whoever is bound to it.
Unsubscribe(r) ==
  /\ shmSub[r] = "on"
  /\ shmSub' = [shmSub EXCEPT ![r] = "off"]
  /\ UNCHANGED <<shm, rest, files, joins, inProc, loop, pump, out, crashed, lastRead>>

CloseThen(at) == CASE at = "off" -> "done" [] at = "done" -> "inproc" [] OTHER -> "closed"

Close(r) ==
  /\ shmSub[r] \in {"off", "done", "inproc"}
  /\ shmSub' = [shmSub EXCEPT ![r] = CloseThen(shmSub[r])]
  /\ sock' = IF shmSub[r] = "inproc" /\ loop[r].at # "none" THEN None ELSE sock
  /\ UNCHANGED <<shm, rest, dataFile, toucher, told, overlap, joins, inProc, loop, pump, out, crashed, lastRead>>

Next ==
  /\ ~crashed
  /\ \/ \E w \in Writers : \/ Write(w) \/ Spawn(w) \/ shmPublish(w)
                           \/ \E r \in Readers : Deliver(w, r)
     \/ \E r \in Readers : \/ NewSubscriber(r) \/ Replay(r) \/ RemoveStale(r) \/ Listen(r) \/ Receive(r)
                           \/ ReadHeader(r) \/ ReadBody(r) \/ Pump(r) \/ C(r) \/ TryRead(r)
                           \/ Unsubscribe(r) \/ Close(r)

Spec == Init /\ [][Next]_vars

-----------------------------------------------------------------------------
Quiet == \A w \in Writers : shm[w] \in {"idle", "done"}
Delivering(h) == \E w \in Writers : Home[w] = h /\ shm[w] = "deliver"

\* Once no shmPublish is running, a listener that was told by the goroutine that
\* changed the data file last, and has handled its datagrams, has read that
\* goroutine's payload byte for byte, however the writes raced the reads; where two
\* goroutines wrote the file at once, what they left in it.
CaughtUp ==
  \A r \in Readers :
     Quiet /\ toucher \in told[r] /\ loop[r].at = "wait" /\ loop[r].pend = 0
       => lastRead[r] = IF overlap THEN Bytes(dataFile, dataFile.hdr) ELSE Payload(toucher)

\* A TransientLocal subscriber whose process is not delivering has been sent the
\* newest TransientLocal sample of the process, by its Write or by the replay of
\* subscribe, whichever way the two raced; a full channel may have dropped it.
JoinersCurrent ==
  \A r \in Readers \cap Durable :
     last[Home[r]] # None /\ shmSub[r] \in {"remove", "listen", "on"} /\ ~Delivering(Home[r])
       => last[Home[r]] \in offered[r]

\* "the payload is read from the shared memory-mapped file" (REQ-SHMEM-002): a
\* listener reads one writer's payload or nothing.
\* The code does not keep this: README.md says where it differs.
ReadWhole == \A r \in Readers : lastRead[r] # None => \E w \in Writers : lastRead[r] = Payload(w)

\* No send meets a channel that Close has closed.
\* The code does not keep this: README.md says where it differs.
NoPanic == ~crashed

Unreadable(r) == pump[r] = "on" \/ loop[r].at \notin {"none", "ended"}

\* What the code promises of scheduling: goroutines that can run do run.
Fairness(r) == WF_vars(Pump(r)) /\ WF_vars(Receive(r)) /\ WF_vars(ReadHeader(r)) /\ WF_vars(ReadBody(r))

FairSpec == Spec /\ \A r \in Readers : Fairness(r)

Stuck(r) == shmSub[r] = "closed" /\ ~crashed /\ Unreadable(r)

\* Close ends both goroutines of a subscriber: the pump, so that C() is closed,
\* and the listener loop.
CloseEnds == \A r \in Readers : []<>~Stuck(r)
=============================================================================

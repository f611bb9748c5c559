------------------------------ MODULE Operator ------------------------------
(***************************************************************************)
(* The Kubernetes operator (k8s/operator): informers feed the webhook's    *)
(* caches (internal/cache) and the work queue of the DomainReconciler      *)
(* (internal/controller), which keeps one NetworkPolicy per DDSDomain.     *)
(* One DDSParticipant and one DDSDomain; the work queue runs one           *)
(* reconciliation per key at a time, so one domain has at most one worker. *)
(***************************************************************************)
EXTENDS Naturals, Sequences

CONSTANTS MaxChanges,   \* bound: changes to the two objects
          MaxErrors,    \* bound: API calls that fail, and policies changed by others
          MaxCrashes,   \* bound: operator restarts
          MaxQueue      \* bound: informer notifications pending

VARIABLES
  objs,      \* per kind, the object in the API server: "gone", "bad" (spec does not
             \* decode), "open" (no isolation) or "iso1", "iso2" (two isolating specs)
  up,        \* is the operator running
  synced,    \* per kind, has the informer listed
  store,     \* per kind, the informer's store
  noteQ,     \* per kind, notifications pending for the cache's handler
  handling,  \* has the reconciler registered its handlers and started its workers
  dirty,     \* the domain's key is on its way to or in the work queue
  cached,    \* per kind, the cache the webhook reads: "none" or a spec
  work,      \* the worker: [at, want, rv]
  policy,    \* the live NetworkPolicy: [spec, rv]; spec "none" when there is none
  spent,     \* [changes, errors, crashes] so far
  orphan     \* did the domain go while no reconciler was there to be told

vars == <<objs, up, synced, store, noteQ, handling, dirty, cached, work, policy, spent, orphan>>

Kinds == {"participant", "domain"}
Specs == {"open", "iso1", "iso2"}
Idle == [at |-> "idle", want |-> "none", rv |-> 0]

Init ==
  /\ objs = [k \in Kinds |-> "gone"] /\ up = FALSE /\ synced = [k \in Kinds |-> FALSE]
  /\ store = [k \in Kinds |-> "gone"] /\ noteQ = [k \in Kinds |-> <<>>]
  /\ handling = FALSE /\ dirty = FALSE
  /\ cached = [k \in Kinds |-> "none"] /\ work = Idle /\ policy = [spec |-> "none", rv |-> 0]
  /\ spent = [changes |-> 0, errors |-> 0, crashes |-> 0] /\ orphan = FALSE

\* A user creates, edits or deletes a custom resource.
Change(k) ==
  /\ spent.changes < MaxChanges /\ spent' = [spent EXCEPT !.changes = @ + 1]
  /\ \E v \in IF k = "domain" THEN Specs \cup {"bad", "gone"} ELSE {"open", "bad", "gone"} :
       v # objs[k] /\ objs' = [objs EXCEPT ![k] = v]
  /\ UNCHANGED <<up, synced, store, noteQ, handling, dirty, cached, work, policy, orphan>>

\* Another actor removes the policy.
Meddle ==
  /\ spent.errors < MaxErrors /\ spent' = [spent EXCEPT !.errors = @ + 1]
  /\ policy.spec # "none" /\ policy' = [policy EXCEPT !.spec = "none"]
  /\ UNCHANGED <<objs, up, synced, store, noteQ, handling, dirty, cached, work, orphan>>

run ==
  /\ ~up /\ up' = TRUE
  /\ UNCHANGED <<objs, synced, store, noteQ, handling, dirty, cached, work, policy, spent, orphan>>

\* The reconciler's Run, once the informers have synced: its handlers are told of
\* every object in the store, and its workers start.
Run ==
  /\ up /\ ~handling /\ (\A k \in Kinds : synced[k]) /\ handling' = TRUE
  /\ dirty' = (store["domain"] # "gone")
  /\ UNCHANGED <<objs, up, synced, store, noteQ, cached, work, policy, spent, orphan>>

\* The process ends: all of its memory is lost, an API call in flight may be too.
Crash ==
  /\ up /\ spent.crashes < MaxCrashes /\ spent' = [spent EXCEPT !.crashes = @ + 1]
  /\ up' = FALSE /\ synced' = [k \in Kinds |-> FALSE] /\ store' = [k \in Kinds |-> "gone"]
  /\ noteQ' = [k \in Kinds |-> <<>>] /\ handling' = FALSE /\ dirty' = FALSE /\ cached' = [k \in Kinds |-> "none"]
  /\ work' = Idle /\ UNCHANGED <<objs, policy, orphan>>

\* An informer's list or watch catches up with the API server, possibly after a gap;
\* handlers are told of an object seen, changed or gone: the cache's in turn, the
\* reconciler's, which only enqueues the key, at once.  In the first list an object
\* that is gone is not an event.
Informer(k) ==
  /\ up /\ Len(noteQ[k]) < MaxQueue /\ (store[k] # objs[k] \/ ~synced[k])
  /\ store' = [store EXCEPT ![k] = objs[k]] /\ synced' = [synced EXCEPT ![k] = TRUE]
  /\ noteQ' = (IF objs[k] = store[k] THEN noteQ ELSE [noteQ EXCEPT ![k] = Append(@, objs[k])])
  /\ dirty' = (dirty \/ (k = "domain" /\ handling /\ objs[k] # store[k]))
  /\ orphan' = (IF k = "domain" THEN objs[k] = "gone" /\ ~handling ELSE orphan)
  /\ UNCHANGED <<objs, up, handling, cached, work, policy, spent>>

\* The informer's resync, every ten minutes: an update for the object in the store.
Resync(k) ==
  /\ up /\ noteQ[k] = <<>> /\ store[k] # "gone"
  /\ noteQ' = [noteQ EXCEPT ![k] = <<store[k]>>] /\ dirty' = (dirty \/ (k = "domain" /\ handling))
  /\ UNCHANGED <<objs, up, synced, store, handling, cached, work, policy, spent, orphan>>

\* (a bug for the checks: a delete seen after a gap, wrapped in a tombstone, not unwrapped)
NotifyNoTombstone(k) ==
  /\ up /\ noteQ[k] # <<>> /\ noteQ' = [noteQ EXCEPT ![k] = Tail(@)]
  /\ cached' = [cached EXCEPT ![k] = IF Head(noteQ[k]) \in Specs THEN Head(noteQ[k]) ELSE @]
  /\ UNCHANGED <<objs, up, synced, store, handling, dirty, work, policy, spent, orphan>>

\* A notification reaches the cache's handler: upsert or remove; an object that does
\* not decode changes nothing.
Notify(k) ==
  /\ up /\ noteQ[k] # <<>> /\ noteQ' = [noteQ EXCEPT ![k] = Tail(@)]
  /\ cached' = [cached EXCEPT ![k] = CASE Head(noteQ[k]) = "gone" -> "none"
                                       [] Head(noteQ[k]) = "bad" -> @
                                       [] OTHER -> Head(noteQ[k])]
  /\ UNCHANGED <<objs, up, synced, store, handling, dirty, work, policy, spent, orphan>>

\* worker and the store read of reconcile: what Build wants, or an error.
Reconcile ==
  /\ handling /\ dirty /\ work.at = "idle"
  /\ dirty' = (store["domain"] = "bad")
  /\ work' = CASE store["domain"] \in {"gone", "open"} -> [Idle EXCEPT !.at = "delete"]
               [] store["domain"] = "bad" -> Idle
               [] OTHER -> [Idle EXCEPT !.at = "get", !.want = store["domain"]]
  /\ UNCHANGED <<objs, up, synced, store, noteQ, handling, cached, policy, spent, orphan>>

\* (a bug for the checks: an error is not requeued)
failDropped == work' = Idle /\ UNCHANGED dirty

\* An error: the key is added again.
fail == work' = Idle /\ dirty' = TRUE

\* The API server fails the call.
ApiFails ==
  /\ work.at # "idle" /\ spent.errors < MaxErrors /\ spent' = [spent EXCEPT !.errors = @ + 1]
  /\ fail /\ UNCHANGED <<objs, up, synced, store, noteQ, handling, cached, policy, orphan>>

deletePolicy ==
  /\ work.at = "delete" /\ policy' = [policy EXCEPT !.spec = "none"] /\ work' = Idle
  /\ UNCHANGED <<objs, up, synced, store, noteQ, handling, dirty, cached, spent, orphan>>

\* applyPolicy: Get, then Create if there was none, else Update of the version
\* that was read; a policy created, removed or changed in between is an error.
applyPolicy ==
  /\ \/ work.at = "get" /\ UNCHANGED <<policy, dirty>>
        /\ work' = (IF policy.spec = "none" THEN [work EXCEPT !.at = "create"]
                    ELSE [work EXCEPT !.at = "update", !.rv = policy.rv])
     \/ work.at \in {"create", "update"}
        /\ IF IF work.at = "create" THEN policy.spec = "none"
              ELSE policy.spec # "none" /\ policy.rv = work.rv
           THEN /\ policy' = [spec |-> work.want, rv |-> (policy.rv + 1) % 4]
                /\ work' = Idle /\ UNCHANGED dirty
           ELSE fail /\ UNCHANGED policy
  /\ UNCHANGED <<objs, up, synced, store, noteQ, handling, cached, spent, orphan>>

Next ==
  \/ Meddle \/ run \/ Run \/ Crash \/ Reconcile \/ ApiFails \/ deletePolicy \/ applyPolicy
  \/ \E k \in Kinds : Change(k) \/ Informer(k) \/ Resync(k) \/ Notify(k)

Spec == Init /\ [][Next]_vars

-----------------------------------------------------------------------------
\* The variables hold what the fields they model can hold.
OperatorTypeOK ==
  /\ objs \in [Kinds -> Specs \cup {"bad", "gone"}] /\ store \in [Kinds -> Specs \cup {"bad", "gone"}]
  /\ cached \in [Kinds -> Specs \cup {"none"}] /\ up \in BOOLEAN /\ dirty \in BOOLEAN
  /\ work.at \in {"idle", "delete", "get", "create", "update"}
  /\ policy.spec \in {"none", "iso1", "iso2"} /\ orphan \in BOOLEAN

Wanted == IF objs["domain"] \in {"iso1", "iso2"} THEN objs["domain"] ELSE "none"

PolicyRight == objs["domain"] = "bad" \/ orphan \/ policy.spec = Wanted
CacheRight(k) == objs[k] = "bad" \/ cached[k] = IF objs[k] = "gone" THEN "none" ELSE objs[k]

\* "reconciles the cluster's actual NetworkPolicy to match — including deleting a
\* previously generated policy when the DDSDomain is gone or IsolateNamespace is
\* now false": whatever the interleaving of edits, resyncs, API errors, others'
\* changes and restarts, the policy is in the end the one the domain asks for,
\* unless the domain was deleted before a restarted operator's reconciler was
\* listening, or does not decode.
PolicyConverges == <>[]PolicyRight

\* The same without the exception for a delete the operator was not there to see.
\* The code does not keep this: README.md says where it differs.
PolicyAlwaysConverges == <>[](objs["domain"] = "bad" \/ policy.spec = Wanted)

\* The webhook's caches catch up with the API server: in the end they hold the
\* object as it is, unless its last form does not decode.
CachesConverge == \A k \in Kinds : <>[]CacheRight(k)

\* "Malformed objects (spec doesn't decode) are dropped rather than cached stale":
\* with every notification handled, no spec is cached for an object that does not
\* decode.
\* The code does not keep this: README.md says where it differs.
MalformedDropped ==
  \A k \in Kinds : up /\ store[k] = objs[k] /\ noteQ[k] = <<>> /\ objs[k] = "bad" => cached[k] = "none"
=============================================================================

----------------------------- MODULE Admission -----------------------------
(* The mutating webhook of the Kubernetes operator (webhook.go) and the     *)
(* environment it injects (inject.go): a pod is reviewed against the        *)
(* operator's caches, the JSON patch is applied by the API server, another  *)
(* webhook may add variables of its own, and the API server may invoke the  *)
(* webhook again on the result.  Names and values of variables are model    *)
(* values; the patch document is the list of its "add" operations.          *)
EXTENDS Integers, Sequences, FiniteSets, SequencesExt

CONSTANTS Containers,   \* the pod's containers
          Optionals,    \* optional DDS_* variables a DDSParticipant can set
          MaxReviews,   \* bound: invocations of the webhook
          MaxChanges    \* bound: changes of the cached objects

DomainID == "DDS_DOMAIN_ID"

VARIABLES annotated,    \* the names in the inject annotation; none means "" or "all"
          env,          \* container -> its env list: <<name, value>>
          declared,     \* container -> the list the application declared (history)
          participant,  \* the cached DDSParticipant: [known, domain, sets]
          bound,        \* DomainID of the DDSDomain bound to the namespace; 0 none
          reviews, changes,
          warned        \* the last response carried a warning

avars == <<annotated, env, declared, participant, bound, reviews, changes, warned>>

Names(list) == {list[i][1] : i \in 1..Len(list)}

\* What an application declares: nothing, an own variable, or a DDS_* one.
Declarations == {<<>>, <<<<"APP", "app">>>>, <<<<DomainID, "app">>, <<"APP", "app">>>>}

Participants == [known : BOOLEAN, domain : 0..1, sets : SUBSET Optionals]

Init ==
    /\ annotated \in {{}, {CHOOSE c \in Containers : TRUE}}
    /\ env \in [Containers -> Declarations]
    /\ declared = env
    /\ participant \in Participants
    /\ bound \in {0, 2}
    /\ reviews = 0 /\ changes = 0
    /\ warned = FALSE

\* ComputeEnv: the participant's own domain wins, zero takes the bound one.
ComputeEnv ==
    LET id == IF participant.domain = 0 THEN bound ELSE participant.domain
    IN <<<<DomainID, id>>>> \o [i \in 1..Cardinality(participant.sets) |->
                                   <<SetToSeq(participant.sets)[i], "crd">>]

TargetContainers == IF annotated = {} THEN Containers ELSE annotated

\* (a bug for the checks: declared names are not looked for)
BuildPatchBlind(list, toInject) == list \o toInject

\* BuildPatch and its application: the variables the container does not
\* define yet, as one list when it has none, appended one by one otherwise.
BuildPatch(list, toInject) ==
    LET toAdd == SelectSeq(toInject, LAMBDA e : e[1] \notin Names(list))
    IN IF list = <<>> THEN toAdd ELSE list \o toAdd

\* review: fail open without a participant, otherwise patch the targets.
review ==
    /\ reviews < MaxReviews
    /\ reviews' = reviews + 1
    /\ warned' = ~participant.known
    /\ env' = [c \in Containers |-> IF participant.known /\ c \in TargetContainers
                                    THEN BuildPatch(env[c], ComputeEnv) ELSE env[c]]
    /\ UNCHANGED <<annotated, declared, participant, bound, changes>>

\* Another mutating webhook appends a variable between two invocations.
OtherWebhook(c) ==
    /\ reviews = 1
    /\ "SIDE" \notin Names(env[c])
    /\ env' = [env EXCEPT ![c] = Append(@, <<"SIDE", "other">>)]
    /\ UNCHANGED <<annotated, declared, participant, bound, reviews, changes, warned>>

\* The informers change what the webhook looks up.
CacheChange ==
    /\ changes < MaxChanges
    /\ changes' = changes + 1
    /\ \/ participant' \in Participants /\ UNCHANGED bound
       \/ bound' \in {0, 2} /\ UNCHANGED participant
    /\ UNCHANGED <<annotated, env, declared, reviews, warned>>

Next == review \/ CacheChange \/ \E c \in Containers : OtherWebhook(c)

Spec == Init /\ [][Next]_avars

-----------------------------------------------------------------------------
\* Counters and the cached objects are of their types.
AdmissionTypeOK ==
    /\ annotated \subseteq Containers
    /\ participant \in Participants /\ bound \in {0, 2}
    /\ reviews \in 0..MaxReviews /\ changes \in 0..MaxChanges
    /\ warned \in BOOLEAN

\* The operator never overrides what the application declared (inject.go "an
\* explicit container env var always wins"), however often it is invoked and
\* whatever changes in between: each list starts with the declared one and
\* defines every name once, and a container that is not a target only ever
\* gains other webhooks' variables.
DeclaredWins ==
    \A c \in Containers :
        /\ IsPrefix(declared[c], env[c])
        /\ Cardinality(Names(env[c])) = Len(env[c])
        /\ c \notin TargetContainers => Names(env[c]) \subseteq Names(declared[c]) \cup {"SIDE"}
=============================================================================

----------------------------- MODULE Identities -----------------------------
(***************************************************************************)
(* The numeric security identities of Pod label sets: the Allocator of     *)
(* flowsdn-agent/src/identity.rs and the identity_loop that drives it, on  *)
(* every node against the FlowsdnIdentity objects of one cluster.  The     *)
(* list an agent works from may be old; a create may be refused, lost, or  *)
(* done although its answer is lost; the operator marks and collects       *)
(* objects it thinks are unused (external).                                *)
(***************************************************************************)
EXTENDS Naturals, Sequences, FiniteSets, SequencesExt, FiniteSetsExt

CONSTANTS
    Agents,
    KeySeq,       \* label sets, in the order of their canonical keys
    WellKnown,    \* the ones with a reserved identity
    Ids,          \* MIN_ID..MAX_ID
    StartPods,    \* agent -> the label sets its Pods start with
    MaxEvents     \* bound: Pod changes, marks and lost requests, together

VARIABLES
    objects,   \* id -> [key, created, heartbeat, version]: the API server
    listed,    \* agent -> the objects its watch has shown
    local,     \* agent -> the label sets of its Pods
    held,      \* agent -> key -> [id, verified, seen]
    waiting,   \* agents that wait for the next tick of their loop
    todo,      \* agent -> the writes of its pass
    created, events
vars == <<objects, listed, local, held, waiting, todo, created, events>>

Keys == ToSet(KeySeq)
Reserved(k) == Max(Ids) + 1      \* well_known(): outside the allocated range
Nothing == [x \in {} |-> 0]

With(f, k, v) == [x \in DOMAIN f \cup {k} |-> IF x = k THEN v ELSE f[x]]
Without(f, k) == [x \in DOMAIN f \ {k} |-> f[x]]
------------------------------------------------------------------------------
(* Allocator *)

Held(id, verified, seen) == [id |-> id, verified |-> verified, seen |-> seen]

\* oldest(): the object a label set resolves to, ties to the lowest number.
Oldest(list, k) ==
    LET mine == {i \in DOMAIN list : list[i].key = k}
    IN CHOOSE i \in mine : \A j \in mine :
          list[i].created < list[j].created
          \/ (list[i].created = list[j].created /\ i <= j)
Has(list, k) == \E i \in DOMAIN list : list[i].key = k

\* free(): the first unused number from `start`, wrapping around.
Free(list, h, start) ==
    LET Far(i) == (i + Cardinality(Ids) - start) % Cardinality(Ids)
        unused == Ids \ (DOMAIN list \cup {h[k].id : k \in DOMAIN h})
    IN {i \in unused : \A j \in unused : Far(i) <= Far(j)}

\* acquire(): an update that drops the operator's mark.
Acquire(list, i, k) ==
    IF list[i].heartbeat
    THEN <<[do |-> "acquire", id |-> i, key |-> k, version |-> list[i].version]>>
    ELSE <<>>
Create(i, k) == <<[do |-> "create", id |-> i, key |-> k, version |-> 0]>>

\* reconcile() for one label set that is not, or no longer, held.
Settle(list, acc, k, start) ==
    IF Has(list, k)
    THEN LET i == Oldest(list, k)
         IN [held |-> With(acc.held, k, Held(i, TRUE, TRUE)),
             todo |-> acc.todo \o Acquire(list, i, k)]
    ELSE LET free == Free(list, acc.held, start)
         IN IF free = {} THEN acc
            ELSE LET i == CHOOSE i \in free : TRUE
                 IN [held |-> With(acc.held, k, Held(i, FALSE, FALSE)),
                     todo |-> acc.todo \o Create(i, k)]

\* reconcile(): one label set of this node's Pods.
Reconcile(list, acc, k, start) ==
    IF k \in WellKnown
    THEN [acc EXCEPT !.held = With(@, k, Held(Reserved(k), TRUE, TRUE))]
    ELSE IF k \notin DOMAIN acc.held THEN Settle(list, acc, k, start)
    ELSE LET h == acc.held[k]
         IN IF h.id \notin DOMAIN list
            THEN IF h.seen THEN [acc EXCEPT !.todo = @ \o Create(h.id, k)] ELSE acc
            ELSE IF list[h.id].key = k
            THEN [held |-> With(acc.held, k, Held(h.id, TRUE, TRUE)),
                  todo |-> acc.todo \o Acquire(list, h.id, k)]
            ELSE \* the number now carries other labels
                 Settle(list, [acc EXCEPT !.held = Without(@, k)], k, start)

\* identity_loop: one pass over the local label sets, after dropping the
\* ones no Pod has any more.
Passed(a, start) ==
    LET keys == SelectSeq(KeySeq, LAMBDA k : k \in local[a])
        kept == [k \in DOMAIN held[a] \cap local[a] |-> held[a][k]]
        after[n \in 0..Len(keys)] ==
            IF n = 0 THEN [held |-> kept, todo |-> <<>>]
            ELSE Reconcile(listed[a], after[n - 1], keys[n], start)
    IN after[Len(keys)]
Pass(a) ==
    /\ a \in waiting /\ waiting' = waiting \ {a}
    /\ \E acc \in {Passed(a, start) : start \in Ids} :
         /\ held' = [held EXCEPT ![a] = acc.held]
         /\ todo' = [todo EXCEPT ![a] = acc.todo]
    /\ UNCHANGED <<objects, listed, local, created, events>>
Sent(a) ==
    /\ a \notin waiting /\ todo[a] = <<>> /\ waiting' = waiting \cup {a}
    /\ UNCHANGED <<objects, listed, local, held, todo, created, events>>

AnsweredKeeps(a, w, done) ==
    LET mine == w.key \in DOMAIN held[a] /\ held[a][w.key].id = w.id
    IN IF mine /\ w.do = "create" /\ done
       THEN [held[a] EXCEPT ![w.key].verified = TRUE] ELSE held[a]
\* created(): a refused or failed new number is dropped.
Answered(a, w, done) ==
    LET mine == w.key \in DOMAIN held[a] /\ held[a][w.key].id = w.id
    IN IF ~mine \/ w.do # "create" THEN held[a]
       ELSE IF done THEN [held[a] EXCEPT ![w.key].verified = TRUE]
       ELSE IF held[a][w.key].verified THEN held[a]
       ELSE Without(held[a], w.key)

\* send_json: POST refuses a taken name, PUT an object that changed.  The
\* request or its answer may be lost.
Accepted(w) == IF w.do = "create" THEN w.id \notin DOMAIN objects
               ELSE w.id \in DOMAIN objects /\ objects[w.id].version = w.version
Applied(w) == With(objects, w.id,
                   [key |-> w.key, heartbeat |-> FALSE,
                    created |-> IF w.do = "create" THEN created + 1
                                ELSE objects[w.id].created,
                    version |-> created + events + 1])
Send(a) ==
    /\ todo[a] # <<>>
    /\ todo' = [todo EXCEPT ![a] = Tail(@)]
    /\ LET w == Head(todo[a])
           Write == /\ objects' = Applied(w)
                    /\ created' = created + (IF w.do = "create" THEN 1 ELSE 0)
       IN \/ /\ Accepted(w) /\ Write
             /\ held' = [held EXCEPT ![a] = Answered(a, w, TRUE)]
             /\ UNCHANGED events
          \/ /\ ~Accepted(w)
             /\ held' = [held EXCEPT ![a] = Answered(a, w, FALSE)]
             /\ UNCHANGED <<objects, created, events>>
          \/ /\ events < MaxEvents /\ events' = events + 1
             /\ held' = [held EXCEPT ![a] = Answered(a, w, FALSE)]
             /\ \/ Accepted(w) /\ Write
                \/ UNCHANGED <<objects, created>>
    /\ UNCHANGED <<listed, local, waiting>>
------------------------------------------------------------------------------
(* The cluster. *)

\* The watch catches up.
Refresh(a) ==
    /\ listed[a] # objects
    /\ listed' = [listed EXCEPT ![a] = objects]
    /\ UNCHANGED <<objects, local, held, waiting, todo, created, events>>

PodsChange(a) ==
    /\ events < MaxEvents /\ events' = events + 1
    /\ \E k \in Keys :
         local' = [local EXCEPT ![a] = IF k \in @ THEN @ \ {k} ELSE @ \cup {k}]
    /\ UNCHANGED <<objects, listed, held, waiting, todo, created>>

\* The operator's collector: a mark, and later, at any time, the deletion of
\* what is still marked.
Mark ==
    /\ events < MaxEvents /\ events' = events + 1
    /\ \E i \in DOMAIN objects :
         /\ ~objects[i].heartbeat
         /\ objects' = [objects EXCEPT ![i].heartbeat = TRUE,
                                       ![i].version = created + events + 1]
    /\ UNCHANGED <<listed, local, held, waiting, todo, created>>
Collect ==
    /\ \E i \in DOMAIN objects :
         /\ objects[i].heartbeat
         /\ objects' = Without(objects, i)
    /\ UNCHANGED <<listed, local, held, waiting, todo, created, events>>
------------------------------------------------------------------------------
Init ==
    /\ objects = Nothing
    /\ listed = [a \in Agents |-> Nothing]
    /\ local = StartPods
    /\ held = [a \in Agents |-> Nothing]
    /\ waiting = Agents /\ todo = [a \in Agents |-> <<>>]
    /\ created = 0 /\ events = 0

Next == \/ \E a \in Agents : Pass(a) \/ Send(a) \/ Sent(a) \/ Refresh(a) \/ PodsChange(a)
        \/ Mark \/ Collect
------------------------------------------------------------------------------
\* The agent's own create was acknowledged, and the object was collected
\* before a list showed it: "our create has not been answered or listed yet"
\* then holds for ever, and the agent goes on using the number.
Unseen(a, k) == /\ held[a][k].verified /\ ~held[a][k].seen
                /\ held[a][k].id \notin DOMAIN objects

\* When the Pods stop changing, every label set of a node's Pods has an
\* identity whose object exists and carries these labels, whatever was lost,
\* refused or collected on the way, unless every number is taken or the
\* object went before its creator ever listed it.
EveryPodIdentified ==
    <>[](Ids = DOMAIN objects \/ \A a \in Agents : \A k \in local[a] \ WellKnown :
            /\ k \in DOMAIN held[a] /\ held[a][k].verified
            /\ \/ Unseen(a, k)
               \/ /\ held[a][k].id \in DOMAIN objects
                  /\ objects[held[a][k].id].key = k)
==============================================================================

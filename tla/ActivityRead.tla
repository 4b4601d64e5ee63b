---------------------------- MODULE ActivityRead ----------------------------
(***************************************************************************)
(* The activity read API (routes/operations/activity.rs, operations/):     *)
(* a client walks the history page by page with a keyset cursor.  Every    *)
(* page is merged from two sources, PostHog and the audit relay, that are  *)
(* read one beside the other, each of which may fail, while rows are still *)
(* landing in the relay and being delivered to PostHog.                    *)
(*                                                                         *)
(* A row is a number; Row gives its sort time, its actor and, for a        *)
(* lifecycle event, its session.  A query is the constraint the access     *)
(* policy has minted together with the filters.                            *)
(***************************************************************************)
EXTENDS Integers, FiniteSets, FiniteSetsExt

CONSTANTS
    Rows,         \* event ids
    Row,          \* [Rows -> [ts, actor, session, life]]
    Walks,        \* walks of clients
    Viewer,       \* [Walks -> principal]
    Queries,      \* [scope, viewer, session, kind, explicit]
    Malformed,    \* rows PostHog returns that cannot be decoded
    Unreadable,   \* rows of the relay's table that the relay itself drops
    Limit,        \* page size
    MaxReadRows,  \* the relay's own ceiling
    GlobalLimit, PerPrincipalLimit,
    Landed,       \* rows that are in the relay at the start
    Span, MaxNow, \* default window, and the end of time
    MaxFaults,
    None

VARIABLES
    now,
    posthog, relay,        \* the rows of each source
    walk,                  \* every walk
    global, perPrincipal,  \* the permits of ActivityConcurrency
    faults

vars == <<now, posthog, relay, walk, global, perPrincipal, faults>>

Principals == {Viewer[w] : w \in Walks}

NewWalk == [pc |-> "idle", query |-> None, cursor |-> None, range |-> None, outcome |-> <<>>,
            served |-> {}, start |-> {}, partial |-> FALSE, refused |-> FALSE, twice |-> FALSE]

Init ==
    /\ now = MaxNow - 1 /\ posthog = {} /\ relay = Landed
    /\ walk = [w \in Walks |-> NewWalk]
    /\ global = 0 /\ perPrincipal = [p \in Principals |-> 0]
    /\ faults = 0

-----------------------------------------------------------------------------
\* The rows: committed by the relay some time after they happened, and
\* delivered to PostHog later, or never.

Tick == now < MaxNow /\ now' = now + 1
        /\ UNCHANGED <<posthog, relay, walk, global, perPrincipal, faults>>

Land(r) ==
    /\ r \notin relay /\ Row[r].ts < now
    /\ relay' = relay \union {r}
    /\ UNCHANGED <<now, posthog, walk, global, perPrincipal, faults>>

Deliver(r) ==
    /\ r \in relay \ posthog
    /\ posthog' = posthog \union {r}
    /\ UNCHANGED <<now, relay, walk, global, perPrincipal, faults>>

-----------------------------------------------------------------------------
\* What a source selects: the constraint, the window and the cursor, all of
\* them before its LIMIT.

\* The same predicate in HogQL and in SQL: a personal query sees the viewer's
\* own requests, and the lifecycle of the one session it was authorised for.
ApiBranch(r, q) ==
    /\ ~Row[r].life
    /\ q.scope = "mine" => /\ Row[r].actor = q.viewer
                           /\ q.session # None => Row[r].session = q.session
LifecycleBranch(r, q) ==
    /\ Row[r].life
    /\ q.scope = "mine" => q.session # None /\ Row[r].session = q.session
Visible(r, q) ==
    CASE q.kind = "api"       -> ApiBranch(r, q)
      [] q.kind = "lifecycle" -> LifecycleBranch(r, q)
      [] q.kind = "all"       -> ApiBranch(r, q) \/ LifecycleBranch(r, q)

\* Newest first; the event id breaks ties.
Above(r, t) == Row[r].ts > Row[t].ts \/ (Row[r].ts = Row[t].ts /\ r > t)

AfterByTime(r, key) == key = None \/ Row[r].ts < Row[key].ts

\* Strictly after the cursor in that order.
After(r, key) == key = None \/ Above(key, r)

Newest(S, n) == {r \in S : Cardinality({t \in S : Above(t, r)}) < n}

Selected(S, w) ==
    {r \in S : /\ Visible(r, walk[w].query) /\ After(r, walk[w].cursor)
               /\ walk[w].range.from <= Row[r].ts /\ Row[r].ts < walk[w].range.to}

FetchLimit == Limit + 1

\* PosthogActivitySource::fetch: a row that does not decode is counted.
FetchPosthog(w) ==
    LET rows == Newest(Selected(posthog, w), FetchLimit)
    IN  [rows |-> rows \ Malformed,
         raw |-> Cardinality(rows), errors |-> Cardinality(rows \intersect Malformed)]

\* The relay's read and RelayActivitySource::fetch: a row that the relay
\* cannot read is not on the wire at all.
FetchRelay(w) ==
    LET rows == Newest(Selected(relay, w), Min({FetchLimit, MaxReadRows})) \ Unreadable
    IN  [rows |-> rows, raw |-> Cardinality(rows), errors |-> 0]

-----------------------------------------------------------------------------
\* The handler.

\* The window of a request: the stated one, or the last Span instants; and
\* with a cursor the one the cursor was issued for.
ResolveRange(q) == IF q.explicit # None THEN q.explicit ELSE [from |-> now - Span, to |-> now]

ResumedRange(w, q) == IF walk[w].cursor = None THEN ResolveRange(q) ELSE walk[w].range

\* The cursor is good for the query it was issued to, and for no other.
Accepted(w, q) ==
    walk[w].cursor = None \/ (walk[w].query = q /\ ResumedRange(w, q) = walk[w].range)

Denied(p) == perPrincipal[p] >= PerPrincipalLimit \/ global >= GlobalLimit

Acquire(p) == /\ global' = global + 1
              /\ perPrincipal' = [perPrincipal EXCEPT ![p] = @ + 1]
Release(p) == /\ global' = IF global = 0 THEN 0 ELSE global - 1
              /\ perPrincipal' = [perPrincipal EXCEPT ![p] = IF @ > 1 THEN @ - 1 ELSE 0]

Present(w, q, range) == {r \in relay : /\ Visible(r, q)
                                        /\ range.from <= Row[r].ts /\ Row[r].ts < range.to}

\* operations_list_activity, up to the two fetches.  A refused cursor costs
\* nothing; a denied request is answered 429 and leaves no trace either.
Ask(w, q) ==
    /\ walk[w].pc = "idle" /\ q.viewer = Viewer[w]
    /\ UNCHANGED <<now, posthog, relay, faults>>
    /\ \/ /\ ~Accepted(w, q)
          /\ walk' = [walk EXCEPT ![w].refused = @ \/ q = walk[w].query]
          /\ UNCHANGED <<global, perPrincipal>>
       \/ /\ Accepted(w, q) /\ ~Denied(Viewer[w])
          /\ Acquire(Viewer[w])
          /\ LET range == ResumedRange(w, q)
             IN  walk' = [walk EXCEPT ![w].pc = "fetch", ![w].query = q, ![w].range = range,
                                      ![w].start = IF walk[w].cursor = None
                                                   THEN Present(w, q, range) ELSE @]

Sources == {"posthog", "relay"}

\* The two fetches run side by side.
Fetch(w, source, ok) ==
    /\ walk[w].pc = "fetch" /\ source \notin DOMAIN walk[w].outcome
    /\ ok \/ faults < MaxFaults
    /\ faults' = IF ok THEN faults ELSE faults + 1
    /\ walk' = [walk EXCEPT ![w].outcome =
          [s \in DOMAIN @ \union {source} |->
              IF s # source THEN @[s] ELSE IF ~ok THEN None
              ELSE IF s = "posthog" THEN FetchPosthog(w) ELSE FetchRelay(w)]]
    /\ UNCHANGED <<now, posthog, relay, global, perPrincipal>>

\* enforce_constraint_invariant only ever removes.
Enforce(q, rows) ==
    {r \in rows : q.scope = "mine" =>
        IF Row[r].life THEN q.session # None /\ Row[r].session = q.session
        ELSE Row[r].actor = q.viewer}

Last(rows) == CHOOSE r \in rows : \A t \in rows : t = r \/ Above(t, r)

\* merge of the pages that were answered: an event that both sources returned
\* is one item, the newest are shown, and the last one is the next key.
Merge(outcome, q) ==
    LET pages == {outcome[s] : s \in Sources} \ {None}
        items == Enforce(q, UNION {p.rows : p \in pages})
        more == Cardinality(items) > Limit \/ \E p \in pages : p.raw >= FetchLimit
        shown == Newest(items, Limit)
    IN  [items |-> shown,
         next |-> IF more /\ shown # {} THEN Last(shown) ELSE None,
         partial |-> \/ \E s \in Sources : outcome[s] = None
                     \/ \E p \in pages : p.errors > 0]

\* The page is answered, or the error of the sources; the permit goes back.
Answer(w) ==
    /\ walk[w].pc = "fetch" /\ DOMAIN walk[w].outcome = Sources
    /\ Release(Viewer[w])
    /\ IF \A s \in Sources : walk[w].outcome[s] = None
       THEN walk' = [walk EXCEPT ![w].pc = "idle", ![w].outcome = <<>>]
       ELSE LET page == Merge(walk[w].outcome, walk[w].query)
            IN  walk' = [walk EXCEPT
                    ![w].pc = IF page.next = None THEN "ended" ELSE "idle",
                    ![w].outcome = <<>>, ![w].cursor = page.next,
                    ![w].twice = @ \/ page.items \intersect walk[w].served # {},
                    ![w].served = @ \union page.items,
                    ![w].partial = @ \/ page.partial]
    /\ UNCHANGED <<now, posthog, relay, faults>>

\* The client goes away: the handler is dropped, and its permit with it.
Cancel(w) ==
    /\ walk[w].pc = "fetch" /\ faults < MaxFaults /\ faults' = faults + 1
    /\ Release(Viewer[w])
    /\ walk' = [walk EXCEPT ![w].pc = "idle", ![w].outcome = <<>>]
    /\ UNCHANGED <<now, posthog, relay>>

Resume(w) == \E q \in Queries : Ask(w, q) /\ (walk[w].cursor = None \/ q = walk[w].query)

Next ==
    \/ Tick
    \/ \E r \in Rows : Land(r) \/ Deliver(r)
    \/ \E w \in Walks :
          \/ \E q \in Queries : Ask(w, q)
          \/ \E s \in Sources, ok \in BOOLEAN : Fetch(w, s, ok)
          \/ Answer(w) \/ Cancel(w)

Spec == Init /\ [][Next]_vars

\* The handler runs on; the client follows its cursor.
Resumes(w) == Resume(w) /\ walk'[w].pc = "fetch"
Fetched(w, s) == \E ok \in BOOLEAN : Fetch(w, s, ok)

FairSpec ==
    /\ Spec
    /\ \A w \in Walks : /\ WF_vars(Resumes(w))
                        /\ WF_vars(Answer(w))
                        /\ \A s \in Sources : WF_vars(Fetched(w, s))

-----------------------------------------------------------------------------
Fetching(p) == {w \in Walks : walk[w].pc = "fetch" /\ Viewer[w] = p}

\* Types: the permits held are those of the requests that are running.
TypeOK ==
    /\ now \in {MaxNow - 1, MaxNow} /\ faults \in 0..MaxFaults /\ posthog \subseteq relay
    /\ \A p \in Principals : perPrincipal[p] = Cardinality(Fetching(p))
    /\ global = Cardinality({w \in Walks : walk[w].pc = "fetch"})

\* Pages do not overlap: no walk is given an event twice, although events move
\* between the sources, and land, while it goes on.
NoOverlap == \A w \in Walks : ~walk[w].twice

\* Pages leave no gap: a walk that has ended, none of whose pages was marked
\* partial, was given every event of its query and window that was there, and
\* readable, when it began ("so pages tile with no overlap and no gap"), whatever failed in
\* between.
WalkIsComplete ==
    \A w \in Walks : walk[w].pc = "ended" /\ ~walk[w].partial =>
        walk[w].start \ Unreadable \subseteq walk[w].served

\* A cursor is refused only to a query other than the one it was issued to,
\* although the default window of a request moves with the clock.
RefusedForAReason == \A w \in Walks : ~walk[w].refused

\* Every walk comes to its end, through the denials and failures.
Ended == \A w \in Walks : walk[w].pc = "ended"

\* What holds of a walk at every state: its pages tile, and a refusal has a reason.
WalksSafe == TypeOK /\ NoOverlap /\ WalkIsComplete /\ RefusedForAReason
=============================================================================

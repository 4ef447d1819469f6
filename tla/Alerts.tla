------------------------------- MODULE Alerts -------------------------------
(***************************************************************************)
(* Alert checks and webhook delivery: run_maintenance over the store.      *)
(*                                                                         *)
(* A worker is one activation of run_maintenance, at the end of a poll     *)
(* that saved its markets, after a stream window, or from `pwmk            *)
(* maintenance` and its POST route.  Workers share the alerts table; each  *)
(* read and each write is a transaction, each delivery a request.  Workers *)
(* of one process interleave at the requests only, those of two processes  *)
(* at every transaction; the model has the second.                         *)
(* Aggregates, which run first and touch no alert, are in VolumeAggregates.*)
(***************************************************************************)
EXTENDS Naturals, Sequences, FiniteSets, FiniteSetsExt

CONSTANTS
    Workers,     \* concurrent activations
    Markets,     \* active, open markets
    Volumes,     \* the values of volume_24h
    MinDelta, Multiplier,  \* volume_spike_min_delta, volume_spike_multiplier
    StaleAfter,  \* stale_minutes, in ticks of the clock
    Hour,        \* ticks per hour
    HasWebhook,  \* a webhook_url is configured
    Limit,       \* limit of deliver_pending_alerts
    MaxTime,     \* bound: the clock
    MaxFaults    \* bound: requests that fail, workers that die

Times == 0 .. MaxTime

ASSUME SetsAssumption == IsFiniteSet(Workers) /\ IsFiniteSet(Markets) /\ Volumes \subseteq Nat
ASSUME NumbersAssumption ==
    /\ MinDelta \in Nat /\ Multiplier \in Nat /\ StaleAfter \in Nat
    /\ HasWebhook \in BOOLEAN /\ Hour \in Nat \ {0} /\ Limit \in Nat \ {0}
    /\ MaxTime \in Nat /\ MaxFaults \in Nat

VARIABLES
    now,     \* the clock
    snaps,   \* table market_snapshots: volume_24h by market and observed_at
    alerts,  \* table alerts, row id = position
    worker,  \* the locals of the activations
    posts,   \* history: how often the webhook took each alert
    faults   \* counter for the bound

vars == <<now, snaps, alerts, worker, posts, faults>>

\* dedupe_key: the type, what it is about, and an hour.
Key    == ({"volume_spike"} \X Markets \X Nat) \cup ({"stale_ingestion"} \X {"none", "since"} \X Nat)
Alert  == [key : Key, status : {"pending", "delivered", "resolved"}]
Worker == [pc : {"idle", "fetch", "check", "spikes", "stale", "act", "pick", "post", "mark"},
           at : Times,                      \* observed_at of the poll
           keys : SUBSET Key,               \* alerts still to save
           fresh : BOOLEAN, queue : Seq(Nat)]

Idle == [pc |-> "idle", at |-> 0, keys |-> {}, fresh |-> FALSE, queue |-> <<>>]

Init ==
    /\ now = 0
    /\ snaps = [k \in {} |-> 0]
    /\ alerts = <<>>
    /\ worker = [w \in Workers |-> Idle]
    /\ posts = <<>>
    /\ faults = 0

Tick ==
    /\ now < MaxTime
    /\ now' = now + 1
    /\ UNCHANGED <<snaps, alerts, worker, posts, faults>>

Goto(w, pc, next) ==
    /\ worker[w].pc = pc
    /\ worker' = [worker EXCEPT ![w] = next]
    /\ UNCHANGED now
-----------------------------------------------------------------------------
(* What starts a worker. *)

\* poll_once reads observed_at and asks for the markets.
StartPoll(w) ==
    /\ Goto(w, "idle", [Idle EXCEPT !.pc = "fetch", !.at = now])
    /\ UNCHANGED <<snaps, alerts, posts, faults>>

\* The answer is saved under observed_at (a taken key is ignored), and the
\* maintenance follows.
SavePoll(w) ==
    /\ \E ms \in SUBSET Markets : \E volume \in [ms -> Volumes] :
         snaps' = [k \in DOMAIN snaps \cup (ms \X {worker[w].at}) |->
                     IF k \in DOMAIN snaps THEN snaps[k] ELSE volume[k[1]]]
    /\ Goto(w, "fetch", [Idle EXCEPT !.pc = "check"])
    /\ UNCHANGED <<alerts, posts, faults>>

\* pwmk maintenance, POST /api/maintenance, the end of a stream window.
StartCommand(w) ==
    /\ Goto(w, "idle", [Idle EXCEPT !.pc = "check"])
    /\ UNCHANGED <<snaps, alerts, posts, faults>>
-----------------------------------------------------------------------------
(* The checks. *)

SnapTimes(m) == {t \in Times : <<m, t>> \in DOMAIN snaps}

\* volume_momentum: the newest snapshot of a market and the one before it.
Newest(m) == Max(SnapTimes(m))
Previous(m) == Max(SnapTimes(m) \ {Newest(m)})

Spikes(m) ==
    /\ Cardinality(SnapTimes(m)) > 1
    /\ LET was == snaps[m, Previous(m)]
           is  == snaps[m, Newest(m)]
       IN  was > 0 /\ is >= was + MinDelta /\ is >= was * Multiplier

SpikeKey(m) == <<"volume_spike", m, Newest(m) \div Hour>>

\* One read of volume_momentum; the alerts are saved one by one after it.
ReadMomentum(w) ==
    /\ LET keys == {SpikeKey(m) : m \in {n \in Markets : Spikes(n)}}
       IN  Goto(w, "check", [Idle EXCEPT !.pc = IF keys = {} THEN "stale" ELSE "spikes",
                                         !.keys = keys])
    /\ UNCHANGED <<snaps, alerts, posts, faults>>

\* Broken variant: a key is free again once its alert is delivered or resolved.
KeyTakenPending(key) == \E i \in DOMAIN alerts : alerts[i].key = key /\ alerts[i].status = "pending"

KeyTaken(key) == \E i \in DOMAIN alerts : alerts[i].key = key

\* save_alert: INSERT OR IGNORE on (source, dedupe_key).
SaveAlert(key) ==
    IF KeyTaken(key) THEN UNCHANGED <<alerts, posts>>
    ELSE /\ alerts' = Append(alerts, [key |-> key, status |-> "pending"])
         /\ posts' = Append(posts, 0)

SaveSpike(w) ==
    /\ \E key \in worker[w].keys :
         /\ SaveAlert(key)
         /\ LET rest == worker[w].keys \ {key}
            IN  Goto(w, "spikes", [Idle EXCEPT !.pc = IF rest = {} THEN "stale" ELSE "spikes",
                                               !.keys = rest])
    /\ UNCHANGED <<snaps, faults>>

LatestSnapshot == Max({k[2] : k \in DOMAIN snaps})
IsFresh == DOMAIN snaps # {} /\ now - LatestSnapshot <= StaleAfter

\* The warning names the hour now when there is no snapshot, else the hour of
\* the latest one.
StaleKey ==
    IF DOMAIN snaps = {} THEN <<"stale_ingestion", "none", now \div Hour>>
    ELSE <<"stale_ingestion", "since", LatestSnapshot \div Hour>>

\* summary() is read in one transaction, the verdict written in another.
ReadLatest(w) ==
    /\ Goto(w, "stale", [Idle EXCEPT !.pc = "act", !.fresh = IsFresh,
                                     !.keys = IF IsFresh THEN {} ELSE {StaleKey}])
    /\ UNCHANGED <<snaps, alerts, posts, faults>>

\* Broken variant: the UPDATE leaves out AND status = 'pending'.
ResolvedAny(a) == a.key[1] = "stale_ingestion"

\* resolve_alerts('stale_ingestion'): the rows its WHERE clause picks.
Resolved(a) == a.key[1] = "stale_ingestion" /\ a.status = "pending"

Act(w) ==
    /\ IF worker[w].fresh
       THEN /\ alerts' = [i \in DOMAIN alerts |->
                 IF Resolved(alerts[i]) THEN [alerts[i] EXCEPT !.status = "resolved"]
                 ELSE alerts[i]]
            /\ UNCHANGED posts
       ELSE \E key \in worker[w].keys : SaveAlert(key)
    /\ Goto(w, "act", [Idle EXCEPT !.pc = "pick"])
    /\ UNCHANGED <<snaps, faults>>
-----------------------------------------------------------------------------
(* deliver_pending_alerts *)

\* The newest `limit` rows of a set of row ids, newest first.
NewestFirst(ids) ==
    LET rank(i) == Cardinality({k \in ids : k >= i})
        n == IF Cardinality(ids) < Limit THEN Cardinality(ids) ELSE Limit
    IN  [r \in 1 .. n |-> CHOOSE i \in ids : rank(i) = r]

\* Broken variants: the status is not asked for; the LIMIT comes before it.
PendingOrNot == NewestFirst(DOMAIN alerts)
LimitedFirst ==
    SelectSeq(NewestFirst(DOMAIN alerts), LAMBDA i : alerts[i].status = "pending")

\* recent_alerts(limit, 'pending')
Pending == NewestFirst({i \in DOMAIN alerts : alerts[i].status = "pending"})

Pick(w) ==
    /\ LET queue == IF HasWebhook THEN Pending ELSE <<>>
       IN  Goto(w, "pick", IF queue = <<>> THEN Idle
                           ELSE [Idle EXCEPT !.pc = "post", !.queue = queue])
    /\ UNCHANGED <<snaps, alerts, posts, faults>>

\* Broken variant: the row is marked and then posted.
PostMarked(w) ==
    /\ Goto(w, "post", [worker[w] EXCEPT !.pc = "mark"])
    /\ alerts' = [alerts EXCEPT ![Head(worker[w].queue)].status = "delivered"]
    /\ UNCHANGED <<snaps, posts, faults>>

\* The webhook takes the alert, and its answer says so.
Post(w) ==
    /\ Goto(w, "post", [worker[w] EXCEPT !.pc = "mark"])
    /\ posts' = [posts EXCEPT ![Head(worker[w].queue)] = @ + 1]
    /\ UNCHANGED <<snaps, alerts, faults>>

\* mark_alert_delivered, whatever the status has become; then the next alert.
Mark(w) ==
    /\ LET rest == Tail(worker[w].queue)
       IN  Goto(w, "mark", IF rest = <<>> THEN Idle
                           ELSE [worker[w] EXCEPT !.pc = "post", !.queue = rest])
    /\ alerts' = [alerts EXCEPT ![Head(worker[w].queue)].status = "delivered"]
    /\ UNCHANGED <<snaps, posts, faults>>

\* A request fails, and with it the worker; the webhook may have taken the
\* alert although the answer did not come.  Or the worker dies.
Fault(w) ==
    /\ worker[w].pc # "idle" /\ faults < MaxFaults
    /\ faults' = faults + 1
    /\ \/ UNCHANGED posts
       \/ worker[w].pc = "post" /\ posts' = [posts EXCEPT ![Head(worker[w].queue)] = @ + 1]
    /\ Goto(w, worker[w].pc, Idle)
    /\ UNCHANGED <<snaps, alerts>>

\* The provider does not answer: poll_once raises before the maintenance.
PollFails(w) ==
    /\ Goto(w, "fetch", Idle)
    /\ UNCHANGED <<snaps, alerts, posts, faults>>
-----------------------------------------------------------------------------
Runs(w) ==
    \/ ReadMomentum(w) \/ SaveSpike(w) \/ ReadLatest(w) \/ Act(w)
    \/ Pick(w) \/ Post(w) \/ Mark(w)

Polls(w) == StartPoll(w) \/ SavePoll(w) \/ PollFails(w)

Next == Tick \/ \E w \in Workers : StartCommand(w) \/ Polls(w) \/ Runs(w) \/ Fault(w)

Spec == Init /\ [][Next]_vars

\* What the code sees to by itself: requests have a timeout, a maintenance once
\* begun goes on, and polls are repeated, though all of them may fail.
FairSpec == Spec /\ WF_vars(Tick) /\ \A w \in Workers : WF_vars(Runs(w)) /\ WF_vars(Polls(w))

\* The provider, moreover, answers a poll again and again.
AnsweredSpec == FairSpec /\ \A w \in Workers : SF_vars(SavePoll(w))
-----------------------------------------------------------------------------
(* Properties. *)

TypeOK ==
    /\ now \in Times
    /\ DOMAIN snaps \subseteq Markets \X Times /\ \A k \in DOMAIN snaps : snaps[k] \in Volumes
    /\ alerts \in Seq(Alert)
    /\ \A i, k \in DOMAIN alerts : alerts[i].key = alerts[k].key => i = k
    /\ worker \in [Workers -> Worker]
    /\ \A w \in Workers : \A r \in DOMAIN worker[w].queue : worker[w].queue[r] \in DOMAIN alerts
    /\ posts \in [DOMAIN alerts -> Nat]
    /\ faults \in 0 .. MaxFaults

\* Whatever the workers and their faults do, the table is an at-least-once
\* outbox: delivered means posted, only a pending alert is resolved, and none
\* becomes pending again.
Delivery == INSTANCE Outbox WITH status <- [i \in DOMAIN alerts |-> alerts[i].status]

ImplementsOutbox == Delivery!Spec

\* An alert goes out again only when workers overlap or one of them was lost
\* between the request and its UPDATE: never from a quiet table.
RepeatsAreAccounted ==
    \A i \in DOMAIN alerts : posts[i] <= Cardinality(Workers) + faults

\* Where a webhook is configured no alert waits for ever, though the newest go
\* first and requests fail: once no more come, every one is delivered or
\* resolved, and it stays so.
PendingGetsHandled == HasWebhook =>
    <>[](\A i \in DOMAIN alerts : alerts[i].status # "pending")

\* Stale ingestion is alerted (README): a store whose latest snapshot has grown
\* stale is warned about, or polled again.  poll_loop and stream_loop check for
\* it only after they have saved something, so never during an outage.
StaleStoreIsWarned ==
    (DOMAIN snaps # {} /\ ~IsFresh) ~> (IsFresh \/ KeyTaken(StaleKey))
=============================================================================

----------------------------- MODULE Ingestion ------------------------------
(***************************************************************************)
(* Market ingestion: poll_once and backfill_markets over the SQLite store. *)
(*                                                                         *)
(* A job is one activation of either coroutine: the scheduler's poll loop, *)
(* a POST to /api/ingest/*, or a `pwmk ingest` process.  Jobs share the    *)
(* database only.  Each Repository method is one transaction, so a job is  *)
(* a sequence of atomic steps, and the steps of the other jobs, the        *)
(* provider's own changes and the clock fall between any two of them.      *)
(***************************************************************************)
EXTENDS Tables, Sequences, FiniteSetsExt

CONSTANTS
    Jobs,         \* concurrent activations
    Markets,      \* provider markets that carry a conditionId
    Nameless,     \* provider payloads without one: normalize_market rejects them
    Events,       \* provider events
    EventOf,      \* the event a market's payload names, NoEvent when it names none
    NoEvent,
    PageSize,     \* page_size of the request
    PollLimit,    \* limit of poll_once
    ActiveLimit,  \* active_limit of backfill_markets
    ClosedLimit,  \* closed_limit of backfill_markets
    LiveEvents,   \* live_events of poll_once
    MaxTime,      \* bound: the clock, in the whole seconds utc_now_iso keeps
    MaxVolume,    \* bound: traded volume of one market
    MaxRuns,      \* bound: rows of ingestion_runs
    MaxStops      \* bound: cancelled or killed jobs

Raw   == Markets \cup Nameless
Times == 0 .. MaxTime

ASSUME JobsAssumption == IsFiniteSet(Jobs)
ASSUME MarketsAssumption == IsFiniteSet(Raw) /\ Markets \cap Nameless = {}
ASSUME EventsAssumption ==
    IsFiniteSet(Events) /\ NoEvent \notin Events
    /\ EventOf \in [Markets -> Events \cup {NoEvent}]
ASSUME LimitsAssumption ==
    PageSize \in Nat \ {0} /\ PollLimit \in Nat \ {0}
    /\ ActiveLimit \in Nat /\ ClosedLimit \in Nat /\ LiveEvents \in Nat
ASSUME BoundsAssumption ==
    MaxTime \in Nat /\ MaxVolume \in Nat /\ MaxRuns \in Nat /\ MaxStops \in Nat

VARIABLES
    now,       \* the clock
    provider,  \* the provider's markets: listing status and cumulative volume
    job,       \* the jobs' locals
    runs,      \* table ingestion_runs, row id = position
    rows,      \* table markets (with its token and outcome rows)
    events,    \* table events
    snaps,     \* table market_snapshots, keyed (condition_id, observed_at)
    evols,     \* table event_volume_snapshots: the keys present
    lost,      \* history: runs whose job was cancelled or killed
    past       \* history: the provider as it was when the clock reached t

store   == <<runs, rows, events, snaps, evols>>
ghosts  == <<lost, past>>
vars    == <<now, provider, job, store, ghosts>>

Listing  == [status : {"unlisted", "open", "closed"}, volume : 0 .. MaxVolume]
Run      == [mode : {"poll", "backfill"}, status : {"running", "ok", "error"},
             markets : Nat, snapshots : Nat]
Seen     == [first : Times, last : Times]
Row      == [first : Times, last : Times, data : Listing]
PCs      == {"idle", "fetch", "save", "live", "maintain", "finish", "fail"}
Job      == [pc : PCs, mode : {"poll", "backfill"}, at : Times, run : Nat,
             fetches : Seq([filter : {"open", "closed"}, limit : Nat]),
             filter : {"open", "closed"}, cursor : BOOLEAN, left : Nat,
             copies : [Markets -> Seq(Listing)], bundles : Nat,
             todo : SUBSET Events, snapshots : Nat]

IdleJob  == [pc |-> "idle", mode |-> "poll", at |-> 0, run |-> 0,
             fetches |-> <<>>, filter |-> "open", cursor |-> FALSE, left |-> 0,
             copies |-> [m \in Markets |-> <<>>], bundles |-> 0,
             todo |-> {}, snapshots |-> 0]

Init ==
    /\ now = 0
    /\ provider \in [Raw -> {l \in Listing : l.volume = 0 /\ l.status # "closed"}]
    /\ job = [j \in Jobs |-> IdleJob]
    /\ runs = <<>>
    /\ rows = EmptyTable
    /\ events = EmptyTable
    /\ snaps = EmptyTable
    /\ evols = {}
    /\ lost = {}
    /\ past = [t \in {0} |-> provider]
-----------------------------------------------------------------------------
(* The environment: the clock and the provider. *)

Tick ==
    /\ now < MaxTime
    /\ now' = now + 1
    /\ past' = [t \in 0 .. now + 1 |-> IF t \in DOMAIN past THEN past[t] ELSE provider]
    /\ UNCHANGED <<provider, job, store, lost>>

\* A provider market is listed, trades (cumulative volume only grows), closes.
\* What a nameless payload trades is never stored, so it is left out.
ProviderChanges(r) ==
    /\ \/ /\ provider[r].status = "unlisted"
          /\ provider' = [provider EXCEPT ![r].status = "open"]
       \/ /\ r \in Markets
          /\ provider[r].status = "open" /\ provider[r].volume < MaxVolume
          /\ provider' = [provider EXCEPT ![r].volume = @ + 1]
       \/ /\ provider[r].status = "open"
          /\ provider' = [provider EXCEPT ![r].status = "closed"]
    /\ UNCHANGED <<now, job, store, ghosts>>
-----------------------------------------------------------------------------
(* The steps of a job. *)

\* The calls of fetch_markets a job makes, in order.  A fetch loops while fewer
\* than `limit` payloads have come, so a zero limit asks for nothing.
Asks(filter, limit) == IF limit = 0 THEN <<>> ELSE <<[filter |-> filter, limit |-> limit]>>

\* Broken variant: the closed markets are fetched first.
FetchesClosedFirst(mode) ==
    IF mode = "poll" THEN Asks("open", PollLimit)
    ELSE Asks("closed", ClosedLimit) \o Asks("open", ActiveLimit)

Fetches(mode) ==
    IF mode = "poll" THEN Asks("open", PollLimit)
    ELSE Asks("open", ActiveLimit) \o Asks("closed", ClosedLimit)

NextFetch(g) ==
    IF g.fetches = <<>>
    THEN [g EXCEPT !.pc = "save", !.filter = "open", !.left = 0, !.cursor = FALSE]
    ELSE [g EXCEPT !.pc = "fetch", !.filter = Head(g.fetches).filter,
                   !.left = Head(g.fetches).limit, !.cursor = FALSE, !.fetches = Tail(@)]

\* observed_at is read once, before the fetch, and stamps everything the job
\* stores; start_run opens the job's row of the ledger.
StartAs(j, mode, id) ==
    /\ job[j].pc = "idle" /\ Len(runs) < MaxRuns
    /\ runs' = Append(runs, [mode |-> mode, status |-> "running",
                             markets |-> 0, snapshots |-> 0])
    /\ job' = [job EXCEPT ![j] = NextFetch(
                 [IdleJob EXCEPT !.mode = mode, !.at = now, !.run = id,
                                 !.fetches = Fetches(mode)])]
    /\ UNCHANGED <<now, provider, rows, events, snaps, evols, ghosts>>

\* Broken variant: the run id is read before the row is inserted.
StartWithStaleId(j, mode) == StartAs(j, mode, Len(runs))

Start(j, mode) == StartAs(j, mode, Len(runs) + 1)

Matching(filter) == {r \in Raw : provider[r].status = filter}

\* One response of Gamma's keyset listing.  Without a cursor the page is the
\* head of the list, so it is full or it is everything; with one it holds
\* whatever the ranking by volume, which moves between requests, puts after
\* the cursor: a market may come twice or not at all.
Response(filter, cursor, want, page, more) ==
    /\ page \subseteq Matching(filter) /\ Cardinality(page) <= want
    /\ ~cursor =>
         /\ Cardinality(page) = want \/ page = Matching(filter)
         /\ page # Matching(filter) => more

\* fetch_markets keeps asking while there is a cursor, the page held something
\* and the limit is not reached.
KeepsAsking(page, more, left) == more /\ page # {} /\ left > 0

\* A page arrives: normalize_market turns each payload with a conditionId into
\* a bundle and rejects the others.
Page(j) ==
    LET g == job[j]
        want == IF PageSize < g.left THEN PageSize ELSE g.left
    IN  /\ g.pc = "fetch"
        /\ \E page \in SUBSET Raw, more \in BOOLEAN :
             /\ Response(g.filter, g.cursor, want, page, more)
             /\ LET left == g.left - Cardinality(page)
                    got  == [g EXCEPT
                       !.left = left, !.cursor = more,
                       !.bundles = @ + Cardinality(page \cap Markets),
                       !.copies = [m \in Markets |->
                          IF m \in page THEN Append(@[m], provider[m]) ELSE @[m]]]
                IN  job' = [job EXCEPT ![j] =
                       IF KeepsAsking(page, more, left) THEN got
                       ELSE NextFetch(got)]
        /\ UNCHANGED <<now, provider, store, ghosts>>

Fetched(g) == {m \in Markets : g.copies[m] # <<>>}
EventIds(g) == {EventOf[m] : m \in Fetched(g)} \ {NoEvent}

\* The rows save_market_bundle writes.  Bundles are saved in the order they
\* came, so the last copy of a market wins its row and the first its snapshot.
\* Broken variant: stamped when saved, not when asked.
NewRowsStampedLate(g) == [m \in Fetched(g) |->
    [first |-> now, last |-> now, data |-> g.copies[m][Len(g.copies[m])]]]

NewRows(g) == [m \in Fetched(g) |->
    [first |-> g.at, last |-> g.at, data |-> g.copies[m][Len(g.copies[m])]]]

\* Broken variant: a zero volume is taken for a missing one.
NewSnapsSkipZero(g) ==
    [k \in {m \in Fetched(g) : g.copies[m][1].volume > 0} \X {g.at} |-> g.copies[k[1]][1]]

NewSnaps(g)  == [k \in Fetched(g) \X {g.at} |-> g.copies[k[1]][1]]
NewEvents(g) == [e \in EventIds(g) |-> [first |-> g.at, last |-> g.at]]

\* ON CONFLICT DO UPDATE sets every column but first_seen_at.
\* Broken variants: every column is set; only the stamp is set.
KeepNothing(old, new) == new
KeepData(old, new) == [old EXCEPT !.last = new.last]

KeepFirstSeen(old, new) == [new EXCEPT !.first = old.first]

\* save_market_bundle commits the whole list; a poll then picks the first
\* LiveEvents distinct events of the list (the order of the list is left out).
Save(j) ==
    LET g == job[j] IN
    /\ g.pc = "save"
    /\ rows' = Upsert(rows, NewRows(g), KeepFirstSeen)
    /\ snaps' = InsertOrIgnore(snaps, NewSnaps(g))
    /\ events' = Upsert(events, NewEvents(g), KeepFirstSeen)
    /\ \E todo \in SUBSET EventIds(g) :
         /\ IF g.mode = "backfill" THEN todo = {}
            ELSE Cardinality(todo) = LiveEvents \/
                 (Cardinality(todo) < LiveEvents /\ todo = EventIds(g))
         /\ job' = [job EXCEPT ![j].pc = IF todo = {} THEN "maintain" ELSE "live",
                               ![j].todo = todo,
                               ![j].snapshots = Inserted(snaps, NewSnaps(g))]
    /\ UNCHANGED <<now, provider, runs, evols, ghosts>>

\* fetch_live_volume answers for one event with the markets it knows there, and
\* save_event_volume stores them under the job's observed_at.
VolumeKeys(e, ms, at) == {<<e, m, at>> : m \in ms}

LiveVolume(j) ==
    LET g == job[j] IN
    /\ g.pc = "live"
    /\ \E e \in g.todo : \E ms \in SUBSET {m \in Markets : EventOf[m] = e} :
         /\ evols' = evols \cup VolumeKeys(e, ms, g.at)
         /\ job' = [job EXCEPT
              ![j].todo = @ \ {e},
              ![j].pc = IF g.todo = {e} THEN "maintain" ELSE "live",
              ![j].snapshots = @ + Cardinality(VolumeKeys(e, ms, g.at) \ evols)]
    /\ UNCHANGED <<now, provider, runs, rows, events, snaps, ghosts>>

\* run_maintenance writes the aggregate and alert tables only.
Maintain(j) ==
    /\ job[j].pc = "maintain"
    /\ job' = [job EXCEPT ![j].pc = "finish"]
    /\ UNCHANGED <<now, provider, store, ghosts>>

\* finish_run: UPDATE the job's own row; the job is over.
FinishRun(j, status, markets, snapshots) ==
    /\ runs' = [runs EXCEPT ![job[j].run] = [@ EXCEPT
                  !.status = status, !.markets = markets, !.snapshots = snapshots]]
    /\ job' = [job EXCEPT ![j] = IdleJob]
    /\ UNCHANGED <<now, provider, rows, events, snaps, evols, ghosts>>

FinishOk(j) ==
    /\ job[j].pc = "finish"
    /\ FinishRun(j, "ok", job[j].bundles, job[j].snapshots)

\* Any request (timeout, HTTP status, payload shape) or transaction (a locked
\* database) may raise; a transaction that raises is rolled back.
Raise(j, handled) ==
    /\ job[j].pc \in PCs \ {"idle", "fail"}
    /\ job' = [job EXCEPT ![j] = handled]
    /\ UNCHANGED <<now, provider, store, ghosts>>

\* Broken variants: the error escapes the handler; a failed save is swallowed.
FailForgetsRun(j) == Raise(j, IdleJob)
FailSwallowedBySave(j) ==
    Raise(j, [job[j] EXCEPT !.pc = IF @ = "save" THEN "maintain" ELSE "fail"])

Fail(j) == Raise(j, [job[j] EXCEPT !.pc = "fail"])

\* Broken variant: the job ends without its UPDATE.
FinishErrorSilently(j) ==
    /\ job[j].pc = "fail"
    /\ job' = [job EXCEPT ![j] = IdleJob]
    /\ UNCHANGED <<now, provider, store, ghosts>>

\* `except Exception`: the error is recorded, the counts go to their defaults.
FinishError(j) ==
    /\ job[j].pc = "fail"
    /\ FinishRun(j, "error", 0, 0)

\* Cancellation (IngestionScheduler.stop), which `except Exception` does not
\* catch, the end of the process, or a handler whose own UPDATE raises.
Stop(j) ==
    /\ job[j].pc # "idle" /\ Cardinality(lost) < MaxStops
    /\ lost' = lost \cup {job[j].run}
    /\ job' = [job EXCEPT ![j] = IdleJob]
    /\ UNCHANGED <<now, provider, store, past>>

Step(j) ==
    \/ Page(j) \/ Save(j) \/ LiveVolume(j) \/ Maintain(j)
    \/ FinishOk(j) \/ Fail(j) \/ FinishError(j)

Next ==
    \/ Tick
    \/ \E r \in Raw : ProviderChanges(r)
    \/ \E j \in Jobs : Start(j, "poll") \/ Start(j, "backfill") \/ Step(j) \/ Stop(j)

Spec == Init /\ [][Next]_vars

\* Every request has a 20 s timeout and every transaction a busy timeout, so a
\* job that has begun takes its next step or fails.
FairSpec == Spec /\ \A j \in Jobs : WF_vars(Step(j))
-----------------------------------------------------------------------------
(* Properties. *)

TypeOK ==
    /\ now \in Times
    /\ provider \in [Raw -> Listing]
    /\ job \in [Jobs -> Job]
    /\ runs \in Seq(Run)
    /\ DOMAIN rows \subseteq Markets /\ \A m \in DOMAIN rows : rows[m] \in Row
    /\ DOMAIN events \subseteq Events /\ \A e \in DOMAIN events : events[e] \in Seen
    /\ DOMAIN snaps \subseteq Markets \X Times
    /\ \A k \in DOMAIN snaps : snaps[k] \in Listing
    /\ evols \subseteq Events \X Markets \X Times
    /\ lost \subseteq DOMAIN runs
    /\ past \in [0 .. now -> [Raw -> Listing]]

Live(j) == job[j].pc # "idle"

\* The ledger is complete: a run is 'running' exactly while one live job owns
\* it, or for ever once that job was cancelled or killed (nothing sweeps those
\* rows); no two live jobs own the same run.  Every error path ends its run.
RunningRowsAccounted ==
    /\ \A r \in DOMAIN runs : runs[r].status = "running" <=>
         (r \in lost \/ \E j \in Jobs : Live(j) /\ job[j].run = r)
    /\ \A i, j \in Jobs : Live(i) /\ Live(j) /\ job[i].run = job[j].run => i = j

\* A listing that can be a later view of the same market than `was`.
AtLeastAsRecent(data, was) ==
    /\ data.volume >= was.volume
    /\ was.status = "closed" => data.status = "closed"

\* What a table row claims about time is true whatever the overlap of jobs: the
\* listing it holds is at least as recent as the second it is stamped with,
\* because observed_at is read before the fetch and never after it.
StampsAreHonest ==
    /\ \A m \in DOMAIN rows : AtLeastAsRecent(rows[m].data, past[rows[m].last][m])
    /\ \A k \in DOMAIN snaps : AtLeastAsRecent(snaps[k], past[k[2]][k[1]])

\* The stamps of a market or event row name snapshots that exist: both tables
\* are written by one transaction.
SeenMeansSnapshot ==
    /\ \A m \in DOMAIN rows : <<m, rows[m].first>> \in DOMAIN snaps
                           /\ <<m, rows[m].last>> \in DOMAIN snaps
    /\ \A e \in DOMAIN events : \E m \in DOMAIN rows :
          <<m, events[e].last>> \in DOMAIN snaps /\ EventOf[m] = e

\* A job gets past the bundle transaction, and so to an 'ok' run, only with a
\* row and a snapshot stored for every market it fetched.
FetchedIsPersisted ==
    \A j \in Jobs : job[j].pc \in {"live", "maintain", "finish"} =>
        \A m \in Fetched(job[j]) : m \in DOMAIN rows /\ <<m, job[j].at>> \in DOMAIN snaps

\* The jobs keep the ledger as RunLedger has it: each begins one row, ends that
\* row once or is lost with it, and touches no other.
Ledger == INSTANCE RunLedger WITH
    Writers <- Jobs,
    status <- [r \in DOMAIN runs |-> runs[r].status],
    holds <- [j \in Jobs |-> IF Live(j) THEN job[j].run ELSE 0]

ImplementsLedger == Ledger!Spec

\* No snapshot row is counted by two runs, however their seconds collide; when
\* no run failed or was lost, the ledger accounts for every row.
SnapshotsCountedOnce ==
    LET counted == MapThenSumSet(LAMBDA r : runs[r].snapshots, DOMAIN runs)
                   + MapThenSumSet(LAMBDA j : job[j].snapshots, Jobs)
        stored  == Cardinality(DOMAIN snaps) + Cardinality(evols)
    IN  /\ counted <= stored
        /\ lost = {} /\ (\A r \in DOMAIN runs : runs[r].status # "error") => counted = stored

\* Snapshots, the outcome of a finished run and the first sighting of a market
\* or an event are history: no later job rewrites them.
HistoryIsNotRewritten == [][
    /\ \A k \in DOMAIN snaps : k \in DOMAIN snaps' /\ snaps'[k] = snaps[k]
    /\ \A r \in DOMAIN runs : r \in DOMAIN runs' /\
         (runs[r].status # "running" => runs'[r] = runs[r])
    /\ \A m \in DOMAIN rows : m \in DOMAIN rows' /\ rows'[m].first = rows[m].first
    /\ \A e \in DOMAIN events : e \in DOMAIN events' /\ events'[e].first = events[e].first
  ]_vars

\* first_seen_at and last_seen_at of a market are in order, which needs jobs
\* that do not overlap (db/repository.py upserts last_seen_at unconditionally).
SeenInOrder == \A m \in DOMAIN rows : rows[m].first <= rows[m].last

\* The market table is the newest view stored: no snapshot holds a listing the
\* row does not, even when a page boundary delivers a market twice.  True of
\* jobs that do not overlap.
RowsLeadSnapshots == \A k \in DOMAIN snaps :
    AtLeastAsRecent(rows[k[1]].data, snaps[k])

\* A backfill whose pages and limits hold the whole list misses no market that
\* was listed when it began, although markets close between its two fetches:
\* it asks for the active ones first.
BackfillMissesNothing ==
    \A j \in Jobs : job[j].mode = "backfill" /\ job[j].pc \in {"save", "maintain", "finish"} =>
        \A m \in Markets : past[job[j].at][m].status # "unlisted" => m \in Fetched(job[j])

\* Every job that begins ends, and leaves its run finished unless it was lost.
EveryRunEnds ==
    /\ \A j \in Jobs : Live(j) ~> ~Live(j)
    /\ \A r \in 1 .. MaxRuns :
         r \in DOMAIN runs ~> (r \in lost \/ (r \in DOMAIN runs /\ runs[r].status # "running"))
=============================================================================

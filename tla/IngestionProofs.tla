-------------------------- MODULE IngestionProofs ---------------------------
(***************************************************************************)
(* Theorems about Ingestion for any number of jobs, markets and events and *)
(* for any limits and bounds.                                              *)
(***************************************************************************)
EXTENDS Ingestion, SumTheorems, FiniteSetTheorems, SequenceTheorems, TLAPS

\* A typed job record, and the counters the transactions return.
LEMMA IdleJobType == IdleJob \in Job
  BY BoundsAssumption DEF IdleJob, Job, PCs, Times, Listing

LEMMA FetchesType ==
  ASSUME NEW mode \in {"poll", "backfill"}
  PROVE  Fetches(mode) \in Seq([filter : {"open", "closed"}, limit : Nat])
<1>. DEFINE Ask == [filter : {"open", "closed"}, limit : Nat]
<1>1. ASSUME NEW filter \in {"open", "closed"}, NEW limit \in Nat
      PROVE  Asks(filter, limit) \in Seq(Ask)
  <2>1. [filter |-> filter, limit |-> limit] \in Ask OBVIOUS
  <2>. HIDE DEF Ask
  <2>. QED BY <2>1 DEF Asks
<1>2. Asks("open", ActiveLimit) \o Asks("closed", ClosedLimit) \in Seq(Ask)
  BY <1>1, LimitsAssumption
<1>. QED BY <1>1, <1>2, LimitsAssumption DEF Fetches

LEMMA NextFetchType ==
  ASSUME NEW g \in Job
  PROVE  /\ NextFetch(g) \in Job
         /\ NextFetch(g).pc \in {"fetch", "save"}
         /\ NextFetch(g).run = g.run /\ NextFetch(g).at = g.at
         /\ NextFetch(g).copies = g.copies
<1>1. CASE g.fetches = <<>>
  BY <1>1 DEF NextFetch, Job, PCs
<1>2. CASE g.fetches # <<>>
  <2>1. g.fetches \in Seq([filter : {"open", "closed"}, limit : Nat]) BY DEF Job
  <2>2. /\ Head(g.fetches) \in [filter : {"open", "closed"}, limit : Nat]
        /\ Tail(g.fetches) \in Seq([filter : {"open", "closed"}, limit : Nat])
    BY <1>2, <2>1, HeadTailProperties
  <2>. QED BY <1>2, <2>2 DEF NextFetch, Job, PCs
<1>. QED BY <1>1, <1>2

\* A table keyed by (condition_id, observed_at) counts its inserts in Nat.
LEMMA InsertedType ==
  ASSUME NEW g \in Job, NEW table
  PROVE  Inserted(table, NewSnaps(g)) \in Nat
<1>. DEFINE K == (Fetched(g) \X {g.at}) \ DOMAIN table
            f == [k \in K |-> k[1]]
<1>1. IsFiniteSet(Markets) BY MarketsAssumption, FS_Subset DEF Raw
<1>2. f \in Injection(K, Markets) BY DEF Fetched, Injection, IsInjective
<1>3. IsFiniteSet(K) BY <1>1, <1>2, FS_Injection
<1>. QED BY <1>3, FS_CardinalityType DEF Inserted, NewSnaps

LEMMA VolumeKeysType ==
  ASSUME NEW e, NEW t, NEW ms \in SUBSET Markets, NEW keys
  PROVE  Cardinality(VolumeKeys(e, ms, t) \ keys) \in Nat
<1>. DEFINE K == VolumeKeys(e, ms, t) \ keys
            f == [k \in K |-> k[2]]
<1>1. IsFiniteSet(Markets) BY MarketsAssumption, FS_Subset DEF Raw
<1>2. f \in Injection(K, Markets) BY DEF VolumeKeys, Injection, IsInjective
<1>. QED BY <1>1, <1>2, FS_Injection, FS_CardinalityType

\* A page never holds more than what is left of the limit.
LEMMA PageType ==
  ASSUME NEW left \in Nat, NEW page \in SUBSET Raw,
         Cardinality(page) <= (IF PageSize < left THEN PageSize ELSE left)
  PROVE  /\ left - Cardinality(page) \in Nat
         /\ Cardinality(page \cap Markets) \in Nat
<1>1. IsFiniteSet(page) /\ IsFiniteSet(page \cap Markets)
  BY MarketsAssumption, FS_Subset DEF Raw
<1>2. Cardinality(page) \in Nat /\ Cardinality(page \cap Markets) \in Nat
  BY <1>1, FS_CardinalityType
<1>. QED BY <1>2, LimitsAssumption
-----------------------------------------------------------------------------
(* Type correctness, one lemma per action. *)

LEMMA TypeInit == Init => TypeOK
<1>. SUFFICES ASSUME Init PROVE TypeOK OBVIOUS
<1>1. job \in [Jobs -> Job] BY IdleJobType DEF Init
<1>2. past \in [0 .. now -> [Raw -> Listing]] BY DEF Init
<1>. QED BY <1>1, <1>2, BoundsAssumption DEF Init, TypeOK, EmptyTable, Times

LEMMA TypeTick == TypeOK /\ Tick => TypeOK'
<1>. SUFFICES ASSUME TypeOK, Tick PROVE TypeOK' OBVIOUS
<1>1. now' \in Times /\ now' = now + 1 BY BoundsAssumption DEF TypeOK, Tick, Times
<1>2. past' \in [0 .. now' -> [Raw -> Listing]] BY <1>1 DEF TypeOK, Tick, Times
<1>. QED BY <1>1, <1>2 DEF TypeOK, Tick, store

LEMMA TypeProvider == TypeOK /\ (\E r \in Raw : ProviderChanges(r)) => TypeOK'
<1>. SUFFICES ASSUME TypeOK, NEW r \in Raw, ProviderChanges(r) PROVE TypeOK' OBVIOUS
<1>1. provider' \in [Raw -> Listing]
  <2>1. provider[r] \in Listing BY DEF TypeOK
  <2>2. \A p \in Listing :
          /\ [p EXCEPT !.status = "open"] \in Listing
          /\ [p EXCEPT !.status = "closed"] \in Listing
          /\ p.volume < MaxVolume => [p EXCEPT !.volume = @ + 1] \in Listing
    BY BoundsAssumption DEF Listing
  <2>. HIDE DEF Listing
  <2>3. \E l \in Listing : provider' = [provider EXCEPT ![r] = l]
    BY <2>1, <2>2 DEF ProviderChanges
  <2>. QED BY <2>3 DEF TypeOK
<1>. QED BY <1>1 DEF TypeOK, ProviderChanges, store, ghosts

LEMMA TypeStart ==
  ASSUME TypeOK, NEW j \in Jobs, NEW mode \in {"poll", "backfill"}, Start(j, mode)
  PROVE  TypeOK'
<1>. DEFINE fresh == [IdleJob EXCEPT !.mode = mode, !.at = now, !.run = Len(runs) + 1,
                                     !.fetches = Fetches(mode)]
            row == [mode |-> mode, status |-> "running", markets |-> 0, snapshots |-> 0]
<1>0. /\ now \in Times /\ Len(runs) + 1 \in Nat
      /\ Fetches(mode) \in Seq([filter : {"open", "closed"}, limit : Nat])
  BY FetchesType DEF TypeOK
<1>1. fresh \in Job
  BY <1>0, IdleJobType DEF Job
<1>2. job' \in [Jobs -> Job]
  BY <1>1, NextFetchType DEF Start, StartAs, TypeOK
<1>3. row \in Run BY DEF Run
<1>4. runs' \in Seq(Run) /\ DOMAIN runs \subseteq DOMAIN runs'
  BY <1>3 DEF Start, StartAs, TypeOK
<1>. QED BY <1>2, <1>4 DEF Start, StartAs, TypeOK, ghosts

\* A page leaves the job typed, with the page's listings appended.
LEMMA PageEffect ==
  ASSUME TypeOK, NEW j \in Jobs, Page(j)
  PROVE  \E page \in SUBSET Raw, h \in Job :
           /\ job' = [job EXCEPT ![j] = h]
           /\ h.run = job[j].run /\ h.at = job[j].at /\ h.pc \in {"fetch", "save"}
           /\ h.copies = [m \in Markets |->
                IF m \in page THEN Append(job[j].copies[m], provider[m])
                ELSE job[j].copies[m]]
<1>. DEFINE g == job[j]
            want == IF PageSize < g.left THEN PageSize ELSE g.left
            copies(page) == [m \in Markets |->
                  IF m \in page THEN Append(g.copies[m], provider[m]) ELSE g.copies[m]]
            got(page, more) == [g EXCEPT
               !.left = g.left - Cardinality(page), !.cursor = more,
               !.bundles = @ + Cardinality(page \cap Markets),
               !.copies = [m \in Markets |->
                  IF m \in page THEN Append(@[m], provider[m]) ELSE @[m]]]
<1>0. g \in Job /\ g.pc = "fetch" BY DEF TypeOK, Page
<1>1. PICK page \in SUBSET Raw, more \in BOOLEAN :
        /\ Response(g.filter, g.cursor, want, page, more)
        /\ job' = [job EXCEPT ![j] =
             IF KeepsAsking(page, more, g.left - Cardinality(page))
             THEN got(page, more) ELSE NextFetch(got(page, more))]
  BY Zenon DEF Page
<1>2. g.left - Cardinality(page) \in Nat /\ Cardinality(page \cap Markets) \in Nat
  BY <1>0, <1>1, PageType DEF Response, Job
<1>3. copies(page) \in [Markets -> Seq(Listing)]
  BY <1>0 DEF TypeOK, Job, Raw
<1>4. /\ got(page, more) \in Job /\ got(page, more).run = g.run
      /\ got(page, more).at = g.at /\ got(page, more).pc = "fetch"
      /\ got(page, more).copies = copies(page)
  <2>1. g.bundles + Cardinality(page \cap Markets) \in Nat BY <1>0, <1>2 DEF Job
  <2>. QED BY Zenon, <1>0, <1>2, <1>3, <2>1 DEF Job
<1>. DEFINE h == IF KeepsAsking(page, more, g.left - Cardinality(page))
                 THEN got(page, more) ELSE NextFetch(got(page, more))
<1>5. /\ h \in Job /\ h.run = g.run /\ h.at = g.at /\ h.pc \in {"fetch", "save"}
      /\ h.copies = copies(page)
  <2>. HIDE DEF got, copies
  <2>. QED BY <1>4, NextFetchType
<1>6. job' = [job EXCEPT ![j] = h] BY <1>1
<1>. HIDE DEF h
<1>. QED BY Zenon, <1>5, <1>6

LEMMA TypePage ==
  ASSUME TypeOK, NEW j \in Jobs, Page(j)
  PROVE  TypeOK'
<1>1. job' \in [Jobs -> Job] BY PageEffect DEF TypeOK
<1>. QED BY <1>1 DEF Page, TypeOK, store, ghosts

\* What one bundle transaction adds to its three tables.
LEMMA NewRowsType ==
  ASSUME NEW g \in Job
  PROVE  /\ DOMAIN NewRows(g) = Fetched(g) /\ Fetched(g) \subseteq Markets
         /\ \A m \in Fetched(g) : /\ NewRows(g)[m] \in Row
                                  /\ NewRows(g)[m].first = g.at
                                  /\ NewRows(g)[m].last = g.at
                                  /\ NewRows(g)[m].data = g.copies[m][Len(g.copies[m])]
                                  /\ Len(g.copies[m]) \in DOMAIN g.copies[m]
                                  /\ 1 \in DOMAIN g.copies[m]
         /\ DOMAIN NewSnaps(g) = Fetched(g) \X {g.at}
         /\ \A k \in DOMAIN NewSnaps(g) : /\ NewSnaps(g)[k] \in Listing
                                          /\ NewSnaps(g)[k] = g.copies[k[1]][1]
         /\ DOMAIN NewEvents(g) = EventIds(g) /\ EventIds(g) \subseteq Events
         /\ \A e \in EventIds(g) : NewEvents(g)[e] = [first |-> g.at, last |-> g.at]
<1>1. g.at \in Times /\ g.copies \in [Markets -> Seq(Listing)] BY DEF Job
<1>. HIDE DEF Listing
<1>2. \A m \in Fetched(g) : /\ 1 \in DOMAIN g.copies[m]
                            /\ Len(g.copies[m]) \in DOMAIN g.copies[m]
                            /\ g.copies[m][1] \in Listing
                            /\ g.copies[m][Len(g.copies[m])] \in Listing
  BY <1>1 DEF Fetched
<1>3. EventIds(g) \subseteq Events BY EventsAssumption DEF EventIds, Fetched
<1>. QED BY <1>1, <1>2, <1>3 DEF NewRows, NewSnaps, NewEvents, Row, Fetched

LEMMA TypeSave ==
  ASSUME TypeOK, NEW j \in Jobs, Save(j)
  PROVE  TypeOK'
<1>. DEFINE g == job[j]
<1>0. g \in Job /\ g.at \in Times BY DEF TypeOK, Job
<1>a. /\ rows' = Upsert(rows, NewRows(g), KeepFirstSeen)
      /\ snaps' = InsertOrIgnore(snaps, NewSnaps(g))
      /\ events' = Upsert(events, NewEvents(g), KeepFirstSeen)
  BY Zenon DEF Save
<1>. HIDE DEF g
<1>1. DOMAIN rows' \subseteq Markets /\ \A m \in DOMAIN rows' : rows'[m] \in Row
  <2>. DEFINE new == NewRows(g)
  <2>1. DOMAIN new \subseteq Markets /\ \A m \in DOMAIN new : new[m] \in Row
    BY <1>0, NewRowsType
  <2>2. rows' = Upsert(rows, new, KeepFirstSeen) BY <1>a
  <2>. HIDE DEF new
  <2>3. \A old, nu \in Row : [nu EXCEPT !.first = old.first] \in Row BY DEF Row
  <2>4. /\ DOMAIN rows' = DOMAIN rows \cup DOMAIN new
        /\ \A k \in DOMAIN new : rows'[k] = IF k \in DOMAIN rows
              THEN [new[k] EXCEPT !.first = rows[k].first] ELSE new[k]
        /\ \A k \in DOMAIN rows \ DOMAIN new : rows'[k] = rows[k]
    BY <2>2 DEF Upsert, KeepFirstSeen
  <2>. QED BY <2>1, <2>3, <2>4 DEF TypeOK
<1>2. /\ DOMAIN events' \subseteq Events
      /\ \A e \in DOMAIN events' : events'[e] \in Seen
  <2>. DEFINE new == NewEvents(g)
  <2>0. [first |-> g.at, last |-> g.at] \in Seen BY <1>0 DEF Seen
  <2>1. DOMAIN new \subseteq Events /\ \A e \in DOMAIN new : new[e] \in Seen
    BY <1>0, <2>0, NewRowsType
  <2>2. events' = Upsert(events, new, KeepFirstSeen) BY <1>a
  <2>. HIDE DEF new
  <2>3. \A old, nu \in Seen : [nu EXCEPT !.first = old.first] \in Seen BY DEF Seen
  <2>4. /\ DOMAIN events' = DOMAIN events \cup DOMAIN new
        /\ \A k \in DOMAIN new : events'[k] = IF k \in DOMAIN events
              THEN [new[k] EXCEPT !.first = events[k].first] ELSE new[k]
        /\ \A k \in DOMAIN events \ DOMAIN new : events'[k] = events[k]
    BY <2>2 DEF Upsert, KeepFirstSeen
  <2>. QED BY <2>1, <2>3, <2>4 DEF TypeOK
<1>3. /\ DOMAIN snaps' \subseteq Markets \X Times
      /\ \A k \in DOMAIN snaps' : snaps'[k] \in Listing
  <2>. DEFINE new == NewSnaps(g)
  <2>0. DOMAIN new = Fetched(g) \X {g.at} /\ Fetched(g) \subseteq Markets
    BY <1>0, NewRowsType
  <2>1. DOMAIN new \subseteq Markets \X Times BY <1>0, <2>0
  <2>2. \A k \in DOMAIN new : new[k] \in Listing BY <1>0, NewRowsType
  <2>3. snaps' = InsertOrIgnore(snaps, new) BY <1>a
  <2>. HIDE DEF new
  <2>4. /\ DOMAIN snaps' = DOMAIN snaps \cup DOMAIN new
        /\ \A k \in DOMAIN snaps : snaps'[k] = snaps[k]
        /\ \A k \in DOMAIN new \ DOMAIN snaps : snaps'[k] = new[k]
    BY <2>3 DEF InsertOrIgnore
  <2>. QED BY <2>1, <2>2, <2>4 DEF TypeOK
<1>. USE DEF g
<1>4. job' \in [Jobs -> Job]
  <2>1. PICK todo \in SUBSET EventIds(g) :
          job' = [job EXCEPT ![j].pc = IF todo = {} THEN "maintain" ELSE "live",
                             ![j].todo = todo,
                             ![j].snapshots = Inserted(snaps, NewSnaps(g))]
    BY Zenon DEF Save
  <2>2. Inserted(snaps, NewSnaps(g)) \in Nat BY <1>0, InsertedType
  <2>3. todo \in SUBSET Events BY Zenon, <1>0, <2>1, NewRowsType
  <2>4. [g EXCEPT !.pc = IF todo = {} THEN "maintain" ELSE "live",
                  !.todo = todo, !.snapshots = Inserted(snaps, NewSnaps(g))] \in Job
    BY Zenon, <1>0, <2>2, <2>3 DEF Job, PCs
  <2>. QED BY ZenonT(60), <2>1, <2>4 DEF TypeOK
<1>. QED BY Zenon, <1>1, <1>2, <1>3, <1>4 DEF Save, TypeOK, ghosts

LEMMA TypeLiveVolume ==
  ASSUME TypeOK, NEW j \in Jobs, LiveVolume(j)
  PROVE  TypeOK'
<1>. DEFINE g == job[j]
<1>0. g \in Job /\ g.at \in Times /\ g.todo \subseteq Events BY DEF TypeOK, Job
<1>1. PICK e \in g.todo, ms \in SUBSET Markets :
        /\ evols' = evols \cup VolumeKeys(e, ms, g.at)
        /\ job' = [job EXCEPT
              ![j].todo = @ \ {e},
              ![j].pc = IF g.todo = {e} THEN "maintain" ELSE "live",
              ![j].snapshots = @ + Cardinality(VolumeKeys(e, ms, g.at) \ evols)]
  <2>1. PICK e \in g.todo : \E ms \in SUBSET {m \in Markets : EventOf[m] = e} :
        /\ evols' = evols \cup VolumeKeys(e, ms, g.at)
        /\ job' = [job EXCEPT
              ![j].todo = @ \ {e},
              ![j].pc = IF g.todo = {e} THEN "maintain" ELSE "live",
              ![j].snapshots = @ + Cardinality(VolumeKeys(e, ms, g.at) \ evols)]
    BY Zenon DEF LiveVolume
  <2>. QED BY Zenon, <2>1
<1>2. VolumeKeys(e, ms, g.at) \subseteq Events \X Markets \X Times
  BY <1>0 DEF VolumeKeys
<1>3. Cardinality(VolumeKeys(e, ms, g.at) \ evols) \in Nat BY VolumeKeysType
<1>4. g.snapshots + Cardinality(VolumeKeys(e, ms, g.at) \ evols) \in Nat
  BY <1>0, <1>3 DEF Job
<1>5. [g EXCEPT !.todo = @ \ {e}, !.pc = IF g.todo = {e} THEN "maintain" ELSE "live",
                !.snapshots = @ + Cardinality(VolumeKeys(e, ms, g.at) \ evols)] \in Job
  BY Zenon, <1>0, <1>4 DEF Job, PCs
<1>6. job' \in [Jobs -> Job] BY Zenon, <1>1, <1>5 DEF TypeOK
<1>7. evols' \subseteq Events \X Markets \X Times BY Zenon, <1>1, <1>2 DEF TypeOK
<1>. QED BY Zenon, <1>6, <1>7 DEF LiveVolume, TypeOK, ghosts

LEMMA TypePc ==
  ASSUME TypeOK, NEW j \in Jobs, Maintain(j) \/ Fail(j)
  PROVE  TypeOK'
<1>1. PICK pc \in PCs : job' = [job EXCEPT ![j].pc = pc]
  BY DEF Maintain, Fail, Raise, PCs
<1>2. job' \in [Jobs -> Job]
  <2>1. [job[j] EXCEPT !.pc = pc] \in Job
    <3>1. job[j] \in Job BY DEF TypeOK
    <3>2. \A g \in Job : [g EXCEPT !.pc = pc] \in Job BY DEF Job
    <3>. QED BY <3>1, <3>2
  <2>. QED BY <1>1, <2>1 DEF TypeOK
<1>. QED BY <1>2 DEF Maintain, Fail, Raise, TypeOK, store, ghosts

LEMMA TypeFinish ==
  ASSUME TypeOK, NEW j \in Jobs, FinishOk(j) \/ FinishError(j)
  PROVE  TypeOK'
<1>1. PICK status \in {"ok", "error"}, markets \in Nat, snapshots \in Nat :
        FinishRun(j, status, markets, snapshots)
  BY DEF FinishOk, FinishError, TypeOK, Job
<1>2. runs' \in Seq(Run) /\ DOMAIN runs' = DOMAIN runs
  <2>. DEFINE r == job[j].run
  <2>0. \A u \in Run : [u EXCEPT !.status = status, !.markets = markets,
                                 !.snapshots = snapshots] \in Run
    BY DEF Run
  <2>1. r \in DOMAIN runs => [runs[r] EXCEPT !.status = status, !.markets = markets,
                                            !.snapshots = snapshots] \in Run
    <3>. HIDE DEF Run
    <3>1. ASSUME r \in DOMAIN runs PROVE runs[r] \in Run BY <3>1 DEF TypeOK
    <3>. QED BY Zenon, <2>0, <3>1
  <2>2. runs' = [runs EXCEPT ![r] = [runs[r] EXCEPT !.status = status,
                   !.markets = markets, !.snapshots = snapshots]]
    BY <1>1 DEF FinishRun
  <2>3. CASE r \in DOMAIN runs
    <3>1. runs \in Seq(Run) /\ r \in 1 .. Len(runs) BY <2>3 DEF TypeOK
    <3>2. runs' \in Seq(Run) /\ Len(runs') = Len(runs)
      BY <2>1, <2>2, <2>3, <3>1, ExceptSeq
    <3>. QED BY <3>1, <3>2
  <2>4. CASE r \notin DOMAIN runs
    <3>1. runs' = runs BY <2>2, <2>4 DEF TypeOK
    <3>. QED BY <3>1 DEF TypeOK
  <2>. QED BY <2>3, <2>4
<1>3. job' \in [Jobs -> Job] BY <1>1, IdleJobType DEF FinishRun, TypeOK
<1>. QED BY <1>1, <1>2, <1>3 DEF FinishRun, TypeOK, ghosts

\* The ledger, strengthened to be inductive: a live job's run is in the table
\* and is not a lost one, so the UPDATE that ends it touches no other job's run.
LedgerInv ==
    /\ RunningRowsAccounted
    /\ \A j \in Jobs : Live(j) => job[j].run \in DOMAIN runs \ lost

LEMMA TypeStop ==
  ASSUME TypeOK, LedgerInv, NEW j \in Jobs, Stop(j)
  PROVE  TypeOK'
<1>1. job' \in [Jobs -> Job] BY IdleJobType DEF Stop, TypeOK
<1>2. lost' \subseteq DOMAIN runs BY DEF Stop, TypeOK, LedgerInv, Live
<1>. QED BY <1>1, <1>2 DEF Stop, TypeOK, store

LEMMA TypeNext == TypeOK /\ LedgerInv /\ [Next]_vars => TypeOK'
<1>. SUFFICES ASSUME TypeOK, LedgerInv, [Next]_vars PROVE TypeOK' OBVIOUS
<1>1. CASE Tick BY <1>1, TypeTick
<1>2. CASE \E r \in Raw : ProviderChanges(r) BY <1>2, TypeProvider
<1>3. ASSUME NEW j \in Jobs, Start(j, "poll") \/ Start(j, "backfill") \/ Step(j) \/ Stop(j)
      PROVE  TypeOK'
  BY <1>3, TypeStart, TypePage, TypeSave, TypeLiveVolume, TypePc, TypeFinish, TypeStop
     DEF Step
<1>4. CASE UNCHANGED vars BY <1>4 DEF vars, store, ghosts, TypeOK
<1>. QED BY <1>1, <1>2, <1>3, <1>4 DEF Next
-----------------------------------------------------------------------------
(* The run ledger. *)

LEMMA LedgerInit == Init => LedgerInv
  BY DEF Init, LedgerInv, RunningRowsAccounted, Live, IdleJob

\* A job that keeps its run, and stays live or stays idle, keeps the ledger.
LEMMA LedgerSame ==
  ASSUME TypeOK, LedgerInv, UNCHANGED <<runs, lost>>,
         \A i \in Jobs : job'[i].run = job[i].run /\ (job'[i].pc = "idle" <=> job[i].pc = "idle")
  PROVE  LedgerInv'
  BY DEF LedgerInv, RunningRowsAccounted, Live

LEMMA LedgerStart ==
  ASSUME TypeOK, LedgerInv, NEW j \in Jobs, NEW mode \in {"poll", "backfill"},
         Start(j, mode)
  PROVE  LedgerInv'
<1>. DEFINE fresh == [IdleJob EXCEPT !.mode = mode, !.at = now, !.run = Len(runs) + 1,
                                     !.fetches = Fetches(mode)]
            n == Len(runs) + 1
<1>0. /\ now \in Times /\ n \in Nat
      /\ Fetches(mode) \in Seq([filter : {"open", "closed"}, limit : Nat])
  BY FetchesType DEF TypeOK
<1>1. fresh \in Job /\ fresh.run = n
  BY <1>0, IdleJobType DEF Job
<1>2. /\ job' = [job EXCEPT ![j] = NextFetch(fresh)]
      /\ NextFetch(fresh).run = n /\ NextFetch(fresh).pc # "idle"
  BY <1>1, NextFetchType DEF Start, StartAs
<1>. HIDE DEF fresh
<1>3. /\ job'[j].run = n /\ Live(j)'
      /\ \A i \in Jobs \ {j} : job'[i] = job[i]
  BY <1>2 DEF TypeOK, Live
<1>4. /\ DOMAIN runs' = DOMAIN runs \cup {n} /\ n \notin DOMAIN runs
      /\ runs'[n].status = "running"
      /\ \A r \in DOMAIN runs : runs'[r] = runs[r]
      /\ lost' = lost /\ lost \subseteq DOMAIN runs
      /\ ~Live(j)
  BY DEF Start, StartAs, TypeOK, Live, ghosts
<1>. HIDE DEF n
<1>5. \A i \in Jobs \ {j} : Live(i)' = Live(i) BY <1>3 DEF Live
<1>6. \A i \in Jobs : Live(i)' => job'[i].run \in DOMAIN runs' \ lost'
  BY <1>3, <1>4, <1>5 DEF LedgerInv
<1>7. \A i, k \in Jobs : Live(i)' /\ Live(k)' /\ job'[i].run = job'[k].run => i = k
  BY <1>3, <1>4, <1>5 DEF LedgerInv, RunningRowsAccounted
<1>8. ASSUME NEW r \in DOMAIN runs'
      PROVE  runs'[r].status = "running" <=>
               (r \in lost' \/ \E i \in Jobs : Live(i)' /\ job'[i].run = r)
  BY <1>3, <1>4, <1>5, <1>8 DEF LedgerInv, RunningRowsAccounted
<1>. QED BY <1>6, <1>7, <1>8 DEF LedgerInv, RunningRowsAccounted, Live

\* Ending a job, whether its run is finished or lost.
LEMMA LedgerEnd ==
  ASSUME TypeOK, LedgerInv, NEW j \in Jobs, FinishOk(j) \/ FinishError(j) \/ Stop(j)
  PROVE  LedgerInv'
<1>. DEFINE n == job[j].run
<1>1. /\ job' = [job EXCEPT ![j] = IdleJob] /\ Live(j)
      /\ DOMAIN runs' = DOMAIN runs
      /\ \A r \in DOMAIN runs \ {n} : runs'[r] = runs[r]
      /\ n \in lost' \/ runs'[n].status # "running"
      /\ n \in lost' => runs'[n] = runs[n]
      /\ lost' \ {n} = lost /\ n \notin lost /\ n \in DOMAIN runs
      /\ lost' \subseteq DOMAIN runs
  <2>1. Live(j) /\ n \in DOMAIN runs \ lost
    BY DEF LedgerInv, Live, FinishOk, FinishError, Stop
  <2>2. CASE Stop(j) BY <2>1, <2>2 DEF Stop, TypeOK, store
  <2>3. CASE FinishOk(j) \/ FinishError(j)
    <3>1. PICK status \in {"ok", "error"}, markets \in Nat, snapshots \in Nat :
            FinishRun(j, status, markets, snapshots)
      BY <2>3 DEF FinishOk, FinishError, TypeOK, Job
    <3>2. runs[n] \in Run /\ runs \in Seq(Run) BY <2>1 DEF TypeOK
    <3>3. [runs[n] EXCEPT !.status = status, !.markets = markets,
                          !.snapshots = snapshots].status = status
      BY <3>2 DEF Run
    <3>. QED BY <2>1, <3>1, <3>2, <3>3 DEF FinishRun, TypeOK, ghosts
  <2>. QED BY <2>2, <2>3
<1>2. ~Live(j)' /\ \A i \in Jobs \ {j} : job'[i] = job[i] /\ Live(i)' = Live(i)
  BY <1>1 DEF TypeOK, Live, IdleJob
<1>3. \A i \in Jobs \ {j} : Live(i) => job[i].run # n
  BY <1>1 DEF LedgerInv, RunningRowsAccounted
<1>. HIDE DEF n
<1>4. \A i \in Jobs : Live(i)' => job'[i].run \in DOMAIN runs' \ lost'
  BY <1>1, <1>2, <1>3 DEF LedgerInv
<1>5. \A i, k \in Jobs : Live(i)' /\ Live(k)' /\ job'[i].run = job'[k].run => i = k
  BY <1>2 DEF LedgerInv, RunningRowsAccounted
<1>6. ASSUME NEW r \in DOMAIN runs'
      PROVE  runs'[r].status = "running" <=>
               (r \in lost' \/ \E i \in Jobs : Live(i)' /\ job'[i].run = r)
  <2>1. runs[n].status = "running"
    <3>. USE DEF n
    <3>. QED BY <1>1 DEF LedgerInv, RunningRowsAccounted
  <2>2. CASE r = n BY <1>1, <1>2, <1>3, <2>1, <2>2
  <2>3. CASE r # n
    <3>1. (runs[r].status = "running") <=>
            (r \in lost \/ \E i \in Jobs : Live(i) /\ job[i].run = r)
      BY <1>1, <1>6 DEF LedgerInv, RunningRowsAccounted
    <3>2. (\E i \in Jobs : Live(i)' /\ job'[i].run = r)
            <=> (\E i \in Jobs : Live(i) /\ job[i].run = r)
      <4>. USE DEF n
      <4>. QED BY <1>2, <2>3
    <3>. QED BY <1>1, <2>3, <3>1, <3>2, <1>6
  <2>. QED BY <2>2, <2>3
<1>. QED BY <1>4, <1>5, <1>6 DEF LedgerInv, RunningRowsAccounted, Live

\* The steps after the fetch keep a job's run, stamp and listings.
LEMMA WorkEffect ==
  ASSUME TypeOK, NEW j \in Jobs, Save(j) \/ LiveVolume(j) \/ Maintain(j) \/ Fail(j)
  PROVE  \E h \in Job : /\ job' = [job EXCEPT ![j] = h]
                        /\ h.run = job[j].run /\ h.at = job[j].at
                        /\ h.copies = job[j].copies /\ h.pc # "idle"
<1>0. job[j] \in Job BY DEF TypeOK
<1>1. job' \in [Jobs -> Job] BY TypeSave, TypeLiveVolume, TypePc DEF TypeOK
<1>2. SUFFICES /\ job' = [job EXCEPT ![j] = job'[j]]
               /\ job'[j].run = job[j].run /\ job'[j].at = job[j].at
               /\ job'[j].copies = job[j].copies /\ job'[j].pc # "idle"
  BY <1>1
<1>3. CASE Save(j)
  <2>1. PICK todo \in SUBSET EventIds(job[j]) :
           job' = [job EXCEPT ![j].pc = IF todo = {} THEN "maintain" ELSE "live",
                              ![j].todo = todo,
                              ![j].snapshots = Inserted(snaps, NewSnaps(job[j]))]
    BY Zenon, <1>3 DEF Save
  <2>. QED BY ZenonT(60), <1>0, <2>1 DEF TypeOK, Job
<1>4. CASE LiveVolume(j)
  <2>1. PICK e \in job[j].todo :
          \E ms \in SUBSET {m \in Markets : EventOf[m] = e} :
            job' = [job EXCEPT
              ![j].todo = @ \ {e},
              ![j].pc = IF job[j].todo = {e} THEN "maintain" ELSE "live",
              ![j].snapshots = @ + Cardinality(VolumeKeys(e, ms, job[j].at) \ evols)]
    BY Zenon, <1>4 DEF LiveVolume
  <2>2. PICK ms \in SUBSET {m \in Markets : EventOf[m] = e} :
            job' = [job EXCEPT
              ![j].todo = @ \ {e},
              ![j].pc = IF job[j].todo = {e} THEN "maintain" ELSE "live",
              ![j].snapshots = @ + Cardinality(VolumeKeys(e, ms, job[j].at) \ evols)]
    BY Zenon, <2>1
  <2>. QED BY Zenon, <1>0, <2>2 DEF TypeOK, Job
<1>5. CASE Maintain(j) \/ Fail(j)
  <2>1. PICK pc \in PCs \ {"idle"} : job' = [job EXCEPT ![j].pc = pc]
    BY <1>5 DEF Maintain, Fail, Raise, PCs
  <2>. QED BY <1>0, <2>1 DEF TypeOK, Job
<1>. QED BY <1>3, <1>4, <1>5

\* The steps between keep the run and the liveness of every job.
LEMMA LedgerWork ==
  ASSUME TypeOK, LedgerInv, NEW j \in Jobs,
         Page(j) \/ Save(j) \/ LiveVolume(j) \/ Maintain(j) \/ Fail(j)
  PROVE  LedgerInv'
<1>1. /\ UNCHANGED <<runs, lost>>
      /\ \E h \in Job : job' = [job EXCEPT ![j] = h] /\ h.run = job[j].run /\ h.pc # "idle"
  <2>2. CASE Page(j) BY ZenonT(60), <2>2, PageEffect DEF Page, store, ghosts
  <2>3. CASE Save(j) \/ LiveVolume(j) \/ Maintain(j) \/ Fail(j)
    BY ZenonT(60), <2>3, WorkEffect DEF Save, LiveVolume, Maintain, Fail, Raise, store, ghosts
  <2>. QED BY SMTT(30), <2>2, <2>3
<1>2. job[j].pc # "idle" BY Zenon DEF Page, Save, LiveVolume, Maintain, Fail, Raise
<1>. QED BY <1>1, <1>2, LedgerSame DEF TypeOK

LEMMA LedgerNext == TypeOK /\ LedgerInv /\ [Next]_vars => LedgerInv'
<1>. SUFFICES ASSUME TypeOK, LedgerInv, [Next]_vars PROVE LedgerInv' OBVIOUS
<1>1. CASE Tick BY <1>1, LedgerSame DEF Tick, store
<1>2. CASE \E r \in Raw : ProviderChanges(r)
  BY <1>2, LedgerSame DEF ProviderChanges, store, ghosts
<1>3. ASSUME NEW j \in Jobs, Start(j, "poll") \/ Start(j, "backfill") \/ Step(j) \/ Stop(j)
      PROVE  LedgerInv'
  BY <1>3, LedgerStart, LedgerEnd, LedgerWork DEF Step
<1>4. CASE UNCHANGED vars BY <1>4, LedgerSame DEF vars, store, ghosts
<1>. QED BY <1>1, <1>2, <1>3, <1>4 DEF Next

\* Every reachable state is well typed and its ledger is in order.
LEMMA BaseInvariant == Spec => [](TypeOK /\ LedgerInv)
<1>1. Init => TypeOK /\ LedgerInv BY TypeInit, LedgerInit
<1>2. TypeOK /\ LedgerInv /\ [Next]_vars => (TypeOK /\ LedgerInv)'
  BY TypeNext, LedgerNext
<1>. QED BY <1>1, <1>2, PTL DEF Spec

\* The tables and the jobs' locals keep their types (db/schema.sql and the
\* locals of poll_once and backfill_markets).
THEOREM TypeCorrect == Spec => []TypeOK
  BY BaseInvariant, PTL

\* For any number of overlapping jobs, a row of ingestion_runs says 'running'
\* exactly while one live job owns it or after that job was lost.
THEOREM LedgerCorrect == Spec => []RunningRowsAccounted
<1>1. LedgerInv => RunningRowsAccounted BY SMTT(30) DEF LedgerInv
<1>. QED BY <1>1, BaseInvariant, PTL
-----------------------------------------------------------------------------
(* What the tables claim. *)

\* A step that is not a bundle transaction leaves the three tables alone.
LEMMA TablesChangeOnSave ==
  ASSUME [Next]_vars
  PROVE  UNCHANGED <<rows, snaps, events>> \/ \E j \in Jobs : Save(j)
  BY ZenonT(60) DEF Next, Tick, ProviderChanges, Start, StartAs, Step, Page, LiveVolume, Maintain,
         FinishOk, FinishError, FinishRun, Fail, Raise, Stop, store, vars

\* The bundle transaction, key by key.
LEMMA SaveEffect ==
  ASSUME TypeOK, NEW j \in Jobs, Save(j)
  PROVE  /\ DOMAIN rows' = DOMAIN rows \cup Fetched(job[j])
         /\ \A m \in Fetched(job[j]) :
              /\ rows'[m].last = job[j].at
              /\ rows'[m].data = job[j].copies[m][Len(job[j].copies[m])]
              /\ m \notin DOMAIN rows => rows'[m].first = job[j].at
         /\ \A m \in DOMAIN rows : rows'[m].first = rows[m].first
         /\ \A m \in DOMAIN rows \ Fetched(job[j]) : rows'[m] = rows[m]
         /\ DOMAIN snaps' = DOMAIN snaps \cup (Fetched(job[j]) \X {job[j].at})
         /\ \A k \in DOMAIN snaps : snaps'[k] = snaps[k]
         /\ \A k \in DOMAIN snaps' \ DOMAIN snaps : snaps'[k] = job[j].copies[k[1]][1]
         /\ DOMAIN events' = DOMAIN events \cup EventIds(job[j])
         /\ \A e \in EventIds(job[j]) : events'[e].last = job[j].at
         /\ \A e \in DOMAIN events : events'[e].first = events[e].first
         /\ \A e \in DOMAIN events \ EventIds(job[j]) : events'[e] = events[e]
<1>. DEFINE g == job[j]
<1>0. g \in Job BY DEF TypeOK
<1>1. /\ rows' = Upsert(rows, NewRows(g), KeepFirstSeen)
      /\ snaps' = InsertOrIgnore(snaps, NewSnaps(g))
      /\ events' = Upsert(events, NewEvents(g), KeepFirstSeen)
  BY DEF Save
<1>. HIDE DEF g
<1>2. /\ DOMAIN rows' = DOMAIN rows \cup Fetched(g)
      /\ \A m \in Fetched(g) :
           /\ rows'[m].last = g.at
           /\ rows'[m].data = g.copies[m][Len(g.copies[m])]
           /\ m \notin DOMAIN rows => rows'[m].first = g.at
      /\ \A m \in DOMAIN rows : rows'[m].first = rows[m].first
      /\ \A m \in DOMAIN rows \ Fetched(g) : rows'[m] = rows[m]
  BY <1>1 DEF Upsert, KeepFirstSeen, NewRows
<1>3. /\ DOMAIN snaps' = DOMAIN snaps \cup (Fetched(g) \X {g.at})
      /\ \A k \in DOMAIN snaps : snaps'[k] = snaps[k]
      /\ \A k \in DOMAIN snaps' \ DOMAIN snaps : snaps'[k] = g.copies[k[1]][1]
  BY <1>1 DEF InsertOrIgnore, NewSnaps
<1>4. /\ DOMAIN events' = DOMAIN events \cup EventIds(g)
      /\ \A e \in EventIds(g) : events'[e].last = g.at
      /\ \A e \in DOMAIN events : events'[e].first = events[e].first
      /\ \A e \in DOMAIN events \ EventIds(g) : events'[e] = events[e]
  BY <1>1 DEF Upsert, KeepFirstSeen, NewEvents
<1>. QED BY <1>2, <1>3, <1>4 DEF g

\* Snapshots, finished runs and first sightings are never rewritten, whatever
\* jobs overlap.
THEOREM HistoryKept == Spec => HistoryIsNotRewritten
<1>. DEFINE A ==
       /\ \A k \in DOMAIN snaps : k \in DOMAIN snaps' /\ snaps'[k] = snaps[k]
       /\ \A r \in DOMAIN runs : r \in DOMAIN runs' /\
            (runs[r].status # "running" => runs'[r] = runs[r])
       /\ \A m \in DOMAIN rows : m \in DOMAIN rows' /\ rows'[m].first = rows[m].first
       /\ \A e \in DOMAIN events : e \in DOMAIN events' /\ events'[e].first = events[e].first
<1>1. ASSUME TypeOK, LedgerInv, [Next]_vars PROVE [A]_vars
  <2>1. /\ \A k \in DOMAIN snaps : k \in DOMAIN snaps' /\ snaps'[k] = snaps[k]
        /\ \A m \in DOMAIN rows : m \in DOMAIN rows' /\ rows'[m].first = rows[m].first
        /\ \A e \in DOMAIN events : e \in DOMAIN events' /\ events'[e].first = events[e].first
    BY <1>1, TablesChangeOnSave, SaveEffect
  <2>2. \A r \in DOMAIN runs : r \in DOMAIN runs' /\
            (runs[r].status # "running" => runs'[r] = runs[r])
    <3>1. CASE \E j \in Jobs, mode \in {"poll", "backfill"} : Start(j, mode)
      BY <1>1, <3>1 DEF Start, StartAs, TypeOK
    <3>2. CASE \E j \in Jobs : FinishOk(j) \/ FinishError(j)
      <4>1. PICK j \in Jobs : FinishOk(j) \/ FinishError(j) BY <3>2
      <4>2. job[j].run \in DOMAIN runs /\ runs[job[j].run].status = "running"
        BY <1>1, <4>1 DEF LedgerInv, RunningRowsAccounted, Live, FinishOk, FinishError
      <4>3. DOMAIN runs' = DOMAIN runs /\ \A r \in DOMAIN runs \ {job[j].run} : runs'[r] = runs[r]
        BY <1>1, <4>1 DEF FinishOk, FinishError, FinishRun, TypeOK
      <4>. QED BY <4>2, <4>3
    <3>3. CASE runs' = runs BY <3>3
    <3>. QED BY Zenon, <1>1, <3>1, <3>2, <3>3
           DEF Next, Tick, ProviderChanges, Step, Page, Save, LiveVolume, Maintain,
               Fail, Raise, Stop, store, vars
  <2>. QED BY <2>1, <2>2
<1>2. Spec => [][A]_vars BY <1>1, BaseInvariant, PTL DEF Spec
<1>. QED BY <1>2 DEF HistoryIsNotRewritten

\* Why the stamps are honest: the provider only moves forward, so whatever a
\* job fetches is at least as recent as the provider was when the job read the
\* clock, and the tables only ever receive a fetched listing with that stamp.
StampInv ==
    /\ \A t \in 0 .. now, r \in Raw : AtLeastAsRecent(provider[r], past[t][r])
    /\ \A j \in Jobs : job[j].at <= now
    /\ \A j \in Jobs, m \in Markets : \A i \in DOMAIN job[j].copies[m] :
          AtLeastAsRecent(job[j].copies[m][i], past[job[j].at][m])
    /\ \A m \in DOMAIN rows : rows[m].last <= now
    /\ \A k \in DOMAIN snaps : k[2] <= now
    /\ StampsAreHonest

LEMMA StampInit == Init => StampInv
<1>. SUFFICES ASSUME Init PROVE StampInv OBVIOUS
<1>1. \A j \in Jobs : job[j].at = 0 /\ job[j].copies = [m \in Markets |-> <<>>]
  BY DEF Init, IdleJob
<1>2. \A r \in Raw : provider[r] \in Listing /\ past[0][r] = provider[r] BY DEF Init
<1>3. now = 0 /\ rows = EmptyTable /\ snaps = EmptyTable BY DEF Init
<1>. QED BY <1>1, <1>2, <1>3 DEF StampInv, StampsAreHonest, AtLeastAsRecent, EmptyTable, Listing

\* A step that only replaces one job keeps StampInv when the new locals do.
LEMMA StampJob ==
  ASSUME TypeOK, StampInv, NEW j \in Jobs, NEW h \in Job,
         job' = [job EXCEPT ![j] = h], UNCHANGED <<now, provider, past, rows, snaps>>,
         h.at <= now,
         \A m \in Markets : \A i \in DOMAIN h.copies[m] :
            AtLeastAsRecent(h.copies[m][i], past[h.at][m])
  PROVE  StampInv'
<1>1. \A i \in Jobs : job'[i] = IF i = j THEN h ELSE job[i] BY DEF TypeOK
<1>. QED BY <1>1 DEF StampInv, StampsAreHonest

LEMMA StampNext ==
  TypeOK /\ LedgerInv /\ StampInv /\ [Next]_vars => StampInv'
<1>. SUFFICES ASSUME TypeOK, LedgerInv, StampInv, [Next]_vars PROVE StampInv' OBVIOUS
<1>0. TypeOK' BY TypeNext
<1>. USE DEF Live
<1>1. CASE Tick
  <2>1. /\ now' = now + 1 /\ now \in Nat
        /\ \A t \in 0 .. now : past'[t] = past[t]
        /\ past'[now'] = provider
        /\ UNCHANGED <<provider, job, rows, snaps>>
    BY <1>1 DEF Tick, TypeOK, store, Times
  <2>2. \A r \in Raw : provider[r].volume \in Nat BY DEF TypeOK, Listing
  <2>3. \A j \in Jobs : job[j].at \in 0 .. now BY DEF TypeOK, Job, StampInv, Times
  <2>4. \A m \in DOMAIN rows : rows[m].last \in 0 .. now BY DEF TypeOK, Row, StampInv, Times
  <2>5. \A k \in DOMAIN snaps : k[2] \in 0 .. now BY DEF TypeOK, StampInv, Times
  <2>6. \A t \in 0 .. now', r \in Raw : AtLeastAsRecent(provider'[r], past'[t][r])
    BY <2>1, <2>2 DEF StampInv, AtLeastAsRecent
  <2>7. StampsAreHonest' BY <2>1, <2>4, <2>5 DEF StampInv, StampsAreHonest
  <2>8. \A j \in Jobs : job'[j].at <= now' BY <2>1, <2>3
  <2>9. \A m \in DOMAIN rows' : rows'[m].last <= now' BY <2>1, <2>4
  <2>10. \A k \in DOMAIN snaps' : k[2] <= now' BY <2>1, <2>5
  <2>. QED BY <2>1, <2>3, <2>6, <2>7, <2>8, <2>9, <2>10 DEF StampInv
<1>2. CASE \E r \in Raw : ProviderChanges(r)
  <2>1. PICK r \in Raw : ProviderChanges(r) BY <1>2
  <2>2. \A q \in Raw : AtLeastAsRecent(provider'[q], provider[q])
    <3>1. provider[r] \in Listing BY DEF TypeOK
    <3>2. AtLeastAsRecent(provider'[r], provider[r])
      BY SMTT(30), <2>1, <3>1, BoundsAssumption
         DEF ProviderChanges, AtLeastAsRecent, TypeOK, Listing
    <3>3. ASSUME NEW q \in Raw, q # r PROVE AtLeastAsRecent(provider'[q], provider[q])
      <4>1. provider'[q] = provider[q] /\ provider[q] \in Listing
        BY <2>1, <3>3 DEF ProviderChanges, TypeOK
      <4>. QED BY <4>1 DEF AtLeastAsRecent, Listing
    <3>. QED BY <3>2, <3>3
  <2>3. \A q \in Raw : provider[q] \in Listing /\ provider'[q] \in Listing
    BY <1>0 DEF TypeOK
  <2>4. \A t \in 0 .. now, q \in Raw : past[t][q] \in Listing BY DEF TypeOK
  <2>5. \A a, b, c \in Listing : AtLeastAsRecent(a, b) /\ AtLeastAsRecent(b, c)
                                   => AtLeastAsRecent(a, c)
    BY BoundsAssumption DEF AtLeastAsRecent, Listing
  <2>6. UNCHANGED <<now, job, past, rows, snaps>>
    BY <2>1 DEF ProviderChanges, store, ghosts
  <2>. QED BY <2>2, <2>3, <2>4, <2>5, <2>6 DEF StampInv, StampsAreHonest
<1>3. ASSUME NEW j \in Jobs, NEW mode \in {"poll", "backfill"}, Start(j, mode)
      PROVE  StampInv'
  <2>. DEFINE fresh == [IdleJob EXCEPT !.mode = mode, !.at = now, !.run = Len(runs) + 1,
                                       !.fetches = Fetches(mode)]
  <2>0. /\ now \in Times /\ Len(runs) + 1 \in Nat
        /\ Fetches(mode) \in Seq([filter : {"open", "closed"}, limit : Nat])
    BY FetchesType DEF TypeOK
  <2>1. fresh \in Job /\ fresh.at = now /\ fresh.copies = [m \in Markets |-> <<>>]
    BY <2>0, IdleJobType DEF Job, IdleJob
  <2>2. job' = [job EXCEPT ![j] = NextFetch(fresh)] BY <1>3 DEF Start, StartAs
  <2>. HIDE DEF fresh
  <2>3. /\ NextFetch(fresh) \in Job /\ NextFetch(fresh).at = now
        /\ NextFetch(fresh).copies = [m \in Markets |-> <<>>]
    BY <2>1, NextFetchType
  <2>4. /\ NextFetch(fresh).at <= now
        /\ \A m \in Markets : DOMAIN NextFetch(fresh).copies[m] = {}
    BY <2>0, <2>3 DEF Times
  <2>. DEFINE h == NextFetch(fresh)
  <2>5. h \in Job /\ job' = [job EXCEPT ![j] = h] /\ h.at <= now
        /\ \A m \in Markets : DOMAIN h.copies[m] = {}
    BY <2>2, <2>3, <2>4
  <2>6. UNCHANGED <<now, provider, past, rows, snaps>>
    BY SMTT(30), <1>3 DEF Start, StartAs, ghosts
  <2>. HIDE DEF h
  <2>. QED BY <2>5, <2>6, StampJob
<1>4. ASSUME NEW j \in Jobs, Page(j) PROVE StampInv'
  <2>1. PICK page \in SUBSET Raw, h \in Job :
           /\ job' = [job EXCEPT ![j] = h]
           /\ h.run = job[j].run /\ h.at = job[j].at /\ h.pc \in {"fetch", "save"}
           /\ h.copies = [m \in Markets |->
                IF m \in page THEN Append(job[j].copies[m], provider[m])
                ELSE job[j].copies[m]]
    BY <1>4, PageEffect
  <2>2. job[j].at \in 0 .. now /\ job[j].copies \in [Markets -> Seq(Listing)]
    BY SMTT(30) DEF TypeOK, Job, StampInv, Times
  <2>3. ASSUME NEW m \in Markets, NEW i \in DOMAIN h.copies[m]
        PROVE  AtLeastAsRecent(h.copies[m][i], past[h.at][m])
    <3>1. AtLeastAsRecent(provider[m], past[job[j].at][m])
      BY <2>2 DEF StampInv, Raw
    <3>2. h.copies[m][i] = provider[m] \/
            (i \in DOMAIN job[j].copies[m] /\ h.copies[m][i] = job[j].copies[m][i])
      BY <2>1, <2>2
    <3>. QED BY <2>1, <3>1, <3>2 DEF StampInv
  <2>4. h.at <= now BY <2>1, <2>2
  <2>. QED BY Zenon, <1>4, <2>1, <2>3, <2>4, StampJob DEF Page, store, ghosts
<1>5. ASSUME NEW j \in Jobs, Save(j) PROVE StampInv'
  <2>1. /\ UNCHANGED <<now, provider, past>>
        /\ \A i \in Jobs : job'[i].at = job[i].at /\ job'[i].copies = job[i].copies
    <3>1. UNCHANGED <<now, provider, past>> BY Zenon, <1>5 DEF Save, ghosts
    <3>2. PICK h \in Job : /\ job' = [job EXCEPT ![j] = h]
                           /\ h.at = job[j].at /\ h.copies = job[j].copies
      BY <1>5, WorkEffect, Zenon
    <3>3. job \in [Jobs -> Job] BY DEF TypeOK
    <3>. QED BY <3>1, <3>2, <3>3
  <2>2. job[j] \in Job /\ job[j].at \in 0 .. now BY DEF TypeOK, Job, StampInv, Times
  <2>3. \A m \in Fetched(job[j]) :
          /\ m \in Markets
          /\ AtLeastAsRecent(job[j].copies[m][Len(job[j].copies[m])], past[job[j].at][m])
          /\ AtLeastAsRecent(job[j].copies[m][1], past[job[j].at][m])
    BY <2>2, NewRowsType DEF StampInv
  <2>4. \A m \in DOMAIN rows' : /\ rows'[m].last <= now
                                /\ AtLeastAsRecent(rows'[m].data, past[rows'[m].last][m])
    <3>. SUFFICES ASSUME NEW m \in DOMAIN rows'
                  PROVE  /\ rows'[m].last <= now
                         /\ AtLeastAsRecent(rows'[m].data, past[rows'[m].last][m])
      OBVIOUS
    <3>1. CASE m \in Fetched(job[j])
      <4>1. /\ rows'[m].last = job[j].at
            /\ rows'[m].data = job[j].copies[m][Len(job[j].copies[m])]
        BY <1>5, <3>1, SaveEffect
      <4>. QED BY <2>2, <2>3, <3>1, <4>1
    <3>2. CASE m \notin Fetched(job[j])
      <4>1. m \in DOMAIN rows /\ rows'[m] = rows[m] BY <1>5, <3>2, SaveEffect
      <4>. QED BY <4>1 DEF StampInv, StampsAreHonest
    <3>. QED BY <3>1, <3>2
  <2>5. \A k \in DOMAIN snaps' : /\ k[2] <= now
                                 /\ AtLeastAsRecent(snaps'[k], past[k[2]][k[1]])
    <3>. SUFFICES ASSUME NEW k \in DOMAIN snaps'
                  PROVE  k[2] <= now /\ AtLeastAsRecent(snaps'[k], past[k[2]][k[1]])
      OBVIOUS
    <3>1. CASE k \in DOMAIN snaps
      BY <1>5, <3>1, SaveEffect DEF StampInv, StampsAreHonest
    <3>2. CASE k \notin DOMAIN snaps
      <4>1. k \in Fetched(job[j]) \X {job[j].at} /\ snaps'[k] = job[j].copies[k[1]][1]
        BY ZenonT(60), <1>5, <3>2, SaveEffect
      <4>. QED BY <2>2, <2>3, <4>1
    <3>. QED BY <3>1, <3>2
  <2>. QED BY <2>1, <2>4, <2>5 DEF StampInv, StampsAreHonest
<1>6. ASSUME NEW j \in Jobs, LiveVolume(j) \/ Maintain(j) \/ Fail(j) PROVE StampInv'
  <2>1. \A i \in Jobs : job'[i].at = job[i].at /\ job'[i].copies = job[i].copies
    BY SMTT(30), <1>6, WorkEffect DEF TypeOK
  <2>2. UNCHANGED <<now, provider, past, rows, snaps>>
    BY Zenon, <1>6 DEF LiveVolume, Maintain, Fail, Raise, store, ghosts
  <2>. QED BY <2>1, <2>2 DEF StampInv, StampsAreHonest
<1>7. ASSUME NEW j \in Jobs, FinishOk(j) \/ FinishError(j) \/ Stop(j) PROVE StampInv'
  <2>1. /\ job' = [job EXCEPT ![j] = IdleJob]
        /\ UNCHANGED <<now, provider, past, rows, snaps>>
    BY <1>7 DEF FinishOk, FinishError, FinishRun, Stop, store, ghosts
  <2>2. /\ IdleJob.at = 0 /\ IdleJob.copies = [m \in Markets |-> <<>>] /\ 0 <= now
    BY DEF IdleJob, TypeOK, Times
  <2>. DEFINE h == IdleJob
  <2>3. h \in Job /\ job' = [job EXCEPT ![j] = h] /\ h.at <= now
        /\ \A m \in Markets : DOMAIN h.copies[m] = {}
    BY <2>1, <2>2, IdleJobType
  <2>. HIDE DEF h
  <2>. QED BY <2>1, <2>3, StampJob
<1>8. CASE UNCHANGED vars
  BY <1>8 DEF StampInv, StampsAreHonest, vars, store, ghosts
<1>. QED BY <1>1, <1>2, <1>3, <1>4, <1>5, <1>6, <1>7, <1>8 DEF Next, Step

\* A row or a snapshot stamped t never holds anything older than the provider
\* was at second t: the reason observed_at is read before the fetch.
THEOREM StampsCorrect == Spec => []StampsAreHonest
<1>1. Init => StampInv BY StampInit
<1>2. TypeOK /\ LedgerInv /\ StampInv /\ [Next]_vars => StampInv' BY StampNext
<1>3. StampInv => StampsAreHonest BY DEF StampInv
<1>. QED BY <1>1, <1>2, <1>3, BaseInvariant, PTL DEF Spec

\* The rows of a market and an event cite snapshots, and a job past its bundle
\* transaction has stored all it fetched.
StoredInv == SeenMeansSnapshot /\ FetchedIsPersisted

LEMMA StoredInit == Init => StoredInv
  BY DEF Init, StoredInv, SeenMeansSnapshot, FetchedIsPersisted, IdleJob, EmptyTable

\* Tables that keep their rows keep what the other jobs have stored.
LEMMA StoredJob ==
  ASSUME TypeOK, StoredInv, NEW j \in Jobs, NEW h, job' = [job EXCEPT ![j] = h],
         UNCHANGED <<rows, snaps, events>>,
         h.pc \in {"live", "maintain", "finish"} =>
            /\ job[j].pc \in {"live", "maintain", "finish"}
            /\ h.at = job[j].at /\ h.copies = job[j].copies
  PROVE  StoredInv'
<1>1. \A i \in Jobs : job'[i] = IF i = j THEN h ELSE job[i] BY DEF TypeOK
<1>. QED BY <1>1 DEF StoredInv, SeenMeansSnapshot, FetchedIsPersisted, Fetched

LEMMA StoredSave ==
  ASSUME TypeOK, StoredInv, NEW j \in Jobs, Save(j)
  PROVE  StoredInv'
<1>. DEFINE F == Fetched(job[j])
            at == job[j].at
<1>1. /\ DOMAIN rows' = DOMAIN rows \cup F
      /\ DOMAIN snaps' = DOMAIN snaps \cup (F \X {at})
      /\ \A m \in F : rows'[m].last = at /\ (m \notin DOMAIN rows => rows'[m].first = at)
      /\ \A m \in DOMAIN rows : rows'[m].first = rows[m].first
      /\ \A m \in DOMAIN rows \ F : rows'[m] = rows[m]
      /\ DOMAIN events' = DOMAIN events \cup EventIds(job[j])
      /\ \A e \in EventIds(job[j]) : events'[e].last = at
      /\ \A e \in DOMAIN events \ EventIds(job[j]) : events'[e] = events[e]
  BY SaveEffect
<1>2. PICK h \in Job : /\ job' = [job EXCEPT ![j] = h]
                       /\ h.at = at /\ h.copies = job[j].copies
  BY WorkEffect
<1>3. \A i \in Jobs : job'[i] = IF i = j THEN h ELSE job[i] BY <1>2 DEF TypeOK
<1>4. FetchedIsPersisted'
  <2>. SUFFICES ASSUME NEW i \in Jobs, job'[i].pc \in {"live", "maintain", "finish"},
                       NEW m \in Fetched(job'[i])
                PROVE  m \in DOMAIN rows' /\ <<m, job'[i].at>> \in DOMAIN snaps'
    BY DEF FetchedIsPersisted, Fetched
  <2>1. CASE i = j
    <3>1. m \in F /\ job'[i].at = at BY <1>2, <1>3, <2>1 DEF Fetched
    <3>. QED BY <1>1, <3>1
  <2>2. CASE i # j
    <3>1. job'[i] = job[i] BY <1>3, <2>2
    <3>2. m \in DOMAIN rows /\ <<m, job[i].at>> \in DOMAIN snaps
      BY <3>1 DEF StoredInv, FetchedIsPersisted
    <3>. QED BY <1>1, <3>1, <3>2
  <2>. QED BY <2>1, <2>2
<1>5. \A m \in DOMAIN rows' : <<m, rows'[m].first>> \in DOMAIN snaps'
                           /\ <<m, rows'[m].last>> \in DOMAIN snaps'
  <2>. SUFFICES ASSUME NEW m \in DOMAIN rows'
                PROVE  <<m, rows'[m].first>> \in DOMAIN snaps'
                       /\ <<m, rows'[m].last>> \in DOMAIN snaps'
    BY Zenon
  <2>1. m \in DOMAIN rows => /\ <<m, rows[m].first>> \in DOMAIN snaps
                             /\ <<m, rows[m].last>> \in DOMAIN snaps
    BY DEF StoredInv, SeenMeansSnapshot
  <2>2. m \in F => <<m, at>> \in DOMAIN snaps' BY <1>1
  <2>. HIDE DEF F, at
  <2>. QED BY <1>1, <2>1, <2>2
<1>6. \A e \in DOMAIN events' : \E m \in DOMAIN rows' :
          <<m, events'[e].last>> \in DOMAIN snaps' /\ EventOf[m] = e
  <2>. SUFFICES ASSUME NEW e \in DOMAIN events'
                PROVE  \E m \in DOMAIN rows' :
                         <<m, events'[e].last>> \in DOMAIN snaps' /\ EventOf[m] = e
    OBVIOUS
  <2>1. CASE e \in EventIds(job[j])
    <3>1. PICK m \in F : EventOf[m] = e BY <2>1 DEF EventIds
    <3>2. m \in DOMAIN rows' /\ <<m, at>> \in DOMAIN snaps' BY <1>1, <3>1
    <3>. QED BY <1>1, <2>1, <3>1, <3>2
  <2>2. CASE e \notin EventIds(job[j])
    <3>1. PICK m \in DOMAIN rows : <<m, events[e].last>> \in DOMAIN snaps /\ EventOf[m] = e
      BY <1>1, <2>2 DEF StoredInv, SeenMeansSnapshot
    <3>2. events'[e] = events[e] BY <1>1, <2>2
    <3>. QED BY <1>1, <3>1, <3>2
  <2>. QED BY <2>1, <2>2
<1>. QED BY <1>4, <1>5, <1>6 DEF StoredInv, SeenMeansSnapshot

LEMMA StoredNext == TypeOK /\ StoredInv /\ [Next]_vars => StoredInv'
<1>. SUFFICES ASSUME TypeOK, StoredInv, [Next]_vars PROVE StoredInv' OBVIOUS
<1>1. CASE UNCHANGED <<job, rows, snaps, events>>
  BY <1>1 DEF StoredInv, SeenMeansSnapshot, FetchedIsPersisted
<1>2. ASSUME NEW j \in Jobs, NEW mode \in {"poll", "backfill"}, Start(j, mode)
      PROVE  StoredInv'
  <2>. DEFINE h == NextFetch([IdleJob EXCEPT !.mode = mode, !.at = now,
                              !.run = Len(runs) + 1, !.fetches = Fetches(mode)])
  <2>1. job' = [job EXCEPT ![j] = h] /\ UNCHANGED <<rows, snaps, events>>
    BY <1>2 DEF Start, StartAs
  <2>2. h.pc \in {"fetch", "save"}
    <3>1. [IdleJob EXCEPT !.mode = mode, !.at = now, !.run = Len(runs) + 1,
                          !.fetches = Fetches(mode)] \in Job
      <4>1. /\ now \in Times /\ Len(runs) + 1 \in Nat
            /\ Fetches(mode) \in Seq([filter : {"open", "closed"}, limit : Nat])
        BY FetchesType DEF TypeOK
      <4>. QED BY <4>1, IdleJobType DEF Job
    <3>. QED BY <3>1, NextFetchType
  <2>. HIDE DEF h
  <2>. QED BY <2>1, <2>2, StoredJob
<1>3. ASSUME NEW j \in Jobs, Page(j) PROVE StoredInv'
  <2>1. UNCHANGED <<rows, snaps, events>> BY <1>3 DEF Page, store
  <2>. QED BY <1>3, <2>1, PageEffect, StoredJob
<1>4. ASSUME NEW j \in Jobs, LiveVolume(j) \/ Maintain(j) \/ Fail(j) PROVE StoredInv'
  <2>1. UNCHANGED <<rows, snaps, events>>
    BY Zenon, <1>4 DEF LiveVolume, Maintain, Fail, Raise, store
  <2>2. PICK h \in Job : /\ job' = [job EXCEPT ![j] = h]
                         /\ h.at = job[j].at /\ h.copies = job[j].copies
    BY <1>4, WorkEffect
  <2>3. h.pc \in {"live", "maintain", "finish"} =>
          job[j].pc \in {"live", "maintain", "finish"}
    <3>1. job'[j] = h BY <2>2 DEF TypeOK
    <3>2. job[j].pc \in {"live", "maintain"} \/ job'[j].pc = "fail"
      <4>1. job \in [Jobs -> Job] BY DEF TypeOK
      <4>2. CASE LiveVolume(j) BY Zenon, <4>2 DEF LiveVolume
      <4>3. CASE Maintain(j) BY <4>3 DEF Maintain
      <4>4. CASE Fail(j)
        <5>1. job' = [job EXCEPT ![j] = [job[j] EXCEPT !.pc = "fail"]]
          BY <4>4 DEF Fail, Raise
        <5>. QED BY <4>1, <5>1 DEF Job
      <4>. QED BY <1>4, <4>2, <4>3, <4>4
    <3>. QED BY <3>1, <3>2
  <2>. QED BY <2>1, <2>2, <2>3, StoredJob
<1>5. ASSUME NEW j \in Jobs, FinishOk(j) \/ FinishError(j) \/ Stop(j) PROVE StoredInv'
  <2>. DEFINE h == IdleJob
  <2>1. /\ job' = [job EXCEPT ![j] = h] /\ UNCHANGED <<rows, snaps, events>>
        /\ h.pc = "idle"
    BY <1>5 DEF FinishOk, FinishError, FinishRun, Stop, store, IdleJob
  <2>. HIDE DEF h
  <2>. QED BY <2>1, StoredJob
<1>. QED BY <1>1, <1>2, <1>3, <1>4, <1>5, StoredSave
       DEF Next, Step, Tick, ProviderChanges, vars, store, ghosts

\* A market row's stamps always name snapshots of that market, an event row's
\* last stamp a snapshot of one of its markets.
THEOREM SeenCorrect == Spec => []SeenMeansSnapshot
<1>1. StoredInv => SeenMeansSnapshot BY DEF StoredInv
<1>. QED BY <1>1, StoredInit, StoredNext, BaseInvariant, PTL DEF Spec

\* No job reaches 'ok' without a row and a snapshot for every market it fetched.
THEOREM FetchedStored == Spec => []FetchedIsPersisted
<1>1. StoredInv => FetchedIsPersisted BY DEF StoredInv
<1>. QED BY <1>1, StoredInit, StoredNext, BaseInvariant, PTL DEF Spec
-----------------------------------------------------------------------------
(* The jobs implement RunLedger: the initial states map to initial states,   *)
(* and every step to one step of the ledger or to none.  What the rows of   *)
(* the ledger count adds up to what the history tables hold.                *)

\* The refinement mapping of Ingestion, by name.
Status == [r \in DOMAIN runs |-> runs[r].status]
Held(g) == IF g.pc # "idle" THEN g.run ELSE 0
Holds == [j \in Jobs |-> Held(job[j])]

\* A job that is over holds no run.
LEMMA HeldIdle == Held(IdleJob) = 0
  BY DEF Held, IdleJob

\* A job whose locals change, and no other's.
LEMMA HoldsAfter ==
  ASSUME TypeOK, NEW j \in Jobs, NEW h, job' = [job EXCEPT ![j] = h]
  PROVE  Holds' = [Holds EXCEPT ![j] = Held(h)]
<1>1. job'[j] = h /\ \A i \in Jobs \ {j} : job'[i] = job[i] BY DEF TypeOK
<1>2. Holds' = [i \in Jobs |-> Held(job'[i])] BY DEF Holds, Held
<1>3. [Holds EXCEPT ![j] = Held(h)] = [i \in Jobs |-> IF i = j THEN Held(h) ELSE Held(job[i])]
  BY DEF Holds
<1>4. \A i \in Jobs : Held(job'[i]) = IF i = j THEN Held(h) ELSE Held(job[i])
  BY <1>1
<1>. QED BY <1>2, <1>3, <1>4

LEMMA InitMaps == Init => Status = <<>> /\ Holds = [j \in Jobs |-> 0] /\ lost = {}
  BY DEF Init, Status, Holds, Held, IdleJob

\* Start is the ledger's Begin.
LEMMA StartMaps ==
  ASSUME TypeOK, NEW j \in Jobs, NEW mode \in {"poll", "backfill"}, Start(j, mode)
  PROVE  /\ Holds[j] = 0
         /\ Status' = Append(Status, "running")
         /\ Holds' = [Holds EXCEPT ![j] = Len(Status) + 1]
         /\ UNCHANGED lost
<1>. DEFINE fresh == [IdleJob EXCEPT !.mode = mode, !.at = now, !.run = Len(runs) + 1,
                                     !.fetches = Fetches(mode)]
            run == [mode |-> mode, status |-> "running", markets |-> 0, snapshots |-> 0]
<1>1. Status \in Seq({"running", "ok", "error"}) /\ Len(Status) = Len(runs)
  <2>1. runs \in Seq(Run) /\ DOMAIN runs = 1 .. Len(runs) /\ Len(runs) \in Nat
    BY DEF TypeOK
  <2>2. \A r \in 1 .. Len(runs) : runs[r] \in Run BY <2>1
  <2>3. \A r \in 1 .. Len(runs) : runs[r].status \in {"running", "ok", "error"}
    BY <2>2 DEF Run
  <2>4. Status = [r \in 1 .. Len(runs) |-> runs[r].status] BY <2>1 DEF Status
  <2>. QED BY <2>1, <2>3, <2>4
<1>2. /\ now \in Times /\ Len(runs) + 1 \in Nat
      /\ Fetches(mode) \in Seq([filter : {"open", "closed"}, limit : Nat])
  BY FetchesType DEF TypeOK
<1>3. fresh \in Job /\ fresh.run = Len(runs) + 1
  BY <1>2, IdleJobType DEF Job
<1>4. /\ job' = [job EXCEPT ![j] = NextFetch(fresh)]
      /\ NextFetch(fresh).run = Len(runs) + 1 /\ NextFetch(fresh).pc # "idle"
  BY <1>3, NextFetchType DEF Start, StartAs
<1>5. runs' = Append(runs, run) BY DEF Start, StartAs
<1>6. Status' = Append(Status, "running")
  <2>1. runs \in Seq(Run) /\ Len(runs) \in Nat BY DEF TypeOK
  <2>2. /\ DOMAIN runs' = 1 .. Len(runs) + 1
        /\ \A r \in 1 .. Len(runs) : runs'[r] = runs[r]
        /\ runs'[Len(runs) + 1] = run
    BY <1>5, <2>1
  <2>3. run.status = "running" OBVIOUS
  <2>. HIDE DEF run
  <2>4. Status' = [r \in 1 .. Len(runs) + 1 |-> runs'[r].status] BY <2>2 DEF Status
  <2>5. \A r \in 1 .. Len(runs) : Status[r] = runs[r].status BY <2>1 DEF Status
  <2>6. Status' \in Seq({"running", "ok", "error"}) /\ Len(Status') = Len(runs) + 1
    <3>1. \A r \in 1 .. Len(runs) : Status[r] \in {"running", "ok", "error"} BY <1>1
    <3>2. \A r \in 1 .. Len(runs) + 1 : runs'[r].status \in {"running", "ok", "error"}
      BY <2>1, <2>2, <2>3, <2>5, <3>1
    <3>. QED BY <2>1, <2>4, <3>2
  <2>7. /\ Append(Status, "running") \in Seq({"running", "ok", "error"})
        /\ Len(Append(Status, "running")) = Len(runs) + 1
        /\ \A r \in 1 .. Len(runs) + 1 : Append(Status, "running")[r] = Status'[r]
    BY <1>1, <2>1, <2>2, <2>3, <2>4, <2>5
  <2>. QED BY <2>6, <2>7, SeqEqual
<1>. HIDE DEF fresh
<1>7. Holds' = [Holds EXCEPT ![j] = Len(Status) + 1]
  BY <1>1, <1>4, HoldsAfter DEF Held
<1>. QED BY <1>6, <1>7 DEF Start, StartAs, Holds, Held, ghosts

\* The UPDATE that ends a run is the ledger's End.
LEMMA FinishMaps ==
  ASSUME TypeOK, LedgerInv, NEW j \in Jobs, FinishOk(j) \/ FinishError(j)
  PROVE  \E verdict \in {"ok", "error"} :
           /\ Holds[j] # 0
           /\ Status' = [Status EXCEPT ![Holds[j]] = verdict]
           /\ Holds' = [Holds EXCEPT ![j] = 0]
           /\ UNCHANGED lost
<1>. DEFINE n == job[j].run
<1>1. PICK verdict \in {"ok", "error"}, markets \in Nat, snapshots \in Nat :
        FinishRun(j, verdict, markets, snapshots)
  BY DEF FinishOk, FinishError, TypeOK, Job
<1>2. job[j].pc # "idle" /\ n \in DOMAIN runs /\ n # 0 /\ Holds[j] = n
  <2>1. Live(j) BY DEF Live, FinishOk, FinishError
  <2>2. n \in DOMAIN runs BY <2>1 DEF LedgerInv
  <2>. QED BY <2>1, <2>2 DEF Live, TypeOK, Holds, Held
<1>3. runs \in Seq(Run) /\ runs[n] \in Run BY <1>2 DEF TypeOK
<1>4. [runs[n] EXCEPT !.status = verdict, !.markets = markets,
                      !.snapshots = snapshots].status = verdict
  BY <1>3 DEF Run
<1>. HIDE DEF n
<1>5. /\ DOMAIN runs' = DOMAIN runs /\ runs'[n].status = verdict
      /\ \A r \in DOMAIN runs \ {n} : runs'[r] = runs[r]
  <2>. USE DEF n
  <2>. QED BY <1>1, <1>2, <1>3, <1>4 DEF FinishRun
<1>6. Status' = [Status EXCEPT ![n] = verdict] BY <1>2, <1>5 DEF Status
<1>7. Holds' = [Holds EXCEPT ![j] = 0]
  BY <1>1, HoldsAfter, HeldIdle DEF FinishRun
<1>. QED BY <1>1, <1>2, <1>6, <1>7 DEF FinishRun, ghosts

\* A lost job loses its run with it.
LEMMA StopMaps ==
  ASSUME TypeOK, LedgerInv, NEW j \in Jobs, Stop(j)
  PROVE  /\ Holds[j] # 0
         /\ lost' = lost \cup {Holds[j]}
         /\ Holds' = [Holds EXCEPT ![j] = 0]
         /\ UNCHANGED Status
<1>1. Live(j) BY DEF Live, Stop
<1>2. job[j].run \in DOMAIN runs BY <1>1 DEF LedgerInv
<1>3. Holds[j] = job[j].run /\ Holds[j] # 0 BY <1>1, <1>2 DEF Live, TypeOK, Holds, Held
<1>4. Holds' = [Holds EXCEPT ![j] = 0] BY HoldsAfter, HeldIdle DEF Stop
<1>. QED BY <1>3, <1>4 DEF Stop, Status, store

\* What a job does in between is nothing to the ledger.
LEMMA WorkMaps ==
  ASSUME TypeOK, NEW j \in Jobs,
         Page(j) \/ Save(j) \/ LiveVolume(j) \/ Maintain(j) \/ Fail(j)
  PROVE  UNCHANGED <<Status, Holds, lost>>
<1>1. /\ UNCHANGED <<runs, lost>>
      /\ \E h \in Job : job' = [job EXCEPT ![j] = h] /\ h.run = job[j].run /\ h.pc # "idle"
  <2>2. CASE Page(j) BY ZenonT(60), <2>2, PageEffect DEF Page, store, ghosts
  <2>3. CASE Save(j) \/ LiveVolume(j) \/ Maintain(j) \/ Fail(j)
    BY ZenonT(60), <2>3, WorkEffect DEF Save, LiveVolume, Maintain, Fail, Raise, store, ghosts
  <2>. QED BY <2>2, <2>3
<1>2. job[j].pc # "idle" BY Zenon DEF Page, Save, LiveVolume, Maintain, Fail, Raise
<1>3. PICK h \in Job : job' = [job EXCEPT ![j] = h] /\ h.run = job[j].run /\ h.pc # "idle"
  BY <1>1
<1>4. Held(h) = Holds[j] BY <1>2, <1>3 DEF Held, Holds
<1>5. Holds' = [Holds EXCEPT ![j] = Holds[j]] BY <1>3, <1>4, HoldsAfter
<1>. QED BY <1>1, <1>5 DEF Status, Holds

LEMMA StepMaps == TypeOK /\ LedgerInv /\ [Next]_vars => [Ledger!Next]_(Ledger!ledger)
<1>. SUFFICES ASSUME TypeOK, LedgerInv, [Next]_vars
              PROVE  Ledger!Next \/ UNCHANGED <<Status, Holds, lost>>
  BY DEF Ledger!ledger, Status, Holds, Held, Live
<1>1. CASE Tick BY <1>1 DEF Tick, store, Status, Holds
<1>2. CASE \E r \in Raw : ProviderChanges(r)
  BY <1>2 DEF ProviderChanges, store, ghosts, Status, Holds
<1>3. ASSUME NEW j \in Jobs, Start(j, "poll") \/ Start(j, "backfill")
      PROVE  Ledger!Begin(j)
  BY <1>3, StartMaps DEF Ledger!Begin, Status, Holds, Held, Live
<1>4. ASSUME NEW j \in Jobs, FinishOk(j) \/ FinishError(j)
      PROVE  \E verdict \in {"ok", "error"} : Ledger!End(j, verdict)
  BY <1>4, FinishMaps DEF Ledger!End, Status, Holds, Held, Live
<1>5. ASSUME NEW j \in Jobs, Stop(j)
      PROVE  Ledger!Lose(j)
  BY <1>5, StopMaps DEF Ledger!Lose, Status, Holds, Held, Live
<1>6. CASE UNCHANGED vars BY <1>6 DEF vars, store, ghosts, Status, Holds
<1>7. ASSUME NEW j \in Jobs, Start(j, "poll") \/ Start(j, "backfill") \/ Step(j) \/ Stop(j)
      PROVE  Ledger!Next \/ UNCHANGED <<Status, Holds, lost>>
  BY <1>3, <1>4, <1>5, <1>7, WorkMaps DEF Step, Ledger!Next
<1>. QED BY <1>1, <1>2, <1>6, <1>7 DEF Next

\* Polls and backfills, however they overlap, fail or are lost, use the ledger
\* as RunLedger has it (Repository.start_run and finish_run): one row begun by
\* each, ended once by the same job or lost with it.
THEOREM IngestionImplementsLedger == Spec => ImplementsLedger
<1>1. Init => Ledger!Init
  BY InitMaps DEF Ledger!Init, Status, Holds, Held, Live
<1>2. TypeOK /\ LedgerInv /\ [Next]_vars => [Ledger!Next]_(Ledger!ledger)
  BY StepMaps
<1>. QED BY <1>1, <1>2, BaseInvariant, PTL DEF Spec, ImplementsLedger, Ledger!Spec
-----------------------------------------------------------------------------
(* Every stored snapshot is counted once. *)

\* What the two sums of SnapshotsCountedOnce add up, and the rows they count.
RowCounts == [r \in DOMAIN runs |-> runs[r].snapshots]
JobCounts == [j \in Jobs |-> job[j].snapshots]
Counted   == Sum(RowCounts, DOMAIN runs) + Sum(JobCounts, Jobs)
Stored    == Cardinality(DOMAIN snaps) + Cardinality(evols)

NothingLost == lost = {} /\ \A r \in DOMAIN runs : runs[r].status # "error"

\* The count of a job is in its locals until its UPDATE puts it into its row,
\* and is set, not added to, by the bundle transaction: nothing came before it.
CountInv ==
    /\ \A j \in Jobs : job[j].pc \in {"idle", "fetch", "save"} => job[j].snapshots = 0
    /\ \A r \in DOMAIN runs : runs[r].status = "running" => runs[r].snapshots = 0
    /\ Counted <= Stored
    /\ NothingLost => Counted = Stored

\* The sums of the property are those of SumTheorems.
LEMMA CountedIs ==
  /\ MapThenSumSet(LAMBDA r : runs[r].snapshots, DOMAIN runs) = Sum(RowCounts, DOMAIN runs)
  /\ MapThenSumSet(LAMBDA j : job[j].snapshots, Jobs) = Sum(JobCounts, Jobs)
<1>1. MapThenSumSet(LAMBDA r : runs[r].snapshots, DOMAIN runs) = Sum(RowCounts, DOMAIN runs)
  BY Zenon DEF Sum, MapThenSumSet, MapThenFoldSet, RowCounts
<1>2. MapThenSumSet(LAMBDA j : job[j].snapshots, Jobs) = Sum(JobCounts, Jobs)
  BY Zenon DEF Sum, MapThenSumSet, MapThenFoldSet, JobCounts
<1>. QED BY <1>1, <1>2

\* The history tables are finite.
LEMMA TablesFinite ==
  ASSUME TypeOK
  PROVE  IsFiniteSet(DOMAIN snaps) /\ IsFiniteSet(evols)
<1>1. IsFiniteSet(Markets) BY MarketsAssumption, FS_Subset DEF Raw
<1>2. IsFiniteSet(Events) BY EventsAssumption
<1>3. IsFiniteSet(Times) BY BoundsAssumption, FS_Interval DEF Times
<1>4. IsFiniteSet(Markets \X Times) BY <1>1, <1>3, FS_Product
<1>5. IsFiniteSet(DOMAIN snaps) BY <1>4, FS_Subset DEF TypeOK
<1>6. IsFiniteSet((Events \X Markets) \X Times) BY <1>1, <1>2, <1>3, FS_Product
<1>. DEFINE pair == [k \in evols |-> <<<<k[1], k[2]>>, k[3]>>]
<1>7. pair \in Injection(evols, (Events \X Markets) \X Times)
  <2>1. evols \subseteq Events \X Markets \X Times BY DEF TypeOK
  <2>2. \A k \in evols : k = <<k[1], k[2], k[3]>> BY <2>1
  <2>. QED BY <2>1, <2>2 DEF Injection, IsInjective
<1>. QED BY <1>5, <1>6, <1>7, FS_Injection

\* The sums are over finite sets of numbers.
LEMMA SumsTyped ==
  ASSUME TypeOK
  PROVE  /\ IsFiniteSet(Jobs) /\ IsFiniteSet(DOMAIN runs)
         /\ \A r \in DOMAIN runs : RowCounts[r] \in Nat
         /\ \A j \in Jobs : JobCounts[j] \in Nat
         /\ Sum(RowCounts, DOMAIN runs) \in Nat /\ Sum(JobCounts, Jobs) \in Nat
         /\ Cardinality(DOMAIN snaps) \in Nat /\ Cardinality(evols) \in Nat
<1>1. IsFiniteSet(Jobs) BY JobsAssumption
<1>2. IsFiniteSet(DOMAIN runs)
  <2>1. DOMAIN runs = 1 .. Len(runs) /\ Len(runs) \in Nat BY DEF TypeOK
  <2>. QED BY <2>1, FS_Interval
<1>3. \A r \in DOMAIN runs : RowCounts[r] \in Nat
  <2>1. \A r \in DOMAIN runs : runs[r] \in Run BY DEF TypeOK
  <2>. QED BY <2>1 DEF RowCounts, Run
<1>4. \A j \in Jobs : JobCounts[j] \in Nat
  <2>1. \A j \in Jobs : job[j] \in Job BY DEF TypeOK
  <2>. QED BY <2>1 DEF JobCounts, Job
<1>5. Sum(RowCounts, DOMAIN runs) \in Nat BY <1>2, <1>3, SumType
<1>6. Sum(JobCounts, Jobs) \in Nat BY <1>1, <1>4, SumType
<1>7. Cardinality(DOMAIN snaps) \in Nat /\ Cardinality(evols) \in Nat
  BY TablesFinite, FS_CardinalityType
<1>. QED BY <1>1, <1>2, <1>3, <1>4, <1>5, <1>6, <1>7

\* Rows added to a finite set of keys.
LEMMA CardinalityAdds ==
  ASSUME NEW S, IsFiniteSet(S), NEW T, IsFiniteSet(T \ S)
  PROVE  Cardinality(S \cup T) = Cardinality(S) + Cardinality(T \ S)
<1>1. S \cup T = S \cup (T \ S) /\ S \cap (T \ S) = {} OBVIOUS
<1>2. Cardinality(S \cap (T \ S)) = 0 BY <1>1, FS_EmptySet
<1>3. Cardinality(S) \in Nat /\ Cardinality(T \ S) \in Nat BY FS_CardinalityType
<1>4. Cardinality(S \cup (T \ S))
        = Cardinality(S) + Cardinality(T \ S) - Cardinality(S \cap (T \ S))
  BY FS_Union
<1>. QED BY <1>1, <1>2, <1>3, <1>4

\* A job counts as many rows as its transaction has stored, perhaps none.
LEMMA CountWork ==
  ASSUME TypeOK, CountInv, NEW j \in Jobs, NEW d \in Nat,
         UNCHANGED <<runs, lost>>,
         job'[j].snapshots = job[j].snapshots + d,
         job'[j].pc \in {"idle", "fetch", "save"} => job'[j].snapshots = 0,
         \A i \in Jobs \ {j} : job'[i] = job[i],
         Stored' = Stored + d
  PROVE  CountInv'
<1>1. /\ IsFiniteSet(Jobs) /\ \A i \in Jobs : JobCounts[i] \in Nat
      /\ Sum(RowCounts, DOMAIN runs) \in Nat /\ Sum(JobCounts, Jobs) \in Nat
      /\ Cardinality(DOMAIN snaps) \in Nat /\ Cardinality(evols) \in Nat
  BY SumsTyped
<1>2. /\ JobCounts'[j] = JobCounts[j] + d
      /\ \A i \in Jobs \ {j} : JobCounts'[i] = JobCounts[i]
  BY DEF JobCounts
<1>3. \A i \in Jobs : JobCounts'[i] \in Nat BY <1>1, <1>2
<1>4. Sum(JobCounts', Jobs) + JobCounts[j] = Sum(JobCounts, Jobs) + JobCounts'[j]
  BY <1>1, <1>2, <1>3, SumChange
<1>5. Sum(JobCounts', Jobs) \in Nat BY <1>1, <1>3, SumType
<1>6. Sum(JobCounts', Jobs) = Sum(JobCounts, Jobs) + d BY <1>1, <1>2, <1>4, <1>5
<1>7. Counted' = Counted + d
  <2>1. RowCounts' = RowCounts BY DEF RowCounts
  <2>2. Counted' = Sum(RowCounts, DOMAIN runs) + Sum(JobCounts', Jobs)
    BY <2>1 DEF Counted
  <2>. QED BY <1>1, <1>6, <2>2 DEF Counted
<1>8. Counted \in Nat /\ Stored \in Nat BY <1>1 DEF Counted, Stored
<1>9. NothingLost' <=> NothingLost BY DEF NothingLost
<1>10. \A i \in Jobs : job'[i].pc \in {"idle", "fetch", "save"} => job'[i].snapshots = 0
  BY DEF CountInv
<1>. QED BY <1>7, <1>8, <1>9, <1>10 DEF CountInv

\* Neither table gains a row, nor any job a count.
LEMMA CountSame ==
  ASSUME CountInv, UNCHANGED <<runs, lost, job, snaps, evols>>
  PROVE  CountInv'
  BY DEF CountInv, Counted, Stored, RowCounts, JobCounts, NothingLost

\* The bundle transaction: the rows that were there are not counted.
LEMMA CountSave ==
  ASSUME TypeOK, CountInv, NEW j \in Jobs, Save(j)
  PROVE  CountInv'
<1>. DEFINE g == job[j]
            new == DOMAIN NewSnaps(g) \ DOMAIN snaps
<1>1. /\ DOMAIN snaps' = DOMAIN snaps \cup DOMAIN NewSnaps(g)
      /\ UNCHANGED <<runs, lost, evols>>
  BY Zenon DEF Save, InsertOrIgnore, ghosts
<1>2. /\ job'[j].snapshots = Cardinality(new)
      /\ job'[j].pc \in {"maintain", "live"}
      /\ \A i \in Jobs \ {j} : job'[i] = job[i]
  <2>1. PICK todo \in SUBSET EventIds(g) :
          job' = [job EXCEPT ![j].pc = IF todo = {} THEN "maintain" ELSE "live",
                             ![j].todo = todo,
                             ![j].snapshots = Inserted(snaps, NewSnaps(g))]
    BY Zenon DEF Save
  <2>2. g \in Job BY DEF TypeOK
  <2>. QED BY ZenonT(60), <2>1, <2>2 DEF TypeOK, Job, Inserted
<1>3. g.snapshots = 0 BY Zenon DEF CountInv, Save
<1>4. Cardinality(new) \in Nat /\ IsFiniteSet(new)
  <2>1. IsFiniteSet(DOMAIN NewSnaps(g))
    <3>1. IsFiniteSet(Markets) BY MarketsAssumption, FS_Subset DEF Raw
    <3>2. IsFiniteSet(Fetched(g)) BY <3>1, FS_Subset DEF Fetched
    <3>3. IsFiniteSet(Fetched(g) \X {g.at}) BY <3>2, FS_Singleton, FS_Product
    <3>. QED BY <3>3 DEF NewSnaps
  <2>. QED BY <2>1, FS_Subset, FS_CardinalityType
<1>5. IsFiniteSet(DOMAIN snaps) BY TablesFinite
<1>6. Cardinality(DOMAIN snaps') = Cardinality(DOMAIN snaps) + Cardinality(new)
  BY <1>1, <1>4, <1>5, CardinalityAdds
<1>7. Stored' = Stored + Cardinality(new)
  BY <1>1, <1>4, <1>6, SumsTyped DEF Stored
<1>8. job'[j].snapshots = g.snapshots + Cardinality(new) BY <1>2, <1>3, <1>4
<1>. HIDE DEF new
<1>. QED BY <1>1, <1>2, <1>4, <1>7, <1>8, CountWork

\* One event's volumes: the same.
LEMMA CountVolume ==
  ASSUME TypeOK, CountInv, NEW j \in Jobs, LiveVolume(j)
  PROVE  CountInv'
<1>. DEFINE g == job[j]
<1>1. PICK e \in g.todo, ms \in SUBSET Markets :
        /\ evols' = evols \cup VolumeKeys(e, ms, g.at)
        /\ job' = [job EXCEPT
              ![j].todo = @ \ {e},
              ![j].pc = IF g.todo = {e} THEN "maintain" ELSE "live",
              ![j].snapshots = @ + Cardinality(VolumeKeys(e, ms, g.at) \ evols)]
  <2>1. PICK e \in g.todo : \E ms \in SUBSET {m \in Markets : EventOf[m] = e} :
        /\ evols' = evols \cup VolumeKeys(e, ms, g.at)
        /\ job' = [job EXCEPT
              ![j].todo = @ \ {e},
              ![j].pc = IF g.todo = {e} THEN "maintain" ELSE "live",
              ![j].snapshots = @ + Cardinality(VolumeKeys(e, ms, g.at) \ evols)]
    BY Zenon DEF LiveVolume
  <2>. QED BY Zenon, <2>1
<1>. DEFINE new == VolumeKeys(e, ms, g.at) \ evols
<1>2. /\ job'[j].snapshots = g.snapshots + Cardinality(new)
      /\ job'[j].pc \in {"maintain", "live"}
      /\ \A i \in Jobs \ {j} : job'[i] = job[i]
  <2>1. g \in Job BY DEF TypeOK
  <2>. QED BY Zenon, <1>1, <2>1 DEF TypeOK, Job
<1>3. UNCHANGED <<runs, lost, snaps>> BY Zenon DEF LiveVolume, ghosts
<1>4. Cardinality(new) \in Nat BY VolumeKeysType
<1>5. IsFiniteSet(new)
  <2>1. IsFiniteSet(Markets) BY MarketsAssumption, FS_Subset DEF Raw
  <2>2. [k \in new |-> k[2]] \in Injection(new, Markets)
    BY DEF VolumeKeys, Injection, IsInjective
  <2>. QED BY <2>1, <2>2, FS_Injection
<1>6. Cardinality(evols') = Cardinality(evols) + Cardinality(new)
  BY Zenon, <1>1, <1>5, TablesFinite, CardinalityAdds
<1>7. Stored' = Stored + Cardinality(new)
  BY <1>3, <1>4, <1>6, SumsTyped DEF Stored
<1>. HIDE DEF new
<1>. QED BY <1>2, <1>3, <1>4, <1>7, CountWork

\* A page, a maintenance pass and an error store nothing and count nothing.
LEMMA CountOther ==
  ASSUME TypeOK, CountInv, NEW j \in Jobs, Page(j) \/ Maintain(j) \/ Fail(j)
  PROVE  CountInv'
<1>0. job[j] \in Job BY SMTT(30) DEF TypeOK
<1>1. UNCHANGED <<runs, lost, snaps, evols>>
  BY Zenon DEF Page, Maintain, Fail, Raise, store, ghosts
<1>2. /\ job'[j].snapshots = job[j].snapshots
      /\ job'[j].pc \in {"idle", "fetch", "save"} => job'[j].snapshots = 0
      /\ \A i \in Jobs \ {j} : job'[i] = job[i]
  <2>1. CASE Maintain(j) BY <1>0, <2>1 DEF Maintain, TypeOK, Job
  <2>2. CASE Fail(j) BY <1>0, <2>2 DEF Fail, Raise, TypeOK, Job
  <2>3. CASE Page(j)
    <3>1. job[j].snapshots = 0 BY ZenonT(60), <2>3 DEF CountInv, Page
    <3>. DEFINE got(page, more) == [job[j] EXCEPT
                  !.left = job[j].left - Cardinality(page), !.cursor = more,
                  !.bundles = @ + Cardinality(page \cap Markets),
                  !.copies = [m \in Markets |->
                     IF m \in page THEN Append(@[m], provider[m]) ELSE @[m]]]
    <3>2. PICK page \in SUBSET Raw, more \in BOOLEAN :
             job' = [job EXCEPT ![j] =
                  IF KeepsAsking(page, more, job[j].left - Cardinality(page))
                  THEN got(page, more) ELSE NextFetch(got(page, more))]
      BY Zenon, <2>3 DEF Page
    <3>3. /\ got(page, more).snapshots = job[j].snapshots
          /\ "snapshots" \in DOMAIN got(page, more)
      BY <1>0 DEF Job
    <3>. HIDE DEF got
    <3>4. NextFetch(got(page, more)).snapshots = got(page, more).snapshots
      BY <3>3 DEF NextFetch
    <3>5. /\ job'[j] = got(page, more) \/ job'[j] = NextFetch(got(page, more))
          /\ \A i \in Jobs \ {j} : job'[i] = job[i]
      BY <3>2 DEF TypeOK
    <3>. QED BY SMTT(30), <3>1, <3>3, <3>4, <3>5
  <2>. QED BY <2>1, <2>2, <2>3
<1>3. Stored' = Stored + 0 BY <1>1, SumsTyped DEF Stored
<1>4. job[j].snapshots + 0 = job[j].snapshots BY <1>0 DEF Job
<1>. QED BY <1>1, <1>2, <1>3, <1>4, CountWork

\* A new run has counted nothing.
LEMMA CountStart ==
  ASSUME TypeOK, CountInv, NEW j \in Jobs, NEW mode \in {"poll", "backfill"}, Start(j, mode)
  PROVE  CountInv'
<1>. DEFINE fresh == [IdleJob EXCEPT !.mode = mode, !.at = now, !.run = Len(runs) + 1,
                                     !.fetches = Fetches(mode)]
            row == [mode |-> mode, status |-> "running", markets |-> 0, snapshots |-> 0]
            n == Len(runs) + 1
            D == DOMAIN runs
<1>1. /\ runs' = Append(runs, row) /\ UNCHANGED <<snaps, evols, lost>>
      /\ job' = [job EXCEPT ![j] = NextFetch(fresh)]
      /\ job[j].pc = "idle"
  BY DEF Start, StartAs, ghosts
<1>2. /\ row \in Run /\ row.snapshots = 0 /\ row.status = "running" BY DEF Run
<1>3. NextFetch(fresh).snapshots = 0
  <2>1. fresh.snapshots = 0 /\ "snapshots" \in DOMAIN fresh BY DEF IdleJob
  <2>. HIDE DEF fresh
  <2>. QED BY <2>1 DEF NextFetch
<1>. HIDE DEF fresh, row
<1>4. runs \in Seq(Run) /\ n \notin D BY DEF TypeOK
<1>5. /\ DOMAIN runs' = D \cup {n} /\ runs'[n] = row
      /\ \A r \in D : runs'[r] = runs[r]
  BY <1>1, <1>2, <1>4
<1>. HIDE DEF n
<1>6. /\ IsFiniteSet(D) /\ \A r \in D : RowCounts[r] \in Nat
      /\ Sum(RowCounts, D) \in Nat
  BY SumsTyped
<1>7. RowCounts'[n] = 0 /\ \A r \in D : RowCounts'[r] = RowCounts[r]
  BY <1>2, <1>5 DEF RowCounts
<1>. HIDE DEF D
<1>8. Sum(RowCounts', D \cup {n}) = Sum(RowCounts, D)
  <2>1. \A r \in D \cup {n} : RowCounts'[r] \in Nat BY <1>6, <1>7
  <2>2. Sum(RowCounts', D \cup {n}) = Sum(RowCounts', D) + RowCounts'[n]
    BY <1>4, <1>6, <2>1, SumAdd
  <2>3. Sum(RowCounts', D) = Sum(RowCounts, D) BY <1>6, <1>7, SumSame
  <2>. QED BY <1>6, <1>7, <2>2, <2>3
<1>9. \A i \in Jobs : /\ job'[i].snapshots = job[i].snapshots
                      /\ i # j => job'[i] = job[i]
                      /\ i = j => job'[i].snapshots = 0
  <2>1. job[j].snapshots = 0 BY <1>1 DEF CountInv
  <2>. QED BY <1>1, <1>3, <2>1 DEF TypeOK
<1>10. JobCounts' = JobCounts BY <1>9 DEF JobCounts
<1>11. Counted' = Counted BY <1>5, <1>8, <1>10 DEF Counted, D
<1>12. Stored' = Stored BY <1>1 DEF Stored
<1>13. NothingLost' => NothingLost BY <1>1, <1>5 DEF NothingLost, D
<1>14. \A r \in DOMAIN runs' : runs'[r].status = "running" => runs'[r].snapshots = 0
  BY <1>2, <1>5 DEF CountInv, D
<1>15. \A i \in Jobs : job'[i].pc \in {"idle", "fetch", "save"} => job'[i].snapshots = 0
  BY <1>9 DEF CountInv
<1>. QED BY <1>11, <1>12, <1>13, <1>14, <1>15 DEF CountInv

\* The UPDATE of a job that succeeded takes its count into its row.
LEMMA CountFinish ==
  ASSUME TypeOK, LedgerInv, CountInv, NEW j \in Jobs, FinishOk(j)
  PROVE  CountInv'
<1>. DEFINE n == job[j].run
            D == DOMAIN runs
<1>1. /\ runs' = [runs EXCEPT ![n] = [runs[n] EXCEPT !.status = "ok",
                     !.markets = job[j].bundles, !.snapshots = job[j].snapshots]]
      /\ job' = [job EXCEPT ![j] = IdleJob]
      /\ UNCHANGED <<snaps, evols, lost>>
  BY DEF FinishOk, FinishRun, ghosts
<1>2. n \in D /\ runs[n].status = "running" /\ runs[n].snapshots = 0
  BY DEF LedgerInv, RunningRowsAccounted, CountInv, FinishOk, Live
<1>3. /\ DOMAIN runs' = D /\ runs'[n].snapshots = job[j].snapshots
      /\ runs'[n].status = "ok"
      /\ \A r \in D \ {n} : runs'[r] = runs[r]
  <2>1. runs[n] \in Run BY <1>2 DEF TypeOK
  <2>. QED BY <1>1, <1>2, <2>1 DEF TypeOK, Run
<1>4. /\ job'[j].snapshots = 0 /\ \A i \in Jobs \ {j} : job'[i] = job[i]
  BY <1>1 DEF TypeOK, IdleJob
<1>5. /\ IsFiniteSet(D) /\ IsFiniteSet(Jobs)
      /\ \A r \in D : RowCounts[r] \in Nat
      /\ \A i \in Jobs : JobCounts[i] \in Nat
      /\ Sum(RowCounts, D) \in Nat /\ Sum(JobCounts, Jobs) \in Nat
  BY SumsTyped
<1>6. /\ RowCounts[n] = 0 /\ RowCounts'[n] = JobCounts[j]
      /\ \A r \in D \ {n} : RowCounts'[r] = RowCounts[r]
      /\ JobCounts'[j] = 0 /\ \A i \in Jobs \ {j} : JobCounts'[i] = JobCounts[i]
  BY <1>2, <1>3, <1>4 DEF RowCounts, JobCounts
<1>. HIDE DEF n, D
<1>7. Sum(RowCounts', D) = Sum(RowCounts, D) + JobCounts[j]
  <2>1. \A r \in D : RowCounts'[r] \in Nat BY <1>5, <1>6
  <2>2. Sum(RowCounts', D) + RowCounts[n] = Sum(RowCounts, D) + RowCounts'[n]
    BY <1>2, <1>5, <1>6, <2>1, SumChange
  <2>3. Sum(RowCounts', D) \in Nat BY <1>5, <2>1, SumType
  <2>. QED BY <1>5, <1>6, <2>2, <2>3
<1>8. /\ Sum(JobCounts', Jobs) + JobCounts[j] = Sum(JobCounts, Jobs)
      /\ Sum(JobCounts', Jobs) \in Nat
  <2>1. \A i \in Jobs : JobCounts'[i] \in Nat BY <1>5, <1>6
  <2>2. Sum(JobCounts', Jobs) + JobCounts[j] = Sum(JobCounts, Jobs) + JobCounts'[j]
    BY <1>5, <1>6, <2>1, SumChange
  <2>3. Sum(JobCounts', Jobs) \in Nat BY <1>5, <2>1, SumType
  <2>. QED BY <1>5, <1>6, <2>2, <2>3
<1>9. Counted' = Counted
  <2>1. Counted' = Sum(RowCounts', D) + Sum(JobCounts', Jobs) BY <1>3 DEF Counted
  <2>2. Counted = Sum(RowCounts, D) + Sum(JobCounts, Jobs) BY DEF Counted, D
  <2>. QED BY <1>5, <1>7, <1>8, <2>1, <2>2
<1>10. Stored' = Stored BY <1>1 DEF Stored
<1>11. NothingLost' => NothingLost
  BY <1>1, <1>2, <1>3 DEF NothingLost, D
<1>12. \A r \in DOMAIN runs' : runs'[r].status = "running" => runs'[r].snapshots = 0
  BY <1>3 DEF CountInv, D
<1>13. \A i \in Jobs : job'[i].pc \in {"idle", "fetch", "save"} => job'[i].snapshots = 0
  BY <1>4 DEF CountInv
<1>. QED BY <1>9, <1>10, <1>11, <1>12, <1>13 DEF CountInv

\* A job that failed or was lost takes its count with it: what it had stored
\* stays, counted by nobody, and the ledger says that something is missing.
LEMMA CountLost ==
  ASSUME TypeOK, LedgerInv, CountInv, NEW j \in Jobs, FinishError(j) \/ Stop(j)
  PROVE  CountInv'
<1>. DEFINE n == job[j].run
            D == DOMAIN runs
<1>1. /\ job' = [job EXCEPT ![j] = IdleJob] /\ UNCHANGED <<snaps, evols>>
      /\ n \in D /\ runs[n].status = "running" /\ runs[n].snapshots = 0
      /\ runs[n] \in Run
  BY DEF FinishError, FinishRun, Stop, store, LedgerInv, RunningRowsAccounted, CountInv,
         Live, TypeOK
<1>2. /\ DOMAIN runs' = D /\ \A r \in D \ {n} : runs'[r] = runs[r]
      /\ runs'[n].snapshots = 0
      /\ ~NothingLost'
  <2>1. CASE FinishError(j)
    <3>1. runs' = [runs EXCEPT ![n] = [runs[n] EXCEPT !.status = "error",
                      !.markets = 0, !.snapshots = 0]]
      BY <2>1 DEF FinishError, FinishRun
    <3>2. /\ DOMAIN runs' = D /\ \A r \in D \ {n} : runs'[r] = runs[r]
          /\ runs'[n].snapshots = 0 /\ runs'[n].status = "error"
      BY <1>1, <3>1 DEF TypeOK, Run
    <3>. QED BY <1>1, <3>2 DEF NothingLost
  <2>2. CASE Stop(j)
    <3>1. runs' = runs /\ lost' # {} BY <2>2 DEF Stop, store
    <3>. QED BY <1>1, <3>1 DEF NothingLost
  <2>. QED BY <2>1, <2>2
<1>3. job'[j].snapshots = 0 /\ \A i \in Jobs \ {j} : job'[i] = job[i]
  BY <1>1 DEF TypeOK, IdleJob
<1>4. /\ IsFiniteSet(D) /\ IsFiniteSet(Jobs)
      /\ \A i \in Jobs : JobCounts[i] \in Nat
      /\ Sum(RowCounts, D) \in Nat /\ Sum(JobCounts, Jobs) \in Nat
      /\ Cardinality(DOMAIN snaps) \in Nat /\ Cardinality(evols) \in Nat
  BY SumsTyped
<1>5. RowCounts' = RowCounts
  <2>1. \A r \in D : runs'[r].snapshots = runs[r].snapshots BY <1>1, <1>2
  <2>. QED BY <1>2, <2>1 DEF RowCounts
<1>6. JobCounts'[j] = 0 /\ \A i \in Jobs \ {j} : JobCounts'[i] = JobCounts[i]
  BY <1>3 DEF JobCounts
<1>. HIDE DEF n, D
<1>7. /\ Sum(JobCounts', Jobs) <= Sum(JobCounts, Jobs)
      /\ Sum(JobCounts', Jobs) \in Nat
  <2>1. \A i \in Jobs : JobCounts'[i] \in Nat BY <1>4, <1>6
  <2>2. Sum(JobCounts', Jobs) + JobCounts[j] = Sum(JobCounts, Jobs) + JobCounts'[j]
    BY <1>4, <1>6, <2>1, SumChange
  <2>3. Sum(JobCounts', Jobs) \in Nat BY <1>4, <2>1, SumType
  <2>. QED BY <1>4, <1>6, <2>2, <2>3
<1>8. Counted' <= Stored'
  <2>1. Counted' = Sum(RowCounts, D) + Sum(JobCounts', Jobs) BY <1>2, <1>5 DEF Counted
  <2>2. Sum(RowCounts, D) + Sum(JobCounts, Jobs) <= Stored BY DEF CountInv, Counted, D
  <2>3. Stored' = Stored /\ Stored \in Nat BY <1>1, <1>4 DEF Stored
  <2>. QED BY <1>4, <1>7, <2>1, <2>2, <2>3
<1>9. \A r \in DOMAIN runs' : runs'[r].status = "running" => runs'[r].snapshots = 0
  BY <1>2 DEF CountInv, D
<1>10. \A i \in Jobs : job'[i].pc \in {"idle", "fetch", "save"} => job'[i].snapshots = 0
  BY <1>3 DEF CountInv
<1>. QED BY <1>2, <1>8, <1>9, <1>10 DEF CountInv

\* Every step of the jobs and of their environment.
LEMMA CountNext == TypeOK /\ LedgerInv /\ CountInv /\ [Next]_vars => CountInv'
<1>. SUFFICES ASSUME TypeOK, LedgerInv, CountInv, [Next]_vars PROVE CountInv' OBVIOUS
<1>1. CASE Tick \/ (\E r \in Raw : ProviderChanges(r)) \/ UNCHANGED vars
  BY <1>1, CountSame DEF Tick, ProviderChanges, vars, store, ghosts
<1>2. ASSUME NEW j \in Jobs, Start(j, "poll") \/ Start(j, "backfill") \/ Step(j) \/ Stop(j)
      PROVE  CountInv'
  BY <1>2, CountStart, CountSave, CountVolume, CountOther, CountFinish, CountLost DEF Step
<1>. QED BY <1>1, <1>2 DEF Next

\* No snapshot or volume row is counted by two jobs, however the seconds they
\* stamp their rows with collide, and when no job failed or was lost every row
\* is counted (the counts that poll_once and backfill_markets add up and
\* finish_run records).
THEOREM CountedOnce == Spec => []SnapshotsCountedOnce
<1>1. Init => CountInv
  <2>. SUFFICES ASSUME Init PROVE CountInv OBVIOUS
  <2>1. \A j \in Jobs : job[j].snapshots = 0 BY DEF Init, IdleJob
  <2>2. DOMAIN runs = {} /\ DOMAIN snaps = {} /\ evols = {} BY DEF Init, EmptyTable
  <2>3. Sum(RowCounts, DOMAIN runs) = 0 BY <2>2, SumEmpty
  <2>4. Sum(JobCounts, Jobs) = 0
    <3>1. \A j \in Jobs : JobCounts[j] = 0 BY <2>1 DEF JobCounts
    <3>. QED BY <3>1, JobsAssumption, SumZero
  <2>5. Stored = 0 BY <2>2, FS_EmptySet DEF Stored
  <2>. QED BY <2>1, <2>2, <2>3, <2>4, <2>5 DEF CountInv, Counted
<1>2. CountInv => SnapshotsCountedOnce
  BY CountedIs DEF CountInv, Counted, Stored, NothingLost, SnapshotsCountedOnce
<1>. QED BY <1>1, <1>2, CountNext, BaseInvariant, PTL DEF Spec
-----------------------------------------------------------------------------
(* What a backfill fetches. *)

\* Of the markets listed when the job began, those it has not fetched yet have
\* closed; or it has fetched all of them.
Kept(g) == \A m \in Markets : past[g.at][m].status # "unlisted" =>
             m \in Fetched(g) \/ provider[m].status = "closed"
Have(g) == \A m \in Markets : past[g.at][m].status # "unlisted" => m \in Fetched(g)

\* The fetch of the active markets leaves only closed ones to fetch, and the
\* first page of a fetch has its whole limit left.
BackfillOf(g) ==
    /\ g.at \in 0 .. now
    /\ g.pc = "fetch" /\ g.filter = "open" =>
          /\ g.fetches = <<[filter |-> "closed", limit |-> ClosedLimit]>>
          /\ IF g.cursor THEN Kept(g) ELSE g.left = ActiveLimit
    /\ g.pc = "fetch" /\ g.filter = "closed" =>
          /\ g.fetches = <<>> /\ Kept(g)
          /\ IF g.cursor THEN Have(g) ELSE g.left = ClosedLimit
    /\ g.pc \notin {"idle", "fetch", "fail"} => Have(g)

\* The same of every backfill; and what was listed once stays listed.
BackfillInv ==
    /\ \A t \in 0 .. now, m \in Markets :
          past[t][m].status # "unlisted" => provider[m].status # "unlisted"
    /\ \A j \in Jobs : job[j].mode = "backfill" => BackfillOf(job[j])

\* The first page of a fetch whose page and limit hold every market there is.
LEMMA FullPage ==
  ASSUME NEW filter, NEW want \in Nat, NEW page \in SUBSET Raw, NEW more \in BOOLEAN,
         Response(filter, FALSE, want, page, more), Cardinality(Raw) <= want
  PROVE  page = Matching(filter)
<1>1. /\ IsFiniteSet(page) /\ Cardinality(page) \in Nat /\ Cardinality(Raw) \in Nat
      /\ Cardinality(page) <= Cardinality(Raw)
      /\ Cardinality(page) = Cardinality(Raw) => page = Raw
  BY MarketsAssumption, FS_Subset, FS_CardinalityType
<1>2. page \subseteq Matching(filter) /\ Matching(filter) \subseteq Raw
  BY DEF Response, Matching
<1>3. CASE page = Matching(filter) BY <1>3
<1>4. CASE Cardinality(page) = want
  <2>1. page = Raw BY <1>1, <1>4
  <2>. QED BY <1>2, <2>1
<1>. QED BY <1>3, <1>4 DEF Response

\* Where there is a market, the raw records can be counted.
LEMMA SomeMarket ==
  ASSUME Markets # {}
  PROVE  Cardinality(Raw) \in Nat \ {0}
<1>1. Raw # {} BY DEF Raw
<1>. QED BY <1>1, MarketsAssumption, FS_EmptySet, FS_CardinalityType

\* What a page adds to the markets fetched.
LEMMA FetchedMore ==
  ASSUME NEW g \in Job, NEW page \in SUBSET Raw, NEW listing \in [Raw -> Listing], NEW h,
         h.copies = [m \in Markets |->
            IF m \in page THEN Append(g.copies[m], listing[m]) ELSE g.copies[m]]
  PROVE  Fetched(h) = Fetched(g) \cup (page \cap Markets)
<1>1. \A m \in Markets : g.copies[m] \in Seq(Listing) /\ listing[m] \in Listing
  BY DEF Job, Raw
<1>2. \A m \in Markets : Append(g.copies[m], listing[m]) # <<>> BY <1>1
<1>. QED BY <1>2 DEF Fetched

\* One page of a backfill.
LEMMA BackfillPage ==
  ASSUME TypeOK, BackfillInv, NEW j \in Jobs, Page(j), job[j].mode = "backfill",
         Markets # {}, Cardinality(Raw) <= PageSize,
         Cardinality(Raw) <= ActiveLimit, Cardinality(Raw) <= ClosedLimit
  PROVE  job'[j].mode = "backfill" /\ BackfillOf(job[j])'
<1>. DEFINE g == job[j]
            want == IF PageSize < g.left THEN PageSize ELSE g.left
            got(page, more) == [g EXCEPT
               !.left = g.left - Cardinality(page), !.cursor = more,
               !.bundles = @ + Cardinality(page \cap Markets),
               !.copies = [m \in Markets |->
                  IF m \in page THEN Append(@[m], provider[m]) ELSE @[m]]]
<1>0. g \in Job /\ g.pc = "fetch" /\ g.filter \in {"open", "closed"} /\ g.cursor \in BOOLEAN
  BY SMTT(30) DEF TypeOK, Page, Job
<1>1. PICK page \in SUBSET Raw, more \in BOOLEAN :
        /\ Response(g.filter, g.cursor, want, page, more)
        /\ job' = [job EXCEPT ![j] =
             IF KeepsAsking(page, more, g.left - Cardinality(page))
             THEN got(page, more) ELSE NextFetch(got(page, more))]
  BY Zenon DEF Page
<1>. DEFINE h == got(page, more)
<1>2. /\ h.copies = [m \in Markets |->
            IF m \in page THEN Append(g.copies[m], provider[m]) ELSE g.copies[m]]
      /\ h.pc = "fetch" /\ h.filter = g.filter /\ h.fetches = g.fetches
      /\ h.at = g.at /\ h.cursor = more /\ h.mode = g.mode
      /\ h = [h EXCEPT !.pc = "fetch"]
  BY <1>0 DEF Job
<1>3. job'[j] = IF KeepsAsking(page, more, g.left - Cardinality(page)) THEN h ELSE NextFetch(h)
  BY <1>1 DEF TypeOK
<1>. HIDE DEF h, g
<1>4. Fetched(h) = Fetched(g) \cup (page \cap Markets)
  <2>1. provider \in [Raw -> Listing] BY DEF TypeOK
  <2>2. h.copies = [m \in Markets |->
            IF m \in page THEN Append(g.copies[m], provider[m]) ELSE g.copies[m]]
    BY <1>2
  <2>3. g \in Job BY <1>0
  <2>. QED BY <2>1, <2>2, <2>3, FetchedMore
<1>5. /\ UNCHANGED <<now, provider, past>> /\ BackfillOf(g)
      /\ g.at \in 0 .. now
  BY DEF Page, BackfillInv, BackfillOf, ghosts, g
<1>6. Cardinality(Raw) \in Nat \ {0} /\ PageSize \in Nat /\ ActiveLimit \in Nat /\ ClosedLimit \in Nat
  BY SomeMarket, LimitsAssumption
<1>7. ~g.cursor => page = Matching(g.filter)
  <2>. SUFFICES ASSUME ~g.cursor PROVE page = Matching(g.filter) OBVIOUS
  <2>1. g.left \in {ActiveLimit, ClosedLimit} BY <1>0, <1>5 DEF BackfillOf
  <2>2. want \in Nat /\ Cardinality(Raw) <= want BY <1>6, <2>1
  <2>3. g.cursor = FALSE BY <1>0
  <2>. HIDE DEF want
  <2>. QED BY <1>1, <2>2, <2>3, FullPage
<1>8. KeepsAsking(page, more, g.left - Cardinality(page)) => more BY DEF KeepsAsking
<1>9. CASE g.filter = "open"
  <2>1. Kept(h)
    <3>1. CASE g.cursor BY <1>2, <1>4, <1>5, <1>0, <1>9, <3>1 DEF BackfillOf, Kept
    <3>2. CASE ~g.cursor
      <4>. SUFFICES ASSUME NEW m \in Markets, past[g.at][m].status # "unlisted"
                    PROVE  m \in Fetched(h) \/ provider[m].status = "closed"
        BY <1>2 DEF Kept
      <4>1. provider[m].status # "unlisted" BY <1>5 DEF BackfillInv
      <4>2. m \in Raw /\ provider[m].status \in {"unlisted", "open", "closed"}
        BY SMTT(30) DEF TypeOK, Raw, Listing
      <4>. QED BY <1>4, <1>7, <1>9, <3>2, <4>1, <4>2 DEF Matching
    <3>. QED BY <3>1, <3>2
  <2>2. CASE KeepsAsking(page, more, g.left - Cardinality(page))
    <3>1. BackfillOf(h)
      BY <1>0, <1>2, <1>5, <1>8, <1>9, <2>1, <2>2 DEF BackfillOf
    <3>. QED BY <1>0, <1>2, <1>3, <1>5, <2>2, <3>1 DEF BackfillOf, Kept, Have, Fetched, g
  <2>3. CASE ~KeepsAsking(page, more, g.left - Cardinality(page))
    <3>1. h.fetches = <<[filter |-> "closed", limit |-> ClosedLimit]>>
      BY <1>0, <1>2, <1>5, <1>9 DEF BackfillOf
    <3>2. /\ NextFetch(h).pc = "fetch" /\ NextFetch(h).filter = "closed"
          /\ NextFetch(h).left = ClosedLimit /\ ~NextFetch(h).cursor
          /\ NextFetch(h).fetches = <<>> /\ NextFetch(h).at = g.at
          /\ NextFetch(h).copies = h.copies /\ NextFetch(h).mode = g.mode
      BY <1>2, <3>1 DEF NextFetch
    <3>3. Kept(NextFetch(h)) BY <1>2, <2>1, <3>2 DEF Kept, Fetched
    <3>4. BackfillOf(NextFetch(h)) BY <1>5, <3>2, <3>3 DEF BackfillOf
    <3>. QED BY <1>3, <1>5, <2>3, <3>2, <3>4 DEF BackfillOf, Kept, Have, Fetched, g
  <2>. QED BY <2>2, <2>3
<1>10. CASE g.filter = "closed"
  <2>1. g.fetches = <<>> /\ Kept(g) BY <1>0, <1>5, <1>10 DEF BackfillOf
  <2>2. Have(h)
    <3>1. CASE g.cursor BY <1>2, <1>4, <1>5, <1>0, <1>10, <3>1 DEF BackfillOf, Have
    <3>2. CASE ~g.cursor
      BY <1>2, <1>4, <1>7, <1>10, <2>1, <3>2 DEF Matching, Kept, Have, Raw
    <3>. QED BY <3>1, <3>2
  <2>3. Kept(h) BY SMTT(30), <2>2 DEF Kept, Have
  <2>4. CASE KeepsAsking(page, more, g.left - Cardinality(page))
    <3>1. BackfillOf(h)
      BY <1>2, <1>5, <1>8, <1>10, <2>1, <2>2, <2>3, <2>4 DEF BackfillOf
    <3>. QED BY <1>2, <1>3, <1>5, <2>4, <3>1 DEF BackfillOf, Kept, Have, Fetched, g
  <2>5. CASE ~KeepsAsking(page, more, g.left - Cardinality(page))
    <3>1. /\ NextFetch(h).pc = "save" /\ NextFetch(h).at = g.at
          /\ NextFetch(h).copies = h.copies /\ NextFetch(h).mode = g.mode
      BY <1>2, <2>1 DEF NextFetch
    <3>2. Have(NextFetch(h)) BY <1>2, <2>2, <3>1 DEF Have, Fetched
    <3>3. BackfillOf(NextFetch(h)) BY <1>5, <3>1, <3>2 DEF BackfillOf
    <3>. QED BY <1>3, <1>5, <2>5, <3>1, <3>3 DEF BackfillOf, Kept, Have, Fetched, g
  <2>. QED BY <2>4, <2>5
<1>. QED BY <1>0, <1>9, <1>10

\* A job keeps its mode until it ends, and fetches no more once it has saved.
LEMMA ModeKept ==
  ASSUME TypeOK, NEW j \in Jobs
  PROVE  /\ Page(j) => job'[j].mode = job[j].mode
         /\ Save(j) \/ LiveVolume(j) \/ Maintain(j) \/ Fail(j) =>
              /\ job'[j].mode = job[j].mode /\ job'[j].pc # "fetch"
              /\ job'[j].pc # "fail" => job[j].pc \notin {"idle", "fetch", "fail"}
<1>. DEFINE g == job[j]
<1>0. g \in Job /\ job \in [Jobs -> Job] BY DEF TypeOK
<1>1. ASSUME Page(j) PROVE job'[j].mode = job[j].mode
  <2>1. PICK page \in SUBSET Raw, more \in BOOLEAN :
          LET left == g.left - Cardinality(page)
              got  == [g EXCEPT
               !.left = left, !.cursor = more,
               !.bundles = @ + Cardinality(page \cap Markets),
               !.copies = [m \in Markets |->
                  IF m \in page THEN Append(@[m], provider[m]) ELSE @[m]]]
          IN  job' = [job EXCEPT ![j] = IF KeepsAsking(page, more, left) THEN got
                                                                       ELSE NextFetch(got)]
    BY Zenon, <1>1 DEF Page
  <2>2. PICK h : h.mode = g.mode /\ (job' = [job EXCEPT ![j] = h]
                                     \/ job' = [job EXCEPT ![j] = NextFetch(h)])
    BY Zenon, <1>0, <2>1 DEF Job
  <2>3. NextFetch(h).mode = h.mode BY <2>2 DEF NextFetch
  <2>. QED BY SMTT(30), <1>0, <2>2, <2>3
<1>2. ASSUME Save(j) PROVE /\ job'[j].mode = g.mode /\ job'[j].pc # "fetch"
                           /\ g.pc \notin {"idle", "fetch", "fail"}
  <2>1. PICK todo \in SUBSET EventIds(g) :
           job' = [job EXCEPT ![j].pc = IF todo = {} THEN "maintain" ELSE "live",
                              ![j].todo = todo,
                              ![j].snapshots = Inserted(snaps, NewSnaps(g))]
    BY Zenon, <1>2 DEF Save
  <2>2. g.pc = "save" BY Zenon, <1>2 DEF Save
  <2>. QED BY Zenon, <1>0, <2>1, <2>2 DEF Job
<1>3. ASSUME LiveVolume(j) PROVE /\ job'[j].mode = g.mode /\ job'[j].pc # "fetch"
                                 /\ g.pc \notin {"idle", "fetch", "fail"}
  <2>1. PICK e \in g.todo, ms \in SUBSET Markets :
            job' = [job EXCEPT
              ![j].todo = @ \ {e},
              ![j].pc = IF g.todo = {e} THEN "maintain" ELSE "live",
              ![j].snapshots = @ + Cardinality(VolumeKeys(e, ms, g.at) \ evols)]
    BY Zenon, <1>3 DEF LiveVolume
  <2>2. g.pc = "live" BY Zenon, <1>3 DEF LiveVolume
  <2>. QED BY Zenon, <1>0, <2>1, <2>2 DEF Job
<1>4. ASSUME Maintain(j) \/ Fail(j)
      PROVE  /\ job'[j].mode = g.mode /\ job'[j].pc # "fetch"
             /\ job'[j].pc # "fail" => g.pc \notin {"idle", "fetch", "fail"}
  <2>1. \/ job' = [job EXCEPT ![j].pc = "finish"] /\ g.pc = "maintain"
        \/ job' = [job EXCEPT ![j].pc = "fail"]
    BY SMTT(30), <1>4 DEF Maintain, Fail, Raise
  <2>. QED BY <1>0, <2>1 DEF Job
<1>. QED BY <1>1, <1>2, <1>3, <1>4

\* A step that only replaces one job, by a poll or by a backfill in order.
LEMMA BackfillJob ==
  ASSUME TypeOK, BackfillInv, NEW j \in Jobs, NEW h \in Job, job' = [job EXCEPT ![j] = h],
         UNCHANGED <<now, provider, past>>, h.mode = "backfill" => BackfillOf(h)
  PROVE  BackfillInv'
<1>1. \A i \in Jobs : job'[i] = IF i = j THEN h ELSE job[i] BY DEF TypeOK
<1>2. \A i \in Jobs : job'[i].mode = "backfill" => BackfillOf(job'[i])
  BY <1>1 DEF BackfillInv
<1>. QED BY <1>2 DEF BackfillInv, BackfillOf, Kept, Have, Fetched

\* Two sequences of one element, put together.
LEMMA PairIs ==
  ASSUME NEW x, NEW y
  PROVE  <<x>> \o <<y>> = <<x, y>>
<1>. DEFINE S == {x, y}
            s == <<x>> \o <<y>>
            t == <<x, y>>
<1>1. s \in Seq(S) /\ Len(s) = 2 /\ s[1] = x /\ s[2] = y
  <2>1. x \in S /\ y \in S OBVIOUS
  <2>. HIDE DEF S
  <2>. QED BY <2>1
<1>2. t \in Seq(S) /\ Len(t) = 2 /\ t[1] = x /\ t[2] = y
  <2>1. x \in S /\ y \in S OBVIOUS
  <2>. HIDE DEF S
  <2>. QED BY <2>1
<1>. HIDE DEF s, t
<1>3. \A i \in 1 .. 2 : s[i] = t[i]
  <2>1. \A i \in 1 .. 2 : i = 1 \/ i = 2 OBVIOUS
  <2>. QED BY <1>1, <1>2, <2>1
<1>4. s = t BY <1>1, <1>2, <1>3, SeqEqual
<1>. QED BY <1>4 DEF s, t

\* A backfill begins with the active markets, with the whole limit left.
LEMMA BackfillStart ==
  ASSUME TypeOK, BackfillInv, NEW j \in Jobs, NEW mode \in {"poll", "backfill"},
         Start(j, mode), Markets # {},
         Cardinality(Raw) <= ActiveLimit, Cardinality(Raw) <= ClosedLimit
  PROVE  BackfillInv'
<1>. DEFINE fresh == [IdleJob EXCEPT !.mode = mode, !.at = now, !.run = Len(runs) + 1,
                                     !.fetches = Fetches(mode)]
            h == NextFetch(fresh)
<1>1. /\ now \in Times /\ Len(runs) + 1 \in Nat
      /\ Fetches(mode) \in Seq([filter : {"open", "closed"}, limit : Nat])
  BY FetchesType DEF TypeOK
<1>2. fresh \in Job BY <1>1, IdleJobType DEF Job
<1>3. fresh.fetches = Fetches(mode) /\ fresh.at = now /\ fresh.mode = mode
  BY DEF IdleJob
<1>4. job' = [job EXCEPT ![j] = h] /\ UNCHANGED <<now, provider, past>>
  BY DEF Start, StartAs, ghosts
<1>. HIDE DEF fresh
<1>5. h \in Job BY <1>2, NextFetchType
<1>6. h.mode = mode BY <1>3 DEF NextFetch
<1>7. ASSUME mode = "backfill" PROVE BackfillOf(h)
  <2>1. ActiveLimit \in Nat \ {0} /\ ClosedLimit \in Nat \ {0} /\ 0 .. now = 0 .. now
    BY SomeMarket, LimitsAssumption
  <2>2. Fetches(mode) = <<[filter |-> "open", limit |-> ActiveLimit],
                          [filter |-> "closed", limit |-> ClosedLimit]>>
    <3>. DEFINE a == [filter |-> "open", limit |-> ActiveLimit]
                b == [filter |-> "closed", limit |-> ClosedLimit]
    <3>1. Asks("open", ActiveLimit) = <<a>> /\ Asks("closed", ClosedLimit) = <<b>>
      BY <2>1 DEF Asks
    <3>. HIDE DEF a, b
    <3>2. <<a>> \o <<b>> = <<a, b>> BY PairIs
    <3>3. Fetches(mode) = Asks("open", ActiveLimit) \o Asks("closed", ClosedLimit)
      BY <1>7 DEF Fetches
    <3>4. Fetches(mode) = <<a, b>> BY <3>1, <3>2, <3>3
    <3>. QED BY <3>4 DEF a, b
  <2>3. /\ Head(Fetches(mode)) = [filter |-> "open", limit |-> ActiveLimit]
        /\ Tail(Fetches(mode)) = <<[filter |-> "closed", limit |-> ClosedLimit]>>
        /\ Fetches(mode) # <<>>
    BY <2>2
  <2>4. /\ h.pc = "fetch" /\ h.filter = "open" /\ h.left = ActiveLimit
        /\ h.fetches = <<[filter |-> "closed", limit |-> ClosedLimit]>>
        /\ h.at = now /\ ~h.cursor
    BY <1>2, <1>3, <2>3 DEF NextFetch, Job
  <2>5. now \in 0 .. now BY <1>1 DEF Times
  <2>. HIDE DEF h
  <2>. QED BY <2>4, <2>5 DEF BackfillOf
<1>. HIDE DEF h
<1>. QED BY <1>4, <1>5, <1>6, <1>7, BackfillJob

\* Every step keeps what the backfills have fetched.
LEMMA BackfillNext ==
  ASSUME TypeOK, BackfillInv, [Next]_vars, Markets # {}, Cardinality(Raw) <= PageSize,
         Cardinality(Raw) <= ActiveLimit, Cardinality(Raw) <= ClosedLimit
  PROVE  BackfillInv'
<1>1. CASE Tick
  <2>1. /\ now' = now + 1 /\ now \in Nat
        /\ \A t \in 0 .. now : past'[t] = past[t]
        /\ past'[now'] = provider
        /\ UNCHANGED <<provider, job>>
    BY <1>1 DEF Tick, TypeOK, store, Times
  <2>2. \A t \in 0 .. now' : t \in 0 .. now \/ t = now' BY <2>1
  <2>3. \A t \in 0 .. now : t \in 0 .. now' BY <2>1
  <2>4. \A j \in Jobs : job[j].mode = "backfill" => BackfillOf(job[j])' 
    <3>. TAKE j \in Jobs
    <3>. HAVE job[j].mode = "backfill"
    <3>1. BackfillOf(job[j]) /\ job'[j] = job[j] BY <2>1 DEF BackfillInv
    <3>2. job[j].at \in 0 .. now /\ job[j].at \in 0 .. now'
      BY <2>3, <3>1 DEF BackfillOf
    <3>3. Kept(job[j]) => Kept(job[j])' BY <2>1, <3>2 DEF Kept, Fetched
    <3>4. Have(job[j]) => Have(job[j])' BY <2>1, <3>2 DEF Have, Fetched
    <3>. QED BY <2>1, <3>1, <3>2, <3>3, <3>4 DEF BackfillOf
  <2>. QED BY <2>1, <2>2, <2>4 DEF BackfillInv
<1>2. CASE \E r \in Raw : ProviderChanges(r)
  <2>1. PICK r \in Raw : ProviderChanges(r) BY <1>2
  <2>2. UNCHANGED <<now, past, job>> BY <2>1 DEF ProviderChanges, store, ghosts
  <2>3. \A m \in Markets : /\ provider[m].status = "closed" => provider'[m].status = "closed"
                           /\ provider[m].status # "unlisted" => provider'[m].status # "unlisted"
    BY SMTT(30), <2>1 DEF ProviderChanges, TypeOK, Raw, Listing
  <2>4. \A j \in Jobs : Kept(job[j]) => Kept(job[j])' BY <2>2, <2>3 DEF Kept, Fetched
  <2>5. \A j \in Jobs : Have(job[j]) => Have(job[j])' BY <2>2 DEF Have, Fetched
  <2>6. \A j \in Jobs : BackfillOf(job[j]) => BackfillOf(job[j])'
    BY <2>2, <2>4, <2>5 DEF BackfillOf
  <2>. QED BY <2>2, <2>3, <2>6 DEF BackfillInv
<1>3. ASSUME NEW j \in Jobs, NEW mode \in {"poll", "backfill"}, Start(j, mode)
      PROVE  BackfillInv'
  BY <1>3, BackfillStart
<1>4. ASSUME NEW j \in Jobs, Page(j) PROVE BackfillInv'
  <2>1. PICK h \in Job : job' = [job EXCEPT ![j] = h] BY <1>4, PageEffect
  <2>2. job'[j] = h /\ UNCHANGED <<now, provider, past>>
    BY <1>4, <2>1 DEF TypeOK, Page, ghosts
  <2>3. h.mode = "backfill" => BackfillOf(h)
    <3>. SUFFICES ASSUME h.mode = "backfill" PROVE BackfillOf(h) OBVIOUS
    <3>1. job[j].mode = "backfill" BY <1>4, <2>2, ModeKept
    <3>. QED BY <1>4, <2>2, <3>1, BackfillPage DEF BackfillOf, Kept, Have, Fetched
  <2>. QED BY <2>1, <2>2, <2>3, BackfillJob
<1>5. ASSUME NEW j \in Jobs, Save(j) \/ LiveVolume(j) \/ Maintain(j) \/ Fail(j)
      PROVE  BackfillInv'
  <2>1. PICK h \in Job : /\ job' = [job EXCEPT ![j] = h]
                         /\ h.at = job[j].at /\ h.copies = job[j].copies
    BY <1>5, WorkEffect, Zenon
  <2>2. job'[j] = h /\ UNCHANGED <<now, provider, past>>
    BY Zenon, <1>5, <2>1 DEF TypeOK, Save, LiveVolume, Maintain, Fail, Raise, store, ghosts
  <2>3. job'[j].mode = job[j].mode /\ job'[j].pc # "fetch"
        /\ (job'[j].pc # "fail" => job[j].pc \notin {"idle", "fetch", "fail"})
    BY <1>5, ModeKept
  <2>4. h.mode = "backfill" => BackfillOf(h)
    BY <2>1, <2>2, <2>3 DEF BackfillInv, BackfillOf, Have, Fetched
  <2>. QED BY <2>1, <2>2, <2>4, BackfillJob
<1>6. ASSUME NEW j \in Jobs, FinishOk(j) \/ FinishError(j) \/ Stop(j) PROVE BackfillInv'
  <2>1. /\ job' = [job EXCEPT ![j] = IdleJob] /\ UNCHANGED <<now, provider, past>>
    BY <1>6 DEF FinishOk, FinishError, FinishRun, Stop, store, ghosts
  <2>. QED BY <2>1, IdleJobType, BackfillJob DEF IdleJob
<1>7. CASE UNCHANGED vars
  BY <1>7 DEF BackfillInv, BackfillOf, Kept, Have, Fetched, vars, store, ghosts
<1>. QED BY <1>1, <1>2, <1>3, <1>4, <1>5, <1>6, <1>7 DEF Next, Step

\* A backfill whose pages and limits hold every market of the provider misses
\* none that was listed when it began, since it asks for the active ones first.
THEOREM BackfillComplete ==
  ASSUME Cardinality(Raw) <= PageSize,
         Cardinality(Raw) <= ActiveLimit, Cardinality(Raw) <= ClosedLimit
  PROVE  Spec => []BackfillMissesNothing
<1>1. CASE Markets = {}
  <2>1. BackfillMissesNothing BY <1>1 DEF BackfillMissesNothing
  <2>. QED BY <2>1, PTL
<1>2. CASE Markets # {}
  <2>1. Init => BackfillInv
    BY DEF Init, BackfillInv, IdleJob, Listing
  <2>2. TypeOK /\ BackfillInv /\ [Next]_vars => BackfillInv' BY <1>2, BackfillNext
  <2>3. BackfillInv => BackfillMissesNothing
    BY DEF BackfillInv, BackfillOf, Have, BackfillMissesNothing
  <2>. QED BY <2>1, <2>2, <2>3, TypeCorrect, PTL DEF Spec
<1>. QED BY <1>1, <1>2
-----------------------------------------------------------------------------
(* What the market table holds. *)

\* While there is one job at a time, the provider is at least as recent as all
\* it ever listed, a job that fetches has only newer listings than the tables,
\* each newer than the one before, and the row of a market leads its snapshots.
LeadInv ==
    /\ \A m \in DOMAIN rows : AtLeastAsRecent(provider[m], rows[m].data)
    /\ \A j \in Jobs, m \in Markets : \A i \in DOMAIN job[j].copies[m] :
          /\ AtLeastAsRecent(provider[m], job[j].copies[m][i])
          /\ \A k \in 1 .. i : AtLeastAsRecent(job[j].copies[m][i], job[j].copies[m][k])
          /\ job[j].pc \in {"fetch", "save"} /\ m \in DOMAIN rows
               => AtLeastAsRecent(job[j].copies[m][i], rows[m].data)
    /\ \A k \in DOMAIN snaps : k[1] \in DOMAIN rows
    /\ RowsLeadSnapshots

\* Later views of a listing: the order the properties compare by.
LEMMA RecentOrder ==
  /\ \A a \in Listing : AtLeastAsRecent(a, a)
  /\ \A a, b, c \in Listing : AtLeastAsRecent(a, b) /\ AtLeastAsRecent(b, c)
                                => AtLeastAsRecent(a, c)
  BY BoundsAssumption DEF AtLeastAsRecent, Listing

\* A change at the provider is a newer view of each listing.
LEMMA ProviderForward ==
  ASSUME TypeOK, NEW r \in Raw, ProviderChanges(r)
  PROVE  \A q \in Raw : provider'[q] \in Listing /\ AtLeastAsRecent(provider'[q], provider[q])
<1>0. TypeOK' BY TypeProvider
<1>1. provider[r] \in Listing BY DEF TypeOK
<1>2. AtLeastAsRecent(provider'[r], provider[r])
  BY SMTT(30), <1>1, BoundsAssumption DEF ProviderChanges, AtLeastAsRecent, TypeOK, Listing
<1>3. ASSUME NEW q \in Raw, q # r PROVE AtLeastAsRecent(provider'[q], provider[q])
  <2>1. provider'[q] = provider[q] /\ provider[q] \in Listing
    BY <1>3 DEF ProviderChanges, TypeOK
  <2>. QED BY <2>1, RecentOrder
<1>. QED BY <1>0, <1>2, <1>3 DEF TypeOK

\* The types the order needs.
LEMMA LeadTypes ==
  ASSUME TypeOK
  PROVE  /\ \A m \in Markets : provider[m] \in Listing
         /\ \A m \in DOMAIN rows : m \in Markets /\ rows[m].data \in Listing
         /\ \A k \in DOMAIN snaps : snaps[k] \in Listing
         /\ \A j \in Jobs, m \in Markets :
              /\ job[j].copies[m] \in Seq(Listing)
              /\ \A i \in DOMAIN job[j].copies[m] : job[j].copies[m][i] \in Listing
  BY DEF TypeOK, Row, Job, Raw

\* A step that touches neither the tables nor what a job fetched, or begins no fetch.
LEMMA LeadSame ==
  ASSUME LeadInv, UNCHANGED <<provider, rows, snaps>>,
         \A j \in Jobs : /\ job'[j].copies = job[j].copies
                         /\ job'[j].pc \in {"fetch", "save"} => job[j].pc \in {"fetch", "save"}
  PROVE  LeadInv'
  BY DEF LeadInv, RowsLeadSnapshots

\* A step that only gives a job that has fetched nothing.
LEMMA LeadFresh ==
  ASSUME TypeOK, LeadInv, UNCHANGED <<provider, rows, snaps>>, NEW j \in Jobs, NEW h \in Job,
         job' = [job EXCEPT ![j] = h], h.copies = [m \in Markets |-> <<>>]
  PROVE  LeadInv'
<1>1. \A i \in Jobs : job'[i] = IF i = j THEN h ELSE job[i] BY DEF TypeOK
<1>2. \A m \in Markets : DOMAIN h.copies[m] = {} OBVIOUS
<1>. QED BY <1>1, <1>2 DEF LeadInv, RowsLeadSnapshots

\* A page adds listings no older than those fetched and those stored.
LEMMA LeadPage ==
  ASSUME TypeOK, LeadInv, NEW j \in Jobs, Page(j)
  PROVE  LeadInv'
<1>1. PICK page \in SUBSET Raw, h \in Job :
         /\ job' = [job EXCEPT ![j] = h]
         /\ h.run = job[j].run /\ h.at = job[j].at /\ h.pc \in {"fetch", "save"}
         /\ h.copies = [m \in Markets |->
              IF m \in page THEN Append(job[j].copies[m], provider[m])
              ELSE job[j].copies[m]]
  BY PageEffect
<1>2. \A i \in Jobs : job'[i] = IF i = j THEN h ELSE job[i] BY <1>1 DEF TypeOK
<1>3. job[j].pc = "fetch" /\ UNCHANGED <<provider, rows, snaps>>
  BY DEF Page, store
<1>4. ASSUME NEW m \in Markets, NEW i \in DOMAIN h.copies[m]
      PROVE  /\ AtLeastAsRecent(provider[m], h.copies[m][i])
             /\ \A k \in 1 .. i : AtLeastAsRecent(h.copies[m][i], h.copies[m][k])
             /\ m \in DOMAIN rows => AtLeastAsRecent(h.copies[m][i], rows[m].data)
  <2>. DEFINE s == job[j].copies[m]
  <2>1. s \in Seq(Listing) /\ provider[m] \in Listing BY LeadTypes
  <2>2. /\ \A k \in DOMAIN s :
             /\ AtLeastAsRecent(provider[m], s[k])
             /\ \A l \in 1 .. k : AtLeastAsRecent(s[k], s[l])
             /\ m \in DOMAIN rows => AtLeastAsRecent(s[k], rows[m].data)
        /\ m \in DOMAIN rows => AtLeastAsRecent(provider[m], rows[m].data)
    BY <1>3 DEF LeadInv
  <2>3. AtLeastAsRecent(provider[m], provider[m]) BY <2>1, RecentOrder
  <2>4. h.copies[m] = IF m \in page THEN Append(s, provider[m]) ELSE s BY <1>1
  <2>. HIDE DEF s
  <2>5. CASE h.copies[m] = s BY <2>2, <2>5
  <2>6. CASE h.copies[m] = Append(s, provider[m])
    <3>1. /\ Len(s) \in Nat /\ DOMAIN s = 1 .. Len(s)
          /\ DOMAIN h.copies[m] = 1 .. Len(s) + 1
          /\ h.copies[m][Len(s) + 1] = provider[m]
          /\ \A k \in 1 .. Len(s) : h.copies[m][k] = s[k]
      BY <2>1, <2>6
    <3>2. CASE i \in DOMAIN s
      <4>1. \A k \in 1 .. i : k \in 1 .. Len(s) BY <3>1, <3>2
      <4>. QED BY <2>2, <3>1, <3>2, <4>1
    <3>3. CASE i = Len(s) + 1
      <4>1. \A k \in 1 .. i : k \in 1 .. Len(s) \/ k = Len(s) + 1 BY <3>1, <3>3
      <4>. QED BY <2>2, <2>3, <3>1, <3>3, <4>1
    <3>. QED BY <3>1, <3>2, <3>3
  <2>. QED BY <2>4, <2>5, <2>6
<1>. QED BY <1>2, <1>3, <1>4 DEF LeadInv, RowsLeadSnapshots

\* A save stores listings no older than the rows and the snapshots they replace.
LEMMA LeadSave ==
  ASSUME TypeOK, LeadInv, NEW j \in Jobs, Save(j), \A i, k \in Jobs : i = k
  PROVE  LeadInv'
<1>. DEFINE g == job[j]
<1>1. provider' = provider /\ g.pc = "save" BY Zenon DEF Save
<1>2. job'[j].copies = g.copies /\ job'[j].pc \notin {"fetch", "save"}
  <2>1. PICK h \in Job : job' = [job EXCEPT ![j] = h] /\ h.copies = g.copies
    BY WorkEffect, Zenon
  <2>2. PICK todo \in SUBSET EventIds(g) :
           job' = [job EXCEPT ![j].pc = IF todo = {} THEN "maintain" ELSE "live",
                              ![j].todo = todo,
                              ![j].snapshots = Inserted(snaps, NewSnaps(g))]
    BY Zenon DEF Save
  <2>3. g \in Job /\ job \in [Jobs -> Job] BY DEF TypeOK
  <2>4. job'[j].copies = g.copies BY <2>1, <2>3
  <2>5. job'[j].pc \notin {"fetch", "save"} BY Zenon, <2>2, <2>3 DEF Job
  <2>. QED BY <2>4, <2>5
<1>3. \A m \in Fetched(g) :
        /\ m \in Markets /\ g.copies[m] \in Seq(Listing)
        /\ Len(g.copies[m]) \in DOMAIN g.copies[m] /\ 1 \in DOMAIN g.copies[m]
        /\ 1 \in 1 .. Len(g.copies[m])
  <2>. SUFFICES ASSUME NEW m \in Fetched(g)
                PROVE  /\ m \in Markets /\ g.copies[m] \in Seq(Listing)
                       /\ Len(g.copies[m]) \in DOMAIN g.copies[m] /\ 1 \in DOMAIN g.copies[m]
                       /\ 1 \in 1 .. Len(g.copies[m])
    OBVIOUS
  <2>1. m \in Markets /\ g.copies[m] # <<>> BY DEF Fetched
  <2>2. g.copies[m] \in Seq(Listing) BY <2>1, LeadTypes
  <2>. QED BY <2>1, <2>2
<1>. DEFINE last(m) == g.copies[m][Len(g.copies[m])]
<1>4. \A m \in Fetched(g) :
        /\ last(m) \in Listing /\ g.copies[m][1] \in Listing
        /\ AtLeastAsRecent(provider[m], last(m))
        /\ AtLeastAsRecent(last(m), g.copies[m][1])
        /\ m \in DOMAIN rows => AtLeastAsRecent(last(m), rows[m].data)
  BY <1>1, <1>3, LeadTypes DEF LeadInv
<1>5. /\ DOMAIN rows' = DOMAIN rows \cup Fetched(g)
      /\ \A m \in Fetched(g) : rows'[m].data = last(m)
      /\ \A m \in DOMAIN rows \ Fetched(g) : rows'[m] = rows[m]
      /\ DOMAIN snaps' = DOMAIN snaps \cup (Fetched(g) \X {g.at})
      /\ \A k \in DOMAIN snaps : snaps'[k] = snaps[k]
      /\ \A k \in DOMAIN snaps' \ DOMAIN snaps : snaps'[k] = g.copies[k[1]][1]
  BY SaveEffect
<1>. HIDE DEF g, last
<1>6. \A m \in DOMAIN rows' : AtLeastAsRecent(provider'[m], rows'[m].data)
  BY <1>1, <1>4, <1>5 DEF LeadInv
<1>7. \A k \in DOMAIN snaps' : /\ k[1] \in DOMAIN rows'
                               /\ AtLeastAsRecent(rows'[k[1]].data, snaps'[k])
  <2>. SUFFICES ASSUME NEW k \in DOMAIN snaps'
                PROVE  k[1] \in DOMAIN rows' /\ AtLeastAsRecent(rows'[k[1]].data, snaps'[k])
    OBVIOUS
  <2>1. CASE k \in DOMAIN snaps
    <3>1. /\ k[1] \in DOMAIN rows /\ snaps'[k] = snaps[k] /\ snaps[k] \in Listing
          /\ AtLeastAsRecent(rows[k[1]].data, snaps[k]) /\ rows[k[1]].data \in Listing
      BY <1>5, <2>1, LeadTypes DEF LeadInv, RowsLeadSnapshots
    <3>2. CASE k[1] \in Fetched(g)
      <4>1. /\ last(k[1]) \in Listing /\ rows'[k[1]].data = last(k[1])
            /\ AtLeastAsRecent(last(k[1]), rows[k[1]].data)
        BY <1>4, <1>5, <3>1, <3>2
      <4>2. AtLeastAsRecent(last(k[1]), snaps[k]) BY <3>1, <4>1, RecentOrder
      <4>. QED BY <1>5, <3>1, <4>1, <4>2
    <3>3. CASE k[1] \notin Fetched(g) BY <1>5, <3>1, <3>3
    <3>. QED BY <3>2, <3>3
  <2>2. CASE k \notin DOMAIN snaps
    <3>1. k \in Fetched(g) \X {g.at} /\ snaps'[k] = g.copies[k[1]][1] BY <1>5, <2>2
    <3>2. k[1] \in Fetched(g) BY <3>1
    <3>. QED BY <1>4, <1>5, <3>1, <3>2
  <2>. QED BY <2>1, <2>2
<1>8. \A i \in Jobs, m \in Markets : \A n \in DOMAIN job'[i].copies[m] :
        /\ AtLeastAsRecent(provider'[m], job'[i].copies[m][n])
        /\ \A k \in 1 .. n : AtLeastAsRecent(job'[i].copies[m][n], job'[i].copies[m][k])
        /\ job'[i].pc \notin {"fetch", "save"}
  <2>1. \A i \in Jobs : i = j OBVIOUS
  <2>. QED BY <1>1, <1>2, <2>1 DEF LeadInv, g
<1>. QED BY <1>6, <1>7, <1>8 DEF LeadInv, RowsLeadSnapshots

\* Every step keeps the invariant.
LEMMA LeadNext ==
  ASSUME TypeOK, LeadInv, [Next]_vars, \A i, k \in Jobs : i = k
  PROVE  LeadInv'
<1>1. CASE Tick BY <1>1, LeadSame DEF Tick, store
<1>2. CASE \E r \in Raw : ProviderChanges(r)
  <2>1. PICK r \in Raw : ProviderChanges(r) BY <1>2
  <2>2. UNCHANGED <<job, rows, snaps>> BY <2>1 DEF ProviderChanges, store
  <2>3. \A m \in Markets : /\ provider'[m] \in Listing
                           /\ AtLeastAsRecent(provider'[m], provider[m])
    BY <2>1, ProviderForward DEF Raw
  <2>4. \A m \in DOMAIN rows : AtLeastAsRecent(provider'[m], rows[m].data)
    BY <2>3, LeadTypes, RecentOrder DEF LeadInv
  <2>5. \A j \in Jobs, m \in Markets : \A i \in DOMAIN job[j].copies[m] :
           AtLeastAsRecent(provider'[m], job[j].copies[m][i])
    BY <2>3, LeadTypes, RecentOrder DEF LeadInv
  <2>. QED BY <2>2, <2>4, <2>5 DEF LeadInv, RowsLeadSnapshots
<1>3. ASSUME NEW j \in Jobs, NEW mode \in {"poll", "backfill"}, Start(j, mode)
      PROVE  LeadInv'
  <2>. DEFINE fresh == [IdleJob EXCEPT !.mode = mode, !.at = now, !.run = Len(runs) + 1,
                                       !.fetches = Fetches(mode)]
  <2>1. now \in Times /\ Len(runs) + 1 \in Nat BY DEF TypeOK
  <2>2. fresh \in Job BY <2>1, FetchesType, IdleJobType DEF Job
  <2>3. fresh.copies = [m \in Markets |-> <<>>] BY DEF IdleJob
  <2>4. job' = [job EXCEPT ![j] = NextFetch(fresh)] /\ UNCHANGED <<provider, rows, snaps>>
    BY <1>3 DEF Start, StartAs
  <2>. HIDE DEF fresh
  <2>5. NextFetch(fresh) \in Job /\ NextFetch(fresh).copies = [m \in Markets |-> <<>>]
    BY <2>2, <2>3, NextFetchType
  <2>. QED BY <2>4, <2>5, LeadFresh
<1>4. ASSUME NEW j \in Jobs, Page(j) PROVE LeadInv' BY <1>4, LeadPage
<1>5. ASSUME NEW j \in Jobs, Save(j) PROVE LeadInv' BY <1>5, LeadSave
<1>6. ASSUME NEW j \in Jobs, LiveVolume(j) \/ Maintain(j) \/ Fail(j) PROVE LeadInv'
  <2>1. PICK h \in Job : job' = [job EXCEPT ![j] = h] /\ h.copies = job[j].copies
    BY <1>6, WorkEffect, Zenon
  <2>2. \A i \in Jobs : job'[i] = IF i = j THEN h ELSE job[i] BY <2>1 DEF TypeOK
  <2>3. h.pc \notin {"fetch", "save"}
    <3>1. job'[j] = h BY <2>2
    <3>2. CASE LiveVolume(j)
      <4>1. PICK e \in job[j].todo, ms \in SUBSET Markets :
            job' = [job EXCEPT
              ![j].todo = @ \ {e},
              ![j].pc = IF job[j].todo = {e} THEN "maintain" ELSE "live",
              ![j].snapshots = @ + Cardinality(VolumeKeys(e, ms, job[j].at) \ evols)]
        BY Zenon, <3>2 DEF LiveVolume
      <4>. QED BY ZenonT(60), <3>1, <4>1 DEF TypeOK, Job
    <3>3. CASE Maintain(j) \/ Fail(j)
      <4>1. job' = [job EXCEPT ![j].pc = "finish"] \/ job' = [job EXCEPT ![j].pc = "fail"]
        BY <3>3 DEF Maintain, Fail, Raise
      <4>. QED BY <3>1, <4>1 DEF TypeOK, Job
    <3>. QED BY <1>6, <3>2, <3>3
  <2>4. UNCHANGED <<provider, rows, snaps>>
    BY Zenon, <1>6 DEF LiveVolume, Maintain, Fail, Raise, store
  <2>. QED BY <2>1, <2>2, <2>3, <2>4, LeadSame
<1>7. ASSUME NEW j \in Jobs, FinishOk(j) \/ FinishError(j) \/ Stop(j) PROVE LeadInv'
  <2>1. /\ job' = [job EXCEPT ![j] = IdleJob] /\ UNCHANGED <<provider, rows, snaps>>
    BY <1>7 DEF FinishOk, FinishError, FinishRun, Stop, store
  <2>2. IdleJob.copies = [m \in Markets |-> <<>>] BY DEF IdleJob
  <2>. DEFINE h == IdleJob
  <2>3. h \in Job /\ h.copies = [m \in Markets |-> <<>>] /\ job' = [job EXCEPT ![j] = h]
    BY <2>1, <2>2, IdleJobType
  <2>. HIDE DEF h
  <2>. QED BY <2>1, <2>3, LeadFresh
<1>8. CASE UNCHANGED vars BY <1>8, LeadSame DEF vars, store
<1>. QED BY <1>1, <1>2, <1>3, <1>4, <1>5, <1>6, <1>7, <1>8 DEF Next, Step

\* While jobs do not overlap, the market table holds the newest listing of every
\* market that any snapshot holds, however the pages repeat or miss one.
THEOREM RowsLead ==
  ASSUME \A i, j \in Jobs : i = j
  PROVE  Spec => []RowsLeadSnapshots
<1>1. Init => LeadInv
  BY DEF Init, LeadInv, RowsLeadSnapshots, IdleJob, EmptyTable
<1>2. TypeOK /\ LeadInv /\ [Next]_vars => LeadInv' BY LeadNext
<1>3. LeadInv => RowsLeadSnapshots BY DEF LeadInv
<1>. QED BY <1>1, <1>2, <1>3, TypeCorrect, PTL DEF Spec
-----------------------------------------------------------------------------
(* The order of the seen stamps. *)

\* While there is one job at a time, the clock it read is no earlier than any
\* stamp of the market table.
OrderInv ==
    /\ SeenInOrder
    /\ \A m \in DOMAIN rows : rows[m].last <= now
    /\ \A j \in Jobs : job[j].pc # "idle" =>
          job[j].at <= now /\ \A m \in DOMAIN rows : rows[m].last <= job[j].at

\* A step that leaves the table and the clock a job read, or ends the job.
LEMMA OrderSame ==
  ASSUME TypeOK, OrderInv, UNCHANGED <<now, rows>>,
         NEW j \in Jobs, NEW h \in Job, job' = [job EXCEPT ![j] = h],
         h.pc # "idle" => job[j].pc # "idle" /\ h.at = job[j].at
  PROVE  OrderInv'
<1>1. \A i \in Jobs : job'[i] = IF i = j THEN h ELSE job[i] BY DEF TypeOK
<1>. QED BY <1>1 DEF OrderInv, SeenInOrder

\* A step that begins a job, which reads the clock.
LEMMA OrderFresh ==
  ASSUME TypeOK, OrderInv, UNCHANGED <<now, rows>>,
         NEW j \in Jobs, NEW h \in Job, job' = [job EXCEPT ![j] = h], h.at = now
  PROVE  OrderInv'
<1>1. \A i \in Jobs : job'[i] = IF i = j THEN h ELSE job[i] BY DEF TypeOK
<1>2. now \in Nat /\ now <= now BY BoundsAssumption DEF TypeOK, Times
<1>. QED BY <1>1, <1>2 DEF OrderInv, SeenInOrder

\* Every step keeps the order.
LEMMA OrderNext ==
  ASSUME TypeOK, OrderInv, [Next]_vars, \A i, k \in Jobs : i = k
  PROVE  OrderInv'
<1>1. CASE Tick
  <2>1. now' = now + 1 /\ UNCHANGED <<rows, job>> BY <1>1 DEF Tick, store
  <2>2. now \in Nat /\ \A m \in DOMAIN rows : rows[m].last \in Nat
    BY BoundsAssumption DEF TypeOK, Times, Row
  <2>3. \A j \in Jobs : job[j].at \in Nat BY BoundsAssumption DEF TypeOK, Times, Job
  <2>. QED BY <2>1, <2>2, <2>3 DEF OrderInv, SeenInOrder
<1>2. CASE \E r \in Raw : ProviderChanges(r)
  BY <1>2 DEF ProviderChanges, store, OrderInv, SeenInOrder
<1>3. ASSUME NEW j \in Jobs, NEW mode \in {"poll", "backfill"}, Start(j, mode)
      PROVE  OrderInv'
  <2>. DEFINE fresh == [IdleJob EXCEPT !.mode = mode, !.at = now, !.run = Len(runs) + 1,
                                       !.fetches = Fetches(mode)]
  <2>1. now \in Times /\ Len(runs) + 1 \in Nat BY DEF TypeOK
  <2>2. fresh \in Job BY <2>1, FetchesType, IdleJobType DEF Job
  <2>3. fresh.at = now BY DEF IdleJob
  <2>4. job' = [job EXCEPT ![j] = NextFetch(fresh)] /\ UNCHANGED <<now, rows>>
    BY <1>3 DEF Start, StartAs
  <2>. HIDE DEF fresh
  <2>5. NextFetch(fresh) \in Job /\ NextFetch(fresh).at = now
    BY <2>2, <2>3, NextFetchType
  <2>. QED BY <2>4, <2>5, OrderFresh
<1>4. ASSUME NEW j \in Jobs, Page(j) PROVE OrderInv'
  <2>1. PICK page \in SUBSET Raw, h \in Job :
           job' = [job EXCEPT ![j] = h] /\ h.at = job[j].at
    BY <1>4, PageEffect
  <2>2. job[j].pc # "idle" /\ UNCHANGED <<now, rows>> BY <1>4 DEF Page, store
  <2>. QED BY <2>1, <2>2, OrderSame
<1>5. ASSUME NEW j \in Jobs, Save(j) PROVE OrderInv'
  <2>1. job[j].pc = "save" /\ now' = now BY Zenon, <1>5 DEF Save
  <2>2. PICK h \in Job : job' = [job EXCEPT ![j] = h] /\ h.at = job[j].at
    BY <1>5, WorkEffect, Zenon
  <2>3. \A i \in Jobs : i = j /\ job'[i] = h BY <2>2 DEF TypeOK
  <2>4. /\ now \in Nat /\ job[j].at \in Nat /\ job[j].at <= now
        /\ \A m \in DOMAIN rows : rows[m].first \in Nat /\ rows[m].last \in Nat
                                  /\ rows[m].first <= rows[m].last
                                  /\ rows[m].last <= job[j].at
    BY SMTT(30), <2>1, BoundsAssumption DEF OrderInv, SeenInOrder, TypeOK, Times, Row, Job
  <2>5. \A m \in DOMAIN rows' : /\ rows'[m].first <= rows'[m].last
                                /\ rows'[m].last <= job[j].at
    <3>1. ASSUME NEW m \in Fetched(job[j]), m \notin DOMAIN rows
          PROVE  rows'[m].first = job[j].at /\ rows'[m].last = job[j].at
      BY <1>5, <3>1, SaveEffect
    <3>2. ASSUME NEW m \in Fetched(job[j]), m \in DOMAIN rows
          PROVE  rows'[m].first = rows[m].first /\ rows'[m].last = job[j].at
      BY <1>5, <3>2, SaveEffect
    <3>3. ASSUME NEW m \in DOMAIN rows \ Fetched(job[j]) PROVE rows'[m] = rows[m]
      BY <1>5, <3>3, SaveEffect
    <3>4. DOMAIN rows' = DOMAIN rows \cup Fetched(job[j]) BY <1>5, SaveEffect
    <3>. QED BY <2>4, <3>1, <3>2, <3>3, <3>4
  <2>6. \A m \in DOMAIN rows' : rows'[m].last <= now
    <3>1. \A m \in DOMAIN rows' : rows'[m].last \in Nat
      <4>1. TypeOK' BY <1>5, TypeSave
      <4>. QED BY <4>1, BoundsAssumption DEF TypeOK, Times, Row
    <3>. QED BY <2>4, <2>5, <3>1
  <2>. QED BY <2>1, <2>2, <2>3, <2>4, <2>5, <2>6 DEF OrderInv, SeenInOrder
<1>6. ASSUME NEW j \in Jobs, LiveVolume(j) \/ Maintain(j) \/ Fail(j) PROVE OrderInv'
  <2>1. PICK h \in Job : job' = [job EXCEPT ![j] = h] /\ h.at = job[j].at
    BY <1>6, WorkEffect, Zenon
  <2>2. job[j].pc # "idle" /\ UNCHANGED <<now, rows>>
    BY Zenon, <1>6 DEF LiveVolume, Maintain, Fail, Raise, store
  <2>. QED BY <2>1, <2>2, OrderSame
<1>7. ASSUME NEW j \in Jobs, FinishOk(j) \/ FinishError(j) \/ Stop(j) PROVE OrderInv'
  <2>1. /\ job' = [job EXCEPT ![j] = IdleJob] /\ UNCHANGED <<now, rows>>
    BY <1>7 DEF FinishOk, FinishError, FinishRun, Stop, store
  <2>2. IdleJob.pc = "idle" BY DEF IdleJob
  <2>. DEFINE h == IdleJob
  <2>3. h \in Job /\ h.pc = "idle" /\ job' = [job EXCEPT ![j] = h]
    BY <2>1, <2>2, IdleJobType
  <2>. HIDE DEF h
  <2>. QED BY <2>1, <2>3, OrderSame
<1>8. CASE UNCHANGED vars BY <1>8 DEF vars, store, OrderInv, SeenInOrder
<1>. QED BY <1>1, <1>2, <1>3, <1>4, <1>5, <1>6, <1>7, <1>8 DEF Next, Step

\* While jobs do not overlap, last_seen_at of a market never precedes its
\* first_seen_at: the run in which it does needs two jobs at once.
THEOREM SeenOrdered ==
  ASSUME \A i, j \in Jobs : i = j
  PROVE  Spec => []SeenInOrder
<1>1. Init => OrderInv BY DEF Init, OrderInv, SeenInOrder, IdleJob, EmptyTable
<1>2. TypeOK /\ OrderInv /\ [Next]_vars => OrderInv' BY OrderNext
<1>3. OrderInv => SeenInOrder BY DEF OrderInv
<1>. QED BY <1>1, <1>2, <1>3, TypeCorrect, PTL DEF Spec
=============================================================================

----------------------------- MODULE AlertsProofs -----------------------------
(***************************************************************************)
(* Theorems about Alerts for any number of workers, markets and volumes,   *)
(* any thresholds and limits, and any number of faults.                    *)
(***************************************************************************)
EXTENDS Alerts, FiniteSetTheorems, SequenceTheorems, WellFoundedInduction, TLAPS

(* The largest of some numbers, and the newest rows of a table. *)

\* Max of FiniteSetsExt is what its name says.
LEMMA MaxOf ==
  ASSUME NEW n \in Nat, NEW S \in SUBSET (0 .. n), S # {}
  PROVE  Max(S) \in S /\ \A x \in S : x <= Max(S)
<1>. DEFINE T == {n - x : x \in S}
<1>1. T \subseteq Nat /\ T # {}
  <2>1. \A x \in S : x \in 0 .. n OBVIOUS
  <2>2. \A x \in S : n - x \in Nat BY <2>1
  <2>. QED BY <2>2
<1>2. PICK d \in T : \A e \in T : ~(<<e, d>> \in OpToRel(<, Nat))
  BY Zenon, <1>1, NatLessThanWellFounded, WFMin
<1>3. \A e \in T : ~(e < d) BY <1>1, <1>2 DEF OpToRel
<1>4. PICK x \in S : d = n - x OBVIOUS
<1>5. \A y \in S : y <= x
  <2>1. TAKE y \in S
  <2>2. n - y \in T OBVIOUS
  <2>3. ~(n - y < n - x) BY <1>3, <1>4, <2>2
  <2>. QED BY <2>3
<1>6. \E z \in S : \A y \in S : z >= y BY <1>5
<1>7. Max(S) \in S /\ \A y \in S : Max(S) >= y BY <1>6 DEF Max
<1>. QED BY <1>7

LEMMA RowsFinite ==
  ASSUME NEW n \in Nat, NEW ids \in SUBSET (1 .. n)
  PROVE  IsFiniteSet(ids) /\ Cardinality(ids) \in Nat
<1>1. IsFiniteSet(1 .. n) BY FS_Interval
<1>2. IsFiniteSet(ids) BY <1>1, FS_Subset
<1>. QED BY <1>2, FS_CardinalityType

\* The newest row of a set of row ids that has r rows from it up.
Rank(ids, i) == Cardinality({k \in ids : k >= i})

\* Every rank up to the size of the set is taken.
LEMMA RankTaken ==
  ASSUME NEW n \in Nat, NEW ids \in SUBSET (1 .. n), NEW r \in 1 .. Cardinality(ids)
  PROVE  \E i \in ids : Rank(ids, i) = r
<1>. DEFINE size == Cardinality(ids)
            free == {s \in 1 .. size : \A i \in ids : Rank(ids, i) # s}
<1>1. IsFiniteSet(ids) /\ size \in Nat BY RowsFinite
<1>2. \A x \in ids : x \in Nat OBVIOUS
<1>3. SUFFICES ASSUME free # {} PROVE FALSE OBVIOUS
<1>. HIDE DEF size
<1>13. free \subseteq Nat BY <1>1
<1>. HIDE DEF free
<1>4. PICK s \in free : \A e \in free : ~(<<e, s>> \in OpToRel(<, Nat))
  BY Zenon, <1>3, <1>13, NatLessThanWellFounded, WFMin
<1>5. s \in 1 .. size /\ s \in Nat /\ \A i \in ids : Rank(ids, i) # s
  <2>1. s \in free BY Zenon, <1>4
  <2>2. s \in 1 .. size /\ \A i \in ids : Rank(ids, i) # s BY <2>1 DEF free
  <2>. QED BY <1>1, <2>2
<1>6. \A e \in free : ~(e < s) BY <1>13, <1>4 DEF OpToRel
\* The rows above the rank before s, and the rest, whose newest has rank s.
<1>7. \E up \in SUBSET ids :
         /\ Cardinality(up) = s - 1
         /\ \A x \in up, y \in ids \ up : x > y
  <2>1. CASE s = 1 BY <2>1, FS_EmptySet
  <2>2. CASE s # 1
    <3>1. s - 1 \in 1 .. size /\ s - 1 < s BY <1>1, <1>5, <2>2
    <3>2. s - 1 \notin free BY <1>6, <3>1
    <3>3. PICK i \in ids : Rank(ids, i) = s - 1 BY <3>1, <3>2 DEF free
    <3>. WITNESS {k \in ids : k >= i} \in SUBSET ids
    <3>. QED BY <1>2, <3>3 DEF Rank
  <2>. QED BY <2>1, <2>2
<1>8. PICK up \in SUBSET ids :
         /\ Cardinality(up) = s - 1
         /\ \A x \in up, y \in ids \ up : x > y
  BY <1>7
<1>9. ids \ up # {} /\ ids \ up \in SUBSET (0 .. n)
  <2>1. ids \ up # {}
    <3>1. up # ids BY <1>1, <1>5, <1>8 DEF size
    <3>. QED BY <3>1
  <2>. QED BY <2>1
<1>. DEFINE i == Max(ids \ up)
<1>10. i \in ids \ up /\ \A x \in ids \ up : x <= i BY <1>9, MaxOf
<1>. HIDE DEF i
<1>11. {k \in ids : k >= i} = up \cup {i}
  <2>1. \A k \in up : k >= i BY <1>2, <1>8, <1>10
  <2>2. \A k \in ids \ up : k >= i => k = i BY <1>2, <1>10
  <2>3. i >= i BY <1>2, <1>10
  <2>. QED BY <1>10, <2>1, <2>2, <2>3
<1>12. Cardinality(up \cup {i}) = s
  <2>1. IsFiniteSet(up) BY <1>1, FS_Subset
  <2>2. Cardinality(up \cup {i}) = Cardinality(up) + 1 BY <1>10, <2>1, FS_AddElement
  <2>. QED BY <1>5, <1>8, <2>2
<1>. QED BY <1>5, <1>10, <1>11, <1>12 DEF Rank

\* recent_alerts returns rows of the table, as many as there are or the limit,
\* and none twice.
LEMMA NewestFirstRows ==
  ASSUME NEW n \in Nat, NEW ids \in SUBSET (1 .. n)
  PROVE  /\ NewestFirst(ids) \in Seq(ids)
         /\ \A r, s \in DOMAIN NewestFirst(ids) :
               NewestFirst(ids)[r] = NewestFirst(ids)[s] => r = s
<1>. DEFINE size == Cardinality(ids)
            m == IF size < Limit THEN size ELSE Limit
            row(r) == CHOOSE i \in ids : Rank(ids, i) = r
<1>1. size \in Nat BY RowsFinite
<1>2. m \in Nat /\ m <= size BY <1>1, NumbersAssumption
<1>3. NewestFirst(ids) = [r \in 1 .. m |-> row(r)] BY DEF NewestFirst, Rank
<1>4. \A r \in 1 .. m : row(r) \in ids /\ Rank(ids, row(r)) = r
  <2>1. TAKE r \in 1 .. m
  <2>2. r \in 1 .. size BY <1>1, <1>2
  <2>3. \E i \in ids : Rank(ids, i) = r BY <2>2, RankTaken
  <2>. QED BY <2>3
<1>. HIDE DEF m, row
<1>. QED BY <1>2, <1>3, <1>4
-----------------------------------------------------------------------------
(* Types, and what a worker's step leaves in its locals. *)

PCs == {"idle", "fetch", "check", "spikes", "stale", "act", "pick", "post", "mark"}

\* A worker that is not delivering holds no row.
Plain(g) == g.queue = <<>> /\ g.pc \in PCs \ {"post", "mark"}

LEMMA PlainTypes ==
  ASSUME NEW pc \in PCs
  PROVE  /\ Idle \in Worker /\ Plain(Idle)
         /\ [Idle EXCEPT !.pc = pc] \in Worker
         /\ \A at \in Times : [Idle EXCEPT !.pc = pc, !.at = at] \in Worker
         /\ \A keys \in SUBSET Key : [Idle EXCEPT !.pc = pc, !.keys = keys] \in Worker
         /\ \A keys \in SUBSET Key, fresh \in BOOLEAN :
               [Idle EXCEPT !.pc = pc, !.fresh = fresh, !.keys = keys] \in Worker
         /\ \A queue \in Seq(Nat) : [Idle EXCEPT !.pc = pc, !.queue = queue] \in Worker
<1>1. 0 \in Times /\ <<>> \in Seq(Nat) BY NumbersAssumption DEF Times
<1>2. Idle \in Worker BY <1>1 DEF Idle, Worker
<1>3. Plain(Idle) BY DEF Plain, Idle, PCs
<1>. QED BY Zenon, <1>2, <1>3 DEF Worker, PCs

\* The fields of a worker that starts over at pc.
LEMMA PlainFields ==
  ASSUME NEW pc \in PCs \ {"post", "mark"}, NEW at, NEW keys, NEW fresh
  PROVE  /\ Plain([Idle EXCEPT !.pc = pc])
         /\ Plain([Idle EXCEPT !.pc = pc, !.at = at])
         /\ Plain([Idle EXCEPT !.pc = pc, !.keys = keys])
         /\ Plain([Idle EXCEPT !.pc = pc, !.fresh = fresh, !.keys = keys])
  BY DEF Plain, Idle

\* One step of one worker: the others keep their locals.
LEMMA GotoEffect ==
  ASSUME TypeOK, NEW w \in Workers, NEW pc, NEW next \in Worker, Goto(w, pc, next)
  PROVE  /\ worker' \in [Workers -> Worker]
         /\ worker[w].pc = pc /\ worker'[w] = next
         /\ \A k \in Workers \ {w} : worker'[k] = worker[k]
         /\ UNCHANGED now
  BY DEF TypeOK, Goto

\* The keys of the checks are keys: they name the hour of a snapshot, or now.
LEMMA HourType ==
  ASSUME NEW t \in Times
  PROVE  t \div Hour \in Nat
  BY NumbersAssumption DEF Times

LEMMA SpikeKeyType ==
  ASSUME TypeOK, NEW m \in Markets, Spikes(m)
  PROVE  SpikeKey(m) \in Key
<1>1. SnapTimes(m) \in SUBSET (0 .. MaxTime) BY DEF SnapTimes, Times
<1>2. SnapTimes(m) # {}
  <2>1. Cardinality(SnapTimes(m)) > 1 BY Zenon DEF Spikes
  <2>2. Cardinality({}) = 0 BY FS_EmptySet
  <2>3. ~(0 > 1) OBVIOUS
  <2>. QED BY <2>1, <2>2, <2>3
<1>3. Newest(m) \in Times BY <1>1, <1>2, MaxOf, NumbersAssumption DEF Newest, Times
<1>4. Newest(m) \div Hour \in Nat BY <1>3, HourType
<1>. QED BY <1>4 DEF SpikeKey, Key

LEMMA StaleKeyType ==
  ASSUME TypeOK
  PROVE  StaleKey \in Key
<1>1. CASE DOMAIN snaps = {}
  <2>1. now \div Hour \in Nat BY HourType DEF TypeOK
  <2>. QED BY <1>1, <2>1 DEF StaleKey, Key
<1>2. CASE DOMAIN snaps # {}
  <2>. DEFINE S == {k[2] : k \in DOMAIN snaps}
  <2>1. S \in SUBSET (0 .. MaxTime) BY DEF TypeOK, Times
  <2>2. S # {} BY <1>2
  <2>3. LatestSnapshot \in Times
    BY <2>1, <2>2, MaxOf, NumbersAssumption DEF LatestSnapshot, Times
  <2>4. LatestSnapshot \div Hour \in Nat BY <2>3, HourType
  <2>. QED BY <1>2, <2>4 DEF StaleKey, Key
<1>. QED BY <1>1, <1>2

\* A step outside the alerts table.
Reads(w) == StartCommand(w) \/ Polls(w) \/ ReadMomentum(w) \/ ReadLatest(w)

LEMMA ReadsEffect ==
  ASSUME TypeOK, NEW w \in Workers, Reads(w)
  PROVE  /\ worker[w].pc \in {"idle", "fetch", "check", "stale"}
         /\ Goto(w, worker[w].pc, worker'[w])
         /\ worker'[w] \in Worker /\ Plain(worker'[w])
         /\ UNCHANGED <<alerts, posts, faults>>
         /\ DOMAIN snaps' \subseteq Markets \X Times
         /\ \A k \in DOMAIN snaps' : snaps'[k] \in Volumes
<1>1. UNCHANGED <<alerts, posts, faults>>
  BY DEF Reads, StartCommand, Polls, StartPoll, SavePoll, PollFails, ReadMomentum, ReadLatest
<1>2. ASSUME NEW pc \in {"idle", "fetch", "check", "stale"}, NEW next \in Worker, Plain(next),
             Goto(w, pc, next)
      PROVE  /\ worker[w].pc \in {"idle", "fetch", "check", "stale"}
             /\ Goto(w, worker[w].pc, worker'[w])
             /\ worker'[w] \in Worker /\ Plain(worker'[w])
  BY <1>2, GotoEffect
<1>3. CASE UNCHANGED snaps
  <2>1. \A pc \in {"check", "stale", "spikes", "act", "fetch"} : pc \in PCs \ {"post", "mark"}
    BY DEF PCs
  <2>2. CASE StartPoll(w)
    <3>1. Goto(w, "idle", [Idle EXCEPT !.pc = "fetch", !.at = now]) BY <2>2 DEF StartPoll
    <3>2. now \in Times BY SMTT(30) DEF TypeOK
    <3>3. [Idle EXCEPT !.pc = "fetch", !.at = now] \in Worker
          /\ Plain([Idle EXCEPT !.pc = "fetch", !.at = now])
      BY ZenonT(60), <2>1, <3>2, PlainTypes, PlainFields
    <3>. QED BY <1>1, <1>2, <1>3, <3>1, <3>3 DEF TypeOK
  <2>3. CASE StartCommand(w)
    <3>1. Goto(w, "idle", [Idle EXCEPT !.pc = "check"]) BY <2>3 DEF StartCommand
    <3>. QED BY Zenon, <1>1, <1>2, <1>3, <2>1, <3>1, PlainTypes, PlainFields DEF TypeOK
  <2>4. CASE PollFails(w)
    <3>1. Goto(w, "fetch", Idle) BY SMTT(30), <2>4 DEF PollFails
    <3>. QED BY Zenon, <1>1, <1>2, <1>3, <2>1, <3>1, PlainTypes DEF TypeOK
  <2>5. CASE ReadMomentum(w)
    <3>. DEFINE keys == {SpikeKey(m) : m \in {n \in Markets : Spikes(n)}}
                pc == IF keys = {} THEN "stale" ELSE "spikes"
    <3>1. keys \in SUBSET Key BY SpikeKeyType
    <3>2. Goto(w, "check", [Idle EXCEPT !.pc = pc, !.keys = keys]) BY <2>5 DEF ReadMomentum
    <3>3. pc \in PCs \ {"post", "mark"} BY <2>1
    <3>. HIDE DEF keys, pc
    <3>4. [Idle EXCEPT !.pc = pc, !.keys = keys] \in Worker
          /\ Plain([Idle EXCEPT !.pc = pc, !.keys = keys])
      BY Zenon, <3>1, <3>3, PlainTypes, PlainFields
    <3>. QED BY <1>1, <1>2, <1>3, <3>2, <3>4 DEF TypeOK
  <2>6. CASE ReadLatest(w)
    <3>. DEFINE keys == IF IsFresh THEN {} ELSE {StaleKey}
                fresh == IsFresh
    <3>1. keys \in SUBSET Key BY StaleKeyType
    <3>2. Goto(w, "stale", [Idle EXCEPT !.pc = "act", !.fresh = fresh, !.keys = keys])
      BY <2>6 DEF ReadLatest
    <3>3. fresh \in BOOLEAN BY DEF IsFresh
    <3>. HIDE DEF keys, fresh
    <3>4. [Idle EXCEPT !.pc = "act", !.fresh = fresh, !.keys = keys] \in Worker
          /\ Plain([Idle EXCEPT !.pc = "act", !.fresh = fresh, !.keys = keys])
      BY ZenonT(60), <2>1, <3>1, <3>3, PlainTypes, PlainFields
    <3>. QED BY <1>1, <1>2, <1>3, <3>2, <3>4 DEF TypeOK
  <2>7. CASE SavePoll(w)
    <3>1. Goto(w, "fetch", [Idle EXCEPT !.pc = "check"]) BY <2>7 DEF SavePoll
    <3>. QED BY Zenon, <1>1, <1>2, <1>3, <2>1, <3>1, PlainTypes, PlainFields DEF TypeOK
  <2>. QED BY <2>2, <2>3, <2>4, <2>5, <2>6, <2>7 DEF Reads, Polls
<1>4. CASE SavePoll(w)
  <2>1. Goto(w, "fetch", [Idle EXCEPT !.pc = "check"]) BY <1>4 DEF SavePoll
  <2>2. /\ worker[w].pc \in {"idle", "fetch", "check", "stale"}
        /\ Goto(w, worker[w].pc, worker'[w])
        /\ worker'[w] \in Worker /\ Plain(worker'[w])
    <3>1. "check" \in PCs \ {"post", "mark"} BY DEF PCs
    <3>. QED BY Zenon, <1>2, <2>1, <3>1, PlainTypes, PlainFields
  <2>3. PICK ms \in SUBSET Markets : \E volume \in [ms -> Volumes] :
          snaps' = [k \in DOMAIN snaps \cup (ms \X {worker[w].at}) |->
                      IF k \in DOMAIN snaps THEN snaps[k] ELSE volume[k[1]]]
    BY <1>4 DEF SavePoll
  <2>4. PICK volume \in [ms -> Volumes] :
          snaps' = [k \in DOMAIN snaps \cup (ms \X {worker[w].at}) |->
                      IF k \in DOMAIN snaps THEN snaps[k] ELSE volume[k[1]]]
    BY <2>3
  <2>5. worker[w].at \in Times BY DEF TypeOK, Worker
  <2>6. ms \X {worker[w].at} \subseteq Markets \X Times BY <2>5
  <2>7. DOMAIN snaps' \subseteq Markets \X Times BY <2>4, <2>6 DEF TypeOK
  <2>8. \A k \in DOMAIN snaps' : snaps'[k] \in Volumes BY <2>4 DEF TypeOK
  <2>. QED BY <1>1, <2>2, <2>7, <2>8
<1>5. UNCHANGED snaps \/ SavePoll(w)
  BY DEF Reads, StartCommand, Polls, StartPoll, PollFails, ReadMomentum, ReadLatest
<1>. QED BY <1>3, <1>4, <1>5

\* recent_alerts: the worker takes some pending rows, each once.
LEMMA PickEffect ==
  ASSUME TypeOK, NEW w \in Workers, Pick(w)
  PROVE  /\ Goto(w, "pick", worker'[w]) /\ worker'[w] \in Worker
         /\ UNCHANGED <<snaps, alerts, posts, faults>>
         /\ \/ Plain(worker'[w])
            \/ /\ worker'[w].pc = "post" /\ worker'[w].queue # <<>>
               /\ \A r \in DOMAIN worker'[w].queue :
                     /\ worker'[w].queue[r] \in DOMAIN alerts
                     /\ alerts[worker'[w].queue[r]].status = "pending"
               /\ \A r, s \in DOMAIN worker'[w].queue :
                     worker'[w].queue[r] = worker'[w].queue[s] => r = s
<1>. DEFINE ids == {i \in DOMAIN alerts : alerts[i].status = "pending"}
            queue == IF HasWebhook THEN Pending ELSE <<>>
            next == IF queue = <<>> THEN Idle ELSE [Idle EXCEPT !.pc = "post", !.queue = queue]
<1>1. ids \in SUBSET (1 .. Len(alerts)) /\ Len(alerts) \in Nat BY DEF TypeOK
<1>2. /\ Pending \in Seq(ids)
      /\ \A r, s \in DOMAIN Pending : Pending[r] = Pending[s] => r = s
  <2>. HIDE DEF ids
  <2>1. /\ NewestFirst(ids) \in Seq(ids)
        /\ \A r, s \in DOMAIN NewestFirst(ids) :
              NewestFirst(ids)[r] = NewestFirst(ids)[s] => r = s
    BY <1>1, NewestFirstRows
  <2>. QED BY <2>1 DEF Pending, ids
<1>3. /\ queue \in Seq(ids) /\ queue \in Seq(Nat)
      /\ \A r, s \in DOMAIN queue : queue[r] = queue[s] => r = s
  <2>. HIDE DEF ids
  <2>1. ids \subseteq Nat BY <1>1 DEF ids
  <2>2. Pending \in Seq(Nat)
    <3>1. Len(Pending) \in Nat /\ Pending = [r \in 1 .. Len(Pending) |-> Pending[r]]
          /\ \A r \in 1 .. Len(Pending) : Pending[r] \in ids
      BY <1>2
    <3>. QED BY <2>1, <3>1
  <2>3. CASE HasWebhook BY <1>2, <2>2, <2>3
  <2>4. CASE ~HasWebhook
    <3>1. <<>> \in Seq(ids) /\ <<>> \in Seq(Nat) /\ DOMAIN <<>> = {} OBVIOUS
    <3>. QED BY <2>4, <3>1
  <2>. QED BY <2>3, <2>4
<1>4. \A r \in DOMAIN queue : queue[r] \in ids
  <2>. HIDE DEF ids, queue
  <2>. QED BY <1>3
<1>5. Goto(w, "pick", next) /\ UNCHANGED <<snaps, alerts, posts, faults>> BY DEF Pick
<1>. HIDE DEF queue
<1>6. next \in Worker /\ (queue = <<>> => Plain(next))
  <2>1. "post" \in PCs BY DEF PCs
  <2>. QED BY Zenon, <1>3, <2>1, PlainTypes
<1>7. queue # <<>> => next.pc = "post" /\ next.queue = queue BY DEF Idle
<1>. HIDE DEF next
<1>8. Goto(w, "pick", worker'[w]) /\ worker'[w] = next BY <1>5, <1>6, GotoEffect
<1>. QED BY <1>3, <1>4, <1>5, <1>6, <1>7, <1>8

\* What a write to the alerts table may be, outside a delivery: nothing, a row
\* with a free key (save_alert), or the end of pending rows (resolve_alerts).
Filed(key) ==
    /\ ~KeyTaken(key)
    /\ alerts' = Append(alerts, [key |-> key, status |-> "pending"])
    /\ posts' = Append(posts, 0)

AllResolved ==
    /\ alerts' = [i \in DOMAIN alerts |->
                    IF Resolved(alerts[i]) THEN [alerts[i] EXCEPT !.status = "resolved"]
                    ELSE alerts[i]]
    /\ UNCHANGED posts

LEMMA WritesEffect ==
  ASSUME TypeOK, NEW w \in Workers, SaveSpike(w) \/ Act(w)
  PROVE  /\ worker[w].pc \in {"spikes", "act"}
         /\ Goto(w, worker[w].pc, worker'[w])
         /\ worker'[w] \in Worker /\ Plain(worker'[w])
         /\ UNCHANGED <<snaps, faults>>
         /\ \/ UNCHANGED <<alerts, posts>> \/ AllResolved
            \/ \E key \in Key : Filed(key)
<1>1. worker[w] \in Worker /\ worker[w].keys \subseteq Key BY DEF TypeOK, Worker
<1>2. ASSUME NEW key \in Key, SaveAlert(key)
      PROVE  UNCHANGED <<alerts, posts>> \/ \E k \in Key : Filed(k)
  BY <1>2 DEF SaveAlert, Filed
<1>3. CASE SaveSpike(w)
  <2>1. PICK key \in worker[w].keys :
          /\ SaveAlert(key)
          /\ LET rest == worker[w].keys \ {key}
             IN  Goto(w, "spikes", [Idle EXCEPT !.pc = IF rest = {} THEN "stale" ELSE "spikes",
                                                !.keys = rest])
    BY Zenon, <1>3 DEF SaveSpike
  <2>. DEFINE rest == worker[w].keys \ {key}
              pc == IF rest = {} THEN "stale" ELSE "spikes"
  <2>2. rest \in SUBSET Key /\ key \in Key BY <1>1
  <2>3. pc \in PCs \ {"post", "mark"} BY DEF PCs
  <2>4. Goto(w, "spikes", [Idle EXCEPT !.pc = pc, !.keys = rest]) BY SMTT(30), <2>1
  <2>. HIDE DEF rest, pc
  <2>5. /\ [Idle EXCEPT !.pc = pc, !.keys = rest] \in Worker
        /\ Plain([Idle EXCEPT !.pc = pc, !.keys = rest])
    BY Zenon, <2>2, <2>3, PlainTypes, PlainFields
  <2>6. /\ worker[w].pc = "spikes" /\ worker'[w] = [Idle EXCEPT !.pc = pc, !.keys = rest]
        /\ Goto(w, worker[w].pc, worker'[w])
    BY <2>4, <2>5, GotoEffect
  <2>7. UNCHANGED <<snaps, faults>> BY Zenon, <1>3 DEF SaveSpike
  <2>. QED BY <1>2, <2>1, <2>2, <2>5, <2>6, <2>7
<1>4. CASE Act(w)
  <2>1. Goto(w, "act", [Idle EXCEPT !.pc = "pick"]) BY <1>4 DEF Act
  <2>2. "pick" \in PCs \ {"post", "mark"} BY SMTT(30) DEF PCs
  <2>3. [Idle EXCEPT !.pc = "pick"] \in Worker /\ Plain([Idle EXCEPT !.pc = "pick"])
    BY Zenon, <2>2, PlainTypes, PlainFields
  <2>4. /\ worker[w].pc = "act" /\ worker'[w] = [Idle EXCEPT !.pc = "pick"]
        /\ Goto(w, worker[w].pc, worker'[w])
    BY <2>1, <2>3, GotoEffect
  <2>5. AllResolved \/ \E key \in worker[w].keys : SaveAlert(key)
    BY <1>4 DEF Act, AllResolved
  <2>6. UNCHANGED <<alerts, posts>> \/ AllResolved \/ \E key \in Key : Filed(key)
    BY <1>1, <1>2, <2>5
  <2>7. UNCHANGED <<snaps, faults>> BY <1>4 DEF Act
  <2>. QED BY <2>3, <2>4, <2>6, <2>7
<1>. QED BY <1>3, <1>4
-----------------------------------------------------------------------------
(* The inductive invariant: TypeOK, WorkInv and CountInv. *)

\* The rows a worker has yet to post, or to mark, are of the table, each in its
\* queue once, and the webhook took the one that it is about to mark.
Fit(g, rows, taken) ==
    /\ g.pc \in {"post", "mark"} <=> g.queue # <<>>
    /\ \A r \in DOMAIN g.queue : g.queue[r] \in rows
    /\ \A r, s \in DOMAIN g.queue : g.queue[r] = g.queue[s] => r = s
    /\ g.pc = "mark" => taken[g.queue[1]] > 0

WorkInv == \A w \in Workers : Fit(worker[w], DOMAIN alerts, posts)

\* The workers between the request and the UPDATE of row i, and those that have
\* it in the queue still to post.
Marks(g, i) == g.pc = "mark" /\ g.queue[1] = i
Holds(g, i) == \E r \in DOMAIN g.queue : g.queue[r] = i /\ (g.pc = "mark" => r # 1)
Marking(i) == {w \in Workers : Marks(worker[w], i)}
Holding(i) == {w \in Workers : Holds(worker[w], i)}

\* While a row is pending, each of its posts is in the hands of a worker or was
\* lost with one; and every post to come adds to those that are allowed.
CountInv == \A i \in DOMAIN alerts :
    /\ alerts[i].status = "pending" => posts[i] <= Cardinality(Marking(i)) + faults
    /\ posts[i] + Cardinality(Holding(i)) <= Cardinality(Workers) + faults

\* A worker outside a delivery counts for no row.
LEMMA PlainFits ==
  ASSUME NEW g, Plain(g), NEW rows, NEW taken
  PROVE  Fit(g, rows, taken) /\ \A i : ~Marks(g, i) /\ ~Holds(g, i)
  BY DEF Plain, Fit, Marks, Holds, PCs

\* A delivering worker has a first row, which it has not posted yet or is about
\* to mark; the two sets of workers of a row are finite, and have none in common.
LEMMA FirstRow ==
  ASSUME TypeOK, WorkInv, NEW w \in Workers, worker[w].pc \in {"post", "mark"}
  PROVE  /\ Head(worker[w].queue) = worker[w].queue[1]
         /\ 1 \in DOMAIN worker[w].queue /\ worker[w].queue[1] \in DOMAIN alerts
<1>1. worker[w].queue \in Seq(Nat) /\ worker[w].queue # <<>>
  BY DEF TypeOK, Worker, WorkInv, Fit
<1>2. 1 \in DOMAIN worker[w].queue BY <1>1
<1>. QED BY <1>1, <1>2 DEF WorkInv, Fit

LEMMA Hands ==
  ASSUME NEW i
  PROVE  /\ IsFiniteSet(Marking(i)) /\ IsFiniteSet(Holding(i)) /\ IsFiniteSet(Workers)
         /\ Cardinality(Marking(i)) \in Nat /\ Cardinality(Holding(i)) \in Nat
         /\ Cardinality(Workers) \in Nat
         /\ Cardinality(Holding(i)) <= Cardinality(Workers)
<1>1. Marking(i) \in SUBSET Workers /\ Holding(i) \in SUBSET Workers BY DEF Marking, Holding
<1>2. IsFiniteSet(Workers) BY SetsAssumption
<1>3. IsFiniteSet(Marking(i)) /\ IsFiniteSet(Holding(i))
      /\ Cardinality(Holding(i)) <= Cardinality(Workers)
  BY <1>1, <1>2, FS_Subset
<1>. QED BY <1>2, <1>3, FS_CardinalityType

LEMMA HandsApart ==
  ASSUME NEW S \in SUBSET Workers, NEW T \in SUBSET Workers, S \cap T = {}
  PROVE  Cardinality(S) + Cardinality(T) <= Cardinality(Workers)
<1>1. IsFiniteSet(Workers) BY SetsAssumption
<1>2. IsFiniteSet(S) /\ IsFiniteSet(T) BY <1>1, FS_Subset
<1>3. /\ Cardinality(S) \in Nat /\ Cardinality(T) \in Nat /\ Cardinality(S \cap T) = 0
      /\ Cardinality(Workers) \in Nat
  BY <1>1, <1>2, FS_CardinalityType, FS_EmptySet
<1>4. Cardinality(S \cup T) = Cardinality(S) + Cardinality(T) - Cardinality(S \cap T)
  BY <1>2, FS_Union
<1>5. Cardinality(S \cup T) <= Cardinality(Workers) BY <1>1, FS_Subset
<1>. QED BY <1>3, <1>4, <1>5

\* A step of one worker keeps the others fit while no row is lost and no post
\* is taken back.
LEMMA WorkKept ==
  ASSUME TypeOK, WorkInv, NEW w \in Workers,
         \A k \in Workers \ {w} : worker'[k] = worker[k],
         DOMAIN alerts \subseteq DOMAIN alerts',
         \A i \in DOMAIN alerts : posts[i] \in Nat /\ posts'[i] \in Nat /\ posts'[i] >= posts[i],
         Fit(worker'[w], DOMAIN alerts', posts')
  PROVE  WorkInv'
<1>1. ASSUME NEW k \in Workers \ {w}
      PROVE  Fit(worker[k], DOMAIN alerts', posts')
  <2>1. Fit(worker[k], DOMAIN alerts, posts) BY DEF WorkInv
  <2>2. worker[k].pc = "mark" => posts'[worker[k].queue[1]] > 0
    BY <2>1, FirstRow DEF Fit
  <2>. QED BY <2>1, <2>2 DEF Fit
<1>. QED BY <1>1 DEF WorkInv

\* Between two states in which a worker delivers nothing, the hands of a row
\* are the same.
LEMMA PlainHands ==
  ASSUME NEW w \in Workers, Plain(worker[w]), Plain(worker'[w]), NEW i,
         \A k \in Workers \ {w} : worker'[k] = worker[k]
  PROVE  Marking(i)' = Marking(i) /\ Holding(i)' = Holding(i)
<1>1. \A k \in Workers : /\ Marks(worker'[k], i) <=> Marks(worker[k], i)
                         /\ Holds(worker'[k], i) <=> Holds(worker[k], i)
  BY PlainFits
<1>. QED BY <1>1 DEF Marking, Holding
-----------------------------------------------------------------------------
(* The invariant, step by step. *)

\* A worker that reads or writes outside a delivery.
LEMMA PlainNext ==
  ASSUME TypeOK, WorkInv, CountInv, NEW w \in Workers,
         Reads(w) \/ SaveSpike(w) \/ Act(w)
  PROVE  TypeOK' /\ WorkInv' /\ CountInv'
<1>1. /\ Goto(w, worker[w].pc, worker'[w]) /\ worker'[w] \in Worker /\ Plain(worker'[w])
      /\ worker[w].pc \in PCs \ {"post", "mark"}
  BY ReadsEffect, WritesEffect DEF PCs
<1>2. /\ worker' \in [Workers -> Worker] /\ UNCHANGED now
      /\ \A k \in Workers \ {w} : worker'[k] = worker[k]
  BY <1>1, GotoEffect
<1>3. Plain(worker[w])
  <2>1. Fit(worker[w], DOMAIN alerts, posts) BY DEF WorkInv
  <2>. QED BY <1>1, <2>1 DEF Plain, Fit
<1>4. /\ UNCHANGED faults
      /\ DOMAIN snaps' \subseteq Markets \X Times
      /\ \A k \in DOMAIN snaps' : snaps'[k] \in Volumes
  BY ReadsEffect, WritesEffect DEF TypeOK
<1>5. UNCHANGED <<alerts, posts>> \/ AllResolved \/ \E key \in Key : Filed(key)
  BY ReadsEffect, WritesEffect
<1>6. /\ alerts \in Seq(Alert) /\ DOMAIN alerts = 1 .. Len(alerts) /\ Len(alerts) \in Nat
      /\ posts \in [DOMAIN alerts -> Nat]
  BY DEF TypeOK
<1>7. /\ alerts' \in Seq(Alert) /\ posts' \in [DOMAIN alerts' -> Nat]
      /\ DOMAIN alerts \subseteq DOMAIN alerts'
      /\ \A i, k \in DOMAIN alerts' : alerts'[i].key = alerts'[k].key => i = k
      /\ \A i \in DOMAIN alerts :
            /\ posts'[i] = posts[i]
            /\ alerts'[i].status = "pending" => alerts[i].status = "pending"
      /\ \A i \in DOMAIN alerts' \ DOMAIN alerts : posts'[i] = 0
  <2>1. CASE UNCHANGED <<alerts, posts>> BY <1>6, <2>1 DEF TypeOK
  <2>2. CASE AllResolved
    <3>1. \A a \in Alert : LET b == [a EXCEPT !.status = "resolved"]
                           IN  b \in Alert /\ b.key = a.key /\ b.status = "resolved"
      BY DEF Alert
    <3>2. \A i \in DOMAIN alerts : alerts[i] \in Alert BY <1>6
    <3>3. /\ DOMAIN alerts' = DOMAIN alerts /\ posts' = posts
          /\ \A i \in DOMAIN alerts :
                alerts'[i] = IF Resolved(alerts[i])
                             THEN [alerts[i] EXCEPT !.status = "resolved"] ELSE alerts[i]
      BY <2>2 DEF AllResolved
    <3>4. \A i \in DOMAIN alerts :
             /\ alerts'[i] \in Alert /\ alerts'[i].key = alerts[i].key
             /\ alerts'[i].status = "pending" => alerts[i].status = "pending"
      BY <3>1, <3>2, <3>3
    <3>5. alerts' = [i \in 1 .. Len(alerts) |-> alerts'[i]] BY <1>6, <2>2 DEF AllResolved
    <3>6. alerts' \in Seq(Alert)
      <4>1. \A i \in 1 .. Len(alerts) : alerts'[i] \in Alert BY <1>6, <3>4
      <4>. QED BY <1>6, <3>5, <4>1
    <3>. QED BY <1>6, <3>3, <3>4, <3>6 DEF TypeOK
  <2>3. ASSUME NEW key \in Key, Filed(key)
        PROVE  /\ alerts' \in Seq(Alert) /\ posts' \in [DOMAIN alerts' -> Nat]
               /\ DOMAIN alerts \subseteq DOMAIN alerts'
               /\ \A i, k \in DOMAIN alerts' : alerts'[i].key = alerts'[k].key => i = k
               /\ \A i \in DOMAIN alerts :
                     /\ posts'[i] = posts[i]
                     /\ alerts'[i].status = "pending" => alerts[i].status = "pending"
               /\ \A i \in DOMAIN alerts' \ DOMAIN alerts : posts'[i] = 0
    <3>. DEFINE a == [key |-> key, status |-> "pending"]  n == Len(alerts) + 1
    <3>1. a \in Alert /\ a.key = key BY DEF Alert
    <3>2. alerts' = Append(alerts, a) /\ posts' = Append(posts, 0) BY <2>3 DEF Filed
    <3>. HIDE DEF a
    <3>3. /\ alerts' \in Seq(Alert) /\ DOMAIN alerts' = 1 .. n
          /\ \A i \in DOMAIN alerts : alerts'[i] = alerts[i]
          /\ alerts'[n] = a
      BY <1>6, <3>1, <3>2
    <3>4. posts \in Seq(Nat) /\ Len(posts) = Len(alerts) BY <1>6
    <3>5. /\ posts' \in [1 .. n -> Nat] /\ posts'[n] = 0
          /\ \A i \in DOMAIN alerts : posts'[i] = posts[i]
      <4>1. posts' \in Seq(Nat) /\ Len(posts') = n BY <3>2, <3>4
      <4>2. posts'[n] = 0 /\ \A i \in 1 .. Len(alerts) : posts'[i] = posts[i]
        BY <1>6, <3>2, <3>4
      <4>. QED BY <1>6, <4>1, <4>2
    <3>6. \A i \in DOMAIN alerts : alerts[i].key # key BY <2>3 DEF Filed, KeyTaken
    <3>7. \A i \in DOMAIN alerts' : i \in DOMAIN alerts \/ i = n BY <1>6, <3>3
    <3>8. \A i, k \in DOMAIN alerts' : alerts'[i].key = alerts'[k].key => i = k
      BY <3>1, <3>3, <3>6, <3>7 DEF TypeOK
    <3>9. DOMAIN alerts \subseteq DOMAIN alerts' BY <1>6, <3>3
    <3>10. \A i \in DOMAIN alerts' \ DOMAIN alerts : posts'[i] = 0 BY <3>5, <3>7
    <3>. QED BY <3>3, <3>5, <3>8, <3>9, <3>10
  <2>. QED BY <1>5, <2>1, <2>2, <2>3
<1>8. WorkInv'
  <2>1. \A i \in DOMAIN alerts : posts[i] \in Nat /\ posts'[i] \in Nat /\ posts'[i] >= posts[i]
    BY <1>6, <1>7
  <2>2. Fit(worker'[w], DOMAIN alerts', posts') BY <1>1, PlainFits
  <2>. QED BY <1>2, <1>7, <2>1, <2>2, WorkKept
<1>9. TypeOK'
  <2>1. \A k \in Workers : \A r \in DOMAIN worker'[k].queue : worker'[k].queue[r] \in DOMAIN alerts'
    BY <1>8 DEF WorkInv, Fit
  <2>. QED BY <1>2, <1>4, <1>7, <2>1 DEF TypeOK
<1>10. CountInv'
  <2>1. ASSUME NEW i \in DOMAIN alerts'
        PROVE  /\ alerts'[i].status = "pending"
                    => posts'[i] <= Cardinality(Marking(i)') + faults
               /\ posts'[i] + Cardinality(Holding(i)') <= Cardinality(Workers) + faults
    <3>1. Marking(i)' = Marking(i) /\ Holding(i)' = Holding(i) BY <1>1, <1>2, <1>3, PlainHands
    <3>2. CASE i \in DOMAIN alerts BY <1>7, <3>1, <3>2 DEF CountInv
    <3>3. CASE i \notin DOMAIN alerts
      <4>1. posts'[i] = 0 /\ faults \in Nat BY <1>7, <3>3 DEF TypeOK
      <4>2. /\ Cardinality(Marking(i)) \in Nat /\ Cardinality(Holding(i)) \in Nat
            /\ Cardinality(Workers) \in Nat /\ Cardinality(Holding(i)) <= Cardinality(Workers)
        BY Hands
      <4>. QED BY <3>1, <4>1, <4>2
    <3>. QED BY <3>2, <3>3
  <2>. QED BY <1>4, <2>1 DEF CountInv
<1>. QED BY <1>8, <1>9, <1>10

\* The worker that picks has taken pending rows only, none of which it was
\* marking: their posts are in other hands than its own.
LEMMA PickNext ==
  ASSUME TypeOK, WorkInv, CountInv, NEW w \in Workers, Pick(w)
  PROVE  TypeOK' /\ WorkInv' /\ CountInv'
<1>. DEFINE h == worker'[w]
<1>1. /\ Goto(w, "pick", h) /\ h \in Worker
      /\ UNCHANGED <<snaps, alerts, posts, faults>>
  BY PickEffect
<1>2. /\ worker' \in [Workers -> Worker] /\ UNCHANGED now /\ worker[w].pc = "pick"
      /\ \A k \in Workers \ {w} : worker'[k] = worker[k]
  BY <1>1, GotoEffect
<1>3. Plain(worker[w])
  <2>1. Fit(worker[w], DOMAIN alerts, posts) BY DEF WorkInv
  <2>. QED BY <1>2, <2>1 DEF Plain, Fit, PCs
<1>4. CASE Plain(h)
  <2>1. WorkInv'
    <3>1. Fit(h, DOMAIN alerts, posts) BY <1>4, PlainFits
    <3>. QED BY <1>1, <1>2, <3>1 DEF WorkInv
  <2>2. \A i : Marking(i)' = Marking(i) /\ Holding(i)' = Holding(i)
    BY <1>2, <1>3, <1>4, PlainHands
  <2>3. CountInv' BY <1>1, <2>2 DEF CountInv
  <2>4. TypeOK' BY <1>1, <1>2, <2>1 DEF TypeOK, WorkInv, Fit
  <2>. QED BY <2>1, <2>3, <2>4
<1>5. CASE ~Plain(h)
  <2>1. /\ h.pc = "post" /\ h.queue # <<>>
        /\ \A r \in DOMAIN h.queue :
              /\ h.queue[r] \in DOMAIN alerts
              /\ alerts[h.queue[r]].status = "pending"
        /\ \A r, s \in DOMAIN h.queue : h.queue[r] = h.queue[s] => r = s
    BY <1>5, PickEffect
  <2>2. WorkInv'
    <3>1. Fit(h, DOMAIN alerts, posts) BY <2>1 DEF Fit
    <3>. QED BY <1>1, <1>2, <3>1 DEF WorkInv
  <2>3. TypeOK' BY <1>1, <1>2, <2>2 DEF TypeOK, WorkInv, Fit
  <2>4. ASSUME NEW i \in DOMAIN alerts
        PROVE  /\ alerts[i].status = "pending" => posts[i] <= Cardinality(Marking(i)') + faults
               /\ posts[i] + Cardinality(Holding(i)') <= Cardinality(Workers) + faults
    <3>1. \A k \in Workers \ {w} : /\ Marks(worker'[k], i) <=> Marks(worker[k], i)
                                   /\ Holds(worker'[k], i) <=> Holds(worker[k], i)
      BY <1>2
    <3>2. ~Marks(worker[w], i) /\ ~Holds(worker[w], i) /\ ~Marks(h, i)
      BY <1>3, <2>1, PlainFits DEF Marks
    <3>3. Marking(i)' = Marking(i) BY <3>1, <3>2 DEF Marking
    <3>4. CASE ~Holds(h, i)
      <4>1. Holding(i)' = Holding(i) BY <3>1, <3>2, <3>4 DEF Holding
      <4>. QED BY <3>3, <4>1 DEF CountInv
    <3>5. CASE Holds(h, i)
      <4>1. alerts[i].status = "pending" BY <2>1, <3>5 DEF Holds
      <4>2. posts[i] <= Cardinality(Marking(i)) + faults BY <4>1 DEF CountInv
      <4>3. Marking(i) \cap Holding(i)' = {}
        <5>1. \A k \in Workers \ {w} : ~(Marks(worker[k], i) /\ Holds(worker[k], i))
          <6>1. TAKE k \in Workers \ {w}
          <6>2. SUFFICES ASSUME Marks(worker[k], i), Holds(worker[k], i) PROVE FALSE OBVIOUS
          <6>3. worker[k].pc = "mark" /\ worker[k].queue[1] = i BY <6>2 DEF Marks
          <6>4. PICK r \in DOMAIN worker[k].queue : worker[k].queue[r] = i /\ r # 1
            BY <6>2, <6>3 DEF Holds
          <6>5. 1 \in DOMAIN worker[k].queue BY <6>3, FirstRow
          <6>. QED BY <6>3, <6>4, <6>5 DEF WorkInv, Fit
        <5>. QED BY <3>1, <3>2, <5>1 DEF Marking, Holding
      <4>4. Marking(i) \in SUBSET Workers /\ Holding(i)' \in SUBSET Workers
        BY DEF Marking, Holding
      <4>5. Cardinality(Marking(i)) + Cardinality(Holding(i)') <= Cardinality(Workers)
        BY <4>3, <4>4, HandsApart
      <4>6. /\ Cardinality(Marking(i)) \in Nat /\ Cardinality(Workers) \in Nat
            /\ posts[i] \in Nat /\ faults \in Nat
        BY Hands DEF TypeOK
      <4>7. Cardinality(Holding(i)') \in Nat
        BY <4>4, SetsAssumption, FS_Subset, FS_CardinalityType
      <4>. QED BY <3>3, <4>2, <4>5, <4>6, <4>7
    <3>. QED BY <3>4, <3>5
  <2>5. CountInv' BY <1>1, <2>4 DEF CountInv
  <2>. QED BY <2>2, <2>3, <2>5
<1>. QED BY <1>4, <1>5

\* The request and its answer: row i passes from the worker's queue into its hands.
LEMMA PostEffect ==
  ASSUME TypeOK, WorkInv, NEW w \in Workers, Post(w)
  PROVE  LET i == worker[w].queue[1]
         IN  /\ worker[w].pc = "post" /\ i \in DOMAIN alerts
             /\ Goto(w, "post", worker'[w]) /\ worker'[w] \in Worker
             /\ worker'[w].pc = "mark" /\ worker'[w].queue = worker[w].queue
             /\ posts' = [posts EXCEPT ![i] = @ + 1]
             /\ UNCHANGED <<snaps, alerts, faults>>
<1>. DEFINE g == worker[w]
            next == [g EXCEPT !.pc = "mark"]
<1>1. g \in Worker BY DEF TypeOK
<1>2. next \in Worker /\ next.pc = "mark" /\ next.queue = g.queue BY <1>1 DEF Worker
<1>3. Goto(w, "post", next) BY DEF Post
<1>. HIDE DEF next
<1>4. g.pc = "post" /\ worker'[w] = next /\ Goto(w, "post", worker'[w])
  BY <1>2, <1>3, GotoEffect
<1>. QED BY <1>2, <1>4, FirstRow DEF Post

LEMMA PostNext ==
  ASSUME TypeOK, WorkInv, CountInv, NEW w \in Workers, Post(w)
  PROVE  TypeOK' /\ WorkInv' /\ CountInv'
<1>. DEFINE g == worker[w]  h == worker'[w]  i == g.queue[1]
<1>1. /\ g.pc = "post" /\ i \in DOMAIN alerts
      /\ Goto(w, "post", h) /\ h \in Worker /\ h.pc = "mark" /\ h.queue = g.queue
      /\ posts' = [posts EXCEPT ![i] = @ + 1]
      /\ UNCHANGED <<snaps, alerts, faults>>
  BY PostEffect
<1>2. /\ worker' \in [Workers -> Worker] /\ UNCHANGED now
      /\ \A k \in Workers \ {w} : worker'[k] = worker[k]
  BY <1>1, GotoEffect
<1>3. /\ posts' \in [DOMAIN alerts -> Nat] /\ posts'[i] = posts[i] + 1
      /\ \A k \in DOMAIN alerts \ {i} : posts'[k] = posts[k]
      /\ \A k \in DOMAIN alerts : posts[k] \in Nat /\ posts'[k] \in Nat /\ posts'[k] >= posts[k]
  BY <1>1 DEF TypeOK
<1>4. Fit(g, DOMAIN alerts, posts) /\ 1 \in DOMAIN g.queue BY <1>1, FirstRow DEF WorkInv
<1>5. WorkInv'
  <2>1. posts'[i] > 0 BY <1>1, <1>3
  <2>2. Fit(h, DOMAIN alerts', posts') BY <1>1, <1>4, <2>1 DEF Fit
  <2>. QED BY <1>1, <1>2, <1>3, <2>2, WorkKept
<1>6. TypeOK' BY <1>1, <1>2, <1>3, <1>5 DEF TypeOK, WorkInv, Fit
<1>7. ASSUME NEW k \in DOMAIN alerts
      PROVE  /\ alerts[k].status = "pending" => posts'[k] <= Cardinality(Marking(k)') + faults
             /\ posts'[k] + Cardinality(Holding(k)') <= Cardinality(Workers) + faults
  <2>1. \A v \in Workers \ {w} : /\ Marks(worker'[v], k) <=> Marks(worker[v], k)
                                 /\ Holds(worker'[v], k) <=> Holds(worker[v], k)
    BY <1>2
  <2>2. CASE k # i
    <3>1. ~Marks(g, k) /\ ~Marks(h, k) /\ (Holds(h, k) <=> Holds(g, k))
      BY <1>1, <2>2 DEF Marks, Holds
    <3>2. Marking(k)' = Marking(k) /\ Holding(k)' = Holding(k)
      BY <2>1, <3>1 DEF Marking, Holding
    <3>. QED BY <1>3, <2>2, <3>2 DEF CountInv
  <2>3. CASE k = i
    <3>1. ~Marks(g, k) /\ Marks(h, k) /\ Holds(g, k) BY <1>1, <1>4, <2>3 DEF Marks, Holds
    <3>2. ~Holds(h, k) BY <1>1, <1>4, <2>3 DEF Holds, Fit
    <3>3. Marking(k)' = Marking(k) \cup {w} /\ w \notin Marking(k)
      BY <2>1, <3>1 DEF Marking
    <3>4. Holding(k)' = Holding(k) \ {w} /\ w \in Holding(k)
      BY <2>1, <3>1, <3>2 DEF Holding
    <3>5. /\ Cardinality(Marking(k)') = Cardinality(Marking(k)) + 1
          /\ Cardinality(Holding(k)') = Cardinality(Holding(k)) - 1
      <4>1. IsFiniteSet(Marking(k)) /\ IsFiniteSet(Holding(k)) BY Hands
      <4>2. Cardinality(Marking(k) \cup {w}) = Cardinality(Marking(k)) + 1
        BY <3>3, <4>1, FS_AddElement
      <4>3. Cardinality(Holding(k) \ {w}) = Cardinality(Holding(k)) - 1
        BY <3>4, <4>1, FS_RemoveElement
      <4>. QED BY <3>3, <3>4, <4>2, <4>3
    <3>6. /\ Cardinality(Marking(k)) \in Nat /\ Cardinality(Holding(k)) \in Nat
          /\ Cardinality(Workers) \in Nat /\ faults \in Nat
      <4>1. faults \in Nat BY DEF TypeOK
      <4>. QED BY <4>1, Hands
    <3>7. posts'[k] = posts[k] + 1 /\ posts[k] \in Nat BY <1>3, <2>3
    <3>. QED BY <3>5, <3>6, <3>7 DEF CountInv
  <2>. QED BY <2>2, <2>3
<1>8. CountInv' BY <1>1, <1>7 DEF CountInv
<1>. QED BY <1>5, <1>6, <1>8

\* mark_alert_delivered: row i leaves the worker's hands as a delivered one.
LEMMA MarkEffect ==
  ASSUME TypeOK, WorkInv, NEW w \in Workers, Mark(w)
  PROVE  LET g == worker[w]  i == g.queue[1]
         IN  /\ g.pc = "mark" /\ i \in DOMAIN alerts
             /\ Goto(w, "mark", worker'[w]) /\ worker'[w] \in Worker
             /\ worker'[w].queue = Tail(g.queue)
             /\ worker'[w].pc # "mark" /\ (worker'[w].pc = "post" <=> worker'[w].queue # <<>>)
             /\ alerts' = [alerts EXCEPT ![i].status = "delivered"]
             /\ UNCHANGED <<snaps, posts, faults>>
<1>. DEFINE g == worker[w]
            rest == Tail(g.queue)
            next == IF rest = <<>> THEN Idle ELSE [g EXCEPT !.pc = "post", !.queue = rest]
<1>1. g \in Worker /\ g.queue \in Seq(Nat) BY DEF TypeOK, Worker
<1>2. Goto(w, "mark", next) BY DEF Mark
<1>3. g.pc = "mark" BY <1>2 DEF Goto
<1>4. rest \in Seq(Nat)
  <2>1. g.queue # <<>> BY <1>3 DEF WorkInv, Fit
  <2>. QED BY <1>1, <2>1
<1>. HIDE DEF rest
<1>5. next \in Worker /\ next.queue = rest /\ next.pc # "mark" /\ (next.pc = "post" <=> rest # <<>>)
  <2>1. CASE rest = <<>>
    <3>1. "idle" \in PCs BY DEF PCs
    <3>2. Idle \in Worker BY Zenon, <3>1, PlainTypes
    <3>. QED BY <2>1, <3>2 DEF Idle
  <2>2. CASE rest # <<>> BY <1>1, <1>4, <2>2 DEF Worker
  <2>. QED BY <2>1, <2>2
<1>. HIDE DEF next
<1>6. worker'[w] = next /\ Goto(w, "mark", worker'[w]) BY <1>2, <1>5, GotoEffect
<1>7. Head(g.queue) = g.queue[1] /\ g.queue[1] \in DOMAIN alerts BY <1>3, FirstRow
<1>. QED BY <1>3, <1>5, <1>6, <1>7 DEF Mark, rest

LEMMA TailShifts ==
  ASSUME NEW q \in Seq(Nat), q # <<>>, NEW t, t = Tail(q)
  PROVE  /\ \A r \in DOMAIN t : r + 1 \in DOMAIN q /\ t[r] = q[r + 1]
         /\ \A r \in DOMAIN q : r # 1 => r - 1 \in DOMAIN t /\ t[r - 1] = q[r]
         /\ DOMAIN q \subseteq Nat \ {0} /\ DOMAIN t \subseteq Nat \ {0}
<1>1. /\ Len(q) \in Nat /\ Len(q) # 0 /\ DOMAIN q = 1 .. Len(q)
      /\ t \in Seq(Nat) /\ Len(t) = Len(q) - 1 /\ DOMAIN t = 1 .. Len(t)
  OBVIOUS
<1>2. \A r \in 1 .. Len(q) - 1 : t[r] = q[r + 1] OBVIOUS
<1>3. ASSUME NEW r \in 1 .. Len(q), r # 1
      PROVE  r - 1 \in 1 .. Len(t) /\ t[r - 1] = q[r]
  <2>1. r - 1 \in 1 .. Len(q) - 1 /\ (r - 1) + 1 = r BY <1>1, <1>3
  <2>. QED BY <1>1, <1>2, <2>1
<1>. QED BY SMTT(30), <1>1, <1>2, <1>3

LEMMA MarkNext ==
  ASSUME TypeOK, WorkInv, CountInv, NEW w \in Workers, Mark(w)
  PROVE  TypeOK' /\ WorkInv' /\ CountInv'
<1>. DEFINE g == worker[w]  h == worker'[w]  i == g.queue[1]
<1>1. /\ g.pc = "mark" /\ i \in DOMAIN alerts
      /\ Goto(w, "mark", h) /\ h \in Worker /\ h.queue = Tail(g.queue)
      /\ h.pc # "mark" /\ (h.pc = "post" <=> h.queue # <<>>)
      /\ alerts' = [alerts EXCEPT ![i].status = "delivered"]
      /\ UNCHANGED <<snaps, posts, faults>>
  BY MarkEffect
<1>2. /\ worker' \in [Workers -> Worker] /\ UNCHANGED now
      /\ \A k \in Workers \ {w} : worker'[k] = worker[k]
  BY <1>1, GotoEffect
<1>3. /\ alerts' \in Seq(Alert) /\ DOMAIN alerts' = DOMAIN alerts
      /\ alerts'[i].status = "delivered"
      /\ \A k \in DOMAIN alerts : alerts'[k].key = alerts[k].key
      /\ \A k \in DOMAIN alerts \ {i} : alerts'[k] = alerts[k]
  <2>. DEFINE a == [alerts[i] EXCEPT !.status = "delivered"]
  <2>1. alerts[i] \in Alert /\ alerts \in Seq(Alert) BY <1>1 DEF TypeOK
  <2>2. a \in Alert /\ a.status = "delivered" /\ a.key = alerts[i].key BY <2>1 DEF Alert
  <2>3. alerts' = [alerts EXCEPT ![i] = a] BY <1>1
  <2>. HIDE DEF a, i
  <2>4. i \in DOMAIN alerts BY <1>1 DEF i
  <2>. QED BY <2>1, <2>2, <2>3, <2>4
<1>4. /\ g.queue \in Seq(Nat) /\ g.queue # <<>> /\ 1 \in DOMAIN g.queue
      /\ Fit(g, DOMAIN alerts, posts)
  BY <1>1, FirstRow DEF TypeOK, Worker, WorkInv, Fit
<1>5. /\ \A r \in DOMAIN h.queue : r + 1 \in DOMAIN g.queue /\ h.queue[r] = g.queue[r + 1]
      /\ \A r \in DOMAIN g.queue : r # 1 => r - 1 \in DOMAIN h.queue /\ h.queue[r - 1] = g.queue[r]
      /\ DOMAIN g.queue \subseteq Nat \ {0} /\ DOMAIN h.queue \subseteq Nat \ {0}
  BY <1>1, <1>4, TailShifts
<1>6. WorkInv'
  <2>1. \A k \in DOMAIN alerts : posts[k] \in Nat BY DEF TypeOK
  <2>2. Fit(h, DOMAIN alerts', posts')
    <3>1. h.pc \in {"post", "mark"} <=> h.queue # <<>> BY <1>1
    <3>2. \A r \in DOMAIN h.queue : h.queue[r] \in DOMAIN alerts' BY <1>3, <1>4, <1>5 DEF Fit
    <3>3. \A r, s \in DOMAIN h.queue : h.queue[r] = h.queue[s] => r = s
      BY <1>4, <1>5 DEF Fit
    <3>. QED BY <1>1, <3>1, <3>2, <3>3 DEF Fit
  <2>. QED BY <1>1, <1>2, <1>3, <2>1, <2>2, WorkKept
<1>7. TypeOK'
  <2>1. \A k, l \in DOMAIN alerts' : alerts'[k].key = alerts'[l].key => k = l
    BY <1>3 DEF TypeOK
  <2>2. posts' \in [DOMAIN alerts' -> Nat] BY <1>1, <1>3 DEF TypeOK
  <2>. QED BY <1>1, <1>2, <1>3, <1>6, <2>1, <2>2 DEF TypeOK, WorkInv, Fit
<1>8. ASSUME NEW k \in DOMAIN alerts
      PROVE  /\ alerts'[k].status = "pending" => posts[k] <= Cardinality(Marking(k)') + faults
             /\ posts[k] + Cardinality(Holding(k)') <= Cardinality(Workers) + faults
  <2>1. \A v \in Workers \ {w} : /\ Marks(worker'[v], k) <=> Marks(worker[v], k)
                                 /\ Holds(worker'[v], k) <=> Holds(worker[v], k)
    BY <1>2
  <2>2. Holds(h, k) <=> Holds(g, k)
    <3>1. ASSUME NEW r \in DOMAIN h.queue, h.queue[r] = k PROVE Holds(g, k)
      <4>1. r + 1 \in DOMAIN g.queue /\ g.queue[r + 1] = k BY <1>5, <3>1
      <4>2. r \in Nat \ {0} BY <1>5, <3>1
      <4>3. r + 1 # 1 BY <4>2
      <4>. QED BY <4>1, <4>3 DEF Holds
    <3>2. ASSUME NEW r \in DOMAIN g.queue, g.queue[r] = k, r # 1 PROVE Holds(h, k)
      BY <1>1, <1>5, <3>2 DEF Holds
    <3>. QED BY <1>1, <3>1, <3>2 DEF Holds
  <2>3. Holding(k)' = Holding(k) BY <2>1, <2>2 DEF Holding
  <2>4. CASE k = i BY <1>3, <2>3, <2>4 DEF CountInv
  <2>5. CASE k # i
    <3>1. ~Marks(h, k) /\ ~Marks(g, k) BY <1>1, <2>5 DEF Marks
    <3>2. Marking(k)' = Marking(k) BY <2>1, <3>1 DEF Marking
    <3>. QED BY <1>3, <2>3, <2>5, <3>2 DEF CountInv
  <2>. QED BY <2>4, <2>5
<1>9. CountInv' BY <1>1, <1>3, <1>8 DEF CountInv
<1>. QED BY <1>6, <1>7, <1>9

\* A request that fails, or a worker that dies: what it had in hand is lost, and
\* the webhook may have taken the row that it was posting.
LEMMA FaultEffect ==
  ASSUME TypeOK, WorkInv, NEW w \in Workers, Fault(w)
  PROVE  /\ Goto(w, worker[w].pc, Idle)
         /\ UNCHANGED <<snaps, alerts>> /\ faults' = faults + 1 /\ faults' \in 0 .. MaxFaults
         /\ \/ UNCHANGED posts
            \/ /\ worker[w].pc = "post" /\ worker[w].queue[1] \in DOMAIN alerts
               /\ posts' = [posts EXCEPT ![worker[w].queue[1]] = @ + 1]
<1>1. faults' = faults + 1 /\ faults' \in 0 .. MaxFaults
  BY NumbersAssumption DEF Fault, TypeOK
<1>2. \/ UNCHANGED posts
      \/ worker[w].pc = "post" /\ posts' = [posts EXCEPT ![Head(worker[w].queue)] = @ + 1]
  BY DEF Fault
<1>3. worker[w].pc = "post" => /\ Head(worker[w].queue) = worker[w].queue[1]
                               /\ worker[w].queue[1] \in DOMAIN alerts
  BY FirstRow
<1>. QED BY <1>1, <1>2, <1>3 DEF Fault

LEMMA FaultNext ==
  ASSUME TypeOK, WorkInv, CountInv, NEW w \in Workers, Fault(w)
  PROVE  TypeOK' /\ WorkInv' /\ CountInv'
<1>. DEFINE g == worker[w]  i == g.queue[1]
<1>1. /\ Goto(w, g.pc, Idle)
      /\ UNCHANGED <<snaps, alerts>> /\ faults' = faults + 1 /\ faults' \in 0 .. MaxFaults
  BY FaultEffect
<1>2. Idle \in Worker /\ Plain(Idle)
  <2>1. "idle" \in PCs BY DEF PCs
  <2>. QED BY Zenon, <2>1, PlainTypes
<1>3. /\ worker' \in [Workers -> Worker] /\ UNCHANGED now /\ worker'[w] = Idle
      /\ \A k \in Workers \ {w} : worker'[k] = worker[k]
  BY <1>1, <1>2, GotoEffect
<1>4. /\ posts' \in [DOMAIN alerts -> Nat]
      /\ \A k \in DOMAIN alerts :
            /\ posts[k] \in Nat /\ posts'[k] \in Nat /\ posts'[k] >= posts[k]
            /\ posts'[k] = posts[k] \/ (posts'[k] = posts[k] + 1 /\ g.pc = "post" /\ k = i)
  <2>1. CASE UNCHANGED posts BY <2>1 DEF TypeOK
  <2>2. CASE /\ g.pc = "post" /\ i \in DOMAIN alerts /\ posts' = [posts EXCEPT ![i] = @ + 1]
    BY <2>2 DEF TypeOK
  <2>. QED BY <2>1, <2>2, FaultEffect
<1>5. WorkInv'
  <2>1. Fit(Idle, DOMAIN alerts', posts') BY <1>2, PlainFits
  <2>. QED BY <1>1, <1>3, <1>4, <2>1, WorkKept
<1>6. TypeOK' BY <1>1, <1>3, <1>4, <1>5 DEF TypeOK, WorkInv, Fit
<1>7. ASSUME NEW k \in DOMAIN alerts
      PROVE  /\ alerts[k].status = "pending" => posts'[k] <= Cardinality(Marking(k)') + faults + 1
             /\ posts'[k] + Cardinality(Holding(k)') <= Cardinality(Workers) + faults + 1
  <2>1. \A v \in Workers \ {w} : /\ Marks(worker'[v], k) <=> Marks(worker[v], k)
                                 /\ Holds(worker'[v], k) <=> Holds(worker[v], k)
    BY <1>3
  <2>2. ~Marks(Idle, k) /\ ~Holds(Idle, k) BY <1>2, PlainFits
  <2>3. Marking(k)' = Marking(k) \ {w} /\ Holding(k)' = Holding(k) \ {w}
    BY <1>3, <2>1, <2>2 DEF Marking, Holding
  <2>4. IsFiniteSet(Marking(k)) /\ IsFiniteSet(Holding(k)) BY Hands
  <2>5. Cardinality(Marking(k)') =
           IF w \in Marking(k) THEN Cardinality(Marking(k)) - 1 ELSE Cardinality(Marking(k))
    BY <2>3, <2>4, FS_RemoveElement
  <2>6. Cardinality(Holding(k)') =
           IF w \in Holding(k) THEN Cardinality(Holding(k)) - 1 ELSE Cardinality(Holding(k))
    BY <2>3, <2>4, FS_RemoveElement
  <2>7. /\ Cardinality(Marking(k)) \in Nat /\ Cardinality(Holding(k)) \in Nat
        /\ Cardinality(Workers) \in Nat /\ faults \in Nat
    <3>1. faults \in Nat BY DEF TypeOK
    <3>. QED BY <3>1, Hands
  <2>8. posts[k] \in Nat BY <1>4
  <2>9. CASE posts'[k] = posts[k] BY <2>5, <2>6, <2>7, <2>8, <2>9 DEF CountInv
  <2>10. CASE posts'[k] = posts[k] + 1 /\ g.pc = "post" /\ k = i
    <3>1. w \notin Marking(k) BY <2>10 DEF Marking, Marks
    <3>2. Holds(g, k)
      <4>1. 1 \in DOMAIN g.queue BY <2>10, FirstRow
      <4>. QED BY <2>10, <4>1 DEF Holds
    <3>3. w \in Holding(k) BY <3>2 DEF Holding
    <3>. QED BY <2>5, <2>6, <2>7, <2>8, <2>10, <3>1, <3>3 DEF CountInv
  <2>. QED BY <1>4, <2>9, <2>10
<1>8. CountInv'
  <2>1. faults \in Nat BY DEF TypeOK
  <2>2. \A k \in DOMAIN alerts : Cardinality(Marking(k)') \in Nat /\ Cardinality(Workers) \in Nat
    <3>1. \A k : Marking(k)' \in SUBSET Workers BY DEF Marking
    <3>. QED BY <3>1, SetsAssumption, FS_Subset, FS_CardinalityType
  <2>. QED BY <1>1, <1>7, <2>1, <2>2 DEF CountInv
<1>. QED BY <1>5, <1>6, <1>8
-----------------------------------------------------------------------------
(* The invariants. *)

LEMMA NextCases ==
  ASSUME Next
  PROVE  \/ Tick
         \/ \E w \in Workers : \/ Reads(w) \/ SaveSpike(w) \/ Act(w)
                               \/ Pick(w) \/ Post(w) \/ Mark(w) \/ Fault(w)
BY DEF Next, Runs, Reads

\* The three parts are an invariant, with TypeOK among them: rows and workers
\* stay within their types, and a key has one row, whatever the workers do.
THEOREM TypeCorrect == Spec => [](TypeOK /\ WorkInv /\ CountInv)
<1>1. Init => TypeOK /\ WorkInv /\ CountInv
  <2>. SUFFICES ASSUME Init PROVE TypeOK /\ WorkInv /\ CountInv OBVIOUS
  <2>1. Idle \in Worker /\ Plain(Idle)
    <3>1. "idle" \in PCs BY DEF PCs
    <3>. QED BY Zenon, <3>1, PlainTypes
  <2>2. alerts = <<>> /\ DOMAIN alerts = {} /\ posts = <<>> /\ worker = [w \in Workers |-> Idle]
    BY DEF Init
  <2>3. WorkInv BY <2>1, <2>2, PlainFits DEF WorkInv
  <2>4. CountInv BY <2>2 DEF CountInv
  <2>5. now \in Times /\ faults \in 0 .. MaxFaults BY NumbersAssumption DEF Init, Times
  <2>6. DOMAIN snaps = {} BY DEF Init
  <2>7. posts \in [DOMAIN alerts -> Nat] BY <2>2
  <2>8. TypeOK BY <2>1, <2>2, <2>3, <2>5, <2>6, <2>7 DEF TypeOK, WorkInv, Fit
  <2>. QED BY <2>3, <2>4, <2>8
<1>2. TypeOK /\ WorkInv /\ CountInv /\ [Next]_vars => (TypeOK /\ WorkInv /\ CountInv)'
  <2>. SUFFICES ASSUME TypeOK, WorkInv, CountInv, [Next]_vars
                PROVE  TypeOK' /\ WorkInv' /\ CountInv'
    OBVIOUS
  <2>1. CASE UNCHANGED <<snaps, alerts, worker, posts, faults>> /\ now' \in Times
    <3>1. TypeOK' BY <2>1 DEF TypeOK
    <3>2. WorkInv' BY <2>1 DEF WorkInv
    <3>3. CountInv' BY <2>1 DEF CountInv, Marking, Holding
    <3>. QED BY <3>1, <3>2, <3>3
  <2>2. CASE Tick
    <3>1. now' \in Times BY <2>2, NumbersAssumption DEF Tick, TypeOK, Times
    <3>. QED BY <2>1, <2>2, <3>1 DEF Tick
  <2>3. CASE UNCHANGED vars BY <2>1, <2>3 DEF vars, TypeOK
  <2>4. ASSUME NEW w \in Workers,
               \/ Reads(w) \/ SaveSpike(w) \/ Act(w)
               \/ Pick(w) \/ Post(w) \/ Mark(w) \/ Fault(w)
        PROVE  TypeOK' /\ WorkInv' /\ CountInv'
    BY <2>4, PlainNext, PickNext, PostNext, MarkNext, FaultNext
  <2>. QED BY <2>2, <2>3, <2>4, NextCases
<1>. QED BY <1>1, <1>2, PTL DEF Spec

\* An alert goes out again only when workers overlap or one was lost between
\* the request and its UPDATE (deliver_pending_alerts, mark_alert_delivered).
THEOREM RepeatsAccounted == Spec => []RepeatsAreAccounted
<1>1. TypeOK /\ CountInv => RepeatsAreAccounted
  <2>. SUFFICES ASSUME TypeOK, CountInv, NEW i \in DOMAIN alerts
                PROVE  posts[i] <= Cardinality(Workers) + faults
    BY DEF RepeatsAreAccounted
  <2>1. posts[i] + Cardinality(Holding(i)) <= Cardinality(Workers) + faults BY DEF CountInv
  <2>2. Cardinality(Holding(i)) \in Nat /\ Cardinality(Workers) \in Nat BY Hands
  <2>3. posts[i] \in Nat /\ faults \in Nat BY DEF TypeOK
  <2>. QED BY <2>1, <2>2, <2>3
<1>. QED BY <1>1, TypeCorrect, PTL
-----------------------------------------------------------------------------
(* The refinement of Outbox. *)

\* The refinement mapping of Alerts, by name.
Status == [i \in DOMAIN alerts |-> alerts[i].status]

\* save_alert of a free key is the outbox's File.
LEMMA FiledMaps ==
  ASSUME TypeOK, NEW key \in Key, Filed(key)
  PROVE  Status' = Append(Status, "pending") /\ posts' = Append(posts, 0)
<1>. DEFINE a == [key |-> key, status |-> "pending"]  n == Len(alerts) + 1
            S == {"pending", "delivered", "resolved"}
<1>1. /\ alerts \in Seq(Alert) /\ DOMAIN alerts = 1 .. Len(alerts) /\ Len(alerts) \in Nat
      /\ \A i \in 1 .. Len(alerts) : alerts[i] \in Alert
  BY DEF TypeOK
<1>2. alerts' = Append(alerts, a) /\ posts' = Append(posts, 0) /\ a.status = "pending"
  BY DEF Filed
<1>. HIDE DEF a
<1>3. /\ DOMAIN alerts' = 1 .. n /\ alerts'[n] = a
      /\ \A i \in 1 .. Len(alerts) : alerts'[i] = alerts[i]
  BY <1>1, <1>2
<1>4. \A i \in 1 .. Len(alerts) : alerts[i].status \in S BY <1>1 DEF Alert
<1>5. Status = [i \in 1 .. Len(alerts) |-> alerts[i].status] BY <1>1 DEF Status
<1>6. Status \in Seq(S) /\ Len(Status) = Len(alerts)
      /\ \A i \in 1 .. Len(alerts) : Status[i] = alerts[i].status
  BY <1>1, <1>4, <1>5
<1>7. Status' = [i \in 1 .. n |-> alerts'[i].status] BY <1>3 DEF Status
<1>8. \A i \in 1 .. n : i = n \/ i \in 1 .. Len(alerts) BY <1>1
<1>9. \A i \in 1 .. n : alerts'[i].status \in S BY <1>2, <1>3, <1>4, <1>8
<1>10. Status' \in Seq(S) /\ Len(Status') = n BY <1>1, <1>7, <1>9
<1>11. /\ Append(Status, "pending") \in Seq(S) /\ Len(Append(Status, "pending")) = n
       /\ Append(Status, "pending")[n] = "pending"
       /\ \A i \in 1 .. Len(alerts) : Append(Status, "pending")[i] = Status[i]
  BY <1>1, <1>6
<1>12. \A i \in 1 .. n : Append(Status, "pending")[i] = Status'[i]
  BY <1>2, <1>3, <1>6, <1>7, <1>8, <1>11
<1>. QED BY <1>2, <1>10, <1>11, <1>12, SeqEqual

\* resolve_alerts is the outbox's Withdraw: of pending rows only.
LEMMA ResolvedMaps ==
  ASSUME TypeOK, AllResolved
  PROVE  \E some \in SUBSET DOMAIN Status :
            /\ \A i \in some : Status[i] = "pending"
            /\ Status' = [i \in DOMAIN Status |-> IF i \in some THEN "resolved" ELSE Status[i]]
            /\ UNCHANGED posts
<1>. DEFINE some == {i \in DOMAIN alerts : Resolved(alerts[i])}
<1>1. DOMAIN Status = DOMAIN alerts /\ \A i \in DOMAIN alerts : Status[i] = alerts[i].status
  BY DEF Status
<1>2. \A i \in some : Status[i] = "pending" BY <1>1 DEF Resolved
<1>3. \A a \in Alert : [a EXCEPT !.status = "resolved"].status = "resolved" BY DEF Alert
<1>4. \A i \in DOMAIN alerts : alerts[i] \in Alert BY DEF TypeOK
<1>5. /\ DOMAIN alerts' = DOMAIN alerts
      /\ \A i \in DOMAIN alerts :
            alerts'[i] = IF Resolved(alerts[i])
                         THEN [alerts[i] EXCEPT !.status = "resolved"] ELSE alerts[i]
  BY DEF AllResolved
<1>6. \A i \in DOMAIN alerts :
         alerts'[i].status = IF i \in some THEN "resolved" ELSE Status[i]
  BY <1>1, <1>3, <1>4, <1>5
<1>7. Status' = [i \in DOMAIN alerts |-> alerts'[i].status] BY <1>5 DEF Status
<1>. HIDE DEF some
<1>8. Status' = [i \in DOMAIN Status |-> IF i \in some THEN "resolved" ELSE Status[i]]
  BY <1>1, <1>6, <1>7
<1>9. some \in SUBSET DOMAIN Status BY <1>1 DEF some
<1>. QED BY <1>2, <1>8, <1>9 DEF AllResolved

\* mark_alert_delivered is the outbox's Deliver, of a row that the webhook took.
LEMMA MarkMaps ==
  ASSUME TypeOK, WorkInv, NEW w \in Workers, Mark(w)
  PROVE  \E i \in DOMAIN Status : /\ posts[i] > 0
                                  /\ Status' = [Status EXCEPT ![i] = "delivered"]
                                  /\ UNCHANGED posts
<1>. DEFINE i == worker[w].queue[1]
<1>1. /\ worker[w].pc = "mark" /\ i \in DOMAIN alerts /\ UNCHANGED posts
      /\ alerts' = [alerts EXCEPT ![i].status = "delivered"]
  BY MarkEffect
<1>2. posts[i] > 0 BY <1>1 DEF WorkInv, Fit
<1>3. alerts[i] \in Alert BY <1>1 DEF TypeOK
<1>4. [alerts[i] EXCEPT !.status = "delivered"].status = "delivered" BY <1>3 DEF Alert
<1>. HIDE DEF i
<1>5. /\ DOMAIN alerts' = DOMAIN alerts /\ alerts'[i].status = "delivered"
      /\ \A k \in DOMAIN alerts \ {i} : alerts'[k] = alerts[k]
  BY <1>1, <1>4
<1>6. Status' = [Status EXCEPT ![i] = "delivered"] BY <1>1, <1>5 DEF Status
<1>7. i \in DOMAIN Status BY <1>1 DEF Status
<1>. QED BY <1>1, <1>2, <1>6, <1>7

LEMMA StepMaps ==
  TypeOK /\ WorkInv /\ [Next]_vars => [Delivery!Next]_<<Status, posts>>
<1>. SUFFICES ASSUME TypeOK, WorkInv, [Next]_vars
              PROVE  Delivery!Next \/ UNCHANGED <<Status, posts>>
  OBVIOUS
<1>0. DOMAIN Status = DOMAIN alerts BY DEF Status
<1>1. CASE UNCHANGED <<alerts, posts>> BY <1>1 DEF Status
<1>2. ASSUME NEW i \in DOMAIN alerts, posts' = [posts EXCEPT ![i] = @ + 1], UNCHANGED alerts
      PROVE  Delivery!Next
  <2>1. Delivery!Take(i) BY <1>2 DEF Delivery!Take
  <2>. QED BY <1>0, <2>1 DEF Delivery!Next, Status
<1>3. ASSUME NEW w \in Workers, SaveSpike(w) \/ Act(w)
      PROVE  Delivery!Next \/ UNCHANGED <<Status, posts>>
  <2>1. CASE UNCHANGED <<alerts, posts>> BY <1>1, <2>1
  <2>2. ASSUME NEW key \in Key, Filed(key) PROVE Delivery!File
    BY <2>2, FiledMaps DEF Delivery!File, Status
  <2>3. CASE AllResolved
    <3>1. \E some \in SUBSET DOMAIN Status : Delivery!Withdraw(some)
      BY <2>3, ResolvedMaps DEF Delivery!Withdraw, Status
    <3>. QED BY <3>1 DEF Delivery!Next, Status
  <2>. QED BY <1>3, <2>1, <2>2, <2>3, WritesEffect DEF Delivery!Next
<1>4. ASSUME NEW w \in Workers, Post(w) PROVE Delivery!Next
  BY <1>2, <1>4, PostEffect
<1>5. ASSUME NEW w \in Workers, Mark(w) PROVE Delivery!Next
  <2>1. \E i \in DOMAIN Status : Delivery!Deliver(i)
    BY <1>5, MarkMaps DEF Delivery!Deliver, Status
  <2>. QED BY <2>1 DEF Delivery!Next, Status
<1>6. ASSUME NEW w \in Workers, Fault(w)
      PROVE  Delivery!Next \/ UNCHANGED <<Status, posts>>
  BY <1>1, <1>2, <1>6, FaultEffect
<1>7. ASSUME NEW w \in Workers, Reads(w) \/ Pick(w)
      PROVE  UNCHANGED <<Status, posts>>
  <2>1. UNCHANGED <<alerts, posts>> BY <1>7, ReadsEffect, PickEffect
  <2>. QED BY <2>1 DEF Status
<1>8. CASE Tick BY <1>1, <1>8 DEF Tick
<1>9. CASE UNCHANGED vars BY <1>1, <1>9 DEF vars
<1>. QED BY <1>3, <1>4, <1>5, <1>6, <1>7, <1>8, <1>9, NextCases

\* However many workers poll, check, deliver and die, the alerts table is the
\* at-least-once outbox of Outbox: delivered means posted, only a pending alert
\* is resolved, and none becomes pending again.
THEOREM AlertsImplementOutbox == Spec => ImplementsOutbox
<1>1. Init => Delivery!Init
  BY DEF Init, Delivery!Init
<1>2. TypeOK /\ WorkInv /\ [Next]_vars => [Delivery!Next]_<<Status, posts>>
  BY StepMaps
<1>. QED BY <1>1, <1>2, TypeCorrect, PTL DEF Spec, ImplementsOutbox, Delivery!Spec, Status

\* A row says delivered only of what the webhook took, at every moment: the
\* UPDATE of mark_alert_delivered never precedes its own request.
THEOREM DeliveredWasPosted == Spec => []Delivery!DeliveredWasTaken
<1>1. Init => Delivery!DeliveredWasTaken BY DEF Init, Delivery!DeliveredWasTaken
<1>2. TypeOK /\ WorkInv /\ TypeOK' /\ Delivery!DeliveredWasTaken /\ [Next]_vars
         => Delivery!DeliveredWasTaken'
  <2>. SUFFICES ASSUME TypeOK, WorkInv, TypeOK', [Next]_vars,
                       \A i \in DOMAIN Status : Status[i] = "delivered" => posts[i] > 0
                PROVE  \A i \in DOMAIN Status' : Status'[i] = "delivered" => posts'[i] > 0
    BY DEF Delivery!DeliveredWasTaken, Status
  <2>0. DOMAIN Status = DOMAIN alerts /\ DOMAIN Status' = DOMAIN alerts' /\ DOMAIN posts = DOMAIN alerts
    BY DEF Status, TypeOK
  <2>1. CASE UNCHANGED <<Status, posts>> BY <2>1
  <2>2. CASE Delivery!Next
    <3>1. CASE Delivery!File
      <4>1. Status' = Append(Status, "pending") /\ posts' = Append(posts, 0)
        BY <3>1 DEF Delivery!File, Status
      <4>2. Len(alerts) \in Nat /\ DOMAIN alerts = 1 .. Len(alerts) BY DEF TypeOK
      <4>3. Status = [i \in 1 .. Len(alerts) |-> alerts[i].status] BY <4>2 DEF Status
      <4>4. posts \in Seq(Nat) /\ Len(posts) = Len(alerts)
        BY SMTT(30), <4>2 DEF TypeOK
      <4>5. Status \in Seq({Status[i] : i \in DOMAIN Status}) /\ Len(Status) = Len(alerts)
        BY <4>2, <4>3
      <4>. QED BY <4>1, <4>2, <4>4, <4>5
    <3>2. ASSUME NEW k \in DOMAIN Status, Delivery!Take(k) \/ Delivery!Deliver(k)
          PROVE  \A i \in DOMAIN Status' : Status'[i] = "delivered" => posts'[i] > 0
      <4>1. CASE Delivery!Take(k)
        <5>1. posts' = [posts EXCEPT ![k] = @ + 1] /\ Status' = Status
          BY <4>1 DEF Delivery!Take, Status
        <5>2. \A i \in DOMAIN posts : posts[i] \in Nat BY DEF TypeOK
        <5>. QED BY <2>0, <5>1, <5>2
      <4>2. CASE Delivery!Deliver(k)
        <5>1. posts[k] > 0 /\ posts' = posts /\ Status' = [Status EXCEPT ![k] = "delivered"]
          BY <4>2 DEF Delivery!Deliver, Status
        <5>. QED BY <5>1
      <4>. QED BY <3>2, <4>1, <4>2
    <3>3. ASSUME NEW some \in SUBSET DOMAIN Status, Delivery!Withdraw(some)
          PROVE  \A i \in DOMAIN Status' : Status'[i] = "delivered" => posts'[i] > 0
      <4>1. /\ Status' = [i \in DOMAIN Status |-> IF i \in some THEN "resolved" ELSE Status[i]]
            /\ posts' = posts
        BY <3>3 DEF Delivery!Withdraw, Status
      <4>. QED BY <4>1
    <3>. QED BY <2>2, <3>1, <3>2, <3>3 DEF Delivery!Next, Status
  <2>. QED BY <2>1, <2>2, StepMaps
<1>. QED BY <1>1, <1>2, TypeCorrect, PTL DEF Spec
=============================================================================

---------------------------- MODULE RunLedgerProofs ---------------------------
(***************************************************************************)
(* What RunLedger promises, for any number of writers: proved once, it     *)
(* holds of every module that implements the ledger.                       *)
(***************************************************************************)
EXTENDS RunLedger, SequenceTheorems, TLAPS

\* Accounted is not inductive alone: a lost row must have no holder, or an End
\* of that holder would take the row from 'running'.
LedgerInv ==
    /\ status \in Seq({"running", "ok", "error"})
    /\ holds \in [Writers -> Nat]
    /\ \A w \in Writers : holds[w] # 0 => holds[w] \in DOMAIN status \ lost
    /\ lost \subseteq DOMAIN status

\* start_run gives the writer a row that nobody else holds.
LEMMA BeginKeeps ==
  ASSUME LedgerInv, Accounted, NEW w \in Writers, Begin(w)
  PROVE  LedgerInv' /\ Accounted'
<1>. DEFINE n == Len(status) + 1
<1>1. /\ DOMAIN status = 1 .. Len(status) /\ Len(status) \in Nat
      /\ n \in Nat \ {0} /\ n \notin DOMAIN status
  BY DEF LedgerInv
<1>2. /\ status' \in Seq({"running", "ok", "error"})
      /\ DOMAIN status' = DOMAIN status \cup {n} /\ status'[n] = "running"
      /\ \A r \in DOMAIN status : status'[r] = status[r]
  BY DEF Begin, LedgerInv
<1>3. /\ holds' \in [Writers -> Nat] /\ holds'[w] = n /\ holds[w] = 0 /\ lost' = lost
      /\ \A v \in Writers \ {w} : holds'[v] = holds[v]
  BY <1>1 DEF Begin, LedgerInv
<1>. HIDE DEF n
<1>4. LedgerInv' BY <1>1, <1>2, <1>3 DEF LedgerInv
<1>5. ASSUME NEW r \in DOMAIN status'
      PROVE  status'[r] = "running" <=> (r \in lost' \/ \E v \in Writers : holds'[v] = r)
  <2>1. CASE r = n BY <1>2, <1>3, <2>1
  <2>2. CASE r # n
    <3>1. r \in DOMAIN status /\ r # 0 BY <1>1, <1>2, <2>2
    <3>2. (\E v \in Writers : holds'[v] = r) <=> (\E v \in Writers : holds[v] = r)
      BY <1>3, <2>2, <3>1
    <3>. QED BY <1>2, <1>3, <3>1, <3>2 DEF Accounted
  <2>. QED BY <2>1, <2>2
<1>6. \A v, u \in Writers : holds'[v] = holds'[u] /\ holds'[v] # 0 => v = u
  BY <1>1, <1>3 DEF Accounted, LedgerInv
<1>. QED BY <1>4, <1>5, <1>6 DEF Accounted

\* finish_run takes from 'running' the writer's row, and no other.
LEMMA EndKeeps ==
  ASSUME LedgerInv, Accounted, NEW w \in Writers, NEW verdict \in {"ok", "error"},
         End(w, verdict)
  PROVE  LedgerInv' /\ Accounted'
<1>. DEFINE n == holds[w]
<1>1. n # 0 /\ n \in DOMAIN status \ lost BY DEF End, LedgerInv
<1>2. /\ status' \in Seq({"running", "ok", "error"})
      /\ DOMAIN status' = DOMAIN status /\ status'[n] = verdict
      /\ \A r \in DOMAIN status \ {n} : status'[r] = status[r]
  BY <1>1 DEF End, LedgerInv
<1>3. /\ holds' \in [Writers -> Nat] /\ holds'[w] = 0 /\ lost' = lost
      /\ \A v \in Writers \ {w} : holds'[v] = holds[v]
  BY DEF End, LedgerInv
<1>4. \A v \in Writers \ {w} : holds[v] # n BY Zenon, <1>1 DEF Accounted
<1>5. LedgerInv' BY <1>1, <1>2, <1>3 DEF LedgerInv
<1>6. ASSUME NEW r \in DOMAIN status'
      PROVE  status'[r] = "running" <=> (r \in lost' \/ \E v \in Writers : holds'[v] = r)
  <2>1. r # 0 BY <1>2 DEF LedgerInv
  <2>2. CASE r = n BY <1>1, <1>2, <1>3, <1>4, <2>1, <2>2
  <2>3. CASE r # n
    <3>1. (\E v \in Writers : holds'[v] = r) <=> (\E v \in Writers : holds[v] = r)
      BY <1>3, <2>1, <2>3
    <3>. QED BY <1>2, <1>3, <2>3, <3>1 DEF Accounted
  <2>. QED BY <2>2, <2>3
<1>7. \A v, u \in Writers : holds'[v] = holds'[u] /\ holds'[v] # 0 => v = u
  BY <1>3 DEF Accounted
<1>. QED BY <1>5, <1>6, <1>7 DEF Accounted

\* A lost writer leaves its row 'running'.
LEMMA LoseKeeps ==
  ASSUME LedgerInv, Accounted, NEW w \in Writers, Lose(w)
  PROVE  LedgerInv' /\ Accounted'
<1>. DEFINE n == holds[w]
<1>1. n # 0 /\ n \in DOMAIN status \ lost /\ status' = status /\ lost' = lost \cup {n}
  BY DEF Lose, LedgerInv
<1>2. /\ holds' \in [Writers -> Nat] /\ holds'[w] = 0
      /\ \A v \in Writers \ {w} : holds'[v] = holds[v]
  BY DEF Lose, LedgerInv
<1>3. \A v \in Writers \ {w} : holds[v] # n BY <1>1 DEF Accounted
<1>4. LedgerInv' BY <1>1, <1>2, <1>3 DEF LedgerInv
<1>5. ASSUME NEW r \in DOMAIN status'
      PROVE  status'[r] = "running" <=> (r \in lost' \/ \E v \in Writers : holds'[v] = r)
  <2>1. r # 0 BY <1>1 DEF LedgerInv
  <2>2. (r \in lost' \/ \E v \in Writers : holds'[v] = r)
          <=> (r \in lost \/ \E v \in Writers : holds[v] = r)
    BY <1>1, <1>2, <2>1
  <2>. QED BY <1>1, <2>2 DEF Accounted
<1>6. \A v, u \in Writers : holds'[v] = holds'[u] /\ holds'[v] # 0 => v = u
  BY <1>2 DEF Accounted
<1>. QED BY <1>4, <1>5, <1>6 DEF Accounted

\* A row of ingestion_runs is 'running' exactly while its writer holds it, or
\* for ever once the writer was lost; and no two writers hold one row.
THEOREM LedgerAccounted == Spec => [](LedgerInv /\ Accounted)
<1>1. Init => LedgerInv /\ Accounted BY DEF Init, LedgerInv, Accounted
<1>2. LedgerInv /\ Accounted /\ [Next]_ledger => (LedgerInv /\ Accounted)'
  <2>1. CASE UNCHANGED ledger BY <2>1 DEF ledger, LedgerInv, Accounted
  <2>. QED BY <2>1, BeginKeeps, EndKeeps, LoseKeeps DEF Next
<1>. QED BY <1>1, <1>2, PTL DEF Spec
=============================================================================

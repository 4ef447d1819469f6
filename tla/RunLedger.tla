------------------------------ MODULE RunLedger ------------------------------
(***************************************************************************)
(* What table ingestion_runs promises its readers, whichever job writes    *)
(* it: Repository.start_run and finish_run, called once each by a poll, a  *)
(* backfill or a stream window, and the loss of a writer in between.       *)
(* Ingestion and TradeStream implement it.                                 *)
(***************************************************************************)
EXTENDS Naturals, Sequences

CONSTANT Writers   \* the activations that keep runs

VARIABLES
    status,  \* the status column, row id = position
    holds,   \* the run a writer has begun and not ended, 0 when there is none
    lost     \* history: runs whose writer was cancelled or killed

ledger == <<status, holds, lost>>

Init ==
    /\ status = <<>>
    /\ holds = [w \in Writers |-> 0]
    /\ lost = {}

\* start_run: INSERT, and the row's own id.
Begin(w) ==
    /\ holds[w] = 0
    /\ status' = Append(status, "running")
    /\ holds' = [holds EXCEPT ![w] = Len(status) + 1]
    /\ UNCHANGED lost

\* finish_run: UPDATE of that row.
End(w, verdict) ==
    /\ holds[w] # 0
    /\ status' = [status EXCEPT ![holds[w]] = verdict]
    /\ holds' = [holds EXCEPT ![w] = 0]
    /\ UNCHANGED lost

Lose(w) ==
    /\ holds[w] # 0
    /\ lost' = lost \cup {holds[w]}
    /\ holds' = [holds EXCEPT ![w] = 0]
    /\ UNCHANGED status

Next == \E w \in Writers :
    \/ Begin(w)
    \/ \E verdict \in {"ok", "error"} : End(w, verdict)
    \/ Lose(w)

Spec == Init /\ [][Next]_ledger
-----------------------------------------------------------------------------
(* What follows for every implementation. *)

\* A row is 'running' exactly while its writer holds it, or for ever once the
\* writer was lost; and no two writers hold one row.
Accounted ==
    /\ \A r \in DOMAIN status : status[r] = "running" <=>
         (r \in lost \/ \E w \in Writers : holds[w] = r)
    /\ \A v, w \in Writers : holds[v] = holds[w] /\ holds[v] # 0 => v = w
=============================================================================

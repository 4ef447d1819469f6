----------------------------- MODULE TradeStream ----------------------------
(***************************************************************************)
(* The trade stream: stream_trades in the windows of a server's            *)
(* stream_loop, which the scheduler starts and cancels, and in `pwmk       *)
(* ingest stream` processes.                                               *)
(*                                                                         *)
(* A streamer's steps are the requests it awaits, the messages it receives *)
(* and its transactions.  The poll of the bootstrap is one step (Ingestion *)
(* has its own), and a message that is no trade print is left out.         *)
(***************************************************************************)
EXTENDS Naturals, Sequences, FiniteSets, FiniteSetsExt

CONSTANTS
    Servers,          \* server processes, each with one scheduler
    Commands,         \* `pwmk ingest stream` processes
    EnableScheduler,  \* PWMK_ENABLE_SCHEDULER, serve --scheduler
    EnableStream,     \* PWMK_ENABLE_STREAM, serve --stream
    Assets,           \* token ids
    Prints,           \* trade keys: what a repeated message shares
    AssetOf,          \* the token a print is of
    AssetLimit,       \* asset_limit
    Window,           \* duration, in ticks
    MaxRuns, MaxInbox, MaxFaults  \* bounds: stream runs, messages a socket holds, failures

Streamers == Servers \cup Commands

ASSUME StreamersAssumption ==
    IsFiniteSet(Servers) /\ IsFiniteSet(Commands) /\ Servers \cap Commands = {}
ASSUME SettingsAssumption == EnableScheduler \in BOOLEAN /\ EnableStream \in BOOLEAN
ASSUME PrintsAssumption ==
    IsFiniteSet(Assets) /\ IsFiniteSet(Prints) /\ AssetOf \in [Prints -> Assets]
ASSUME NumbersAssumption ==
    /\ AssetLimit \in Nat \ {0} /\ Window \in Nat
    /\ MaxRuns \in Nat /\ MaxInbox \in Nat /\ MaxFaults \in Nat

VARIABLES
    tokens,    \* tables market_tokens and markets: the tokens of open markets
    trades,    \* table trades: the keys present
    runs,      \* table ingestion_runs, mode stream, row id = position
    server,    \* the server processes
    streamer,  \* the locals of stream_trades and stream_loop, and the socket
    lost,      \* history: runs whose streamer was cancelled or killed
    faults     \* counter for the bound

store == <<tokens, trades, runs>>
vars  == <<store, server, streamer, lost, faults>>

Run      == [status : {"running", "ok", "error"}, trades : Nat]
Streamer == [pc : {"off", "map", "boot", "remap", "begin", "connect", "recv",
                   "fail", "maintain", "sleep"},
             timed : BOOLEAN,                  \* a duration is given
             map : SUBSET Assets, run : Nat, left : 0 .. Window,
             seen : Nat, inbox : Seq(Prints)]

Off == [pc |-> "off", timed |-> TRUE, map |-> {}, run |-> 0, left |-> 0,
        seen |-> 0, inbox |-> <<>>]

Init ==
    /\ tokens \in SUBSET Assets
    /\ trades = {} /\ runs = <<>>
    /\ server = [s \in Servers |-> "down"]
    /\ streamer = [j \in Streamers |-> Off]
    /\ lost = {} /\ faults = 0

At(j, pc) == streamer[j].pc = pc
Goto(j, next) == streamer' = [streamer EXCEPT ![j] = next]
FreshAt(j, pc) == [Off EXCEPT !.pc = pc, !.timed = streamer[j].timed]

\* A streamer that holds a run of the ledger.
Owns(j) == streamer[j].pc \in {"connect", "recv", "fail"}
-----------------------------------------------------------------------------
(* The process: scheduler, server, command line. *)

\* lifespan starts the scheduler, which starts the stream loop when both
\* settings say so.
ServerStarts(s) ==
    /\ server[s] = "down"
    /\ server' = [server EXCEPT ![s] = "up"]
    /\ IF EnableScheduler /\ EnableStream THEN Goto(s, [Off EXCEPT !.pc = "map"])
       ELSE UNCHANGED streamer
    /\ UNCHANGED <<store, lost, faults>>

CommandStarts(c) ==
    /\ At(c, "off")
    /\ \E timed \in BOOLEAN : Goto(c, [Off EXCEPT !.pc = "map", !.timed = timed])
    /\ UNCHANGED <<store, server, lost, faults>>

\* IngestionScheduler.stop asks every task to end, and waits.
StopBegins(s) ==
    /\ server[s] = "up"
    /\ server' = [server EXCEPT ![s] = "stopping"]
    /\ UNCHANGED <<store, streamer, lost, faults>>

Ends(j) ==
    /\ Goto(j, Off)
    /\ lost' = IF Owns(j) THEN lost \cup {streamer[j].run} ELSE lost
    /\ UNCHANGED <<store, faults>>

\* Broken variant: the handler of the loop takes the cancellation for an error.
CancelHandled(s) ==
    /\ server[s] = "stopping" /\ streamer[s].pc \in {"boot", "connect", "recv", "maintain", "sleep"}
    /\ Goto(s, FreshAt(s, "sleep"))
    /\ lost' = IF Owns(s) THEN lost \cup {streamer[s].run} ELSE lost
    /\ UNCHANGED <<store, server, faults>>

\* The cancellation is thrown where the task awaits, and no handler of an
\* Exception sees it: the run stays as it is.
Cancelled(s) ==
    /\ server[s] = "stopping" /\ streamer[s].pc \in {"boot", "connect", "recv", "maintain", "sleep"}
    /\ Ends(s)
    /\ UNCHANGED server

StopEnds(s) ==
    /\ server[s] = "stopping" /\ At(s, "off")
    /\ server' = [server EXCEPT ![s] = "down"]
    /\ UNCHANGED <<store, streamer, lost, faults>>

\* The process dies between any two steps.
Killed(j) ==
    /\ ~At(j, "off") /\ faults < MaxFaults
    /\ Goto(j, Off)
    /\ lost' = IF Owns(j) THEN lost \cup {streamer[j].run} ELSE lost
    /\ server' = [s \in Servers |-> IF s = j THEN "down" ELSE server[s]]
    /\ faults' = faults + 1
    /\ UNCHANGED store
-----------------------------------------------------------------------------
(* stream_trades *)

Step == UNCHANGED <<server, lost, faults>>
Fault == faults < MaxFaults /\ faults' = faults + 1 /\ UNCHANGED <<server, lost>>

\* list_token_map: the first `limit` tokens of open markets, by volume.
TokenMaps == {map \in SUBSET tokens : Cardinality(map) = Min({AssetLimit, Cardinality(tokens)})}

\* An empty map calls for a poll first; what the poll has found is taken as it is.
ReadMap(j) ==
    /\ streamer[j].pc \in {"map", "remap"}
    /\ \E map \in TokenMaps :
         Goto(j, [FreshAt(j, IF map = {} /\ At(j, "map") THEN "boot" ELSE "begin")
                    EXCEPT !.map = map])
    /\ Step /\ UNCHANGED store

Bootstrap(j) ==
    /\ At(j, "boot")
    /\ \E found \in SUBSET Assets : tokens' = tokens \cup found
    /\ Goto(j, FreshAt(j, "remap"))
    /\ Step /\ UNCHANGED <<trades, runs>>

\* Markets close, and other jobs poll.
TokensChange ==
    /\ \E open \in SUBSET Assets : tokens' = open
    /\ UNCHANGED <<trades, runs, server, streamer, lost, faults>>

\* start_run('stream'), and the clock of the window starts.
BeginAs(j, id) ==
    /\ At(j, "begin") /\ Len(runs) < MaxRuns
    /\ runs' = Append(runs, [status |-> "running", trades |-> 0])
    /\ Goto(j, [streamer[j] EXCEPT !.pc = "connect", !.run = id, !.left = Window])
    /\ Step /\ UNCHANGED <<tokens, trades>>

\* Broken variant: the run id is read before the row is inserted.
BeginWithStaleId(j) == BeginAs(j, Len(runs))

Begin(j) == BeginAs(j, Len(runs) + 1)

\* Without tokens the generator ends at once, and anext raises.
Connect(j) ==
    /\ At(j, "connect")
    /\ Goto(j, [streamer[j] EXCEPT !.pc = IF streamer[j].map = {} THEN "fail" ELSE "recv"])
    /\ Step /\ UNCHANGED store

Receivers(p) == {j \in Streamers : At(j, "recv") /\ AssetOf[p] \in streamer[j].map}

\* The socket carries a print, or repeats one, to everyone subscribed to it, as
\* often as there is room.
Message(p) ==
    /\ \A j \in Receivers(p) : Len(streamer[j].inbox) < MaxInbox
    /\ streamer' = [j \in Streamers |->
         IF j \in Receivers(p) THEN [streamer[j] EXCEPT !.inbox = Append(@, p)]
         ELSE streamer[j]]
    /\ UNCHANGED <<store, server, lost, faults>>

\* Broken variant: what is received is counted, stored or not.
NewReceived(p) == 1

\* save_trade: INSERT OR IGNORE on the trade key, and its rowcount.
New(p) == IF p \in trades THEN 0 ELSE 1

\* remaining > 0
Waiting(j) == streamer[j].timed => streamer[j].left > 0

\* Broken variant: every print has the whole duration to come.
ReceiveRestarting(j) ==
    /\ At(j, "recv") /\ streamer[j].inbox # <<>> /\ Waiting(j)
    /\ LET p == Head(streamer[j].inbox)
       IN  /\ trades' = trades \cup {p}
           /\ Goto(j, [streamer[j] EXCEPT !.inbox = Tail(@), !.seen = @ + New(p), !.left = Window])
    /\ Step /\ UNCHANGED <<tokens, runs>>

Receive(j) ==
    /\ At(j, "recv") /\ streamer[j].inbox # <<>> /\ Waiting(j)
    /\ LET p == Head(streamer[j].inbox)
       IN  /\ trades' = trades \cup {p}
           /\ Goto(j, [streamer[j] EXCEPT !.inbox = Tail(@), !.seen = @ + New(p)])
    /\ Step /\ UNCHANGED <<tokens, runs>>

\* Time passes while the window waits for the socket or reads from it.
Elapse(j) ==
    /\ streamer[j].pc \in {"connect", "recv"} /\ streamer[j].timed /\ streamer[j].left > 0
    /\ Goto(j, [streamer[j] EXCEPT !.left = @ - 1])
    /\ Step /\ UNCHANGED store

\* After a window a loop runs the maintenance and a command is over; after an
\* error a loop sleeps.
After(j, pc) == IF j \in Servers THEN FreshAt(j, pc) ELSE Off

FinishRun(j, status, next) ==
    /\ runs' = [runs EXCEPT ![streamer[j].run] = [status |-> status, trades |-> streamer[j].seen]]
    /\ Goto(j, next)
    /\ UNCHANGED <<tokens, trades>>

\* The deadline: what the socket still holds is dropped with it.
Finish(j) ==
    /\ streamer[j].pc \in {"connect", "recv"} /\ ~Waiting(j)
    /\ FinishRun(j, "ok", After(j, "maintain"))
    /\ Step

\* A connection attempt that times out raises what the deadline raises, and a
\* timed window takes it for its end.
ConnectTimesOut(j) ==
    /\ At(j, "connect") /\ streamer[j].timed
    /\ FinishRun(j, "ok", After(j, "maintain"))
    /\ Fault

\* Broken variant: a failed window leaves its run as it is.
FinishErrorSilently(j) ==
    /\ At(j, "fail")
    /\ Goto(j, After(j, "sleep"))
    /\ Step /\ UNCHANGED store

FinishError(j) ==
    /\ At(j, "fail")
    /\ FinishRun(j, "error", After(j, "sleep"))
    /\ Step

\* The connection, the message or the transaction fails inside the window.
WindowFails(j) ==
    /\ streamer[j].pc \in {"connect", "recv"}
    /\ Goto(j, [streamer[j] EXCEPT !.pc = "fail", !.inbox = <<>>])
    /\ Fault /\ UNCHANGED store

\* A failure outside the window, or in the maintenance, has no run to end.
LoopFails(j) ==
    /\ streamer[j].pc \in {"map", "boot", "remap", "begin", "maintain"}
    /\ Goto(j, After(j, "sleep"))
    /\ Fault /\ UNCHANGED store

\* Broken variant: an error ends the loop.
ResumeNever(j) ==
    /\ streamer[j].pc \in {"maintain", "sleep"}
    /\ Goto(j, IF At(j, "maintain") THEN FreshAt(j, "map") ELSE Off)
    /\ Step /\ UNCHANGED store

\* stream_loop goes round: after the maintenance at once, after an error when
\* the delay is over.
Resume(j) ==
    /\ streamer[j].pc \in {"maintain", "sleep"}
    /\ Goto(j, FreshAt(j, "map"))
    /\ Step /\ UNCHANGED store
-----------------------------------------------------------------------------
Runs(j) ==
    \/ ReadMap(j) \/ Bootstrap(j) \/ Begin(j) \/ Connect(j) \/ Receive(j) \/ Elapse(j)
    \/ Finish(j) \/ FinishError(j) \/ Resume(j)

Next ==
    \/ TokensChange
    \/ \E p \in Prints : Message(p)
    \/ \E s \in Servers : ServerStarts(s) \/ StopBegins(s) \/ Cancelled(s) \/ StopEnds(s)
    \/ \E c \in Commands : CommandStarts(c)
    \/ \E j \in Streamers : Runs(j) \/ ConnectTimesOut(j) \/ WindowFails(j) \/ LoopFails(j) \/ Killed(j)

Spec == Init /\ [][Next]_vars

\* Requests and the bootstrap poll have timeouts, the event loop runs what is
\* ready, and time passes whatever it runs.  A task that was cancelled comes to
\* an await that suspends it, where the cancellation is thrown.
FairSpec == Spec
    /\ \A j \in Streamers : WF_vars(Runs(j)) /\ WF_vars(Elapse(j))
    /\ \A s \in Servers : SF_vars(Cancelled(s)) /\ WF_vars(StopEnds(s))
-----------------------------------------------------------------------------
(* Properties. *)

TypeOK ==
    /\ tokens \subseteq Assets /\ trades \subseteq Prints
    /\ runs \in Seq(Run)
    /\ server \in [Servers -> {"down", "up", "stopping"}]
    /\ streamer \in [Streamers -> Streamer]
    /\ \A j \in Streamers : Owns(j) => streamer[j].run \in DOMAIN runs
    /\ lost \subseteq DOMAIN runs
    /\ faults \in 0 .. MaxFaults

\* The streamers keep the ledger as RunLedger has it: a run is 'running' exactly
\* while one streamer is in its window, or for ever once that one was cancelled
\* or killed, and a window ends no run but its own.
Ledger == INSTANCE RunLedger WITH
    Writers <- Streamers,
    status <- [r \in DOMAIN runs |-> runs[r].status],
    holds <- [j \in Streamers |-> IF Owns(j) THEN streamer[j].run ELSE 0]

ImplementsLedger == Ledger!Spec

\* The ledger counts every stored trade once, although several windows receive
\* the same print, a print is repeated and windows fail; only what a lost
\* window had counted is missing.
TradesCountedOnce ==
    LET counted == MapThenSumSet(LAMBDA r : runs[r].trades, DOMAIN runs)
                   + MapThenSumSet(LAMBDA j : streamer[j].seen, Streamers)
    IN  counted <= Cardinality(trades) /\ (lost = {} => counted = Cardinality(trades))

\* A stop comes to its end wherever the stream loop was when it was cancelled,
\* in a round that succeeds or in one that fails, as far as the bound on runs
\* goes.
StopReturns == \A s \in Servers :
    server[s] = "stopping" ~>
        (server[s] # "stopping" \/ (At(s, "begin") /\ Len(runs) = MaxRuns))

\* A timed window ends, whether the socket stays silent, goes on for ever or fails.
WindowsEnd == \A j \in Streamers :
    (Owns(j) /\ streamer[j].timed) ~> ~Owns(j)

\* The stream of a server that is told to schedule and to stream opens a window
\* again after every failure, as far as the bound on runs goes.
StreamReturns == EnableScheduler /\ EnableStream => \A s \in Servers :
    server[s] = "up" ~> (Owns(s) \/ server[s] # "up" \/ Len(runs) = MaxRuns)
=============================================================================

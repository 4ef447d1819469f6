--------------------------- MODULE TradeStreamProofs --------------------------
(***************************************************************************)
(* Theorems about TradeStream for any number of servers, commands, tokens  *)
(* and prints, any settings, and any bounds.                               *)
(***************************************************************************)
EXTENDS TradeStream, SumTheorems, SequenceTheorems

(* Types of the locals. *)

PCs == {"off", "map", "boot", "remap", "begin", "connect", "recv", "fail", "maintain", "sleep"}

\* A streamer outside a window.
Outside == PCs \ {"connect", "recv", "fail"}

LEMMA FreshTypes ==
  ASSUME TypeOK, NEW j \in Streamers, NEW pc \in Outside
  PROVE  /\ Off \in Streamer /\ Off.pc = "off"
         /\ FreshAt(j, pc) \in Streamer /\ FreshAt(j, pc).pc = pc
         /\ \A timed \in BOOLEAN :
               /\ [Off EXCEPT !.pc = pc, !.timed = timed] \in Streamer
               /\ [Off EXCEPT !.pc = pc, !.timed = timed].pc = pc
         /\ [Off EXCEPT !.pc = pc] \in Streamer /\ [Off EXCEPT !.pc = pc].pc = pc
         /\ \A map \in SUBSET Assets :
               /\ [FreshAt(j, pc) EXCEPT !.map = map] \in Streamer
               /\ [FreshAt(j, pc) EXCEPT !.map = map].pc = pc
<1>1. 0 \in 0 .. Window /\ <<>> \in Seq(Prints) BY NumbersAssumption
<1>2. Off \in Streamer /\ Off.pc = "off" BY <1>1 DEF Off, Streamer
<1>3. streamer[j].timed \in BOOLEAN BY DEF TypeOK, Streamer
<1>4. \A timed \in BOOLEAN :
         /\ [Off EXCEPT !.pc = pc, !.timed = timed] \in Streamer
         /\ [Off EXCEPT !.pc = pc, !.timed = timed].pc = pc
  BY <1>2 DEF Streamer, Outside, PCs
<1>5. FreshAt(j, pc) \in Streamer /\ FreshAt(j, pc).pc = pc BY Zenon, <1>3, <1>4 DEF FreshAt
<1>6. [Off EXCEPT !.pc = pc] \in Streamer /\ [Off EXCEPT !.pc = pc].pc = pc
  BY <1>2 DEF Streamer, Outside, PCs
<1>7. \A map \in SUBSET Assets :
         /\ [FreshAt(j, pc) EXCEPT !.map = map] \in Streamer
         /\ [FreshAt(j, pc) EXCEPT !.map = map].pc = pc
  BY <1>5 DEF Streamer
<1>. QED BY Zenon, <1>2, <1>4, <1>5, <1>6, <1>7

\* One step of one streamer: the others keep their locals.
LEMMA GotoEffect ==
  ASSUME TypeOK, NEW j \in Streamers, NEW next \in Streamer, Goto(j, next)
  PROVE  /\ streamer' \in [Streamers -> Streamer] /\ streamer'[j] = next
         /\ \A k \in Streamers \ {j} : streamer'[k] = streamer[k]
  BY DEF TypeOK, Goto

\* After a window a loop goes on and a command is over: outside, either way.
LEMMA AfterTypes ==
  ASSUME TypeOK, NEW j \in Streamers, NEW pc \in Outside
  PROVE  After(j, pc) \in Streamer /\ After(j, pc).pc \in Outside
  BY ZenonT(60), FreshTypes DEF After, Outside, PCs

\* A streamer is in its window exactly while it owns a run.
LEMMA OutsideOwnsNothing ==
  ASSUME TypeOK, NEW j \in Streamers
  PROVE  streamer[j].pc \in PCs /\ (Owns(j) <=> streamer[j].pc \notin Outside)
<1>1. streamer[j] \in Streamer BY DEF TypeOK
<1>. QED BY <1>1 DEF Streamer, Owns, Outside, PCs

\* A server starts its stream loop only where none is left of the one before.
DownIsOff == \A s \in Servers : server[s] = "down" => At(s, "off")
-----------------------------------------------------------------------------
(* The steps, by what they do to the ledger. *)

\* A step between windows.
Between(j) == ReadMap(j) \/ Bootstrap(j) \/ Resume(j) \/ LoopFails(j)

LEMMA BetweenEffect ==
  ASSUME TypeOK, NEW j \in Streamers, Between(j)
  PROVE  /\ Goto(j, streamer'[j]) /\ streamer'[j] \in Streamer
         /\ streamer[j].pc \in Outside \ {"off"} /\ streamer'[j].pc \in Outside
         /\ tokens' \subseteq Assets /\ faults' \in 0 .. MaxFaults
         /\ UNCHANGED <<trades, runs, server, lost>>
<1>1. ASSUME NEW next \in Streamer, next.pc \in Outside, Goto(j, next)
      PROVE  Goto(j, streamer'[j]) /\ streamer'[j] \in Streamer /\ streamer'[j].pc \in Outside
  BY <1>1, GotoEffect
<1>2. CASE ReadMap(j)
  <2>1. PICK map \in TokenMaps :
          Goto(j, [FreshAt(j, IF map = {} /\ At(j, "map") THEN "boot" ELSE "begin")
                     EXCEPT !.map = map])
    BY <1>2 DEF ReadMap
  <2>. DEFINE pc == IF map = {} /\ At(j, "map") THEN "boot" ELSE "begin"
  <2>2. map \in SUBSET Assets /\ pc \in Outside BY DEF TokenMaps, TypeOK, Outside, PCs
  <2>. HIDE DEF pc
  <2>3. /\ [FreshAt(j, pc) EXCEPT !.map = map] \in Streamer
        /\ [FreshAt(j, pc) EXCEPT !.map = map].pc = pc
    BY ZenonT(60), <2>2, FreshTypes
  <2>4. Goto(j, [FreshAt(j, pc) EXCEPT !.map = map]) BY <2>1 DEF pc
  <2>5. Goto(j, streamer'[j]) /\ streamer'[j] \in Streamer /\ streamer'[j].pc \in Outside
    BY <1>1, <2>2, <2>3, <2>4
  <2>. QED BY <1>2, <2>5 DEF ReadMap, Step, store, TypeOK, Outside, PCs
<1>3. CASE Bootstrap(j)
  <2>1. "remap" \in Outside BY DEF Outside, PCs
  <2>2. FreshAt(j, "remap") \in Streamer /\ FreshAt(j, "remap").pc = "remap"
    BY Zenon, <2>1, FreshTypes
  <2>3. Goto(j, streamer'[j]) /\ streamer'[j] \in Streamer /\ streamer'[j].pc \in Outside
    BY <1>1, <1>3, <2>1, <2>2 DEF Bootstrap
  <2>. QED BY <1>3, <2>3 DEF Bootstrap, Step, At, TypeOK, Outside, PCs
<1>4. CASE Resume(j)
  <2>1. "map" \in Outside BY DEF Outside, PCs
  <2>2. FreshAt(j, "map") \in Streamer /\ FreshAt(j, "map").pc = "map"
    BY Zenon, <2>1, FreshTypes
  <2>3. Goto(j, streamer'[j]) /\ streamer'[j] \in Streamer /\ streamer'[j].pc \in Outside
    BY <1>1, <1>4, <2>1, <2>2 DEF Resume
  <2>. QED BY <1>4, <2>3 DEF Resume, Step, store, TypeOK, Outside, PCs
<1>5. CASE LoopFails(j)
  <2>1. "sleep" \in Outside BY DEF Outside, PCs
  <2>2. After(j, "sleep") \in Streamer /\ After(j, "sleep").pc \in Outside
    BY <2>1, AfterTypes
  <2>3. Goto(j, streamer'[j]) /\ streamer'[j] \in Streamer /\ streamer'[j].pc \in Outside
    BY <1>1, <1>5, <2>2 DEF LoopFails
  <2>4. faults' \in 0 .. MaxFaults BY <1>5, NumbersAssumption DEF LoopFails, Fault, TypeOK
  <2>. QED BY <1>5, <2>3, <2>4 DEF LoopFails, Fault, store, TypeOK, Outside, PCs
<1>. QED BY <1>2, <1>3, <1>4, <1>5 DEF Between

\* A step of a window in which it keeps its run.
Within(j) == Connect(j) \/ Receive(j) \/ Elapse(j) \/ WindowFails(j)

LEMMA WithinEffect ==
  ASSUME TypeOK, NEW j \in Streamers, Within(j)
  PROVE  /\ Goto(j, streamer'[j]) /\ streamer'[j] \in Streamer
         /\ Owns(j) /\ Owns(j)' /\ streamer'[j].run = streamer[j].run
         /\ trades' \subseteq Prints /\ faults' \in 0 .. MaxFaults
         /\ UNCHANGED <<tokens, runs, server, lost>>
<1>. DEFINE g == streamer[j]
<1>0. g \in Streamer /\ Window \in Nat BY NumbersAssumption DEF TypeOK
<1>1. ASSUME NEW next \in Streamer, next.pc \in {"connect", "recv", "fail"}, next.run = g.run,
             Goto(j, next)
      PROVE  /\ Goto(j, streamer'[j]) /\ streamer'[j] \in Streamer
             /\ Owns(j)' /\ streamer'[j].run = g.run
  BY <1>1, GotoEffect DEF Owns
<1>2. CASE Connect(j)
  <2>. DEFINE pc == IF g.map = {} THEN "fail" ELSE "recv"
              next == [g EXCEPT !.pc = pc]
  <2>1. next \in Streamer /\ next.pc = pc /\ next.run = g.run BY <1>0 DEF Streamer
  <2>2. Goto(j, next) BY <1>2 DEF Connect
  <2>3. pc \in {"connect", "recv", "fail"} OBVIOUS
  <2>. HIDE DEF next, pc
  <2>4. /\ Goto(j, streamer'[j]) /\ streamer'[j] \in Streamer
        /\ Owns(j)' /\ streamer'[j].run = g.run
    BY <1>1, <2>1, <2>2, <2>3
  <2>. QED BY <1>2, <2>4 DEF Connect, Step, store, At, Owns, TypeOK
<1>3. CASE Receive(j)
  <2>. DEFINE p == Head(g.inbox)
              next == [g EXCEPT !.inbox = Tail(@), !.seen = @ + New(p)]
  <2>0. g.inbox \in Seq(Prints) /\ g.inbox # <<>> /\ g.seen \in Nat
    BY <1>0, <1>3 DEF Receive, Streamer
  <2>1. p \in Prints /\ Tail(g.inbox) \in Seq(Prints) BY <2>0
  <2>2. next \in Streamer /\ next.pc = g.pc /\ next.run = g.run
    <3>1. g.seen + New(p) \in Nat BY <2>0 DEF New
    <3>. QED BY <1>0, <2>1, <3>1 DEF Streamer
  <2>3. Goto(j, next) /\ trades' = trades \cup {p} /\ g.pc = "recv" BY <1>3 DEF Receive, At
  <2>. HIDE DEF next, p
  <2>4. /\ Goto(j, streamer'[j]) /\ streamer'[j] \in Streamer
        /\ Owns(j)' /\ streamer'[j].run = g.run
    BY <1>1, <2>2, <2>3
  <2>5. trades' \subseteq Prints BY <2>1, <2>3 DEF TypeOK
  <2>. QED BY <1>3, <2>3, <2>4, <2>5 DEF Receive, Step, Owns, TypeOK
<1>4. CASE Elapse(j)
  <2>. DEFINE next == [g EXCEPT !.left = @ - 1]
  <2>1. g.left - 1 \in 0 .. Window BY <1>0, <1>4 DEF Elapse, Streamer
  <2>2. next \in Streamer /\ next.pc = g.pc /\ next.run = g.run BY <1>0, <2>1 DEF Streamer
  <2>3. Goto(j, next) /\ g.pc \in {"connect", "recv"} BY <1>4 DEF Elapse
  <2>. HIDE DEF next
  <2>4. /\ Goto(j, streamer'[j]) /\ streamer'[j] \in Streamer
        /\ Owns(j)' /\ streamer'[j].run = g.run
    BY <1>1, <2>2, <2>3
  <2>. QED BY <1>4, <2>3, <2>4 DEF Elapse, Step, store, Owns, TypeOK
<1>5. CASE WindowFails(j)
  <2>. DEFINE next == [g EXCEPT !.pc = "fail", !.inbox = <<>>]
  <2>0. <<>> \in Seq(Prints) OBVIOUS
  <2>1. next \in Streamer /\ next.pc = "fail" /\ next.run = g.run BY <1>0, <2>0 DEF Streamer
  <2>2. Goto(j, next) /\ g.pc \in {"connect", "recv"} BY <1>5 DEF WindowFails
  <2>. HIDE DEF next
  <2>3. /\ Goto(j, streamer'[j]) /\ streamer'[j] \in Streamer
        /\ Owns(j)' /\ streamer'[j].run = g.run
    BY <1>1, <2>1, <2>2
  <2>4. faults' \in 0 .. MaxFaults BY <1>5, NumbersAssumption DEF WindowFails, Fault, TypeOK
  <2>. QED BY <1>5, <2>2, <2>3, <2>4 DEF WindowFails, Fault, store, Owns, TypeOK
<1>. QED BY <1>2, <1>3, <1>4, <1>5 DEF Within

\* start_run: the window gets the row it has inserted.
LEMMA BeginEffect ==
  ASSUME TypeOK, NEW j \in Streamers, Begin(j)
  PROVE  /\ Goto(j, streamer'[j]) /\ streamer'[j] \in Streamer
         /\ ~Owns(j) /\ streamer[j].pc # "off" /\ Owns(j)' /\ streamer'[j].run = Len(runs) + 1
         /\ runs' = Append(runs, [status |-> "running", trades |-> 0])
         /\ UNCHANGED <<tokens, trades, server, lost, faults>>
<1>. DEFINE g == streamer[j]
            next == [g EXCEPT !.pc = "connect", !.run = Len(runs) + 1, !.left = Window]
<1>1. g \in Streamer /\ Len(runs) + 1 \in Nat /\ Window \in 0 .. Window
  BY NumbersAssumption DEF TypeOK
<1>2. next \in Streamer /\ next.pc = "connect" /\ next.run = Len(runs) + 1
  BY <1>1 DEF Streamer
<1>3. Goto(j, next) /\ g.pc = "begin" BY DEF Begin, BeginAs, At
<1>. HIDE DEF next
<1>4. streamer'[j] = next /\ Goto(j, streamer'[j]) BY <1>2, <1>3, GotoEffect
<1>. QED BY <1>2, <1>3, <1>4 DEF Begin, BeginAs, Step, Owns

\* finish_run: the window's own row gets its status, and the streamer is outside.
Finishes(j) == Finish(j) \/ FinishError(j) \/ ConnectTimesOut(j)

LEMMA FinishEffect ==
  ASSUME TypeOK, NEW j \in Streamers, Finishes(j)
  PROVE  /\ Goto(j, streamer'[j]) /\ streamer'[j] \in Streamer
         /\ Owns(j) /\ streamer'[j].pc \in Outside
         /\ \E verdict \in {"ok", "error"} :
               runs' = [runs EXCEPT ![streamer[j].run] =
                          [status |-> verdict, trades |-> streamer[j].seen]]
         /\ UNCHANGED <<tokens, trades, server, lost>>
         /\ faults' \in 0 .. MaxFaults
<1>1. /\ After(j, "maintain") \in Streamer /\ After(j, "maintain").pc \in Outside
      /\ After(j, "sleep") \in Streamer /\ After(j, "sleep").pc \in Outside
  <2>1. "maintain" \in Outside /\ "sleep" \in Outside BY DEF Outside, PCs
  <2>. QED BY <2>1, AfterTypes
<1>2. PICK verdict \in {"ok", "error"}, next \in {After(j, "maintain"), After(j, "sleep")} :
        FinishRun(j, verdict, next)
  BY DEF Finishes, Finish, FinishError, ConnectTimesOut
<1>3. streamer'[j] = next /\ Goto(j, streamer'[j])
  BY <1>1, <1>2, GotoEffect DEF FinishRun
<1>4. Owns(j) BY DEF Finishes, Finish, FinishError, ConnectTimesOut, At, Owns
<1>5. faults' \in 0 .. MaxFaults /\ UNCHANGED <<server, lost>>
  BY NumbersAssumption DEF Finishes, Finish, FinishError, ConnectTimesOut, Step, Fault, TypeOK
<1>. QED BY <1>1, <1>2, <1>3, <1>4, <1>5 DEF FinishRun

\* A streamer that is cancelled or killed leaves its run behind.
Dies(j) == (\E s \in Servers : s = j /\ Cancelled(s)) \/ Killed(j)

LEMMA DiesEffect ==
  ASSUME TypeOK, NEW j \in Streamers, Dies(j)
  PROVE  /\ Goto(j, Off) /\ Off \in Streamer /\ Off.pc \in Outside
         /\ lost' = IF Owns(j) THEN lost \cup {streamer[j].run} ELSE lost
         /\ UNCHANGED <<tokens, trades, runs>>
         /\ faults' \in 0 .. MaxFaults
         /\ server' \in [Servers -> {"down", "up", "stopping"}]
         /\ \A s \in Servers \ {j} : server'[s] = server[s]
<1>1. "off" \in Outside BY DEF Outside, PCs
<1>2. Off \in Streamer /\ Off.pc = "off" BY Zenon, <1>1, FreshTypes
<1>3. CASE \E s \in Servers : s = j /\ Cancelled(s)
  BY <1>1, <1>2, <1>3 DEF Cancelled, Ends, store, TypeOK
<1>4. CASE Killed(j)
  <2>1. faults' \in 0 .. MaxFaults BY <1>4, NumbersAssumption DEF Killed, TypeOK
  <2>. QED BY <1>1, <1>2, <1>4, <2>1 DEF Killed, store, TypeOK
<1>. QED BY <1>3, <1>4 DEF Dies

\* A server's loop or a command begins, outside a window.
Enters(j) == \/ \E s \in Servers : s = j /\ ServerStarts(s)
             \/ \E c \in Commands : c = j /\ CommandStarts(c)

LEMMA EntersEffect ==
  ASSUME TypeOK, DownIsOff, NEW j \in Streamers, Enters(j)
  PROVE  /\ streamer[j].pc = "off" /\ streamer'[j].pc \in Outside
         /\ streamer' \in [Streamers -> Streamer]
         /\ \A k \in Streamers \ {j} : streamer'[k] = streamer[k]
         /\ UNCHANGED <<tokens, trades, runs, lost, faults>>
         /\ server' \in [Servers -> {"down", "up", "stopping"}]
         /\ \A s \in Servers : server'[s] = "down" => server[s] = "down" /\ s # j
<1>1. "map" \in Outside /\ "off" \in Outside BY DEF Outside, PCs
<1>2. CASE \E s \in Servers : s = j /\ ServerStarts(s)
  <2>1. ServerStarts(j) /\ j \in Servers BY <1>2
  <2>2. streamer[j].pc = "off" BY <2>1 DEF ServerStarts, DownIsOff, At
  <2>3. /\ server' \in [Servers -> {"down", "up", "stopping"}]
        /\ \A s \in Servers : server'[s] = "down" => server[s] = "down" /\ s # j
    BY <2>1 DEF ServerStarts, TypeOK
  <2>4. [Off EXCEPT !.pc = "map"] \in Streamer /\ [Off EXCEPT !.pc = "map"].pc = "map"
    BY Zenon, <1>1, FreshTypes
  <2>5. CASE Goto(j, [Off EXCEPT !.pc = "map"])
    <3>1. /\ streamer' \in [Streamers -> Streamer] /\ streamer'[j].pc = "map"
          /\ \A k \in Streamers \ {j} : streamer'[k] = streamer[k]
      BY <2>4, <2>5, GotoEffect
    <3>. QED BY <1>1, <2>1, <2>2, <2>3, <3>1 DEF ServerStarts, store
  <2>6. CASE UNCHANGED streamer
    BY <1>1, <2>1, <2>2, <2>3, <2>6 DEF ServerStarts, store, TypeOK
  <2>. QED BY <2>1, <2>5, <2>6 DEF ServerStarts
<1>3. CASE \E c \in Commands : c = j /\ CommandStarts(c)
  <2>1. CommandStarts(j) /\ j \in Commands /\ j \notin Servers
    BY <1>3, StreamersAssumption
  <2>2. PICK timed \in BOOLEAN : Goto(j, [Off EXCEPT !.pc = "map", !.timed = timed])
    BY Zenon, <2>1 DEF CommandStarts
  <2>3. /\ [Off EXCEPT !.pc = "map", !.timed = timed] \in Streamer
        /\ [Off EXCEPT !.pc = "map", !.timed = timed].pc = "map"
    BY Zenon, <1>1, FreshTypes
  <2>4. /\ streamer' \in [Streamers -> Streamer] /\ streamer'[j].pc = "map"
        /\ \A k \in Streamers \ {j} : streamer'[k] = streamer[k]
    BY <2>2, <2>3, GotoEffect
  <2>. QED BY <1>1, <2>1, <2>4 DEF CommandStarts, At, store, TypeOK
<1>. QED BY <1>2, <1>3 DEF Enters

\* A step that moves no streamer: the tokens change, a stop begins or ends, and
\* a message arrives, which changes inboxes only.
Aside == \/ TokensChange \/ \E p \in Prints : Message(p)
         \/ \E s \in Servers : StopBegins(s) \/ StopEnds(s)

LEMMA AsideEffect ==
  ASSUME TypeOK, DownIsOff, Aside
  PROVE  /\ streamer' \in [Streamers -> Streamer]
         /\ \A k \in Streamers : /\ streamer'[k].pc = streamer[k].pc
                                 /\ streamer'[k].run = streamer[k].run
         /\ tokens' \subseteq Assets
         /\ UNCHANGED <<trades, runs, lost, faults>>
         /\ server' \in [Servers -> {"down", "up", "stopping"}]
         /\ \A s \in Servers : server'[s] = "down" => At(s, "off")
<1>1. CASE TokensChange BY <1>1 DEF TokensChange, TypeOK, DownIsOff
<1>2. ASSUME NEW s \in Servers, StopBegins(s) \/ StopEnds(s)
      PROVE  /\ server' \in [Servers -> {"down", "up", "stopping"}]
             /\ \A k \in Servers : server'[k] = "down" => At(k, "off")
             /\ UNCHANGED <<store, streamer, lost, faults>>
  BY <1>2 DEF StopBegins, StopEnds, TypeOK, DownIsOff
<1>3. ASSUME NEW p \in Prints, Message(p)
      PROVE  /\ streamer' \in [Streamers -> Streamer]
             /\ \A k \in Streamers : /\ streamer'[k].pc = streamer[k].pc
                                     /\ streamer'[k].run = streamer[k].run
             /\ UNCHANGED <<store, server, lost, faults>>
  <2>1. ASSUME NEW g \in Streamer
        PROVE  LET h == [g EXCEPT !.inbox = Append(@, p)]
               IN  h \in Streamer /\ h.pc = g.pc /\ h.run = g.run
    <3>1. g.inbox \in Seq(Prints) BY DEF Streamer
    <3>2. Append(g.inbox, p) \in Seq(Prints) BY <3>1
    <3>. QED BY <3>2 DEF Streamer
  <2>2. streamer' = [j \in Streamers |->
          IF At(j, "recv") /\ AssetOf[p] \in streamer[j].map
          THEN [streamer[j] EXCEPT !.inbox = Append(@, p)] ELSE streamer[j]]
    BY <1>3 DEF Message, Receivers
  <2>3. \A j \in Streamers : streamer[j] \in Streamer BY DEF TypeOK
  <2>4. \A j \in Streamers : /\ streamer'[j] \in Streamer
                             /\ streamer'[j].pc = streamer[j].pc
                             /\ streamer'[j].run = streamer[j].run
    BY <2>1, <2>2, <2>3
  <2>5. streamer' \in [Streamers -> Streamer] BY <2>2, <2>4
  <2>. QED BY <1>3, <2>4, <2>5 DEF Message
<1>4. ASSUME NEW s \in Servers, StopBegins(s) \/ StopEnds(s)
      PROVE  /\ streamer' \in [Streamers -> Streamer]
             /\ \A k \in Streamers : /\ streamer'[k].pc = streamer[k].pc
                                     /\ streamer'[k].run = streamer[k].run
             /\ tokens' \subseteq Assets
             /\ UNCHANGED <<trades, runs, lost, faults>>
             /\ server' \in [Servers -> {"down", "up", "stopping"}]
             /\ \A k \in Servers : server'[k] = "down" => At(k, "off")
  BY <1>2, <1>4 DEF store, TypeOK
<1>5. CASE \E p \in Prints : Message(p)
  BY <1>3, <1>5 DEF store, TypeOK, DownIsOff
<1>. QED BY <1>1, <1>4, <1>5 DEF Aside
-----------------------------------------------------------------------------
(* The invariant: TypeOK and DownIsOff. *)

LEMMA NextCases ==
  ASSUME Next
  PROVE  \/ Aside
         \/ \E j \in Streamers :
              Between(j) \/ Within(j) \/ Begin(j) \/ Finishes(j) \/ Dies(j) \/ Enters(j)
<1>1. \A s \in Servers : s \in Streamers BY DEF Streamers
<1>2. \A c \in Commands : c \in Streamers BY DEF Streamers
<1>3. CASE \E s \in Servers : ServerStarts(s) \/ Cancelled(s)
  BY <1>1, <1>3 DEF Enters, Dies
<1>4. CASE \E c \in Commands : CommandStarts(c) BY <1>2, <1>4 DEF Enters
<1>5. CASE \E j \in Streamers :
             Runs(j) \/ ConnectTimesOut(j) \/ WindowFails(j) \/ LoopFails(j) \/ Killed(j)
  BY <1>5 DEF Runs, Between, Within, Finishes, Dies
<1>. QED BY <1>3, <1>4, <1>5 DEF Next, Aside

\* A server whose stream is down starts none, and none survives its stop: a
\* step of a streamer that is off is a start.
LEMMA InvNext ==
  ASSUME TypeOK, DownIsOff, Next
  PROVE  TypeOK' /\ DownIsOff'
<1>1. CASE Aside
  <2>1. /\ streamer' \in [Streamers -> Streamer]
        /\ \A k \in Streamers : /\ streamer'[k].pc = streamer[k].pc
                                /\ streamer'[k].run = streamer[k].run
        /\ tokens' \subseteq Assets
        /\ UNCHANGED <<trades, runs, lost, faults>>
        /\ server' \in [Servers -> {"down", "up", "stopping"}]
        /\ \A s \in Servers : server'[s] = "down" => At(s, "off")
    BY <1>1, AsideEffect
  <2>2. DownIsOff' BY <2>1 DEF DownIsOff, At, Streamers
  <2>3. TypeOK' BY <2>1 DEF TypeOK, Owns
  <2>. QED BY <2>2, <2>3
<1>2. ASSUME NEW j \in Streamers, Between(j)
      PROVE  TypeOK' /\ DownIsOff'
  <2>1. /\ Goto(j, streamer'[j]) /\ streamer'[j] \in Streamer
        /\ streamer[j].pc \in Outside \ {"off"} /\ streamer'[j].pc \in Outside
        /\ tokens' \subseteq Assets /\ faults' \in 0 .. MaxFaults
        /\ UNCHANGED <<trades, runs, server, lost>>
    BY <1>2, BetweenEffect
  <2>2. /\ streamer' \in [Streamers -> Streamer]
        /\ \A k \in Streamers \ {j} : streamer'[k] = streamer[k]
    BY <2>1, GotoEffect
  <2>3. ~Owns(j)' BY <2>1 DEF Owns, Outside, PCs
  <2>4. DownIsOff' BY <2>1, <2>2 DEF DownIsOff, At, Streamers
  <2>5. TypeOK' BY <2>1, <2>2, <2>3 DEF TypeOK, Owns
  <2>. QED BY <2>4, <2>5
<1>3. ASSUME NEW j \in Streamers, Within(j)
      PROVE  TypeOK' /\ DownIsOff'
  <2>1. /\ Goto(j, streamer'[j]) /\ streamer'[j] \in Streamer
        /\ Owns(j) /\ Owns(j)' /\ streamer'[j].run = streamer[j].run
        /\ trades' \subseteq Prints /\ faults' \in 0 .. MaxFaults
        /\ UNCHANGED <<tokens, runs, server, lost>>
    BY <1>3, WithinEffect
  <2>2. /\ streamer' \in [Streamers -> Streamer]
        /\ \A k \in Streamers \ {j} : streamer'[k] = streamer[k]
    BY <2>1, GotoEffect
  <2>3. DownIsOff' BY <2>1, <2>2 DEF DownIsOff, At, Streamers, Owns
  <2>4. TypeOK' BY <2>1, <2>2 DEF TypeOK, Owns
  <2>. QED BY <2>3, <2>4
<1>4. ASSUME NEW j \in Streamers, Begin(j)
      PROVE  TypeOK' /\ DownIsOff'
  <2>. DEFINE row == [status |-> "running", trades |-> 0]
  <2>1. /\ Goto(j, streamer'[j]) /\ streamer'[j] \in Streamer
        /\ streamer[j].pc # "off" /\ streamer'[j].run = Len(runs) + 1
        /\ runs' = Append(runs, row)
        /\ UNCHANGED <<tokens, trades, server, lost, faults>>
    BY <1>4, BeginEffect
  <2>2. /\ streamer' \in [Streamers -> Streamer]
        /\ \A k \in Streamers \ {j} : streamer'[k] = streamer[k]
    BY <2>1, GotoEffect
  <2>3. row \in Run BY DEF Run
  <2>. HIDE DEF row
  <2>4. /\ runs' \in Seq(Run) /\ DOMAIN runs \subseteq DOMAIN runs'
        /\ Len(runs) + 1 \in DOMAIN runs'
    BY <2>1, <2>3 DEF TypeOK
  <2>5. DownIsOff' BY <2>1, <2>2 DEF DownIsOff, At, Streamers
  <2>6. TypeOK' BY <2>1, <2>2, <2>4 DEF TypeOK, Owns
  <2>. QED BY <2>5, <2>6
<1>5. ASSUME NEW j \in Streamers, Finishes(j)
      PROVE  TypeOK' /\ DownIsOff'
  <2>1. /\ Goto(j, streamer'[j]) /\ streamer'[j] \in Streamer
        /\ Owns(j) /\ streamer'[j].pc \in Outside
        /\ UNCHANGED <<tokens, trades, server, lost>>
        /\ faults' \in 0 .. MaxFaults
    BY <1>5, FinishEffect
  <2>2. PICK verdict \in {"ok", "error"} :
          runs' = [runs EXCEPT ![streamer[j].run] =
                     [status |-> verdict, trades |-> streamer[j].seen]]
    BY <1>5, FinishEffect
  <2>3. /\ streamer' \in [Streamers -> Streamer]
        /\ \A k \in Streamers \ {j} : streamer'[k] = streamer[k]
    BY <2>1, GotoEffect
  <2>4. [status |-> verdict, trades |-> streamer[j].seen] \in Run
    <3>1. streamer[j].seen \in Nat BY DEF TypeOK, Streamer
    <3>. QED BY <3>1 DEF Run
  <2>5. runs' \in Seq(Run) /\ DOMAIN runs' = DOMAIN runs
    <3>. DEFINE n == streamer[j].run
                row == [status |-> verdict, trades |-> streamer[j].seen]
    <3>1. n \in DOMAIN runs /\ runs \in Seq(Run) BY <2>1 DEF TypeOK
    <3>2. row \in Run /\ runs' = [runs EXCEPT ![n] = row] BY <2>2, <2>4
    <3>. HIDE DEF n, row
    <3>. QED BY <3>1, <3>2
  <2>6. ~Owns(j)' BY <2>1 DEF Owns, Outside, PCs
  <2>7. DownIsOff' BY <2>1, <2>3 DEF DownIsOff, At, Streamers, Owns
  <2>8. TypeOK' BY <2>1, <2>3, <2>5, <2>6 DEF TypeOK, Owns
  <2>. QED BY <2>7, <2>8
<1>6. ASSUME NEW j \in Streamers, Dies(j)
      PROVE  TypeOK' /\ DownIsOff'
  <2>1. /\ Goto(j, Off) /\ Off \in Streamer /\ Off.pc \in Outside
        /\ lost' = IF Owns(j) THEN lost \cup {streamer[j].run} ELSE lost
        /\ UNCHANGED <<tokens, trades, runs>>
        /\ faults' \in 0 .. MaxFaults
        /\ server' \in [Servers -> {"down", "up", "stopping"}]
        /\ \A s \in Servers \ {j} : server'[s] = server[s]
    BY <1>6, DiesEffect
  <2>2. /\ streamer' \in [Streamers -> Streamer] /\ streamer'[j] = Off
        /\ \A k \in Streamers \ {j} : streamer'[k] = streamer[k]
    BY <2>1, GotoEffect
  <2>3. Off.pc = "off" BY DEF Off
  <2>4. DownIsOff' BY <2>1, <2>2, <2>3 DEF DownIsOff, At, Streamers
  <2>5. ~Owns(j)' BY <2>1, <2>2 DEF Owns, Outside, PCs
  <2>6. TypeOK' BY <2>1, <2>2, <2>5 DEF TypeOK, Owns
  <2>. QED BY <2>4, <2>6
<1>7. ASSUME NEW j \in Streamers, Enters(j)
      PROVE  TypeOK' /\ DownIsOff'
  <2>1. /\ streamer'[j].pc \in Outside
        /\ streamer' \in [Streamers -> Streamer]
        /\ \A k \in Streamers \ {j} : streamer'[k] = streamer[k]
        /\ UNCHANGED <<tokens, trades, runs, lost, faults>>
        /\ server' \in [Servers -> {"down", "up", "stopping"}]
        /\ \A s \in Servers : server'[s] = "down" => server[s] = "down" /\ s # j
    BY <1>7, EntersEffect
  <2>2. ~Owns(j)' BY <2>1 DEF Owns, Outside, PCs
  <2>3. DownIsOff' BY <2>1 DEF DownIsOff, At, Streamers
  <2>4. TypeOK' BY <2>1, <2>2 DEF TypeOK, Owns
  <2>. QED BY <2>3, <2>4
<1>. QED BY <1>1, <1>2, <1>3, <1>4, <1>5, <1>6, <1>7, NextCases

LEMMA Invariant == Spec => [](TypeOK /\ DownIsOff)
<1>1. Init => TypeOK /\ DownIsOff
  <2>. SUFFICES ASSUME Init PROVE TypeOK /\ DownIsOff OBVIOUS
  <2>1. Off \in Streamer /\ Off.pc = "off"
    <3>1. 0 \in 0 .. Window /\ <<>> \in Seq(Prints) BY NumbersAssumption
    <3>. QED BY <3>1 DEF Off, Streamer
  <2>2. streamer \in [Streamers -> Streamer] /\ \A j \in Streamers : streamer[j].pc = "off"
    BY <2>1 DEF Init
  <2>3. DownIsOff BY <2>2 DEF DownIsOff, At, Streamers
  <2>4. TypeOK BY <2>2, NumbersAssumption DEF Init, TypeOK, Owns
  <2>. QED BY <2>3, <2>4
<1>2. TypeOK /\ DownIsOff /\ [Next]_vars => (TypeOK /\ DownIsOff)'
  <2>1. CASE UNCHANGED vars BY <2>1 DEF vars, store, TypeOK, DownIsOff, At, Owns
  <2>. QED BY <2>1, InvNext
<1>. QED BY <1>1, <1>2, PTL DEF Spec

\* Every table and every streamer keeps its type, and a window's run is a row.
THEOREM TypeCorrect == Spec => []TypeOK
  BY Invariant, PTL

-----------------------------------------------------------------------------
(* The refinement of RunLedger. *)

\* The refinement mapping of TradeStream, by name.
Status == [r \in DOMAIN runs |-> runs[r].status]
Holds  == [j \in Streamers |-> IF Owns(j) THEN streamer[j].run ELSE 0]

\* A step that neither begins nor ends a window of anyone.
LEMMA HoldsKept ==
  ASSUME \A k \in Streamers : Owns(k)' = Owns(k)
                             /\ (Owns(k) => streamer'[k].run = streamer[k].run)
  PROVE  Holds' = Holds
  BY DEF Holds

\* One streamer begins or ends a window, and no other.
LEMMA HoldsAfter ==
  ASSUME TypeOK, NEW j \in Streamers, NEW next \in Streamer, Goto(j, next)
  PROVE  Holds' = [Holds EXCEPT ![j] = IF Owns(j)' THEN next.run ELSE 0]
<1>1. streamer'[j] = next /\ \A k \in Streamers \ {j} : streamer'[k] = streamer[k]
  BY GotoEffect
<1>2. \A k \in Streamers :
        (IF Owns(k)' THEN streamer'[k].run ELSE 0)
          = IF k = j THEN (IF Owns(j)' THEN next.run ELSE 0) ELSE Holds[k]
  BY <1>1 DEF Holds, Owns
<1>3. Holds' = [k \in Streamers |-> IF Owns(k)' THEN streamer'[k].run ELSE 0] BY DEF Holds
<1>4. DOMAIN Holds = Streamers BY DEF Holds
<1>5. Holds \in [Streamers -> {Holds[k] : k \in Streamers}] BY <1>4 DEF Holds
<1>. HIDE DEF Holds
<1>. QED BY <1>2, <1>3, <1>5

\* start_run is the ledger's Begin.
LEMMA BeginMaps ==
  ASSUME TypeOK, NEW j \in Streamers, Begin(j)
  PROVE  /\ Holds[j] = 0
         /\ Status' = Append(Status, "running")
         /\ Holds' = [Holds EXCEPT ![j] = Len(Status) + 1]
         /\ UNCHANGED lost
<1>. DEFINE row == [status |-> "running", trades |-> 0]
            Verdict == {"running", "ok", "error"}
            n == Len(runs) + 1
<1>1. /\ Goto(j, streamer'[j]) /\ streamer'[j] \in Streamer
      /\ ~Owns(j) /\ Owns(j)' /\ streamer'[j].run = n
      /\ runs' = Append(runs, row) /\ UNCHANGED lost
  BY BeginEffect
<1>2. runs \in Seq(Run) /\ Len(runs) \in Nat /\ DOMAIN runs = 1 .. Len(runs) BY DEF TypeOK
<1>3. Status \in Seq(Verdict) /\ Len(Status) = Len(runs)
  <2>1. \A r \in 1 .. Len(runs) : runs[r].status \in Verdict
    <3>1. \A r \in 1 .. Len(runs) : runs[r] \in Run BY <1>2
    <3>. QED BY <3>1 DEF Run
  <2>2. Status = [r \in 1 .. Len(runs) |-> runs[r].status] BY <1>2 DEF Status
  <2>. QED BY <1>2, <2>1, <2>2
<1>4. Status' = Append(Status, "running")
  <2>1. /\ DOMAIN runs' = 1 .. n /\ runs'[n] = row
        /\ \A r \in 1 .. Len(runs) : runs'[r] = runs[r]
    BY <1>1, <1>2
  <2>2. row.status = "running" OBVIOUS
  <2>. HIDE DEF row
  <2>3. Status' = [r \in 1 .. n |-> runs'[r].status] BY <2>1 DEF Status
  <2>4. \A r \in 1 .. Len(runs) : Status[r] = runs[r].status BY <1>2 DEF Status
  <2>5. Status' \in Seq(Verdict) /\ Len(Status') = n
    <3>1. \A r \in 1 .. Len(runs) : Status[r] \in Verdict BY <1>3
    <3>2. \A r \in 1 .. n : runs'[r].status \in Verdict BY <1>2, <2>1, <2>2, <2>4, <3>1
    <3>. QED BY <1>2, <2>3, <3>2
  <2>6. /\ Append(Status, "running") \in Seq(Verdict)
        /\ Len(Append(Status, "running")) = n
        /\ \A r \in 1 .. n : Append(Status, "running")[r] = Status'[r]
    BY <1>2, <1>3, <2>1, <2>2, <2>3, <2>4
  <2>. QED BY <2>5, <2>6, SeqEqual
<1>5. Holds' = [Holds EXCEPT ![j] = Len(Status) + 1] BY <1>1, <1>3, HoldsAfter
<1>6. Holds[j] = 0 BY <1>1 DEF Holds
<1>. QED BY <1>1, <1>4, <1>5, <1>6

\* The UPDATE that ends a window's run is the ledger's End.
LEMMA FinishMaps ==
  ASSUME TypeOK, NEW j \in Streamers, Finishes(j)
  PROVE  \E verdict \in {"ok", "error"} :
           /\ Holds[j] # 0
           /\ Status' = [Status EXCEPT ![Holds[j]] = verdict]
           /\ Holds' = [Holds EXCEPT ![j] = 0]
           /\ UNCHANGED lost
<1>. DEFINE n == streamer[j].run
<1>1. /\ Goto(j, streamer'[j]) /\ streamer'[j] \in Streamer
      /\ Owns(j) /\ streamer'[j].pc \in Outside /\ UNCHANGED lost
  BY FinishEffect
<1>2. PICK verdict \in {"ok", "error"} :
        runs' = [runs EXCEPT ![n] = [status |-> verdict, trades |-> streamer[j].seen]]
  BY FinishEffect
<1>3. n \in DOMAIN runs /\ n # 0 /\ Holds[j] = n BY <1>1 DEF TypeOK, Holds
<1>. HIDE DEF n
<1>4. /\ DOMAIN runs' = DOMAIN runs /\ runs'[n].status = verdict
      /\ \A r \in DOMAIN runs \ {n} : runs'[r] = runs[r]
  BY <1>2, <1>3 DEF TypeOK
<1>5. Status' = [Status EXCEPT ![n] = verdict] BY <1>3, <1>4 DEF Status
<1>6. ~Owns(j)' BY <1>1 DEF Owns, Outside, PCs
<1>7. Holds' = [Holds EXCEPT ![j] = 0] BY <1>1, <1>6, HoldsAfter
<1>. QED BY <1>1, <1>3, <1>5, <1>7

\* A streamer that is lost in its window loses its run, any other loses nothing.
LEMMA DiesMaps ==
  ASSUME TypeOK, NEW j \in Streamers, Dies(j)
  PROVE  \/ UNCHANGED <<Status, Holds, lost>>
         \/ /\ Holds[j] # 0
            /\ lost' = lost \cup {Holds[j]}
            /\ Holds' = [Holds EXCEPT ![j] = 0]
            /\ UNCHANGED Status
<1>1. /\ Goto(j, Off) /\ Off \in Streamer /\ Off.pc \in Outside
      /\ lost' = IF Owns(j) THEN lost \cup {streamer[j].run} ELSE lost
      /\ UNCHANGED runs
  BY DiesEffect
<1>2. streamer'[j] = Off /\ \A k \in Streamers \ {j} : streamer'[k] = streamer[k]
  BY <1>1, GotoEffect
<1>3. ~Owns(j)' BY <1>1, <1>2 DEF Owns, Outside, PCs
<1>4. UNCHANGED Status BY <1>1 DEF Status
<1>5. CASE Owns(j)
  <2>1. Holds[j] = streamer[j].run /\ Holds[j] # 0 BY <1>5 DEF TypeOK, Holds
  <2>2. Holds' = [Holds EXCEPT ![j] = 0] BY <1>1, <1>3, HoldsAfter
  <2>. QED BY <1>1, <1>4, <1>5, <2>1, <2>2
<1>6. CASE ~Owns(j)
  <2>1. UNCHANGED Holds BY <1>2, <1>3, <1>6, HoldsKept DEF Owns
  <2>. QED BY <1>1, <1>4, <1>6, <2>1
<1>. QED BY <1>5, <1>6

\* What a streamer does in between is nothing to the ledger.
LEMMA RestMaps ==
  ASSUME TypeOK, DownIsOff,
         \/ Aside \/ UNCHANGED vars
         \/ \E j \in Streamers : Between(j) \/ Within(j) \/ Enters(j)
  PROVE  UNCHANGED <<Status, Holds, lost>>
<1>1. /\ UNCHANGED <<runs, lost>>
      /\ \A k \in Streamers : Owns(k)' = Owns(k)
                              /\ (Owns(k) => streamer'[k].run = streamer[k].run)
  <2>1. CASE Aside BY <2>1, AsideEffect DEF Owns
  <2>2. CASE UNCHANGED vars BY <2>2 DEF vars, store, Owns
  <2>3. ASSUME NEW j \in Streamers, Between(j) \/ Enters(j)
        PROVE  /\ UNCHANGED <<runs, lost>>
               /\ \A k \in Streamers : Owns(k)' = Owns(k)
                              /\ (Owns(k) => streamer'[k].run = streamer[k].run)
    <3>1. /\ UNCHANGED <<runs, lost>>
          /\ streamer[j].pc \in Outside /\ streamer'[j].pc \in Outside
          /\ \A k \in Streamers \ {j} : streamer'[k] = streamer[k]
      <4>1. CASE Between(j) BY <4>1, BetweenEffect, GotoEffect
      <4>2. CASE Enters(j)
        <5>1. "off" \in Outside BY DEF Outside, PCs
        <5>. QED BY <4>2, <5>1, EntersEffect
      <4>. QED BY <2>3, <4>1, <4>2
    <3>2. ~Owns(j) /\ ~Owns(j)' BY <3>1 DEF Owns, Outside, PCs
    <3>. QED BY <3>1, <3>2 DEF Owns
  <2>4. ASSUME NEW j \in Streamers, Within(j)
        PROVE  /\ UNCHANGED <<runs, lost>>
               /\ \A k \in Streamers : Owns(k)' = Owns(k)
                              /\ (Owns(k) => streamer'[k].run = streamer[k].run)
    <3>1. /\ UNCHANGED <<runs, lost>>
          /\ Owns(j) /\ Owns(j)' /\ streamer'[j].run = streamer[j].run
          /\ \A k \in Streamers \ {j} : streamer'[k] = streamer[k]
      BY <2>4, WithinEffect, GotoEffect
    <3>. QED BY <3>1 DEF Owns
  <2>. QED BY <2>1, <2>2, <2>3, <2>4
<1>. QED BY <1>1, HoldsKept DEF Status

\* Every step maps to one step of the ledger or to none.
LEMMA StepMaps == TypeOK /\ DownIsOff /\ [Next]_vars => [Ledger!Next]_(Ledger!ledger)
<1>. SUFFICES ASSUME TypeOK, DownIsOff, [Next]_vars
              PROVE  Ledger!Next \/ UNCHANGED <<Status, Holds, lost>>
  BY DEF Ledger!ledger, Status, Holds, Owns
<1>1. ASSUME NEW j \in Streamers, Begin(j)
      PROVE  Ledger!Begin(j)
  BY <1>1, BeginMaps DEF Ledger!Begin, Status, Holds, Owns
<1>2. ASSUME NEW j \in Streamers, Finishes(j)
      PROVE  \E verdict \in {"ok", "error"} : Ledger!End(j, verdict)
  BY <1>2, FinishMaps DEF Ledger!End, Status, Holds, Owns
<1>3. ASSUME NEW j \in Streamers, Dies(j)
      PROVE  Ledger!Lose(j) \/ UNCHANGED <<Status, Holds, lost>>
  BY <1>3, DiesMaps DEF Ledger!Lose, Status, Holds, Owns
<1>4. CASE Next
  <2>1. ASSUME NEW j \in Streamers, Begin(j) \/ Finishes(j) \/ Dies(j)
        PROVE  Ledger!Next \/ UNCHANGED <<Status, Holds, lost>>
    BY <1>1, <1>2, <1>3, <2>1 DEF Ledger!Next
  <2>. QED BY <1>4, <2>1, NextCases, RestMaps
<1>5. CASE UNCHANGED vars BY <1>5, RestMaps
<1>. QED BY <1>4, <1>5

\* The streamers keep the ledger as RunLedger has it (Repository.start_run and
\* finish_run): one row begun by one window and ended by it alone, whatever is
\* cancelled, killed or fails.
THEOREM StreamImplementsLedger == Spec => ImplementsLedger
<1>1. Init => Ledger!Init BY DEF Init, Ledger!Init, Owns, Off
<1>. QED BY <1>1, StepMaps, Invariant, PTL DEF Spec, ImplementsLedger, Ledger!Spec

Promise == INSTANCE RunLedgerProofs WITH
    Writers <- Streamers, status <- Status, holds <- Holds

\* What the ledger promises therefore holds of the table: a row is 'running'
\* exactly while one streamer is in its window, or for ever once that streamer
\* was cancelled or killed.
THEOREM StreamAccounted == Spec => []Ledger!Accounted
<1>1. Promise!Spec => [](Promise!LedgerInv /\ Promise!Accounted) BY Promise!LedgerAccounted
<1>2. Ledger!Init => Promise!Init
  BY SMTT(30) DEF Ledger!Init, Promise!Init, Status, Holds, Owns
<1>3. [Ledger!Next]_(Ledger!ledger) => [Promise!Next]_(Promise!ledger)
  BY Zenon DEF Ledger!Next, Ledger!ledger, Ledger!Begin, Ledger!End, Ledger!Lose,
         Promise!Next, Promise!ledger, Promise!Begin, Promise!End, Promise!Lose,
         Status, Holds, Owns
<1>4. Promise!Accounted => Ledger!Accounted
  BY DEF Ledger!Accounted, Promise!Accounted, Status, Holds, Owns
<1>. QED
  BY <1>1, <1>2, <1>3, <1>4, StreamImplementsLedger, PTL
  DEF ImplementsLedger, Ledger!Spec, Promise!Spec
-----------------------------------------------------------------------------
(* Every stored trade is counted once. *)

\* What the two sums of TradesCountedOnce add up.
TradesOf == [r \in DOMAIN runs |-> runs[r].trades]
SeenOf   == [j \in Streamers |-> streamer[j].seen]
Counted  == Sum(TradesOf, DOMAIN runs) + Sum(SeenOf, Streamers)

LEMMA CountedIs ==
  /\ MapThenSumSet(LAMBDA r : runs[r].trades, DOMAIN runs) = Sum(TradesOf, DOMAIN runs)
  /\ MapThenSumSet(LAMBDA j : streamer[j].seen, Streamers) = Sum(SeenOf, Streamers)
<1>1. MapThenSumSet(LAMBDA r : runs[r].trades, DOMAIN runs) = Sum(TradesOf, DOMAIN runs)
  BY Zenon DEF Sum, MapThenSumSet, MapThenFoldSet, TradesOf
<1>2. MapThenSumSet(LAMBDA j : streamer[j].seen, Streamers) = Sum(SeenOf, Streamers)
  BY Zenon DEF Sum, MapThenSumSet, MapThenFoldSet, SeenOf
<1>. QED BY <1>1, <1>2

\* The count of a window is in its streamer as long as it runs, and in its row
\* of the ledger afterwards; no two windows have one row.
SeenInv ==
    /\ \A j \in Streamers : IF Owns(j) THEN runs[streamer[j].run].trades = 0
                                       ELSE streamer[j].seen = 0
    /\ \A j, k \in Streamers :
         Owns(j) /\ Owns(k) /\ streamer[j].run = streamer[k].run => j = k

CountInv ==
    /\ SeenInv
    /\ Counted <= Cardinality(trades)
    /\ lost = {} => Counted = Cardinality(trades)

\* The sums are over finite sets of numbers.
LEMMA SumsTyped ==
  ASSUME TypeOK
  PROVE  /\ IsFiniteSet(Streamers) /\ IsFiniteSet(DOMAIN runs) /\ IsFiniteSet(trades)
         /\ \A r \in DOMAIN runs : TradesOf[r] \in Nat
         /\ \A j \in Streamers : SeenOf[j] \in Nat
         /\ Sum(TradesOf, DOMAIN runs) \in Nat /\ Sum(SeenOf, Streamers) \in Nat
         /\ Cardinality(trades) \in Nat
<1>1. IsFiniteSet(Streamers) BY StreamersAssumption, FS_Union DEF Streamers
<1>2. IsFiniteSet(DOMAIN runs)
  <2>1. DOMAIN runs = 1 .. Len(runs) /\ Len(runs) \in Nat BY DEF TypeOK
  <2>. QED BY <2>1, FS_Interval
<1>3. IsFiniteSet(trades) BY PrintsAssumption, FS_Subset DEF TypeOK
<1>4. \A r \in DOMAIN runs : TradesOf[r] \in Nat
  <2>1. \A r \in DOMAIN runs : runs[r] \in Run BY DEF TypeOK
  <2>. QED BY <2>1 DEF TradesOf, Run
<1>5. \A j \in Streamers : SeenOf[j] \in Nat
  <2>1. \A j \in Streamers : streamer[j] \in Streamer BY DEF TypeOK
  <2>. QED BY <2>1 DEF SeenOf, Streamer
<1>6. Sum(TradesOf, DOMAIN runs) \in Nat BY <1>2, <1>4, SumType
<1>7. Sum(SeenOf, Streamers) \in Nat BY <1>1, <1>5, SumType
<1>8. Cardinality(trades) \in Nat BY <1>3, FS_CardinalityType
<1>. QED BY <1>1, <1>2, <1>3, <1>4, <1>5, <1>6, <1>7, <1>8

\* Outside a window nothing has been counted yet.
LEMMA FreshSeen ==
  ASSUME NEW j, NEW pc
  PROVE  /\ Off.seen = 0 /\ FreshAt(j, pc).seen = 0 /\ After(j, pc).seen = 0
         /\ \A map : [FreshAt(j, pc) EXCEPT !.map = map].seen = 0
         /\ \A timed : [Off EXCEPT !.pc = pc, !.timed = timed].seen = 0
         /\ [Off EXCEPT !.pc = pc].seen = 0
  BY DEF Off, FreshAt, After

\* A step that leaves its streamer outside a window leaves it without a count.
LEMMA SeenResets ==
  ASSUME TypeOK, DownIsOff, SeenInv, NEW j \in Streamers,
         Between(j) \/ Enters(j) \/ Finishes(j) \/ Dies(j)
  PROVE  streamer'[j].seen = 0
<1>1. ASSUME NEW next, next.seen = 0, Goto(j, next) PROVE streamer'[j].seen = 0
  BY <1>1 DEF Goto, TypeOK
<1>2. CASE Between(j)
  <2>1. CASE ReadMap(j)
    <3>1. PICK map \in TokenMaps :
            Goto(j, [FreshAt(j, IF map = {} /\ At(j, "map") THEN "boot" ELSE "begin")
                       EXCEPT !.map = map])
      BY <2>1 DEF ReadMap
    <3>. DEFINE pc == IF map = {} /\ At(j, "map") THEN "boot" ELSE "begin"
                next == [FreshAt(j, pc) EXCEPT !.map = map]
    <3>2. Goto(j, next) BY <3>1
    <3>. HIDE DEF pc
    <3>3. next.seen = 0 BY FreshSeen
    <3>. HIDE DEF next
    <3>. QED BY <1>1, <3>2, <3>3
  <2>2. CASE Bootstrap(j) \/ Resume(j) \/ LoopFails(j)
    <3>1. \/ Goto(j, FreshAt(j, "remap")) \/ Goto(j, FreshAt(j, "map"))
          \/ Goto(j, After(j, "sleep"))
      BY <2>2 DEF Bootstrap, Resume, LoopFails
    <3>. QED BY <1>1, <3>1, FreshSeen
  <2>. QED BY <1>2, <2>1, <2>2 DEF Between
<1>3. CASE \E s \in Servers : s = j /\ ServerStarts(s)
  <2>1. ServerStarts(j) /\ j \in Servers BY <1>3
  <2>2. streamer[j].seen = 0 BY <2>1 DEF ServerStarts, DownIsOff, At, SeenInv, Owns
  <2>3. Goto(j, [Off EXCEPT !.pc = "map"]) \/ UNCHANGED streamer BY <2>1 DEF ServerStarts
  <2>. QED BY <1>1, <2>2, <2>3, FreshSeen
<1>4. CASE \E c \in Commands : c = j /\ CommandStarts(c)
  <2>1. PICK timed \in BOOLEAN : Goto(j, [Off EXCEPT !.pc = "map", !.timed = timed])
    BY Zenon, <1>4 DEF CommandStarts
  <2>. QED BY <1>1, <2>1, FreshSeen
<1>5. CASE Finishes(j)
  <2>1. Goto(j, After(j, "maintain")) \/ Goto(j, After(j, "sleep"))
    BY <1>5 DEF Finishes, Finish, FinishError, ConnectTimesOut, FinishRun
  <2>. QED BY <1>1, <2>1, FreshSeen
<1>6. CASE Dies(j)
  <2>1. Goto(j, Off) BY <1>6 DEF Dies, Cancelled, Ends, Killed
  <2>. QED BY <1>1, <2>1, FreshSeen
<1>. QED BY <1>2, <1>3, <1>4, <1>5, <1>6 DEF Enters

\* A window begins without a count.
LEMMA SeenBegins ==
  ASSUME TypeOK, NEW j \in Streamers, Begin(j)
  PROVE  streamer'[j].seen = streamer[j].seen
<1>. DEFINE next == [streamer[j] EXCEPT !.pc = "connect", !.run = Len(runs) + 1, !.left = Window]
<1>1. Goto(j, next) BY DEF Begin, BeginAs
<1>2. streamer[j] \in Streamer BY DEF TypeOK
<1>3. next.seen = streamer[j].seen BY <1>2 DEF Streamer
<1>. HIDE DEF next
<1>4. streamer'[j] = next BY <1>1 DEF Goto, TypeOK
<1>. QED BY <1>3, <1>4

\* Inside a window the count moves with the table, and only when a trade comes.
LEMMA SeenWithin ==
  ASSUME TypeOK, NEW j \in Streamers, Within(j)
  PROVE  \/ streamer'[j].seen = streamer[j].seen /\ trades' = trades
         \/ \E p \in Prints : /\ streamer'[j].seen = streamer[j].seen + New(p)
                              /\ trades' = trades \cup {p}
<1>. DEFINE g == streamer[j]
<1>1. ASSUME NEW next, Goto(j, next) PROVE streamer'[j] = next
  BY <1>1 DEF Goto, TypeOK
<1>2. g \in Streamer BY DEF TypeOK
<1>3. CASE Connect(j) \/ Elapse(j) \/ WindowFails(j)
  <2>1. /\ \A pc : [g EXCEPT !.pc = pc].seen = g.seen
        /\ [g EXCEPT !.left = @ - 1].seen = g.seen
        /\ [g EXCEPT !.pc = "fail", !.inbox = <<>>].seen = g.seen
    BY <1>2 DEF Streamer
  <2>2. \/ Goto(j, [g EXCEPT !.pc = IF g.map = {} THEN "fail" ELSE "recv"])
        \/ Goto(j, [g EXCEPT !.left = @ - 1])
        \/ Goto(j, [g EXCEPT !.pc = "fail", !.inbox = <<>>])
    BY <1>3 DEF Connect, Elapse, WindowFails
  <2>3. streamer'[j].seen = g.seen BY <1>1, <2>1, <2>2
  <2>. QED BY <1>3, <2>3 DEF Connect, Elapse, WindowFails, store
<1>4. CASE Receive(j)
  <2>. DEFINE p == Head(g.inbox)
              next == [g EXCEPT !.inbox = Tail(@), !.seen = @ + New(p)]
  <2>1. p \in Prints
    <3>1. g.inbox \in Seq(Prints) /\ g.inbox # <<>> BY <1>2, <1>4 DEF Receive, Streamer
    <3>. QED BY <3>1
  <2>2. next.seen = g.seen + New(p) BY <1>2 DEF Streamer
  <2>3. Goto(j, next) /\ trades' = trades \cup {p} BY <1>4 DEF Receive
  <2>. HIDE DEF next, p
  <2>4. streamer'[j] = next BY <1>1, <2>3
  <2>. QED BY <2>1, <2>2, <2>3, <2>4
<1>. QED BY <1>3, <1>4 DEF Within

\* A step aside counts nothing.
LEMMA SeenAside ==
  ASSUME TypeOK, Aside
  PROVE  \A k \in Streamers : streamer'[k].seen = streamer[k].seen
<1>1. CASE TokensChange \/ \E s \in Servers : StopBegins(s) \/ StopEnds(s)
  BY <1>1 DEF TokensChange, StopBegins, StopEnds
<1>2. CASE \E p \in Prints : Message(p)
  <2>1. PICK p \in Prints : Message(p) BY <1>2
  <2>2. \A k \in Streamers : streamer[k] \in Streamer BY DEF TypeOK
  <2>3. \A k \in Streamers : \/ streamer'[k] = streamer[k]
                             \/ streamer'[k] = [streamer[k] EXCEPT !.inbox = Append(@, p)]
    BY <2>1 DEF Message
  <2>4. \A g \in Streamer : [g EXCEPT !.inbox = Append(@, p)].seen = g.seen BY DEF Streamer
  <2>. QED BY <2>2, <2>3, <2>4
<1>. QED BY <1>1, <1>2 DEF Aside

\* A step that counts nothing, keeps every window and the rows it owns.
LEMMA CountSame ==
  ASSUME TypeOK, CountInv, UNCHANGED <<trades, runs, lost>>,
         \A k \in Streamers : /\ Owns(k)' = Owns(k)
                              /\ Owns(k) => streamer'[k].run = streamer[k].run
                              /\ streamer'[k].seen = streamer[k].seen
  PROVE  CountInv'
<1>1. SeenOf' = SeenOf BY DEF SeenOf
<1>2. TradesOf' = TradesOf BY DEF TradesOf
<1>3. Counted' = Counted BY <1>1, <1>2 DEF Counted
<1>4. SeenInv' BY DEF CountInv, SeenInv
<1>. QED BY <1>3, <1>4 DEF CountInv

\* One streamer counts what another transaction of it has just stored.
LEMMA CountWithin ==
  ASSUME TypeOK, CountInv, NEW j \in Streamers, Within(j)
  PROVE  CountInv'
<1>1. /\ Owns(j) /\ Owns(j)' /\ streamer'[j].run = streamer[j].run
      /\ UNCHANGED <<runs, lost>>
      /\ \A k \in Streamers \ {j} : streamer'[k] = streamer[k]
  BY WithinEffect, GotoEffect
<1>2. \A k \in Streamers : /\ Owns(k)' = Owns(k)
                           /\ Owns(k) => streamer'[k].run = streamer[k].run
  BY <1>1 DEF Owns
<1>3. CASE streamer'[j].seen = streamer[j].seen /\ trades' = trades
  BY <1>1, <1>2, <1>3, CountSame
<1>4. CASE \E p \in Prints : /\ streamer'[j].seen = streamer[j].seen + New(p)
                             /\ trades' = trades \cup {p}
  <2>1. PICK p \in Prints : /\ streamer'[j].seen = streamer[j].seen + New(p)
                            /\ trades' = trades \cup {p}
    BY <1>4
  <2>2. /\ IsFiniteSet(Streamers) /\ IsFiniteSet(trades)
        /\ \A k \in Streamers : SeenOf[k] \in Nat
        /\ Sum(TradesOf, DOMAIN runs) \in Nat /\ Sum(SeenOf, Streamers) \in Nat
        /\ Cardinality(trades) \in Nat
    BY SumsTyped
  <2>3. /\ SeenOf'[j] = SeenOf[j] + New(p) /\ New(p) \in {0, 1}
        /\ \A k \in Streamers \ {j} : SeenOf'[k] = SeenOf[k]
    BY <1>1, <2>1 DEF SeenOf, New
  <2>4. \A k \in Streamers : SeenOf'[k] \in Nat BY <2>2, <2>3
  <2>5. Sum(SeenOf', Streamers) + SeenOf[j] = Sum(SeenOf, Streamers) + SeenOf'[j]
    BY <2>2, <2>3, <2>4, SumChange
  <2>6. Sum(SeenOf', Streamers) \in Nat BY <2>2, <2>4, SumType
  <2>7. Sum(SeenOf', Streamers) = Sum(SeenOf, Streamers) + New(p)
    BY <2>2, <2>3, <2>5, <2>6
  <2>8. TradesOf' = TradesOf BY <1>1 DEF TradesOf
  <2>9. Counted' = Counted + New(p)
    <3>1. Counted' = Sum(TradesOf, DOMAIN runs) + Sum(SeenOf', Streamers)
      BY <1>1, <2>8 DEF Counted
    <3>. QED BY <2>2, <2>3, <2>7, <3>1 DEF Counted
  <2>10. Cardinality(trades') = Cardinality(trades) + New(p)
    <3>1. CASE p \in trades
      <4>1. trades' = trades BY <2>1, <3>1
      <4>. QED BY <2>2, <3>1, <4>1 DEF New
    <3>2. CASE p \notin trades
      BY <2>1, <2>2, <3>2, FS_AddElement DEF New
    <3>. QED BY <3>1, <3>2
  <2>11. SeenInv' BY <1>1, <1>2 DEF CountInv, SeenInv
  <2>12. Counted \in Nat BY <2>2 DEF Counted
  <2>. QED BY <1>1, <2>2, <2>3, <2>9, <2>10, <2>11, <2>12 DEF CountInv
<1>. QED BY <1>3, <1>4, SeenWithin

\* A new row of the ledger has counted nothing.
LEMMA CountBegin ==
  ASSUME TypeOK, CountInv, NEW j \in Streamers, Begin(j)
  PROVE  CountInv'
<1>. DEFINE row == [status |-> "running", trades |-> 0]
            n == Len(runs) + 1
            D == DOMAIN runs
<1>1. /\ ~Owns(j) /\ Owns(j)' /\ streamer'[j].run = n
      /\ runs' = Append(runs, row) /\ UNCHANGED <<trades, lost>>
      /\ \A k \in Streamers \ {j} : streamer'[k] = streamer[k]
  BY BeginEffect, GotoEffect
<1>2. row \in Run /\ row.trades = 0 BY DEF Run
<1>. HIDE DEF row
<1>3. runs \in Seq(Run) /\ n \notin D BY DEF TypeOK
<1>4. /\ DOMAIN runs' = D \cup {n} /\ runs'[n] = row
      /\ \A r \in D : runs'[r] = runs[r]
  BY <1>1, <1>2, <1>3
<1>. HIDE DEF n
<1>5. /\ IsFiniteSet(D) /\ \A r \in D : TradesOf[r] \in Nat
      /\ Sum(TradesOf, D) \in Nat
  BY SumsTyped
<1>6. TradesOf'[n] = 0 /\ \A r \in D : TradesOf'[r] = TradesOf[r]
  BY <1>2, <1>4 DEF TradesOf
<1>. HIDE DEF D
<1>7. Sum(TradesOf', D \cup {n}) = Sum(TradesOf, D)
  <2>1. \A r \in D \cup {n} : TradesOf'[r] \in Nat BY <1>5, <1>6
  <2>2. Sum(TradesOf', D \cup {n}) = Sum(TradesOf', D) + TradesOf'[n]
    BY <1>3, <1>5, <2>1, SumAdd
  <2>3. Sum(TradesOf', D) = Sum(TradesOf, D) BY <1>5, <1>6, SumSame
  <2>. QED BY <1>5, <1>6, <2>2, <2>3
<1>8. SeenOf' = SeenOf
  <2>1. \A k \in Streamers : streamer'[k].seen = streamer[k].seen BY <1>1, SeenBegins
  <2>. QED BY <2>1 DEF SeenOf
<1>9. Counted' = Counted BY <1>4, <1>7, <1>8 DEF Counted, D
<1>10. SeenInv'
  <2>1. \A k \in Streamers \ {j} : /\ Owns(k)' = Owns(k)
                                   /\ streamer'[k].run = streamer[k].run
                                   /\ streamer'[k].seen = streamer[k].seen
    BY <1>1 DEF Owns
  <2>2. \A k \in Streamers : Owns(k) => streamer[k].run \in D BY DEF TypeOK, D
  <2>3. ASSUME NEW k \in Streamers
        PROVE  IF Owns(k)' THEN runs'[streamer'[k].run].trades = 0 ELSE streamer'[k].seen = 0
    <3>1. CASE k = j BY <1>1, <1>2, <1>4, <3>1
    <3>2. CASE k # j BY <1>4, <2>1, <2>2, <3>2 DEF CountInv, SeenInv
    <3>. QED BY <3>1, <3>2
  <2>4. ASSUME NEW i \in Streamers, NEW k \in Streamers,
               Owns(i)', Owns(k)', streamer'[i].run = streamer'[k].run
        PROVE  i = k
    BY <1>1, <1>3, <2>1, <2>2, <2>4 DEF CountInv, SeenInv
  <2>. QED BY <2>3, <2>4 DEF SeenInv
<1>. QED BY <1>1, <1>9, <1>10 DEF CountInv

\* The count of a window goes from its streamer into its row.
LEMMA CountFinish ==
  ASSUME TypeOK, DownIsOff, CountInv, NEW j \in Streamers, Finishes(j)
  PROVE  CountInv'
<1>. DEFINE n == streamer[j].run
            D == DOMAIN runs
<1>1. /\ Owns(j) /\ streamer'[j].pc \in Outside /\ UNCHANGED <<trades, lost>>
      /\ \A k \in Streamers \ {j} : streamer'[k] = streamer[k]
      /\ streamer'[j].seen = 0
  BY FinishEffect, GotoEffect, SeenResets DEF CountInv
<1>2. PICK verdict \in {"ok", "error"} :
        runs' = [runs EXCEPT ![n] = [status |-> verdict, trades |-> streamer[j].seen]]
  BY FinishEffect
<1>3. n \in D /\ runs[n].trades = 0 BY <1>1 DEF TypeOK, CountInv, SeenInv
<1>4. /\ DOMAIN runs' = D /\ runs'[n].trades = streamer[j].seen
      /\ \A r \in D \ {n} : runs'[r] = runs[r]
  BY <1>2, <1>3 DEF TypeOK
<1>5. /\ IsFiniteSet(D) /\ IsFiniteSet(Streamers)
      /\ \A r \in D : TradesOf[r] \in Nat
      /\ \A k \in Streamers : SeenOf[k] \in Nat
      /\ Sum(TradesOf, D) \in Nat /\ Sum(SeenOf, Streamers) \in Nat
  BY SumsTyped
<1>6. /\ TradesOf[n] = 0 /\ TradesOf'[n] = SeenOf[j]
      /\ \A r \in D \ {n} : TradesOf'[r] = TradesOf[r]
      /\ SeenOf'[j] = 0 /\ \A k \in Streamers \ {j} : SeenOf'[k] = SeenOf[k]
  BY <1>1, <1>3, <1>4 DEF TradesOf, SeenOf
<1>7. ~Owns(j)' BY <1>1 DEF Owns, Outside, PCs
<1>8. SeenInv'
  <2>1. \A k \in Streamers \ {j} : Owns(k)' = Owns(k) BY <1>1 DEF Owns
  <2>2. \A k \in Streamers \ {j} : Owns(k) => streamer[k].run \in D \ {n}
    BY <1>1 DEF TypeOK, CountInv, SeenInv
  <2>3. ASSUME NEW k \in Streamers
        PROVE  IF Owns(k)' THEN runs'[streamer'[k].run].trades = 0 ELSE streamer'[k].seen = 0
    <3>1. CASE k = j BY <1>1, <1>7, <3>1
    <3>2. CASE k # j
      <4>1. streamer'[k] = streamer[k] /\ (Owns(k)' = Owns(k)) BY <1>1, <2>1, <3>2
      <4>. HIDE DEF n, D
      <4>. QED BY <1>4, <2>2, <3>2, <4>1 DEF CountInv, SeenInv
    <3>. QED BY <3>1, <3>2
  <2>4. ASSUME NEW i \in Streamers, NEW k \in Streamers,
               Owns(i)', Owns(k)', streamer'[i].run = streamer'[k].run
        PROVE  i = k
    BY <1>1, <1>7, <2>1, <2>4 DEF CountInv, SeenInv
  <2>. QED BY <2>3, <2>4 DEF SeenInv
<1>. HIDE DEF n, D
<1>9. Sum(TradesOf', D) = Sum(TradesOf, D) + SeenOf[j]
  <2>1. \A r \in D : TradesOf'[r] \in Nat BY <1>5, <1>6
  <2>2. Sum(TradesOf', D) + TradesOf[n] = Sum(TradesOf, D) + TradesOf'[n]
    BY <1>3, <1>5, <1>6, <2>1, SumChange
  <2>3. Sum(TradesOf', D) \in Nat BY <1>5, <2>1, SumType
  <2>. QED BY <1>5, <1>6, <2>2, <2>3
<1>10. Sum(SeenOf', Streamers) + SeenOf[j] = Sum(SeenOf, Streamers)
  <2>1. \A k \in Streamers : SeenOf'[k] \in Nat BY <1>5, <1>6
  <2>2. Sum(SeenOf', Streamers) + SeenOf[j] = Sum(SeenOf, Streamers) + SeenOf'[j]
    BY <1>5, <1>6, <2>1, SumChange
  <2>. QED BY <1>5, <1>6, <2>2
<1>11. Counted' = Counted
  <2>1. Sum(SeenOf', Streamers) \in Nat
    <3>1. \A k \in Streamers : SeenOf'[k] \in Nat BY <1>5, <1>6
    <3>. QED BY <1>5, <3>1, SumType
  <2>2. Counted' = Sum(TradesOf', D) + Sum(SeenOf', Streamers) BY <1>4 DEF Counted
  <2>3. Counted = Sum(TradesOf, D) + Sum(SeenOf, Streamers) BY DEF Counted, D
  <2>. QED BY <1>5, <1>9, <1>10, <2>1, <2>2, <2>3
<1>. QED BY <1>1, <1>8, <1>11 DEF CountInv

\* The count of a window that is lost is lost with it, and its run says so.
LEMMA CountDies ==
  ASSUME TypeOK, DownIsOff, CountInv, NEW j \in Streamers, Dies(j)
  PROVE  CountInv'
<1>1. /\ streamer'[j] = Off /\ Off.pc \in Outside
      /\ lost' = IF Owns(j) THEN lost \cup {streamer[j].run} ELSE lost
      /\ UNCHANGED <<trades, runs>>
      /\ \A k \in Streamers \ {j} : streamer'[k] = streamer[k]
      /\ streamer'[j].seen = 0
  BY DiesEffect, GotoEffect, SeenResets DEF CountInv
<1>2. ~Owns(j)' BY <1>1 DEF Owns, Outside, PCs
<1>3. CASE ~Owns(j)
  <2>1. streamer[j].seen = 0 BY <1>3 DEF CountInv, SeenInv
  <2>2. \A k \in Streamers : /\ Owns(k)' = Owns(k)
                             /\ Owns(k) => streamer'[k].run = streamer[k].run
                             /\ streamer'[k].seen = streamer[k].seen
    BY <1>1, <1>2, <1>3, <2>1 DEF Owns
  <2>. QED BY <1>1, <1>3, <2>2, CountSame
<1>4. CASE Owns(j)
  <2>1. lost' # {} BY <1>1, <1>4
  <2>2. /\ IsFiniteSet(Streamers) /\ \A k \in Streamers : SeenOf[k] \in Nat
        /\ Sum(TradesOf, DOMAIN runs) \in Nat /\ Sum(SeenOf, Streamers) \in Nat
        /\ Cardinality(trades) \in Nat
    BY SumsTyped
  <2>3. SeenOf'[j] = 0 /\ \A k \in Streamers \ {j} : SeenOf'[k] = SeenOf[k]
    BY <1>1 DEF SeenOf
  <2>4. \A k \in Streamers : SeenOf'[k] \in Nat BY <2>2, <2>3
  <2>5. Sum(SeenOf', Streamers) + SeenOf[j] = Sum(SeenOf, Streamers) + SeenOf'[j]
    BY <2>2, <2>3, <2>4, SumChange
  <2>6. Sum(SeenOf', Streamers) \in Nat BY <2>2, <2>4, SumType
  <2>7. Sum(SeenOf', Streamers) <= Sum(SeenOf, Streamers) BY <2>2, <2>3, <2>5, <2>6
  <2>8. TradesOf' = TradesOf BY <1>1 DEF TradesOf
  <2>9. Counted' <= Cardinality(trades)
    <3>1. Counted' = Sum(TradesOf, DOMAIN runs) + Sum(SeenOf', Streamers)
      BY <1>1, <2>8 DEF Counted
    <3>2. Sum(TradesOf, DOMAIN runs) + Sum(SeenOf, Streamers) <= Cardinality(trades)
      BY DEF CountInv, Counted
    <3>. QED BY <2>2, <2>6, <2>7, <3>1, <3>2
  <2>10. SeenInv'
    <3>1. \A k \in Streamers \ {j} : Owns(k)' = Owns(k) BY <1>1 DEF Owns
    <3>. QED BY <1>1, <1>2, <3>1 DEF CountInv, SeenInv
  <2>. QED BY <1>1, <2>1, <2>9, <2>10 DEF CountInv
<1>. QED BY <1>3, <1>4

LEMMA CountNext == TypeOK /\ DownIsOff /\ CountInv /\ [Next]_vars => CountInv'
<1>. SUFFICES ASSUME TypeOK, DownIsOff, CountInv, [Next]_vars PROVE CountInv'
  OBVIOUS
<1>1. CASE UNCHANGED vars BY <1>1, CountSame DEF vars, store, Owns
<1>2. CASE Aside
  <2>1. UNCHANGED <<trades, runs, lost>> BY <1>2, AsideEffect
  <2>2. \A k \in Streamers : /\ Owns(k)' = Owns(k)
                             /\ Owns(k) => streamer'[k].run = streamer[k].run
                             /\ streamer'[k].seen = streamer[k].seen
    BY <1>2, AsideEffect, SeenAside DEF Owns
  <2>. QED BY <2>1, <2>2, CountSame
<1>3. ASSUME NEW j \in Streamers, Between(j) \/ Enters(j) PROVE CountInv'
  <2>1. /\ UNCHANGED <<trades, runs, lost>>
        /\ streamer[j].pc \in Outside /\ streamer'[j].pc \in Outside
        /\ \A k \in Streamers \ {j} : streamer'[k] = streamer[k]
    <3>1. CASE Between(j) BY <3>1, BetweenEffect, GotoEffect
    <3>2. CASE Enters(j)
      <4>1. "off" \in Outside BY DEF Outside, PCs
      <4>. QED BY <3>2, <4>1, EntersEffect
    <3>. QED BY <1>3, <3>1, <3>2
  <2>2. ~Owns(j) /\ ~Owns(j)' BY <2>1 DEF Owns, Outside, PCs
  <2>3. streamer'[j].seen = 0 /\ streamer[j].seen = 0
    BY <1>3, <2>2, SeenResets DEF CountInv, SeenInv
  <2>4. \A k \in Streamers : /\ Owns(k)' = Owns(k)
                             /\ Owns(k) => streamer'[k].run = streamer[k].run
                             /\ streamer'[k].seen = streamer[k].seen
    BY <2>1, <2>2, <2>3 DEF Owns
  <2>. QED BY <2>1, <2>4, CountSame
<1>4. CASE Next
  BY <1>2, <1>3, <1>4, NextCases, CountWithin, CountBegin, CountFinish, CountDies
<1>. QED BY <1>1, <1>4

\* The ledger and the windows that run count every stored trade once, although
\* windows share prints, prints are repeated and windows fail; what a cancelled
\* or killed window had counted is all that can be missing.
THEOREM CountedOnce == Spec => []TradesCountedOnce
<1>1. Init => CountInv
  <2>. SUFFICES ASSUME Init PROVE CountInv OBVIOUS
  <2>1. \A j \in Streamers : streamer[j] = Off BY DEF Init
  <2>2. \A j \in Streamers : ~Owns(j) /\ streamer[j].seen = 0 BY <2>1 DEF Owns, Off
  <2>3. runs = <<>> /\ trades = {} BY DEF Init
  <2>4. Sum(TradesOf, DOMAIN runs) = 0
    <3>1. DOMAIN runs = {} BY <2>3
    <3>. QED BY <3>1, SumEmpty
  <2>5. Sum(SeenOf, Streamers) = 0
    <3>1. IsFiniteSet(Streamers) BY StreamersAssumption, FS_Union DEF Streamers
    <3>2. \A j \in Streamers : SeenOf[j] = 0 BY <2>2 DEF SeenOf
    <3>. QED BY <3>1, <3>2, SumZero
  <2>6. Cardinality(trades) = 0 BY <2>3, FS_EmptySet
  <2>7. SeenInv BY <2>2 DEF SeenInv
  <2>. QED BY <2>4, <2>5, <2>6, <2>7 DEF CountInv, Counted
<1>2. CountInv => TradesCountedOnce
  BY CountedIs DEF CountInv, Counted, TradesCountedOnce
<1>. QED BY <1>1, <1>2, CountNext, Invariant, PTL DEF Spec
=============================================================================

------------------------------ MODULE Session ------------------------------
(***************************************************************************)
(* SimulationRunner (api/server.py): one live or replayed session at a     *)
(* time, over the event store, the agents' sources and a replay source.    *)
(* Handlers run without interruption; the two loops and the auto-resume    *)
(* timers are tasks, split where they sleep.  What the runner keeps of the *)
(* events it has processed (recent trades, depth, bars, anomalies, prices) *)
(* is a function of their sequence since the last reset: tape.  The        *)
(* process may die at any time and is then started again on its store.     *)
(***************************************************************************)
EXTENDS AgentSources, ReplaySource

CONSTANTS
  AnyTime,      \* playback controls also reach a runner that is not replaying
  Targets,      \* the numbers a replay is sent to
  Scenarios,    \* what a scenario injects: kinds of market events, in order
  MaxCommands,  \* requests made of the runner (bound)
  MaxCrashes    \* crashes of the process (bound)
ASSUME SessionAssumption ==
  /\ AnyTime \in BOOLEAN /\ MaxCommands \in Nat /\ MaxCrashes \in Nat
  /\ Targets \subseteq Nat \ {0}
  /\ Scenarios \subseteq {<<"NEWS">>, <<"HALT">>, <<"RESUME">>, <<"NEWS", "HALT">>}

VARIABLES
  mode,          \* RunnerMode
  active,        \* active_session_id
  running,       \* _running
  task,          \* what _sim_task runs: "live", "replay"; "done", or "none"
  inflight,      \* the event, if any, that the replay loop holds during its pacing delay
  tape,          \* the MARKET events processed since the last reset
  replayHalted,  \* _replay_halted
  timers,        \* symbol -> auto-resume tasks asleep
  commands,      \* requests so far
  crashed,       \* sessions cut by a crash
  late           \* a seek or a stop came during the pacing delay, since the last reset

runner == <<mode, active, running, task, inflight, tape, replayHalted>>
vars == <<store, sources, replay, runner, timers, commands, crashed, late>>

Primary == CHOOSE x \in Symbols : TRUE
NoTimers == [x \in Symbols |-> 0]
IsLive == mode = "LIVE"

\* Bound: n more numbers of an engine leave enough for its timers and SessionEnded.
Room(x, n) == sources[x].next + n + 2 * timers[x] <= MaxSeq[active]

\* _process_event: the tape and the halt flag after some more events.
OnTape(es) == InOrder(es, {i \in DOMAIN es : es[i].kind = "MARKET"})
HaltedAfter(h, es) ==
  LET marks == {i \in DOMAIN es : es[i].kind \in {"HALT", "RESUME"}}
  IN  IF marks = {} THEN h ELSE es[Max(marks)].kind = "HALT"

\* Mutant of Process: of several events only the first is processed.
ProcessFirst(es) ==
  LET first == SubSeq(es, 1, 1)
  IN  tape' = tape \o OnTape(first) /\ replayHalted' = HaltedAfter(replayHalted, first)

Process(es) == tape' = tape \o OnTape(es) /\ replayHalted' = HaltedAfter(replayHalted, es)

TypeOK ==
  /\ \A s \in SessionId :
       /\ store[s].status \in {"NONE", "ACTIVE", "STOPPED"}
       /\ \A n \in Seqs(store, s) : store[s].events[n] \in Event /\ store[s].events[n].seq = n
  /\ \A x \in Symbols : sources[x].next \in Nat \ {0} /\ sources[x].halted \in BOOLEAN
  /\ replay.session \in 0..MaxSessions /\ replay.cursor \in Nat \ {0}
  /\ mode \in {"LIVE", "REPLAY", "PAUSED", "STOPPED"}
  /\ active \in SessionId /\ running \in BOOLEAN /\ replayHalted \in BOOLEAN
  /\ task \in {"live", "replay", "done", "none"}
  /\ inflight \in Seq(Event) /\ tape \in Seq(Event)
  /\ timers \in [Symbols -> Nat]
  /\ crashed \subseteq SessionId /\ commands \in 0..MaxCommands

-----------------------------------------------------------------------------
(* Stopping and starting. *)

\* Mutant of Ended: numbered by the count of the log.
EndedByCount == Evt("END", Primary, CountEvents(store, active) + 1)

\* SessionEnded, numbered by the primary symbol's engine.
Ended == Evt("END", Primary, sources[Primary].next)

\* Mutant of Closed: SessionEnded is logged, the row of the session is forgotten.
ClosedLogOnly(st) == IF IsLive THEN AppendEvent(st, active, Ended) ELSE st

Closed(st) ==
  IF IsLive
  THEN UpdateSession(AppendEvent(st, active, Ended), active, "STOPPED",
                     CountEvents(st, active) + 1)
  ELSE st

\* The store after stop().  The task and the timers are cancelled: they do not
\* run again.  The sources and the replay source are kept.
AfterStop == Closed(store)

Unused(st) == {s \in SessionId : st[s].status = "NONE"}

\* start(), on the store that stop() left: a new session with new engines.
Begin(st) ==
  LET s == Min(Unused(st))
      first == Evt("START", Primary, NewSources[Primary].next)
  IN  /\ Unused(st) # {}
      /\ store' = AppendEvent(CreateSession(st, s), s, first)
      /\ sources' = Allocated(NewSources, Primary, 1)
      /\ active' = s /\ mode' = "LIVE" /\ running' = TRUE /\ task' = "live"
      /\ inflight' = <<>> /\ tape' = <<>> /\ replayHalted' = FALSE /\ timers' = NoTimers
      /\ late' = FALSE

Command == commands < MaxCommands /\ commands' = commands + 1

Start ==
  /\ Command
  /\ Begin(AfterStop)
  /\ UNCHANGED <<replay, crashed>>

Stop ==
  /\ Command
  /\ store' = AfterStop
  /\ sources' = IF IsLive THEN Allocated(sources, Primary, 1) ELSE sources
  /\ running' = FALSE /\ task' = "none" /\ inflight' = <<>> /\ timers' = NoTimers
  /\ mode' = "STOPPED"
  /\ late' = (late \/ inflight # <<>>)
  /\ UNCHANGED <<replay, active, tape, replayHalted, crashed>>

\* The process dies, also between the two writes of stop(), and its successor
\* starts the default session on the same store.
CrashAndRestart(st) ==
  /\ Cardinality(crashed) < MaxCrashes
  /\ crashed' = IF IsLive THEN crashed \cup {active} ELSE crashed
  /\ Begin(st)
  /\ replay' = NoReplay
  /\ UNCHANGED commands

Crash == CrashAndRestart(store)
CrashInStop == IsLive /\ CrashAndRestart(AppendEvent(store, active, Ended))

-----------------------------------------------------------------------------
(* Replaying. *)

\* Mutant of FastForward: the event the replay goes on with is included.
FastForwardThrough(st, s, n) ==
  LET before == GetEvents(st, s, Before(st, s, n + 1))
  IN  tape' = OnTape(before) /\ replayHalted' = HaltedAfter(FALSE, before)

\* What processing the events before number n from scratch leaves behind.
FastForward(st, s, n) ==
  LET before == GetEvents(st, s, Before(st, s, n))
  IN  tape' = OnTape(before) /\ replayHalted' = HaltedAfter(FALSE, before)

\* Mutant of StartReplay: the timers of the live session are not cancelled.
StartReplayKeepsTimers(s, n) ==
  /\ Command /\ store[s].status # "NONE"
  /\ store' = AfterStop
  /\ sources' = IF IsLive THEN Allocated(sources, Primary, 1) ELSE sources
  /\ active' = s /\ mode' = "REPLAY" /\ running' = TRUE /\ task' = "replay"
  /\ replay' = SeekTo(NewReplay(AfterStop, s), n)
  /\ FastForward(AfterStop, s, n)
  /\ inflight' = <<>> /\ late' = FALSE
  /\ UNCHANGED <<timers, crashed>>

StartReplay(s, n) ==
  /\ Command
  /\ store[s].status # "NONE"
  /\ store' = AfterStop
  /\ sources' = IF IsLive THEN Allocated(sources, Primary, 1) ELSE sources
  /\ active' = s /\ mode' = "REPLAY" /\ running' = TRUE /\ task' = "replay"
  /\ replay' = SeekTo(NewReplay(AfterStop, s), n)
  /\ FastForward(AfterStop, s, n)
  /\ inflight' = <<>> /\ timers' = NoTimers /\ late' = FALSE
  /\ UNCHANGED crashed

\* The controls need a replay source, not a replay: the one an earlier replay
\* left will do.
Controllable == replay.session # 0 /\ (AnyTime \/ replay.session = active)

Respawned == IF task \in {"done", "none"} THEN "replay" ELSE task

\* A seek may come while the replay loop holds an event for its pacing delay:
\* the event is then processed late, after the fast-forward.
Seek(n) ==
  /\ Command /\ Controllable
  /\ FastForward(store, active, n)
  /\ IF mode = "PAUSED"
     THEN /\ replay' = [SeekTo(replay, n) EXCEPT !.paused = TRUE]
          /\ UNCHANGED <<mode, running, task>>
     ELSE /\ replay' = [SeekTo(replay, n) EXCEPT !.paused = FALSE]
          /\ mode' = "REPLAY" /\ running' = TRUE /\ task' = Respawned
  /\ late' = (inflight # <<>>)
  /\ UNCHANGED <<store, sources, active, inflight, timers, crashed>>

Pause ==
  /\ Command /\ Controllable
  /\ mode' = "PAUSED" /\ replay' = [replay EXCEPT !.paused = TRUE]
  /\ UNCHANGED <<store, sources, active, running, task, inflight, tape, replayHalted, timers,
                 crashed, late>>

\* Mutant of Resume: the replay source stays paused.
ResumeModeOnly ==
  /\ Command /\ Controllable
  /\ mode' = "REPLAY" /\ task' = Respawned
  /\ running' = IF task = Respawned THEN running ELSE TRUE
  /\ UNCHANGED <<store, sources, replay, active, inflight, tape, replayHalted, timers, crashed,
                 late>>

Resume ==
  /\ Command /\ Controllable
  /\ mode' = "REPLAY" /\ replay' = [replay EXCEPT !.paused = FALSE]
  /\ task' = Respawned
  /\ running' = IF task = Respawned THEN running ELSE TRUE
  /\ UNCHANGED <<store, sources, active, inflight, tape, replayHalted, timers, crashed, late>>

\* The replay loop from one sleep to the next: the event held is processed; then
\* the loop ends, sleeps because it is paused or finds nothing, or takes the
\* next event and holds it.
ReplayStep ==
  /\ task = "replay"
  /\ Process(inflight)
  /\ IF ~running \/ ~HasNext(replay)
     THEN mode' = "STOPPED" /\ task' = "done" /\ inflight' = <<>> /\ UNCHANGED replay
     ELSE /\ UNCHANGED <<mode, task>>
          /\ IF mode # "PAUSED" /\ HasEvent(store, replay)
             THEN /\ inflight' = <<Head(Buffered(store, replay))>>
                  /\ replay' = Advanced(store, replay)
             ELSE inflight' = <<>> /\ UNCHANGED replay
  /\ UNCHANGED <<store, sources, active, running, timers, commands, crashed, late>>

-----------------------------------------------------------------------------
(* A live session. *)

\* The loop persists the next event, whichever symbol's it is, then processes it.
LiveStep(x, n) ==
  LET e == Head(sources[x].queue)
  IN  /\ task = "live" /\ running
      /\ Room(x, n)
      /\ sources' = Taken(sources, x, n)
      /\ store' = AppendEvent(store, active, e)
      /\ Process(<<e>>)
      /\ UNCHANGED <<replay, mode, active, running, task, inflight, timers, commands, crashed, late>>

\* A user's order that rests in the book: it and what the engine makes of it are
\* logged and processed at once, ahead of the events that wait in the queue.  (What
\* an order that trades at once leads to is in OrderManagement.)
UserOrder(x) ==
  LET n == sources[x].next
      es == <<Evt("ORDER", x, n), Evt("MARKET", x, n + 1)>>
  IN  /\ Command /\ IsLive /\ ~sources[x].halted
      /\ Room(x, 2)
      /\ sources' = Allocated(sources, x, 2)
      /\ store' = AppendEvents(store, active, es)
      /\ Process(es)
      /\ UNCHANGED <<replay, mode, active, running, task, inflight, timers, crashed, late>>

\* inject_scenario: numbers for all its events are drawn first, then each is
\* injected, which draws another, and the injected copies are logged.
\* Two events make a flash_crash, which may have an auto-resume.
InjectScenario(x, kinds, timed) ==
  LET drawn == Allocated(sources, x, Len(kinds)) IN
  /\ Command /\ IsLive
  /\ timed => Len(kinds) = 2
  /\ Room(x, 2 * Len(kinds) + (IF timed THEN 2 ELSE 0))
  /\ sources' = Inject(drawn, x, kinds)
  /\ store' = AppendEvents(store, active, Copies(drawn, x, kinds))
  /\ timers' = IF timed THEN [timers EXCEPT ![x] = @ + 1] ELSE timers
  /\ UNCHANGED <<replay, runner, crashed, late>>

\* Mutant of AutoResume: only the loop logs the resume.
AutoResumeUnlogged(x) ==
  /\ timers[x] > 0
  /\ timers' = [timers EXCEPT ![x] = @ - 1]
  /\ sources' = IF running /\ sources[x].halted
                THEN Inject(Allocated(sources, x, 1), x, <<"RESUME">>) ELSE sources
  /\ UNCHANGED <<store, replay, runner, commands, crashed, late>>

\* _auto_resume wakes up; it logs its own event, the loop will log the copy.
AutoResume(x) ==
  /\ timers[x] > 0
  /\ timers' = [timers EXCEPT ![x] = @ - 1]
  /\ IF running /\ sources[x].halted
     THEN /\ sources' = Inject(Allocated(sources, x, 1), x, <<"RESUME">>)
          /\ store' = AppendEvent(store, active, Evt("RESUME", x, sources[x].next))
     ELSE UNCHANGED <<sources, store>>
  /\ UNCHANGED <<replay, runner, commands, crashed, late>>

-----------------------------------------------------------------------------

\* The process has started: a first live session.
Init ==
  /\ store = AppendEvent(CreateSession(NoSessions, 1), 1, Evt("START", Primary, 2))
  /\ sources = Allocated(NewSources, Primary, 1)
  /\ replay = NoReplay
  /\ mode = "LIVE" /\ active = 1 /\ running = TRUE /\ task = "live"
  /\ inflight = <<>> /\ tape = <<>> /\ replayHalted = FALSE /\ timers = NoTimers
  /\ commands = 0 /\ crashed = {} /\ late = FALSE

Next ==
  \/ Start \/ Stop \/ Crash \/ CrashInStop
  \/ \E s \in SessionId, n \in Targets : StartReplay(s, n)
  \/ \E n \in Targets : Seek(n)
  \/ Pause \/ Resume \/ ReplayStep
  \/ \E x \in Symbols, n \in 1..MaxBatch : LiveStep(x, n)
  \/ \E x \in Symbols : UserOrder(x) \/ AutoResume(x)
  \/ \E x \in Symbols, kinds \in Scenarios, timed \in BOOLEAN : InjectScenario(x, kinds, timed)

\* The event loop wakes every task whose sleep is over.
Fairness ==
  /\ WF_vars(ReplayStep)
  /\ \A x \in Symbols : WF_vars(AutoResume(x))

Spec == Init /\ [][Next]_vars /\ Fairness

-----------------------------------------------------------------------------
(* Properties. *)

\* A session that is neither being recorded nor was cut by a crash is closed: its
\* row says so and SessionEnded is the last event of its log.  Stop, a new session,
\* a replay and a restart may all be what ends it.
SessionsClosed ==
  \A s \in SessionId :
    /\ store[s].status = "ACTIVE" => (s = active /\ IsLive) \/ s \in crashed
    /\ store[s].status = "STOPPED" =>
         \E n \in Seqs(store, s) :
           store[s].events[n].kind = "END" /\ \A m \in Seqs(store, s) : m <= n

\* What a replay shows is what the log holds before its cursor, in order and each
\* event once, whatever pauses, seeks, stops and resumptions there were; the event
\* held during the pacing delay is not shown yet.  The exception is a seek or a
\* stop during that delay.
ReplayShowsPrefix ==
  (task \in {"replay", "done"} /\ ~late) =>
    LET before == GetEvents(store, active, Before(store, active, replay.cursor))
        seen == SubSeq(before, 1, Len(before) - Len(inflight))
    IN  tape = OnTape(seen) /\ replayHalted = HaltedAfter(FALSE, seen)

\* A live session's projections have each trade and delta of its log, once.
LiveShowsLog ==
  IsLive =>
    LET logged == {store[active].events[n] : n \in Seqs(store, active)}
    IN  /\ ToSet(tape) = {e \in logged : e.kind = "MARKET"}
        /\ Len(tape) = Cardinality(ToSet(tape))

\* A reader of a live session's log knows which engines are halted, although a
\* halt reaches log and engine by different paths.
LogTellsHalts ==
  IsLive =>
    \A x \in Symbols :
      LET log == store[active].events
      IN  sources[x].halted =
            HaltedAfter(FALSE, InOrder(log, {n \in DOMAIN log : log[n].symbol = x}))

\* When a replay ends by itself it has shown everything up to SessionEnded, provided
\* the log has no hole before it: the total that ends the replay counts events.
ReplayComplete ==
  LET others == {n \in Seqs(store, active) : store[active].events[n].kind # "END"}
  IN  (task = "done" /\ mode = "STOPPED" /\ others = 1..Cardinality(others)) =>
        \A n \in others : n < replay.cursor

\* The phase of a session's recording, as a reader of the store and the runner sees it.
Phase(s) ==
  IF store[s].status = "NONE" THEN "new"
  ELSE IF s = active /\ IsLive THEN "recording"
  ELSE IF store[s].status = "STOPPED" THEN "closed" ELSE "cut"

Records ==
  INSTANCE SessionRecords WITH phase <- [s \in SessionId |-> Phase(s)],
                               log <- [s \in SessionId |-> store[s].events]

\* However sessions are started, stopped, replayed, steered and cut by crashes, they
\* are recorded as SessionRecords says.
ImplementsRecords == Records!RSpec

\* An event of the log is never replaced by another one.
LogNeverRewritten ==
  [][\A s \in SessionId : \A n \in Seqs(store, s) :
       n \in Seqs(store', s) /\ store'[s].events[n] = store[s].events[n]]_vars

\* Once a session has been left, its log stays as it is, while others are recorded
\* or it is replayed: no task of a session survives it.
RecordedLogsFixed ==
  [][\A s \in SessionId :
       store'[s].events # store[s].events =>
         (s = active /\ IsLive) \/ store[s].status = "NONE"]_vars

\* A flash crash with a duration does not leave the market halted.
CrashHaltEnds ==
  \A x \in Symbols : (timers[x] > 0 /\ sources[x].halted) ~> (~sources[x].halted \/ ~IsLive)

\* A replay that is left alone ends.
ReplayEnds == mode = "REPLAY" ~> mode # "REPLAY"
=============================================================================

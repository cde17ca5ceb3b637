--------------------------- MODULE SessionProofs ---------------------------
(***************************************************************************)
(* Proofs about Session, for playback controls that keep to the replay     *)
(* they were offered for, and any number of sessions, commands, crashes    *)
(* and events.  The logs of past sessions stay as they are; what a replay  *)
(* shows is what the log holds before its cursor, and a replay that ends   *)
(* by itself has shown all of it.  With one symbol no event is replaced by *)
(* another, sessions are recorded as SessionRecords says and are closed    *)
(* when they end, a live session shows the trades and deltas of its log,   *)
(* and its log tells whether the engine is halted.                         *)
(***************************************************************************)
EXTENDS Session, FiniteSetTheorems, WellFoundedInduction, SequenceTheorems, TLAPS

Fields == {"status", "total", "events"}
Rows(st) == DOMAIN st = SessionId /\ \A s \in SessionId : DOMAIN st[s] = Fields

\* A session without a row has no events.
RowsFirst(st) == \A s \in SessionId : st[s].status = "NONE" => DOMAIN st[s].events = {}

\* What the runner holds agrees: the live task, the timers and the mode are of one
\* session; the replay source is of a recorded session, never of the live one.
RunnerInv ==
  /\ Rows(store) /\ RowsFirst(store)
  /\ active \in SessionId
  /\ IsLive <=> task = "live"
  /\ \A x \in Symbols : timers[x] > 0 => IsLive
  /\ IsLive => store[active].status # "NONE" /\ replay.session # active
  /\ DOMAIN replay = {"session", "cursor", "total", "paused", "buffer"}
  /\ replay.session \in SessionId => store[replay.session].status # "NONE"

\* What a step may do to the logs, as RecordedLogsFixed says it.
OnlyLive(old, new) ==
  \A s \in SessionId :
    new[s].events # old[s].events => (s = active /\ IsLive) \/ old[s].status = "NONE"

-----------------------------------------------------------------------------
(* The store. *)

\* new is st with the event e in the log of s, and nothing else changed but its total.
Logged(st, new, s, e) ==
  /\ Rows(new)
  /\ \A t \in SessionId : new[t].status = st[t].status /\ (t # s => new[t] = st[t])
  /\ DOMAIN new[s].events = DOMAIN st[s].events \cup {e.seq}
  /\ new[s].events[e.seq] = e
  /\ \A n \in DOMAIN st[s].events : n # e.seq => new[s].events[n] = st[s].events[n]

LEMMA AppendOne ==
  ASSUME NEW st, Rows(st), NEW s \in SessionId, NEW e
  PROVE  Logged(st, AppendEvent(st, s, e), s, e)
<1> DEFINE new == AppendEvent(st, s, e)
<1> DEFINE f == [n \in DOMAIN st[s].events \cup {e.seq} |->
                   IF n = e.seq THEN e ELSE st[s].events[n]]
<1>1. PICK v : new = [st EXCEPT ![s].events = f, ![s].total = v] BY DEF AppendEvent
<1>2. /\ DOMAIN f = DOMAIN st[s].events \cup {e.seq}
      /\ f[e.seq] = e /\ \A n \in DOMAIN st[s].events : n # e.seq => f[n] = st[s].events[n]
  OBVIOUS
<1> HIDE DEF f, new
<1>3. DOMAIN st = SessionId /\ DOMAIN st[s] = Fields BY DEF Rows
<1>4. DOMAIN new = SessionId /\ \A t \in SessionId : t # s => new[t] = st[t] BY <1>1, <1>3
<1>5. /\ DOMAIN new[s] = Fields /\ new[s].events = f /\ new[s].status = st[s].status
  BY <1>1, <1>3 DEF Fields
<1>6. Logged(st, new, s, e) BY <1>2, <1>3, <1>4, <1>5 DEF Rows, Logged
<1> QED BY <1>6 DEF new

\* The same for several events.
AllLogged(st, new, s, es) ==
  /\ Rows(new)
  /\ \A t \in SessionId : new[t].status = st[t].status /\ (t # s => new[t] = st[t])
  /\ DOMAIN new[s].events = DOMAIN st[s].events \cup {es[i].seq : i \in DOMAIN es}
  /\ \A i \in DOMAIN es : new[s].events[es[i].seq] = es[i]
  /\ \A n \in DOMAIN st[s].events :
       n \notin {es[i].seq : i \in DOMAIN es} => new[s].events[n] = st[s].events[n]

LEMMA AppendMany ==
  ASSUME NEW st, Rows(st), NEW s \in SessionId, NEW es,
         \A i, j \in DOMAIN es : es[i].seq = es[j].seq => i = j
  PROVE  AllLogged(st, AppendEvents(st, s, es), s, es)
<1> DEFINE new == AppendEvents(st, s, es)
<1> DEFINE numbers == {es[i].seq : i \in DOMAIN es}
           event(n) == es[CHOOSE i \in DOMAIN es : es[i].seq = n]
           f == [n \in DOMAIN st[s].events \cup numbers |->
                   IF n \in numbers THEN event(n) ELSE st[s].events[n]]
<1>1. PICK v : new = [st EXCEPT ![s].events = f, ![s].total = v] BY DEF AppendEvents
<1>2. \A i \in DOMAIN es : event(es[i].seq) = es[i] OBVIOUS
<1>3. /\ DOMAIN f = DOMAIN st[s].events \cup numbers
      /\ \A i \in DOMAIN es : f[es[i].seq] = es[i]
      /\ \A n \in DOMAIN st[s].events : n \notin numbers => f[n] = st[s].events[n]
  BY <1>2
<1> HIDE DEF f, new
<1>4. DOMAIN st = SessionId /\ DOMAIN st[s] = Fields BY DEF Rows
<1>5. DOMAIN new = SessionId /\ \A t \in SessionId : t # s => new[t] = st[t] BY <1>1, <1>4
<1>6. /\ DOMAIN new[s] = Fields /\ new[s].events = f /\ new[s].status = st[s].status
  BY <1>1, <1>4 DEF Fields
<1>7. AllLogged(st, new, s, es) BY <1>3, <1>4, <1>5, <1>6 DEF Rows, AllLogged
<1> QED BY <1>7 DEF new

LEMMA Updated ==
  ASSUME NEW st, Rows(st), NEW s \in SessionId, NEW status, NEW total,
         NEW new, new = UpdateSession(st, s, status, total)
  PROVE  /\ Rows(new)
         /\ \A t \in SessionId : new[t].events = st[t].events
         /\ new[s].status = status
         /\ \A t \in SessionId : t # s => new[t] = st[t]
<1>1. new = [st EXCEPT ![s].status = status, ![s].total = total] BY DEF UpdateSession
<1>2. DOMAIN st = SessionId /\ DOMAIN st[s] = Fields BY DEF Rows
<1>3. DOMAIN new = SessionId /\ \A t \in SessionId : t # s => new[t] = st[t] BY <1>1, <1>2
<1>4. DOMAIN new[s] = Fields /\ new[s].events = st[s].events /\ new[s].status = status
  BY <1>1, <1>2 DEF Fields
<1> QED BY <1>2, <1>3, <1>4 DEF Rows

\* A set of sessions has a first one.
LEMMA FirstSession ==
  ASSUME NEW S, S \subseteq SessionId, S # {}
  PROVE  Min(S) \in S
<1> DEFINE B(p) == {q \in S : q <= p}
           F == {B(p) : p \in S}
<1>1. S \subseteq Nat BY StoreAssumption DEF SessionId
<1>2. IsFiniteSet(SessionId) BY StoreAssumption, FS_Interval DEF SessionId
<1>3. IsWellFoundedOn(StrictSubsetOrdering(SessionId), SUBSET SessionId)
  BY <1>2, FS_StrictSubsetOrderingWellFounded, FS_FiniteSubsetsOfFinite
<1>4. F \subseteq SUBSET SessionId /\ F # {} OBVIOUS
<1>5. \E X \in F : \A Y \in F : ~(<<Y, X>> \in StrictSubsetOrdering(SessionId))
  <2> HIDE DEF F
  <2> QED BY <1>3, <1>4, WFMin
<1>6. PICK p \in S : \A q \in S : ~(<<B(q), B(p)>> \in StrictSubsetOrdering(SessionId))
  BY <1>5
<1>7. ASSUME NEW q \in S PROVE p <= q
  <2>1. p \in Nat /\ q \in Nat BY <1>1
  <2> SUFFICES ASSUME q < p PROVE FALSE BY <2>1
  <2>0. \A r \in S : r <= q => r <= p
    <3> SUFFICES ASSUME NEW r \in S, r <= q PROVE r <= p OBVIOUS
    <3>1. r \in Nat BY <1>1
    <3> QED BY <3>1, <2>1
  <2>2. B(q) \subseteq B(p) /\ p \in B(p) /\ p \notin B(q)
    <3>1. p <= p /\ ~(p <= q) BY <2>1
    <3> QED BY <2>0, <3>1
  <2>3. B(q) \in SUBSET SessionId /\ B(p) \in SUBSET SessionId OBVIOUS
  <2>4. <<B(q), B(p)>> \in StrictSubsetOrdering(SessionId)
    BY <2>2, <2>3 DEF StrictSubsetOrdering
  <2> QED BY <1>6, <2>4
<1> QED BY <1>7 DEF Min

-----------------------------------------------------------------------------
(* Stopping and starting. *)

\* The store that stop() leaves: at most one more event, of the live session.
LEMMA StopDoes ==
  ASSUME RunnerInv, NEW st, st = AfterStop
  PROVE  /\ Rows(st) /\ RowsFirst(st)
         /\ \A s \in SessionId : (st[s].status = "NONE") <=> (store[s].status = "NONE")
         /\ ~IsLive => st = store
         /\ \A s \in SessionId : s # active => st[s] = store[s]
         /\ IsLive => /\ DOMAIN st[active].events =
                            DOMAIN store[active].events \cup {sources[Primary].next}
                      /\ \A n \in DOMAIN store[active].events :
                           n # sources[Primary].next =>
                             st[active].events[n] = store[active].events[n]
<1>1. CASE ~IsLive BY <1>1 DEF AfterStop, Closed, RunnerInv
<1>2. CASE IsLive
  <2>0. PICK e : e = Ended OBVIOUS
  <2>1. PICK mid : mid = AppendEvent(store, active, e) OBVIOUS
  <2>2. st = UpdateSession(mid, active, "STOPPED", CountEvents(store, active) + 1)
    BY <1>2, <2>0, <2>1 DEF AfterStop, Closed
  <2>3. Rows(store) /\ active \in SessionId /\ store[active].status # "NONE"
    BY <1>2 DEF RunnerInv
  <2>4. e.seq = sources[Primary].next BY <2>0 DEF Ended, Evt
  <2>5. /\ Rows(mid)
        /\ \A t \in SessionId : mid[t].status = store[t].status /\ (t # active => mid[t] = store[t])
        /\ DOMAIN mid[active].events = DOMAIN store[active].events \cup {sources[Primary].next}
        /\ \A n \in DOMAIN store[active].events :
             n # sources[Primary].next => mid[active].events[n] = store[active].events[n]
    <3>1. Logged(store, mid, active, e) BY <2>1, <2>3, AppendOne
    <3> QED BY <2>4, <3>1 DEF Logged
  <2>6. /\ Rows(st) /\ \A t \in SessionId : st[t].events = mid[t].events
        /\ st[active].status = "STOPPED" /\ \A t \in SessionId : t # active => st[t] = mid[t]
    BY <2>2, <2>3, <2>5, Updated
  <2>7. RowsFirst(st) BY <2>3, <2>5, <2>6 DEF RowsFirst, RunnerInv
  <2> QED BY <1>2, <2>3, <2>5, <2>6, <2>7
<1> QED BY <1>1, <1>2

\* A session begins on an unused row; its log is its first event.
LEMMA BeginDoes ==
  ASSUME NEW st, Rows(st), RowsFirst(st), Begin(st)
  PROVE  /\ active' \in SessionId /\ st[active'].status = "NONE"
         /\ Rows(store') /\ RowsFirst(store')
         /\ \A s \in SessionId : s # active' => store'[s] = st[s]
         /\ store'[active'].status = "ACTIVE"
         /\ DOMAIN store'[active'].events = {2}
         /\ sources' = Allocated(NewSources, Primary, 1)
         /\ mode' = "LIVE" /\ task' = "live"
<1>1. PICK s : s = Min(Unused(st)) OBVIOUS
<1>2. Unused(st) # {} /\ Unused(st) \subseteq SessionId BY DEF Begin, Unused
<1>3. s \in Unused(st) BY <1>1, <1>2, FirstSession
<1>4. s \in SessionId /\ st[s].status = "NONE" BY <1>3 DEF Unused
<1>5. PICK mid : mid = CreateSession(st, s) OBVIOUS
<1>6. PICK e : e = Evt("START", Primary, NewSources[Primary].next) OBVIOUS
<1>7. /\ store' = AppendEvent(mid, s, e) /\ sources' = Allocated(NewSources, Primary, 1)
      /\ active' = s /\ mode' = "LIVE" /\ task' = "live"
  BY <1>1, <1>5, <1>6 DEF Begin
<1>8. e.seq = 2
  <2>1. Primary \in Symbols BY StoreAssumption DEF Primary
  <2> QED BY <1>6, <2>1 DEF Evt, NewSources
<1>9. /\ Rows(mid) /\ mid[s].status = "ACTIVE" /\ DOMAIN mid[s].events = {}
      /\ \A t \in SessionId : t # s => mid[t] = st[t]
  <2> DEFINE row == [NoSession EXCEPT !.status = "ACTIVE"]
  <2>1. DOMAIN row = Fields /\ row.status = "ACTIVE" /\ DOMAIN row.events = {}
    BY DEF NoSession, Fields
  <2>2. mid = [st EXCEPT ![s] = row] BY <1>5 DEF CreateSession
  <2> HIDE DEF row
  <2> QED BY <1>4, <2>1, <2>2 DEF Rows
<1>10. /\ Rows(store')
       /\ \A t \in SessionId : store'[t].status = mid[t].status /\ (t # s => store'[t] = mid[t])
       /\ DOMAIN store'[s].events = {2}
  <2>1. Logged(mid, store', s, e) BY <1>4, <1>7, <1>9, AppendOne
  <2> QED BY <1>8, <1>9, <2>1 DEF Logged
<1>11. RowsFirst(store') BY <1>9, <1>10 DEF RowsFirst
<1> QED BY <1>4, <1>7, <1>9, <1>10, <1>11

\* What start() and a restart have in common.
LEMMA BeginKeeps ==
  ASSUME RunnerInv, NEW st, Rows(st), RowsFirst(st), Begin(st),
         \A s \in SessionId : (st[s].status = "NONE") <=> (store[s].status = "NONE"),
         \A s \in SessionId : st[s].events # store[s].events => s = active /\ IsLive,
         replay' = replay \/ replay' = NoReplay
  PROVE  RunnerInv' /\ OnlyLive(store, store')
<1>1. /\ active' \in SessionId /\ st[active'].status = "NONE"
      /\ Rows(store') /\ RowsFirst(store')
      /\ \A s \in SessionId : s # active' => store'[s] = st[s]
      /\ store'[active'].status = "ACTIVE"
      /\ mode' = "LIVE" /\ task' = "live"
  BY BeginDoes
<1>2. timers' = NoTimers BY DEF Begin
<1>3. IsLive' BY <1>1 DEF IsLive
<1>4. \A x \in Symbols : timers'[x] > 0 => IsLive' BY <1>3
<1>5. /\ DOMAIN replay' = {"session", "cursor", "total", "paused", "buffer"}
      /\ replay'.session = replay.session \/ replay'.session = 0
  BY DEF NoReplay, RunnerInv
<1>6. 0 \notin SessionId BY StoreAssumption DEF SessionId
<1>7. replay'.session \in SessionId =>
        store[replay'.session].status # "NONE" /\ st[replay'.session].status # "NONE"
  BY <1>5, <1>6 DEF RunnerInv
<1>8. replay'.session # active' BY <1>1, <1>5, <1>6, <1>7
<1>9. replay'.session \in SessionId => store'[replay'.session].status # "NONE"
  BY <1>1, <1>7, <1>8
<1>10. RunnerInv' BY <1>1, <1>3, <1>4, <1>5, <1>8, <1>9 DEF RunnerInv
<1>11. OnlyLive(store, store') BY <1>1 DEF OnlyLive
<1> QED BY <1>10, <1>11

-----------------------------------------------------------------------------
(* Every step keeps the runner's parts together. *)

LEMMA StopsStarts ==
  ASSUME RunnerInv, Start \/ Stop \/ Crash \/ CrashInStop
  PROVE  RunnerInv' /\ OnlyLive(store, store')
<1>1. PICK st : st = AfterStop OBVIOUS
<1>2. /\ Rows(st) /\ RowsFirst(st)
      /\ \A s \in SessionId : (st[s].status = "NONE") <=> (store[s].status = "NONE")
      /\ ~IsLive => st = store
      /\ \A s \in SessionId : s # active => st[s] = store[s]
  BY <1>1, StopDoes
<1>3. \A s \in SessionId : st[s].events # store[s].events => s = active /\ IsLive BY <1>2
<1>4. CASE Start
  <2>1. Begin(st) /\ replay' = replay BY <1>1, <1>4 DEF Start
  <2> QED BY <1>2, <1>3, <2>1, BeginKeeps
<1>5. CASE Stop
  <2>1. /\ store' = st /\ active' = active /\ replay' = replay
        /\ mode' = "STOPPED" /\ task' = "none" /\ timers' = NoTimers
    BY <1>1, <1>5 DEF Stop
  <2>2. ~IsLive' /\ task' # "live" BY <2>1 DEF IsLive
  <2>3. \A x \in Symbols : ~(timers'[x] > 0) BY <2>1 DEF NoTimers
  <2>4. RunnerInv' BY <1>2, <2>1, <2>2, <2>3 DEF RunnerInv
  <2> QED BY <1>3, <2>1, <2>4 DEF OnlyLive
<1>6. CASE Crash
  <2>1. Begin(store) /\ replay' = NoReplay BY <1>6 DEF Crash, CrashAndRestart
  <2>2. Rows(store) /\ RowsFirst(store) BY DEF RunnerInv
  <2> QED BY <2>1, <2>2, BeginKeeps
<1>7. CASE CrashInStop
  <2>0. PICK e : e = Ended OBVIOUS
  <2>1. PICK mid : mid = AppendEvent(store, active, e) OBVIOUS
  <2>2. IsLive /\ Begin(mid) /\ replay' = NoReplay
    BY <1>7, <2>0, <2>1 DEF CrashInStop, CrashAndRestart
  <2>3. Rows(store) /\ RowsFirst(store) /\ active \in SessionId /\ store[active].status # "NONE"
    BY <2>2 DEF RunnerInv
  <2>4. Logged(store, mid, active, e) BY <2>1, <2>3, AppendOne
  <2>5. /\ Rows(mid) /\ \A s \in SessionId : mid[s].status = store[s].status
        /\ \A s \in SessionId : s # active => mid[s] = store[s]
    BY <2>4 DEF Logged
  <2>6. RowsFirst(mid) BY <2>3, <2>5 DEF RowsFirst
  <2>7. \A s \in SessionId : mid[s].events # store[s].events => s = active /\ IsLive
    BY <2>2, <2>5
  <2> QED BY <2>2, <2>5, <2>6, <2>7, BeginKeeps
<1> QED BY <1>4, <1>5, <1>6, <1>7

LEMMA Replays ==
  ASSUME RunnerInv, NEW s \in SessionId, NEW n \in Targets, StartReplay(s, n)
  PROVE  RunnerInv' /\ OnlyLive(store, store')
<1>1. PICK st : st = AfterStop OBVIOUS
<1>2. /\ Rows(st) /\ RowsFirst(st)
      /\ \A t \in SessionId : (st[t].status = "NONE") <=> (store[t].status = "NONE")
      /\ ~IsLive => st = store
      /\ \A t \in SessionId : t # active => st[t] = store[t]
  BY <1>1, StopDoes
<1>3. PICK r : r = NewReplay(st, s) OBVIOUS
<1>4. /\ store[s].status # "NONE" /\ store' = st /\ active' = s
      /\ mode' = "REPLAY" /\ task' = "replay" /\ timers' = NoTimers
      /\ replay' = SeekTo(r, n)
  BY <1>1, <1>3 DEF StartReplay
<1>5. DOMAIN r = {"session", "cursor", "total", "paused", "buffer"} /\ r.session = s
  BY <1>3 DEF NewReplay, NoReplay
<1>6. DOMAIN replay' = {"session", "cursor", "total", "paused", "buffer"} /\ replay'.session = s
  BY <1>4, <1>5 DEF SeekTo
<1>7. ~IsLive' /\ task' # "live" BY <1>4 DEF IsLive
<1>8. \A x \in Symbols : ~(timers'[x] > 0) BY <1>4 DEF NoTimers
<1>9. RunnerInv' BY <1>2, <1>4, <1>6, <1>7, <1>8 DEF RunnerInv
<1>10. OnlyLive(store, store') BY <1>2, <1>4 DEF OnlyLive
<1> QED BY <1>9, <1>10

\* The controls of a replay, which is not live, leave it so.
LEMMA Controls ==
  ASSUME ~AnyTime, RunnerInv, (\E n \in Targets : Seek(n)) \/ Pause \/ Resume
  PROVE  RunnerInv' /\ store' = store /\ sources' = sources /\ ~IsLive /\ ~IsLive'
<1>1. Controllable /\ store' = store /\ sources' = sources /\ active' = active /\ timers' = timers
  BY DEF Seek, Pause, Resume
<1>2. replay.session = active BY <1>1 DEF Controllable
<1>3. ~IsLive /\ task # "live" BY <1>2 DEF RunnerInv
<1>4. task' # "live" /\ ~IsLive'
  BY <1>3 DEF Seek, Pause, Resume, Respawned, IsLive
<1>5. /\ DOMAIN replay' = {"session", "cursor", "total", "paused", "buffer"}
      /\ replay'.session = replay.session
  BY DEF Seek, Pause, Resume, SeekTo, RunnerInv
<1>6. \A x \in Symbols : ~(timers'[x] > 0) BY <1>1, <1>3 DEF RunnerInv
<1> QED BY <1>1, <1>3, <1>4, <1>5, <1>6 DEF RunnerInv

LEMMA ReplayGoesOn ==
  ASSUME RunnerInv, ReplayStep
  PROVE  RunnerInv' /\ store' = store /\ sources' = sources /\ ~IsLive /\ ~IsLive'
<1>1. /\ task = "replay" /\ store' = store /\ sources' = sources /\ active' = active
      /\ timers' = timers
  BY DEF ReplayStep
<1>2. ~IsLive BY <1>1 DEF RunnerInv
<1>3. task' # "live" /\ ~IsLive' BY <1>1, <1>2 DEF ReplayStep, IsLive
<1>4. /\ DOMAIN replay' = {"session", "cursor", "total", "paused", "buffer"}
      /\ replay'.session = replay.session
  BY DEF ReplayStep, Advanced, RunnerInv
<1>5. \A x \in Symbols : ~(timers'[x] > 0) BY <1>1, <1>2 DEF RunnerInv
<1> QED BY <1>1, <1>2, <1>3, <1>4, <1>5 DEF RunnerInv

\* What recording has in common: the store changes in the log of the live session.
LEMMA RecordingKeeps ==
  ASSUME RunnerInv, IsLive, Rows(store'),
         \A t \in SessionId : store'[t].status = store[t].status
                             /\ (t # active => store'[t] = store[t]),
         mode' = mode, task' = task, active' = active, replay' = replay
  PROVE  RunnerInv' /\ OnlyLive(store, store')
<1>1. IsLive' BY DEF IsLive
<1>2. RowsFirst(store') BY DEF RunnerInv, RowsFirst
<1>3. RunnerInv' BY <1>1, <1>2 DEF RunnerInv
<1> QED BY <1>3 DEF OnlyLive

LEMMA RecordsOne ==
  ASSUME RunnerInv, IsLive, NEW e, store' = AppendEvent(store, active, e),
         mode' = mode, task' = task, active' = active, replay' = replay
  PROVE  RunnerInv' /\ OnlyLive(store, store') /\ Logged(store, store', active, e)
<1>1. Rows(store) /\ active \in SessionId BY DEF RunnerInv
<1>2. Logged(store, store', active, e) BY <1>1, AppendOne
<1> QED BY <1>2, RecordingKeeps DEF Logged

LEMMA RecordsMany ==
  ASSUME RunnerInv, IsLive, NEW es, store' = AppendEvents(store, active, es),
         \A i, j \in DOMAIN es : es[i].seq = es[j].seq => i = j,
         mode' = mode, task' = task, active' = active, replay' = replay
  PROVE  RunnerInv' /\ OnlyLive(store, store') /\ AllLogged(store, store', active, es)
<1>1. Rows(store) /\ active \in SessionId BY DEF RunnerInv
<1>2. AllLogged(store, store', active, es) BY <1>1, AppendMany
<1> QED BY <1>2, RecordingKeeps DEF AllLogged

-----------------------------------------------------------------------------
(* The sources. *)

SourceOK(r) ==
  /\ DOMAIN r = {"next", "halted", "queue"}
  /\ r.next \in Nat \ {0} /\ r.queue \in Seq(Event) /\ r.queue # <<>>
SourcesOK(src) == DOMAIN src = Symbols /\ \A x \in Symbols : SourceOK(src[x])
SourcesInv == SourcesOK(sources)

LEMMA PrimaryIsSymbol == Primary \in Symbols
BY StoreAssumption DEF Primary

LEMMA EngineEventsAre ==
  ASSUME NEW x \in Symbols, NEW h, NEW from \in Nat \ {0}, NEW n \in Nat
  PROVE  /\ EngineEvents(x, h, from, n) \in Seq(Event)
         /\ DOMAIN EngineEvents(x, h, from, n) = 1..n
         /\ \A i \in 1..n : EngineEvents(x, h, from, n)[i].seq = from + i - 1
<1>1. \A i \in 1..n : /\ from + i - 1 \in Nat \ {0}
                      /\ Evt(IF h THEN "ORDER" ELSE "MARKET", x, from + i - 1) \in Event
  <2> SUFFICES ASSUME NEW i \in 1..n
               PROVE  /\ from + i - 1 \in Nat \ {0}
                      /\ Evt(IF h THEN "ORDER" ELSE "MARKET", x, from + i - 1) \in Event
    OBVIOUS
  <2>1. PICK m : m = from + i - 1 OBVIOUS
  <2>2. m \in Nat \ {0} BY <2>1
  <2>3. (IF h THEN "ORDER" ELSE "MARKET") \in Kind BY DEF Kind
  <2> QED BY <2>1, <2>2, <2>3 DEF Evt, Event
<1> QED BY <1>1 DEF EngineEvents, Evt

\* Drawing numbers moves the counter only.
LEMMA AllocatedDoes ==
  ASSUME NEW src, SourcesOK(src), NEW x \in Symbols, NEW n \in Nat,
         NEW new, new = Allocated(src, x, n)
  PROVE  /\ SourcesOK(new)
         /\ new[x].next = src[x].next + n /\ new[x].queue = src[x].queue
<1>1. new = [src EXCEPT ![x].next = @ + n] BY DEF Allocated
<1>2. DOMAIN src = Symbols /\ SourceOK(src[x]) BY DEF SourcesOK
<1>3. DOMAIN new = Symbols /\ \A y \in Symbols : y # x => new[y] = src[y] BY <1>1, <1>2
<1>4. /\ DOMAIN new[x] = {"next", "halted", "queue"} /\ new[x].next = src[x].next + n
      /\ new[x].queue = src[x].queue
  BY <1>1, <1>2 DEF SourceOK
<1>5. src[x].next + n \in Nat \ {0} BY <1>2 DEF SourceOK
<1>6. SourceOK(new[x]) BY <1>2, <1>4, <1>5 DEF SourceOK
<1> QED BY <1>3, <1>4, <1>6 DEF SourcesOK

LEMMA NewSourcesDo ==
  /\ SourcesOK(NewSources)
  /\ \A x \in Symbols : /\ NewSources[x].next = 2 /\ DOMAIN NewSources[x].queue = {1}
                         /\ NewSources[x].queue[1].seq = 1
<1> SUFFICES ASSUME NEW x \in Symbols
             PROVE  /\ SourceOK(NewSources[x]) /\ NewSources[x].next = 2
                    /\ DOMAIN NewSources[x].queue = {1} /\ NewSources[x].queue[1].seq = 1
  BY DEF SourcesOK, NewSources
<1>1. PICK q : q = EngineEvents(x, FALSE, 1, 1) OBVIOUS
<1>2. q \in Seq(Event) /\ DOMAIN q = 1..1 /\ q[1].seq = 1
  <2>1. PICK one \in Nat \ {0} : one = 1 OBVIOUS
  <2>2. one \in Nat BY <2>1
  <2>0. PICK h : h = FALSE OBVIOUS
  <2>3. q = EngineEvents(x, h, one, one) BY <1>1, <2>0, <2>1
  <2>4. /\ q \in Seq(Event) /\ DOMAIN q = 1..one
        /\ \A i \in 1..one : q[i].seq = one + i - 1
    BY <2>2, <2>3, EngineEventsAre
  <2> QED BY <2>1, <2>4
<1>3. NewSources[x] = [next |-> 2, halted |-> FALSE, queue |-> q] BY <1>1 DEF NewSources
<1>4. 1..1 = {1} OBVIOUS
<1>5. q # <<>>
  <2>1. 1 \in DOMAIN q BY <1>2, <1>4
  <2>2. 1 \notin DOMAIN <<>> OBVIOUS
  <2> QED BY <2>1, <2>2
<1> QED BY <1>2, <1>3, <1>4, <1>5 DEF SourceOK

\* The copies a scenario queues.
LEMMA CopiesAre ==
  ASSUME NEW src, SourcesOK(src), NEW x \in Symbols, NEW kinds \in Seq(Kind)
  PROVE  /\ Copies(src, x, kinds) \in Seq(Event)
         /\ DOMAIN Copies(src, x, kinds) = 1..Len(kinds)
         /\ \A i \in 1..Len(kinds) : Copies(src, x, kinds)[i].seq = src[x].next + i - 1
<1>1. PICK from \in Nat \ {0} : from = src[x].next BY DEF SourcesOK, SourceOK
<1>2. DOMAIN kinds = 1..Len(kinds) /\ Len(kinds) \in Nat OBVIOUS
<1>3. \A i \in 1..Len(kinds) : Evt(kinds[i], x, from + i - 1) \in Event
  <2> SUFFICES ASSUME NEW i \in 1..Len(kinds) PROVE Evt(kinds[i], x, from + i - 1) \in Event
    OBVIOUS
  <2>1. PICK m : m = from + i - 1 OBVIOUS
  <2>2. m \in Nat \ {0} BY <2>1, <1>2
  <2>3. kinds[i] \in Kind OBVIOUS
  <2> QED BY <2>1, <2>2, <2>3 DEF Evt, Event
<1> QED BY <1>1, <1>2, <1>3 DEF Copies, Evt

LEMMA InjectDoes ==
  ASSUME NEW src, SourcesOK(src), NEW x \in Symbols, NEW kinds \in Seq(Kind),
         NEW new, new = Inject(src, x, kinds)
  PROVE  /\ SourcesOK(new)
         /\ new[x].next = src[x].next + Len(kinds)
         /\ new[x].queue = src[x].queue \o Copies(src, x, kinds)
<1>1. PICK cs : cs = Copies(src, x, kinds) OBVIOUS
<1>2. cs \in Seq(Event) BY <1>1, CopiesAre
<1>3. PICK v : new = [src EXCEPT ![x].queue = @ \o cs, ![x].next = @ + Len(kinds), ![x].halted = v]
  BY <1>1 DEF Inject
<1>4. DOMAIN src = Symbols /\ SourceOK(src[x]) BY DEF SourcesOK
<1>5. DOMAIN new = Symbols /\ \A y \in Symbols : y # x => new[y] = src[y] BY <1>3, <1>4
<1>6. /\ DOMAIN new[x] = {"next", "halted", "queue"} /\ new[x].next = src[x].next + Len(kinds)
      /\ new[x].queue = src[x].queue \o cs
  BY <1>3, <1>4 DEF SourceOK
<1>7. src[x].next + Len(kinds) \in Nat \ {0} BY <1>4 DEF SourceOK
<1>8. src[x].queue \o cs \in Seq(Event) /\ src[x].queue \o cs # <<>> BY <1>2, <1>4 DEF SourceOK
<1>9. SourceOK(new[x]) BY <1>4, <1>6, <1>7, <1>8 DEF SourceOK
<1> QED BY <1>1, <1>5, <1>6, <1>9 DEF SourcesOK

\* Taking the head of the queue: the rest remains, or n new events come.
LEMMA TakenDoes ==
  ASSUME NEW src, SourcesOK(src), NEW x \in Symbols, NEW n \in Nat \ {0},
         NEW new, new = Taken(src, x, n)
  PROVE  /\ SourcesOK(new)
         /\ Len(src[x].queue) > 1 =>
              new[x].next = src[x].next /\ new[x].queue = Tail(src[x].queue)
         /\ ~(Len(src[x].queue) > 1) =>
              /\ new[x].next = src[x].next + n
              /\ new[x].queue = EngineEvents(x, src[x].halted, src[x].next, n)
<1>1. DOMAIN src = Symbols /\ SourceOK(src[x]) BY DEF SourcesOK
<1>2. CASE Len(src[x].queue) > 1
  <2>1. new = [src EXCEPT ![x].queue = Tail(@)] BY <1>2 DEF Taken
  <2>2. DOMAIN new = Symbols /\ \A y \in Symbols : y # x => new[y] = src[y] BY <1>1, <2>1
  <2>3. /\ DOMAIN new[x] = {"next", "halted", "queue"} /\ new[x].next = src[x].next
        /\ new[x].queue = Tail(src[x].queue)
    BY <1>1, <2>1 DEF SourceOK
  <2>4. Tail(src[x].queue) \in Seq(Event) /\ Tail(src[x].queue) # <<>>
    BY <1>1, <1>2 DEF SourceOK
  <2>5. SourceOK(new[x]) BY <1>1, <2>3, <2>4 DEF SourceOK
  <2> QED BY <1>2, <2>2, <2>3, <2>5 DEF SourcesOK
<1>3. CASE ~(Len(src[x].queue) > 1)
  <2>1. PICK q : q = EngineEvents(x, src[x].halted, src[x].next, n) OBVIOUS
  <2>2. q \in Seq(Event) /\ DOMAIN q = 1..n BY <1>1, <2>1, EngineEventsAre DEF SourceOK
  <2>3. q # <<>> BY <2>2
  <2>4. PICK mid : mid = [src EXCEPT ![x].queue = q] OBVIOUS
  <2>5. new = Allocated(mid, x, n) BY <1>3, <2>1, <2>4 DEF Taken
  <2>6. DOMAIN mid = Symbols /\ \A y \in Symbols : y # x => mid[y] = src[y] BY <1>1, <2>4
  <2>7. DOMAIN mid[x] = {"next", "halted", "queue"} /\ mid[x].next = src[x].next /\ mid[x].queue = q
    BY <1>1, <2>4 DEF SourceOK
  <2>8. SourceOK(mid[x]) BY <1>1, <2>2, <2>3, <2>7 DEF SourceOK
  <2>9. SourcesOK(mid) BY <2>6, <2>8 DEF SourcesOK
  <2>10. SourcesOK(new) /\ new[x].next = mid[x].next + n /\ new[x].queue = mid[x].queue
    BY <2>5, <2>9, AllocatedDoes
  <2> QED BY <1>3, <2>1, <2>7, <2>10
<1> QED BY <1>2, <1>3

-----------------------------------------------------------------------------
(* Numbers.  An event that waits in the queue may be in the log already: a *)
(* scenario logs its events at once, and the loop logs them again.         *)

Numbered(queue, next, log) ==
  /\ \A i \in DOMAIN queue : queue[i].seq < next
  /\ \A i, j \in DOMAIN queue : queue[i].seq = queue[j].seq => i = j
  /\ \A n \in DOMAIN log : n \in Nat /\ n < next
  /\ \A i \in DOMAIN queue : queue[i].seq \in DOMAIN log => log[queue[i].seq] = queue[i]

Kept(old, new) == \A n \in DOMAIN old : n \in DOMAIN new /\ new[n] = old[n]
LogsKept(old, new) == \A s \in SessionId : Kept(old[s].events, new[s].events)

SingleSymbol == \A x, y \in Symbols : x = y
LogInv ==
  IsLive => Numbered(sources[Primary].queue, sources[Primary].next, store[active].events)

LEMMA SeqIsNat ==
  ASSUME NEW q \in Seq(Event), NEW i \in DOMAIN q
  PROVE  q[i].seq \in Nat
<1>1. q[i] \in Event BY ElementOfSeq
<1> QED BY <1>1 DEF Event

\* log2 is log with the event e.
Extended(log, log2, e) ==
  /\ DOMAIN log2 = DOMAIN log \cup {e.seq} /\ log2[e.seq] = e
  /\ \A n \in DOMAIN log : n # e.seq => log2[n] = log[n]

\* log2 is log with more events: none of a number below next, and of those in es the
\* ones it holds.
Grown(log, log2, next, top, es) ==
  /\ \A n \in DOMAIN log : n \in DOMAIN log2 /\ log2[n] = log[n]
  /\ \A n \in DOMAIN log2 : \/ n \in DOMAIN log
                             \/ /\ n \in Nat /\ next <= n /\ n < top
                                /\ \A i \in DOMAIN es : es[i].seq = n => log2[n] = es[i]

NumberedFrom(es, from) == \A i \in DOMAIN es : es[i].seq = from + i - 1

\* The head of the queue is logged and what is left of the queue remains.
LEMMA HeadLogged ==
  ASSUME NEW q \in Seq(Event), q # <<>>, NEW next \in Nat, NEW log, Numbered(q, next, log),
         NEW log2, Extended(log, log2, q[1])
  PROVE  Kept(log, log2) /\ Numbered(Tail(q), next, log2)
<1>0. /\ DOMAIN log2 = DOMAIN log \cup {q[1].seq} /\ log2[q[1].seq] = q[1]
      /\ \A n \in DOMAIN log : n # q[1].seq => log2[n] = log[n]
  BY DEF Extended
<1>1. 1 \in DOMAIN q /\ q[1].seq \in Nat
  <2>1. 1 \in DOMAIN q OBVIOUS
  <2> QED BY <2>1, SeqIsNat
<1>2. Kept(log, log2) BY <1>0, <1>1 DEF Kept, Numbered
<1>3. ASSUME NEW i \in DOMAIN Tail(q)
      PROVE  i \in Nat /\ i + 1 \in DOMAIN q /\ i + 1 # 1 /\ Tail(q)[i] = q[i + 1]
  OBVIOUS
<1>4. \A i \in DOMAIN Tail(q) : Tail(q)[i].seq < next BY <1>3 DEF Numbered
<1>5. ASSUME NEW i \in DOMAIN Tail(q), NEW j \in DOMAIN Tail(q), Tail(q)[i].seq = Tail(q)[j].seq
      PROVE  i = j
  <2>1. i + 1 = j + 1 BY <1>3, <1>5 DEF Numbered
  <2> QED BY <1>3, <2>1
<1>6. \A n \in DOMAIN log2 : n \in Nat /\ n < next BY <1>0, <1>1 DEF Numbered
<1>7. ASSUME NEW i \in DOMAIN Tail(q), Tail(q)[i].seq \in DOMAIN log2
      PROVE  log2[Tail(q)[i].seq] = Tail(q)[i]
  <2>1. PICK k \in DOMAIN q : k # 1 /\ Tail(q)[i] = q[k] BY <1>3
  <2>2. q[k].seq # q[1].seq BY <1>1, <2>1 DEF Numbered
  <2>3. q[k].seq \in DOMAIN log BY <1>0, <1>7, <2>1, <2>2
  <2> QED BY <1>0, <2>1, <2>2, <2>3 DEF Numbered
<1> QED BY <1>2, <1>4, <1>5, <1>6, <1>7 DEF Numbered

\* The last event of the queue is logged and new ones come.
LEMMA LastLogged ==
  ASSUME NEW q \in Seq(Event), q # <<>>, NEW next \in Nat, NEW log, Numbered(q, next, log),
         NEW log2, Extended(log, log2, q[1]),
         NEW n \in Nat, NEW es, DOMAIN es = 1..n, NumberedFrom(es, next)
  PROVE  Kept(log, log2) /\ Numbered(es, next + n, log2)
<1>0. /\ DOMAIN log2 = DOMAIN log \cup {q[1].seq} /\ log2[q[1].seq] = q[1]
      /\ \A m \in DOMAIN log : m # q[1].seq => log2[m] = log[m]
      /\ \A i \in 1..n : es[i].seq = next + i - 1
  BY DEF Extended, NumberedFrom
<1>1. 1 \in DOMAIN q /\ q[1].seq \in Nat
  <2>1. 1 \in DOMAIN q OBVIOUS
  <2> QED BY <2>1, SeqIsNat
<1>2. Kept(log, log2) BY <1>0, <1>1 DEF Kept, Numbered
<1>3. \A m \in DOMAIN log2 : m \in Nat /\ m < next BY <1>0, <1>1 DEF Numbered
<1>4. \A i \in DOMAIN es : es[i].seq < next + n BY <1>0
<1>5. \A i, j \in DOMAIN es : es[i].seq = es[j].seq => i = j BY <1>0
<1>6. \A i \in DOMAIN es : es[i].seq \notin DOMAIN log2
  <2>1. \A i \in DOMAIN es : ~(es[i].seq < next) BY <1>0
  <2> QED BY <1>3, <2>1
<1>7. \A m \in DOMAIN log2 : m \in Nat /\ m < next + n BY <1>3
<1> QED BY <1>2, <1>4, <1>5, <1>6, <1>7 DEF Numbered

\* Events with fresh numbers are queued, and of these and of other fresh numbers some
\* are logged.
LEMMA FreshLogged ==
  ASSUME NEW q \in Seq(Event), NEW next \in Nat, NEW log, Numbered(q, next, log),
         NEW from \in Nat, next <= from,
         NEW es \in Seq(Event), NumberedFrom(es, from),
         NEW log2, Grown(log, log2, next, from + Len(es), es)
  PROVE  Kept(log, log2) /\ Numbered(q \o es, from + Len(es), log2)
<1> DEFINE all == q \o es
<1>0. /\ \A i \in DOMAIN es : es[i].seq = from + i - 1
      /\ \A n \in DOMAIN log : n \in DOMAIN log2 /\ log2[n] = log[n]
      /\ \A n \in DOMAIN log2 : \/ n \in DOMAIN log
                                \/ /\ n \in Nat /\ next <= n /\ n < from + Len(es)
                                   /\ \A i \in DOMAIN es : es[i].seq = n => log2[n] = es[i]
  BY DEF NumberedFrom, Grown
<1>1. Kept(log, log2) BY <1>0 DEF Kept
<1>2. /\ DOMAIN all = 1..(Len(q) + Len(es)) /\ DOMAIN q = 1..Len(q) /\ DOMAIN es = 1..Len(es)
      /\ Len(q) \in Nat /\ Len(es) \in Nat
  OBVIOUS
<1>3. ASSUME NEW i \in DOMAIN all
      PROVE  \/ i \in DOMAIN q /\ all[i] = q[i]
             \/ i - Len(q) \in DOMAIN es /\ all[i] = es[i - Len(q)]
  BY <1>2
<1> HIDE DEF all
<1>4. \A i \in DOMAIN q : q[i].seq \in Nat /\ q[i].seq < next BY SeqIsNat DEF Numbered
<1>5. \A i \in DOMAIN es : es[i].seq \in Nat /\ from <= es[i].seq /\ es[i].seq < from + Len(es)
  <2> SUFFICES ASSUME NEW i \in DOMAIN es
               PROVE  es[i].seq \in Nat /\ from <= es[i].seq /\ es[i].seq < from + Len(es)
    OBVIOUS
  <2>1. i \in 1..Len(es) /\ es[i].seq = from + i - 1 BY <1>0, <1>2
  <2> QED BY <1>2, <2>1
<1>6. \A i \in DOMAIN all : all[i].seq < from + Len(es) BY <1>2, <1>3, <1>4, <1>5
<1>7. ASSUME NEW i \in DOMAIN all, NEW j \in DOMAIN all, all[i].seq = all[j].seq
      PROVE  i = j
  <2>1. i \in Nat /\ j \in Nat BY <1>2
  <2>2. CASE i \in DOMAIN q /\ all[i] = q[i] /\ j \in DOMAIN q /\ all[j] = q[j]
    BY <1>7, <2>2 DEF Numbered
  <2>3. ASSUME NEW a \in DOMAIN q, NEW b \in DOMAIN es PROVE q[a].seq # es[b].seq
    BY <1>4, <1>5
  <2>4. CASE i - Len(q) \in DOMAIN es /\ all[i] = es[i - Len(q)]
             /\ j - Len(q) \in DOMAIN es /\ all[j] = es[j - Len(q)]
    <3>1. from + (i - Len(q)) - 1 = from + (j - Len(q)) - 1
      BY <1>0, <1>7, <2>4
    <3> QED BY <1>2, <2>1, <3>1
  <2> QED BY <1>3, <1>7, <2>2, <2>3, <2>4
<1>8. \A n \in DOMAIN log2 : n \in Nat /\ n < from + Len(es)
  <2>1. \A n \in DOMAIN log : n \in Nat /\ n < next BY DEF Numbered
  <2> QED BY <1>0, <1>2, <2>1
<1>9. ASSUME NEW i \in DOMAIN all, all[i].seq \in DOMAIN log2
      PROVE  log2[all[i].seq] = all[i]
  <2>1. CASE i \in DOMAIN q /\ all[i] = q[i]
    <3>1. ~(next <= q[i].seq) BY <1>4, <2>1
    <3>2. q[i].seq \in DOMAIN log BY <1>0, <1>9, <2>1, <3>1
    <3> QED BY <1>0, <2>1, <3>2 DEF Numbered
  <2>2. CASE i - Len(q) \in DOMAIN es /\ all[i] = es[i - Len(q)]
    <3>1. PICK k \in DOMAIN es : all[i] = es[k] BY <2>2
    <3>2. ~(es[k].seq < next) BY <1>5, <3>1
    <3>3. es[k].seq \notin DOMAIN log BY <3>2 DEF Numbered
    <3> QED BY <1>0, <1>9, <3>1, <3>3
  <2> QED BY <1>3, <2>1, <2>2
<1>10. Numbered(all, from + Len(es), log2) BY <1>6, <1>7, <1>8, <1>9 DEF Numbered
<1> QED BY <1>1, <1>10 DEF all

-----------------------------------------------------------------------------
(* Recording. *)

\* What every step establishes: the first line for any symbols, the second for one.
StepOK ==
  /\ RunnerInv' /\ SourcesInv' /\ OnlyLive(store, store')
  /\ SingleSymbol /\ LogInv => LogInv' /\ LogsKept(store, store')

\* What every step of a live session does: of the store, only its log changes.
Recorded ==
  /\ IsLive /\ IsLive' /\ active' = active /\ crashed' = crashed
  /\ \A t \in SessionId : store'[t].status = store[t].status /\ (t # active => store'[t] = store[t])

\* With one symbol the log of the live session is all there is to look at.
LEMMA LiveLogKept ==
  ASSUME RunnerInv, IsLive, active' = active, mode' = mode,
         \A t \in SessionId : t # active => store'[t] = store[t],
         Kept(store[active].events, store'[active].events),
         Numbered(sources'[Primary].queue, sources'[Primary].next, store'[active].events)
  PROVE  LogInv' /\ LogsKept(store, store')
<1>1. LogInv' BY DEF LogInv
<1>2. LogsKept(store, store') BY DEF LogsKept, Kept
<1> QED BY <1>1, <1>2

LEMMA LiveSteps ==
  ASSUME RunnerInv, SourcesInv, NEW x \in Symbols, NEW n \in 1..MaxBatch, LiveStep(x, n)
  PROVE  StepOK /\ Recorded
<1>1. n \in Nat \ {0} BY SourcesAssumption
<1>2. PICK e : e = Head(sources[x].queue) OBVIOUS
<1>3. /\ task = "live" /\ sources' = Taken(sources, x, n)
      /\ store' = AppendEvent(store, active, e)
      /\ mode' = mode /\ task' = task /\ active' = active /\ replay' = replay
  BY <1>2 DEF LiveStep
<1>4. IsLive BY <1>3 DEF RunnerInv
<1>5. RunnerInv' /\ OnlyLive(store, store') /\ Logged(store, store', active, e)
  BY <1>3, <1>4, RecordsOne
<1>6. PICK new : new = sources' OBVIOUS
<1>7. /\ SourcesOK(new)
      /\ Len(sources[x].queue) > 1 =>
           new[x].next = sources[x].next /\ new[x].queue = Tail(sources[x].queue)
      /\ ~(Len(sources[x].queue) > 1) =>
           /\ new[x].next = sources[x].next + n
           /\ new[x].queue = EngineEvents(x, sources[x].halted, sources[x].next, n)
  <2>1. SourcesOK(sources) BY DEF SourcesInv
  <2>2. new = Taken(sources, x, n) BY <1>3, <1>6
  <2> QED BY <1>1, <2>1, <2>2, TakenDoes
<1>8. SourcesInv' BY <1>6, <1>7 DEF SourcesInv
<1>9. ASSUME SingleSymbol, LogInv PROVE LogInv' /\ LogsKept(store, store')
  <2>1. x = Primary BY <1>9, PrimaryIsSymbol DEF SingleSymbol
  <2>2. PICK q \in Seq(Event), next \in Nat \ {0}, log \in {store[active].events} :
          q = sources[x].queue /\ next = sources[x].next /\ log = store[active].events /\ q # <<>>
    BY DEF SourcesInv, SourcesOK, SourceOK
  <2>3. Numbered(q, next, log) BY <1>4, <1>9, <2>1, <2>2 DEF LogInv
  <2>4. e = q[1] BY <1>2, <2>2
  <2>5. PICK log2 : log2 = store'[active].events OBVIOUS
  <2>6. Extended(log, log2, q[1]) /\ \A t \in SessionId : t # active => store'[t] = store[t]
    BY <1>5, <2>2, <2>4, <2>5 DEF Logged, Extended
  <2>0. next \in Nat OBVIOUS
  <2>7. Kept(log, log2) /\ Numbered(new[x].queue, new[x].next, log2)
    <3>1. CASE Len(q) > 1
      <4>1. new[x].next = next /\ new[x].queue = Tail(q) BY <1>7, <2>2, <3>1
      <4>2. Kept(log, log2) /\ Numbered(Tail(q), next, log2) BY <2>0, <2>2, <2>3, <2>6, HeadLogged
      <4> QED BY <4>1, <4>2
    <3>2. CASE ~(Len(q) > 1)
      <4>1. PICK es : es = EngineEvents(x, sources[x].halted, next, n) OBVIOUS
      <4>2. new[x].next = next + n /\ new[x].queue = es BY <1>7, <2>2, <3>2, <4>1
      <4>3. DOMAIN es = 1..n /\ NumberedFrom(es, next)
        <5>1. DOMAIN es = 1..n /\ \A i \in 1..n : es[i].seq = next + i - 1
          BY <1>1, <4>1, EngineEventsAre, SMTT(20)
        <5> QED BY <5>1 DEF NumberedFrom
      <4>4. Kept(log, log2) /\ Numbered(es, next + n, log2)
        BY <1>1, <2>0, <2>2, <2>3, <2>6, <4>3, LastLogged
      <4> QED BY <4>2, <4>4
    <3> QED BY <3>1, <3>2
  <2> QED BY <1>3, <1>4, <1>6, <2>1, <2>2, <2>5, <2>6, <2>7, LiveLogKept
<1>10. Recorded
  <2>1. IsLive' /\ crashed' = crashed BY <1>3, <1>4 DEF IsLive, LiveStep
  <2> QED BY <1>3, <1>4, <1>5, <2>1 DEF Recorded, Logged
<1> QED BY <1>5, <1>8, <1>9, <1>10 DEF StepOK

\* A scenario's events, from the numbers drawn for them on, are logged and queued.
LEMMA Scenes ==
  ASSUME RunnerInv, SourcesInv, NEW x \in Symbols, NEW kinds \in Scenarios, NEW timed,
         InjectScenario(x, kinds, timed)
  PROVE  StepOK /\ Recorded
<1>1. kinds \in Seq(Kind)
  <2>1. kinds \in {<<"NEWS">>, <<"HALT">>, <<"RESUME">>, <<"NEWS", "HALT">>}
    BY SessionAssumption
  <2>2. "NEWS" \in Kind /\ "HALT" \in Kind /\ "RESUME" \in Kind BY DEF Kind
  <2>3. \A a, b \in Kind : <<a>> \in Seq(Kind) /\ <<a, b>> \in Seq(Kind) OBVIOUS
  <2>4. CASE kinds = <<"NEWS", "HALT">> BY <2>2, <2>3, <2>4
  <2>5. CASE kinds = <<"NEWS">> BY <2>2, <2>3, <2>5
  <2>6. CASE kinds = <<"HALT">> BY <2>2, <2>3, <2>6
  <2>7. CASE kinds = <<"RESUME">> BY <2>2, <2>3, <2>7
  <2> QED BY <2>1, <2>4, <2>5, <2>6, <2>7
<1>2. PICK drawn : drawn = Allocated(sources, x, Len(kinds)) OBVIOUS
<1>3. SourcesOK(sources) /\ Len(kinds) \in Nat BY <1>1 DEF SourcesInv
<1>4. SourcesOK(drawn) /\ drawn[x].next = sources[x].next + Len(kinds)
      /\ drawn[x].queue = sources[x].queue
  BY <1>2, <1>3, AllocatedDoes
<1>5. PICK es : es = Copies(drawn, x, kinds) OBVIOUS
<1>6. PICK from \in Nat : from = drawn[x].next BY <1>4 DEF SourcesOK, SourceOK
<1>7. /\ es \in Seq(Event) /\ DOMAIN es = 1..Len(kinds)
      /\ \A i \in DOMAIN es : es[i].seq = from + i - 1
  BY <1>1, <1>4, <1>5, <1>6, CopiesAre
<1>8. /\ IsLive /\ sources' = Inject(drawn, x, kinds)
      /\ store' = AppendEvents(store, active, es)
      /\ mode' = mode /\ task' = task /\ active' = active /\ replay' = replay
  BY <1>2, <1>5 DEF InjectScenario, runner
<1>9. \A i, j \in DOMAIN es : es[i].seq = es[j].seq => i = j BY <1>3, <1>7
<1>10. RunnerInv' /\ OnlyLive(store, store') /\ AllLogged(store, store', active, es)
  BY <1>8, <1>9, RecordsMany
<1>11. PICK new : new = sources' OBVIOUS
<1>12. /\ SourcesOK(new) /\ new[x].next = drawn[x].next + Len(kinds)
       /\ new[x].queue = drawn[x].queue \o es
  BY <1>1, <1>4, <1>5, <1>8, <1>11, InjectDoes
<1>13. SourcesInv' BY <1>11, <1>12 DEF SourcesInv
<1>14. ASSUME SingleSymbol, LogInv PROVE LogInv' /\ LogsKept(store, store')
  <2>1. x = Primary BY <1>14, PrimaryIsSymbol DEF SingleSymbol
  <2>2. PICK q \in Seq(Event), next \in Nat \ {0}, log \in {store[active].events} :
          q = sources[x].queue /\ next = sources[x].next /\ log = store[active].events
    BY DEF SourcesInv, SourcesOK, SourceOK
  <2>3. Numbered(q, next, log) BY <1>8, <1>14, <2>1, <2>2 DEF LogInv
  <2>4. PICK log2 : log2 = store'[active].events OBVIOUS
  <2>5. /\ DOMAIN log2 = DOMAIN log \cup {es[i].seq : i \in DOMAIN es}
        /\ \A i \in DOMAIN es : log2[es[i].seq] = es[i]
        /\ \A m \in DOMAIN log : m \notin {es[i].seq : i \in DOMAIN es} => log2[m] = log[m]
        /\ \A t \in SessionId : t # active => store'[t] = store[t]
    BY <1>10, <2>2, <2>4 DEF AllLogged
  <2>6. next \in Nat /\ next <= from /\ Len(es) = Len(kinds) BY <1>3, <1>4, <1>6, <1>7, <2>2
  <2>7. \A i \in DOMAIN es : es[i].seq \in Nat /\ next <= es[i].seq /\ es[i].seq < from + Len(es)
    <3> SUFFICES ASSUME NEW i \in DOMAIN es
                 PROVE  es[i].seq \in Nat /\ next <= es[i].seq /\ es[i].seq < from + Len(es)
      OBVIOUS
    <3>1. i \in 1..Len(es) /\ es[i].seq = from + i - 1 BY <1>7, <2>6
    <3> QED BY <1>3, <2>6, <3>1
  <2>8. \A m \in DOMAIN log : m \in DOMAIN log2 /\ log2[m] = log[m]
    <3>1. \A m \in DOMAIN log : m \in Nat /\ m < next BY <2>3 DEF Numbered
    <3>2. \A m \in DOMAIN log : m \notin {es[i].seq : i \in DOMAIN es} BY <2>7, <3>1
    <3> QED BY <2>5, <3>2
  <2>9. \A m \in DOMAIN log2 : \/ m \in DOMAIN log
                                \/ /\ m \in Nat /\ next <= m /\ m < from + Len(es)
                                   /\ \A i \in DOMAIN es : es[i].seq = m => log2[m] = es[i]
    BY <2>5, <2>7
  <2>10. Kept(log, log2) /\ Numbered(q \o es, from + Len(es), log2)
    <3>1. Grown(log, log2, next, from + Len(es), es) BY <2>8, <2>9 DEF Grown
    <3>2. NumberedFrom(es, from) BY <1>7 DEF NumberedFrom
    <3> QED BY <1>7, <2>3, <2>6, <3>1, <3>2, FreshLogged
  <2>11. new[x].queue = q \o es /\ new[x].next = from + Len(es)
    BY <1>4, <1>6, <1>12, <2>2, <2>6
  <2> QED BY <1>8, <1>11, <2>1, <2>2, <2>4, <2>5, <2>10, <2>11, LiveLogKept
<1>15. Recorded
  <2>1. IsLive' /\ crashed' = crashed BY <1>8 DEF IsLive, InjectScenario
  <2> QED BY <1>8, <1>10, <2>1 DEF Recorded, AllLogged
<1> QED BY <1>10, <1>13, <1>14, <1>15 DEF StepOK

\* A user's order and its event are logged; nothing is queued.
LEMMA UserOrders ==
  ASSUME RunnerInv, SourcesInv, NEW x \in Symbols, UserOrder(x)
  PROVE  StepOK /\ Recorded
<1>1. PICK next \in Nat \ {0} : next = sources[x].next BY DEF SourcesInv, SourcesOK, SourceOK
<1>2. PICK a, b, es : /\ a = Evt("ORDER", x, next) /\ b = Evt("MARKET", x, next + 1)
                      /\ es = <<a, b>>
  OBVIOUS
<1>3. /\ a.seq = next /\ b.seq = next + 1
      /\ DOMAIN es = {1, 2} /\ es[1] = a /\ es[2] = b
  BY <1>2 DEF Evt
<1>4. /\ IsLive /\ sources' = Allocated(sources, x, 2)
      /\ store' = AppendEvents(store, active, es)
      /\ mode' = mode /\ task' = task /\ active' = active /\ replay' = replay
  BY <1>1, <1>2 DEF UserOrder
<1>5. \A i, j \in DOMAIN es : es[i].seq = es[j].seq => i = j BY <1>3
<1>6. RunnerInv' /\ OnlyLive(store, store') /\ AllLogged(store, store', active, es)
  BY <1>4, <1>5, RecordsMany
<1>7. PICK new : new = sources' OBVIOUS
<1>8. SourcesOK(new) /\ new[x].next = next + 2 /\ new[x].queue = sources[x].queue
  <2>1. PICK two \in Nat : two = 2 OBVIOUS
  <2>2. SourcesOK(sources) /\ new = Allocated(sources, x, two) BY <1>4, <1>7, <2>1 DEF SourcesInv
  <2>3. SourcesOK(new) /\ new[x].next = sources[x].next + two /\ new[x].queue = sources[x].queue
    BY <2>2, AllocatedDoes
  <2> QED BY <1>1, <2>1, <2>3
<1>9. SourcesInv' BY <1>7, <1>8 DEF SourcesInv
<1>10. ASSUME SingleSymbol, LogInv PROVE LogInv' /\ LogsKept(store, store')
  <2>1. x = Primary BY <1>10, PrimaryIsSymbol DEF SingleSymbol
  <2>2. PICK q \in Seq(Event), log \in {store[active].events} :
          q = sources[x].queue /\ log = store[active].events
    BY DEF SourcesInv, SourcesOK, SourceOK
  <2>3. Numbered(q, next, log) BY <1>1, <1>4, <1>10, <2>1, <2>2 DEF LogInv
  <2>4. PICK log2 : log2 = store'[active].events OBVIOUS
  <2>5. {es[i].seq : i \in DOMAIN es} = {next, next + 1} BY <1>3
  <2>6. /\ DOMAIN log2 = DOMAIN log \cup {next, next + 1}
        /\ \A m \in DOMAIN log : m \notin {next, next + 1} => log2[m] = log[m]
        /\ \A t \in SessionId : t # active => store'[t] = store[t]
    BY <1>6, <2>2, <2>4, <2>5 DEF AllLogged
  <2>7. \A m \in DOMAIN log : m \in Nat /\ m < next BY <2>3 DEF Numbered
  <2>8. \A m \in DOMAIN log : m \notin {next, next + 1} BY <2>7
  <2>9. \A m \in DOMAIN log2 : m \in DOMAIN log \/ (m \in Nat /\ next <= m /\ m < next + 2)
    BY <2>6
  <2>0. <<>> \in Seq(Event) /\ Len(<<>>) = 0 /\ DOMAIN <<>> = {} BY EmptySeq
  <2>10. PICK none \in Seq(Event), top \in Nat :
           none = <<>> /\ Len(none) = 0 /\ DOMAIN none = {} /\ top = next + 2
    <3>1. next + 2 \in Nat OBVIOUS
    <3> QED BY <2>0, <3>1
  <2>11. Grown(log, log2, next, top + Len(none), none) BY <2>6, <2>8, <2>9, <2>10 DEF Grown
  <2>12. NumberedFrom(none, top) BY <2>10 DEF NumberedFrom
  <2>13. next \in Nat /\ next <= top BY <2>10
  <2>14. Kept(log, log2) /\ Numbered(q \o none, top + Len(none), log2)
    BY <2>3, <2>11, <2>12, <2>13, FreshLogged
  <2>15. q \o none = q /\ top + Len(none) = next + 2 BY <2>10
  <2>16. Kept(log, log2) /\ Numbered(new[x].queue, new[x].next, log2)
    BY <1>8, <2>2, <2>14, <2>15
  <2> QED BY <1>4, <1>7, <2>1, <2>2, <2>4, <2>6, <2>16, LiveLogKept
<1>11. Recorded
  <2>1. IsLive' /\ crashed' = crashed BY <1>4 DEF IsLive, UserOrder
  <2> QED BY <1>4, <1>6, <2>1 DEF Recorded, AllLogged
<1> QED BY <1>6, <1>9, <1>10, <1>11 DEF StepOK

\* A timer logs a resume under one number and queues its copy under the next.
LEMMA Timers ==
  ASSUME RunnerInv, SourcesInv, NEW x \in Symbols, AutoResume(x)
  PROVE  StepOK /\ Recorded
<1>1. /\ timers[x] > 0 /\ mode' = mode /\ task' = task /\ active' = active /\ replay' = replay
  BY DEF AutoResume, runner
<1>2. IsLive BY <1>1 DEF RunnerInv
<1>3. IsLive' BY <1>1, <1>2 DEF IsLive
<1>4. CASE running /\ sources[x].halted
  <2>1. PICK next \in Nat \ {0} : next = sources[x].next BY DEF SourcesInv, SourcesOK, SourceOK
  <2>2. PICK e, drawn, kinds : /\ e = Evt("RESUME", x, next) /\ kinds = <<"RESUME">>
                               /\ drawn = Allocated(sources, x, 1)
    OBVIOUS
  <2>3. sources' = Inject(drawn, x, kinds) /\ store' = AppendEvent(store, active, e)
    BY <1>4, <2>1, <2>2 DEF AutoResume
  <2>4. RunnerInv' /\ OnlyLive(store, store') /\ Logged(store, store', active, e)
    BY <1>1, <1>2, <2>3, RecordsOne
  <2>5. SourcesOK(drawn) /\ drawn[x].next = next + 1 /\ drawn[x].queue = sources[x].queue
    <3>1. PICK one \in Nat : one = 1 OBVIOUS
    <3>2. SourcesOK(sources) /\ drawn = Allocated(sources, x, one) BY <2>2, <3>1 DEF SourcesInv
    <3>3. /\ SourcesOK(drawn) /\ drawn[x].next = sources[x].next + one
          /\ drawn[x].queue = sources[x].queue
      BY <3>2, AllocatedDoes
    <3> QED BY <2>1, <3>1, <3>3
  <2>6. kinds \in Seq(Kind) /\ Len(kinds) = 1
    <3>1. "RESUME" \in Kind BY DEF Kind
    <3>2. \A a \in Kind : <<a>> \in Seq(Kind) /\ Len(<<a>>) = 1 OBVIOUS
    <3> QED BY <2>2, <3>1, <3>2
  <2>7. PICK es : es = Copies(drawn, x, kinds) OBVIOUS
  <2>8. /\ es \in Seq(Event) /\ DOMAIN es = 1..Len(kinds)
        /\ \A i \in 1..Len(kinds) : es[i].seq = drawn[x].next + i - 1
    BY <2>5, <2>6, <2>7, CopiesAre
  <2>9. PICK new : new = sources' OBVIOUS
  <2>10. /\ SourcesOK(new) /\ new[x].next = drawn[x].next + Len(kinds)
         /\ new[x].queue = drawn[x].queue \o es
    BY <2>3, <2>5, <2>6, <2>7, <2>9, InjectDoes
  <2>11. SourcesInv' BY <2>9, <2>10 DEF SourcesInv
  <2>12. ASSUME SingleSymbol, LogInv PROVE LogInv' /\ LogsKept(store, store')
    <3>1. x = Primary BY <2>12, PrimaryIsSymbol DEF SingleSymbol
    <3>2. PICK q \in Seq(Event), log \in {store[active].events} :
          q = sources[x].queue /\ log = store[active].events
      BY DEF SourcesInv, SourcesOK, SourceOK
    <3>3. Numbered(q, next, log) BY <1>2, <2>1, <2>12, <3>1, <3>2 DEF LogInv
    <3>4. PICK log2 : log2 = store'[active].events OBVIOUS
    <3>5. e.seq = next BY <2>2 DEF Evt
    <3>6. /\ DOMAIN log2 = DOMAIN log \cup {next}
          /\ \A m \in DOMAIN log : m # next => log2[m] = log[m]
          /\ \A t \in SessionId : t # active => store'[t] = store[t]
      BY <2>4, <3>2, <3>4, <3>5 DEF Logged
    <3>7. \A m \in DOMAIN log : m \in Nat /\ m < next BY <3>3 DEF Numbered
    <3>8. PICK from \in Nat : from = next + 1 OBVIOUS
    <3>9. /\ next \in Nat /\ next < from /\ next <= from
          /\ Len(es) = 1 /\ next < from + Len(es)
      BY <2>6, <2>8, <3>8
    <3>10. NumberedFrom(es, from)
      BY <2>5, <2>6, <2>8, <3>8 DEF NumberedFrom
    <3>11. \A i \in DOMAIN es : es[i].seq # next BY <2>6, <2>8, <3>8, <3>10 DEF NumberedFrom
    <3>12. Grown(log, log2, next, from + Len(es), es)
      <4>1. \A m \in DOMAIN log : m # next BY <3>7
      <4> QED BY <3>6, <3>9, <3>11, <4>1 DEF Grown
    <3>13. Kept(log, log2) /\ Numbered(q \o es, from + Len(es), log2)
      BY <2>8, <3>3, <3>9, <3>10, <3>12, FreshLogged
    <3>14. new[x].queue = q \o es /\ new[x].next = from + Len(es)
      BY <2>5, <2>6, <2>10, <3>2, <3>8, <3>9
    <3> QED BY <1>1, <1>2, <2>9, <3>1, <3>2, <3>4, <3>6, <3>13, <3>14, LiveLogKept
  <2>13. Recorded
    <3>1. crashed' = crashed BY DEF AutoResume
    <3> QED BY <1>1, <1>2, <1>3, <2>4, <3>1 DEF Recorded, Logged
  <2> QED BY <2>4, <2>11, <2>12, <2>13 DEF StepOK
<1>5. CASE ~(running /\ sources[x].halted)
  <2>1. sources' = sources /\ store' = store BY <1>5 DEF AutoResume
  <2>2. RunnerInv' BY <1>1, <1>2, <1>3, <2>1 DEF RunnerInv
  <2>3. SourcesInv' BY <2>1 DEF SourcesInv
  <2>4. OnlyLive(store, store') /\ LogsKept(store, store') BY <2>1 DEF OnlyLive, LogsKept, Kept
  <2>5. LogInv => LogInv' BY <1>1, <1>2, <2>1 DEF LogInv
  <2>6. Recorded
    <3>1. crashed' = crashed BY DEF AutoResume
    <3> QED BY <1>1, <1>2, <1>3, <2>1, <3>1 DEF Recorded
  <2> QED BY <2>2, <2>3, <2>4, <2>5, <2>6 DEF StepOK
<1> QED BY <1>4, <1>5

-----------------------------------------------------------------------------
(* The theorems. *)

\* Stopping: the only event that can be new is SessionEnded, under a number of its own.
LEMMA StopKeepsLog ==
  ASSUME RunnerInv, SourcesInv, SingleSymbol, LogInv, NEW st, st = AfterStop
  PROVE  LogsKept(store, st)
<1>1. CASE ~IsLive
  <2>1. st = store BY <1>1, StopDoes
  <2> QED BY <2>1 DEF LogsKept, Kept
<1>2. CASE IsLive
  <2>1. PICK next : next = sources[Primary].next OBVIOUS
  <2>2. /\ \A s \in SessionId : s # active => st[s] = store[s]
        /\ DOMAIN st[active].events = DOMAIN store[active].events \cup {next}
        /\ \A n \in DOMAIN store[active].events :
             n # next => st[active].events[n] = store[active].events[n]
    BY <1>2, <2>1, StopDoes
  <2>3. next \in Nat
    BY <2>1, PrimaryIsSymbol DEF SourcesInv, SourcesOK, SourceOK
  <2>4. \A n \in DOMAIN store[active].events : n \in Nat /\ n < next
    BY <1>2, <2>1 DEF LogInv, Numbered
  <2>5. \A n \in DOMAIN store[active].events : n # next BY <2>3, <2>4
  <2> QED BY <2>2, <2>5 DEF LogsKept, Kept
<1> QED BY <1>1, <1>2

\* The sources when SessionStarted has its number.
LEMMA FirstDrawn ==
  ASSUME NEW new, new = Allocated(NewSources, Primary, 1)
  PROVE  /\ SourcesOK(new) /\ new[Primary].next = 3
         /\ DOMAIN new[Primary].queue = {1} /\ new[Primary].queue[1].seq = 1
<1>1. PICK one \in Nat : one = 1 OBVIOUS
<1>2. PICK x \in Symbols : x = Primary BY PrimaryIsSymbol
<1>3. PICK src : src = NewSources OBVIOUS
<1>4. /\ SourcesOK(src) /\ src[x].next = 2 /\ DOMAIN src[x].queue = {1}
      /\ src[x].queue[1].seq = 1
  BY <1>3, NewSourcesDo
<1>5. new = Allocated(src, x, one) BY <1>1, <1>2, <1>3
<1>6. SourcesOK(new) /\ new[x].next = src[x].next + one /\ new[x].queue = src[x].queue
  BY <1>4, <1>5, AllocatedDoes, Z3
<1> QED BY <1>1, <1>2, <1>4, <1>6

\* A session that begins has one event in its log and one, of another number, waiting.
LEMMA BeginNumbered ==
  ASSUME NEW st, Rows(st), RowsFirst(st), Begin(st)
  PROVE  /\ SourcesInv' /\ LogInv'
         /\ LogsKept(store, st) => LogsKept(store, store')
<1>1. /\ active' \in SessionId /\ st[active'].status = "NONE"
      /\ \A s \in SessionId : s # active' => store'[s] = st[s]
      /\ DOMAIN store'[active'].events = {2}
      /\ sources' = Allocated(NewSources, Primary, 1)
  BY BeginDoes
<1>2. PICK new : new = sources' OBVIOUS
<1>4. /\ SourcesOK(new) /\ new[Primary].next = 3
      /\ DOMAIN new[Primary].queue = {1} /\ new[Primary].queue[1].seq = 1
  BY <1>1, <1>2, FirstDrawn
<1>5. SourcesInv' BY <1>2, <1>4 DEF SourcesInv
<1>6. PICK q, next, log : q = new[Primary].queue /\ next = new[Primary].next
                          /\ log = store'[active'].events
  OBVIOUS
<1>7. next = 3 /\ DOMAIN q = {1} /\ q[1].seq = 1 /\ DOMAIN log = {2}
  BY <1>1, <1>4, <1>6
<1>8. Numbered(q, next, log) BY <1>7 DEF Numbered
<1>9. LogInv' BY <1>2, <1>6, <1>8 DEF LogInv
<1>10. ASSUME LogsKept(store, st) PROVE LogsKept(store, store')
  <2>1. DOMAIN st[active'].events = {} BY <1>1 DEF RowsFirst
  <2>2. DOMAIN store[active'].events = {} BY <1>1, <1>10, <2>1 DEF LogsKept, Kept
  <2> QED BY <1>1, <1>10, <2>2 DEF LogsKept, Kept
<1> QED BY <1>5, <1>9, <1>10

\* stop() draws at most one number.
LEMMA StopSources ==
  ASSUME SourcesInv, sources' = IF IsLive THEN Allocated(sources, Primary, 1) ELSE sources
  PROVE  SourcesInv'
<1>1. CASE ~IsLive BY <1>1 DEF SourcesInv
<1>2. CASE IsLive
  <2>0. PICK one \in Nat : one = 1 OBVIOUS
  <2>1. PICK new : new = sources' OBVIOUS
  <2>2. SourcesOK(sources) /\ new = Allocated(sources, Primary, one)
    BY <1>2, <2>0, <2>1 DEF SourcesInv
  <2>3. SourcesOK(new) BY <2>2, PrimaryIsSymbol, AllocatedDoes
  <2> QED BY <2>1, <2>3 DEF SourcesInv
<1> QED BY <1>1, <1>2

LEMMA StepsOK ==
  ASSUME ~AnyTime, RunnerInv, SourcesInv, [Next]_vars
  PROVE  StepOK
<1>0. Rows(store) /\ RowsFirst(store) BY DEF RunnerInv
<1>1. LogsKept(store, store) BY DEF LogsKept, Kept
<1>2. CASE Start \/ Stop \/ Crash \/ CrashInStop
  <2>1. RunnerInv' /\ OnlyLive(store, store') BY <1>2, StopsStarts
  <2>2. PICK st : st = AfterStop OBVIOUS
  <2>3. Rows(st) /\ RowsFirst(st) BY <2>2, StopDoes
  <2>4. SingleSymbol /\ LogInv => LogsKept(store, st) BY <2>2, StopKeepsLog
  <2>5. CASE Start
    <3>1. Begin(st) BY <2>2, <2>5 DEF Start
    <3> QED BY <2>1, <2>3, <2>4, <3>1, BeginNumbered DEF StepOK
  <2>6. CASE Crash
    <3>1. Begin(store) BY <2>6 DEF Crash, CrashAndRestart
    <3> QED BY <1>0, <1>1, <2>1, <3>1, BeginNumbered DEF StepOK
  <2>7. CASE CrashInStop
    <3>1. PICK e, mid : e = Ended /\ mid = AppendEvent(store, active, e) OBVIOUS
    <3>2. Begin(mid) /\ IsLive BY <2>7, <3>1 DEF CrashInStop, CrashAndRestart
    <3>3. active \in SessionId /\ store[active].status # "NONE" BY <3>2 DEF RunnerInv
    <3>4. Logged(store, mid, active, e) BY <1>0, <3>1, <3>3, AppendOne
    <3>5. Rows(mid) /\ RowsFirst(mid) BY <1>0, <3>3, <3>4 DEF Logged, RowsFirst
    <3>6. ASSUME SingleSymbol, LogInv PROVE LogsKept(store, mid)
      <4>1. PICK next : next = sources[Primary].next OBVIOUS
      <4>2. e.seq = next BY <3>1, <4>1 DEF Ended, Evt
      <4>3. next \in Nat BY <4>1, PrimaryIsSymbol DEF SourcesInv, SourcesOK, SourceOK
      <4>4. \A n \in DOMAIN store[active].events : n \in Nat /\ n < next
        BY <3>2, <3>6, <4>1 DEF LogInv, Numbered
      <4>5. \A n \in DOMAIN store[active].events : n # e.seq BY <4>2, <4>3, <4>4
      <4> QED BY <3>4, <4>5 DEF LogsKept, Kept, Logged
    <3> QED BY <2>1, <3>2, <3>5, <3>6, BeginNumbered DEF StepOK
  <2>8. CASE Stop
    <3>1. /\ store' = st /\ mode' = "STOPPED"
          /\ sources' = IF IsLive THEN Allocated(sources, Primary, 1) ELSE sources
      BY <2>2, <2>8 DEF Stop
    <3>2. SourcesInv' BY <3>1, StopSources
    <3>3. LogInv' BY <3>1 DEF LogInv, IsLive
    <3> QED BY <2>1, <2>4, <3>1, <3>2, <3>3 DEF StepOK
  <2> QED BY <1>2, <2>5, <2>6, <2>7, <2>8
<1>3. ASSUME NEW s \in SessionId, NEW n \in Targets, StartReplay(s, n) PROVE StepOK
  <2>1. RunnerInv' /\ OnlyLive(store, store') BY <1>3, Replays
  <2>2. PICK st : st = AfterStop OBVIOUS
  <2>3. /\ store' = st /\ mode' = "REPLAY"
        /\ sources' = IF IsLive THEN Allocated(sources, Primary, 1) ELSE sources
    BY <1>3, <2>2 DEF StartReplay
  <2>4. SourcesInv' BY <2>3, StopSources
  <2>5. LogInv' BY <2>3 DEF LogInv, IsLive
  <2>6. SingleSymbol /\ LogInv => LogsKept(store, store') BY <2>2, <2>3, StopKeepsLog
  <2> QED BY <2>1, <2>4, <2>5, <2>6 DEF StepOK
<1>4. CASE (\E n \in Targets : Seek(n)) \/ Pause \/ Resume
  <2>1. RunnerInv' /\ store' = store /\ sources' = sources /\ ~IsLive' BY <1>4, Controls
  <2>2. SourcesInv' BY <2>1 DEF SourcesInv
  <2> QED BY <1>1, <2>1, <2>2 DEF StepOK, LogInv, OnlyLive
<1>5. CASE ReplayStep
  <2>1. RunnerInv' /\ store' = store /\ sources' = sources /\ ~IsLive' BY <1>5, ReplayGoesOn
  <2>2. SourcesInv' BY <2>1 DEF SourcesInv
  <2> QED BY <1>1, <2>1, <2>2 DEF StepOK, LogInv, OnlyLive
<1>6. ASSUME NEW x \in Symbols, NEW n \in 1..MaxBatch, LiveStep(x, n) PROVE StepOK
  BY <1>6, LiveSteps
<1>7. ASSUME NEW x \in Symbols, UserOrder(x) PROVE StepOK BY <1>7, UserOrders
<1>8. ASSUME NEW x \in Symbols, AutoResume(x) PROVE StepOK BY <1>8, Timers
<1>9. ASSUME NEW x \in Symbols, NEW kinds \in Scenarios, NEW timed \in BOOLEAN,
             InjectScenario(x, kinds, timed)
      PROVE  StepOK
  BY <1>9, Scenes
<1>10. CASE UNCHANGED vars
  <2>1. /\ store' = store /\ sources' = sources /\ replay' = replay /\ mode' = mode
        /\ active' = active /\ task' = task /\ timers' = timers
    BY <1>10 DEF vars, runner
  <2>2. IsLive' <=> IsLive BY <2>1 DEF IsLive
  <2>3. RunnerInv' BY <2>1, <2>2 DEF RunnerInv
  <2>4. SourcesInv' BY <2>1 DEF SourcesInv
  <2>5. LogInv => LogInv' BY <2>1, <2>2 DEF LogInv
  <2> QED BY <1>1, <2>1, <2>3, <2>4, <2>5 DEF StepOK, OnlyLive
<1> QED BY <1>2, <1>3, <1>4, <1>5, <1>6, <1>7, <1>8, <1>9, <1>10 DEF Next

LEMMA InitOK ==
  ASSUME Init
  PROVE  RunnerInv /\ SourcesInv /\ LogInv
<1>1. PICK st, e : st = CreateSession(NoSessions, 1) /\ e = Evt("START", Primary, 2) OBVIOUS
<1>2. PICK new : new = store OBVIOUS
<1>3. PICK one \in SessionId : one = 1 BY StoreAssumption DEF SessionId
<1>4. /\ Rows(st) /\ RowsFirst(NoSessions) /\ DOMAIN st[one].events = {}
      /\ \A s \in SessionId : s # one => st[s] = NoSession
      /\ st[one].status = "ACTIVE"
  <2> DEFINE row == [NoSession EXCEPT !.status = "ACTIVE"]
  <2>1. DOMAIN row = Fields /\ row.status = "ACTIVE" /\ DOMAIN row.events = {}
    BY DEF NoSession, Fields
  <2>2. /\ DOMAIN NoSession = Fields /\ DOMAIN NoSession.events = {}
    BY DEF NoSession, Fields
  <2>3. DOMAIN NoSessions = SessionId /\ \A s \in SessionId : NoSessions[s] = NoSession
    BY DEF NoSessions
  <2>4. st = [NoSessions EXCEPT ![one] = row] BY <1>1, <1>3 DEF CreateSession
  <2> HIDE DEF row
  <2> QED BY <2>1, <2>2, <2>3, <2>4 DEF Rows, RowsFirst
<1>5. new = AppendEvent(st, one, e) BY <1>1, <1>2, <1>3 DEF Init
<1>6. Logged(st, new, one, e) BY <1>4, <1>5, AppendOne
<1>7. e.seq = 2 BY <1>1 DEF Evt
<1>8. /\ Rows(store) /\ store[one].status = "ACTIVE" /\ DOMAIN store[one].events = {2}
      /\ \A s \in SessionId : s # one => store[s] = NoSession
  BY <1>2, <1>4, <1>6, <1>7 DEF Logged
<1>9. RowsFirst(store)
  <2>1. DOMAIN NoSession.events = {} BY DEF NoSession
  <2> QED BY <1>8, <2>1 DEF RowsFirst
<1>10. /\ replay = NoReplay /\ mode = "LIVE" /\ active = one /\ task = "live" /\ timers = NoTimers
       /\ sources = Allocated(NewSources, Primary, 1)
  BY <1>3 DEF Init
<1>11. 0 \notin SessionId BY StoreAssumption DEF SessionId
<1>12. DOMAIN replay = {"session", "cursor", "total", "paused", "buffer"} /\ replay.session = 0
  BY <1>10 DEF NoReplay
<1>13. RunnerInv BY <1>8, <1>9, <1>10, <1>11, <1>12 DEF RunnerInv, IsLive
<1>14. /\ SourcesOK(sources) /\ sources[Primary].next = 3
       /\ DOMAIN sources[Primary].queue = {1} /\ sources[Primary].queue[1].seq = 1
  BY <1>10, FirstDrawn
<1>15. PICK q, next, log : q = sources[Primary].queue /\ next = sources[Primary].next
                          /\ log = store[active].events
  OBVIOUS
<1>16. next = 3 /\ DOMAIN q = {1} /\ q[1].seq = 1 /\ DOMAIN log = {2}
  BY <1>8, <1>10, <1>14, <1>15
<1>17. Numbered(q, next, log) BY <1>16 DEF Numbered
<1> QED BY <1>13, <1>14, <1>15, <1>17 DEF SourcesInv, LogInv

\* The log of a session that was left, by a stop, a start, a replay or a crash, is not
\* written again, whatever replays, live sessions, timers and seeks follow: provided
\* that playback controls reach only the runner of a replay.
THEOREM RecordsStayFixed == ~AnyTime => (Spec => RecordedLogsFixed)
<1> SUFFICES ASSUME ~AnyTime PROVE Spec => RecordedLogsFixed OBVIOUS
<1>1. Init => RunnerInv /\ SourcesInv BY InitOK
<1>2. RunnerInv /\ SourcesInv /\ [Next]_vars => RunnerInv' /\ SourcesInv'
  BY StepsOK DEF StepOK
<1>3. RunnerInv /\ SourcesInv /\ [Next]_vars =>
        [\A s \in SessionId :
           store'[s].events # store[s].events =>
             (s = active /\ IsLive) \/ store[s].status = "NONE"]_vars
  BY StepsOK DEF StepOK, OnlyLive
<1> QED BY <1>1, <1>2, <1>3, PTL DEF Spec, RecordedLogsFixed

\* With one symbol no event of any log is ever replaced by another: the loop, the
\* user's orders, scenarios, timers and SessionEnded draw numbers from one engine, and
\* what is logged twice is the same event.
THEOREM LogsNeverRewritten == ~AnyTime /\ SingleSymbol => (Spec => LogNeverRewritten)
<1> SUFFICES ASSUME ~AnyTime, SingleSymbol PROVE Spec => LogNeverRewritten OBVIOUS
<1>1. Init => RunnerInv /\ SourcesInv /\ LogInv BY InitOK
<1>2. RunnerInv /\ SourcesInv /\ LogInv /\ [Next]_vars => RunnerInv' /\ SourcesInv' /\ LogInv'
  BY StepsOK DEF StepOK
<1>3. RunnerInv /\ SourcesInv /\ LogInv /\ [Next]_vars =>
        [\A s \in SessionId : \A n \in Seqs(store, s) :
           n \in Seqs(store', s) /\ store'[s].events[n] = store[s].events[n]]_vars
  BY StepsOK DEF StepOK, LogsKept, Kept, Seqs
<1> QED BY <1>1, <1>2, <1>3, PTL DEF Spec, LogNeverRewritten

-----------------------------------------------------------------------------
(* How sessions end. *)

EndsLog(log) ==
  \E n \in DOMAIN log : log[n].kind = "END" /\ \A m \in DOMAIN log : m <= n

ClosedLogs(st, open) ==
  \A s \in SessionId :
    /\ st[s].status \in {"NONE", "ACTIVE", "STOPPED"}
    /\ st[s].status = "ACTIVE" => s \in open
    /\ st[s].status = "STOPPED" => EndsLog(st[s].events)

Open == crashed \cup (IF IsLive THEN {active} ELSE {})
ClosedInv == ClosedLogs(store, Open) /\ (IsLive => store[active].status = "ACTIVE")

\* stop() closes the live session, under a number above all of its log.
LEMMA StopCloses ==
  ASSUME RunnerInv, SourcesInv, SingleSymbol, LogInv, ClosedInv, NEW st, st = AfterStop
  PROVE  ClosedLogs(st, crashed)
<1>1. CASE ~IsLive
  <2>1. st = store BY <1>1, StopDoes
  <2> QED BY <1>1, <2>1 DEF ClosedInv, Open
<1>2. CASE IsLive
  <2>1. PICK e, mid : e = Ended /\ mid = AppendEvent(store, active, e) OBVIOUS
  <2>2. st = UpdateSession(mid, active, "STOPPED", CountEvents(store, active) + 1)
    BY <1>2, <2>1 DEF AfterStop, Closed
  <2>3. Rows(store) /\ active \in SessionId BY DEF RunnerInv
  <2>4. Logged(store, mid, active, e) BY <2>1, <2>3, AppendOne
  <2>5. /\ Rows(mid) /\ \A t \in SessionId : t # active => mid[t] = store[t]
        /\ DOMAIN mid[active].events = DOMAIN store[active].events \cup {e.seq}
        /\ mid[active].events[e.seq] = e
    BY <2>4 DEF Logged
  <2>6. /\ \A t \in SessionId : st[t].events = mid[t].events
        /\ st[active].status = "STOPPED" /\ \A t \in SessionId : t # active => st[t] = mid[t]
    BY <2>2, <2>3, <2>5, Updated
  <2>7. PICK next : next = sources[Primary].next OBVIOUS
  <2>8. e.seq = next /\ e.kind = "END" BY <2>1, <2>7 DEF Ended, Evt
  <2>9. next \in Nat BY <2>7, PrimaryIsSymbol DEF SourcesInv, SourcesOK, SourceOK
  <2>10. \A n \in DOMAIN store[active].events : n \in Nat /\ n < next
    BY <1>2, <2>7 DEF LogInv, Numbered
  <2>11. EndsLog(st[active].events)
    <3>1. \A m \in DOMAIN st[active].events : m <= next BY <2>3, <2>5, <2>6, <2>8, <2>9, <2>10
    <3>2. next \in DOMAIN st[active].events /\ st[active].events[next].kind = "END"
      BY <2>3, <2>5, <2>6, <2>8
    <3> QED BY <3>1, <3>2 DEF EndsLog
  <2>12. ASSUME NEW s \in SessionId
         PROVE  /\ st[s].status \in {"NONE", "ACTIVE", "STOPPED"}
                /\ st[s].status = "ACTIVE" => s \in crashed
                /\ st[s].status = "STOPPED" => EndsLog(st[s].events)
    <3>1. CASE s = active BY <2>6, <2>11, <3>1
    <3>2. CASE s # active
      <4>1. st[s] = store[s] BY <2>5, <2>6, <3>2
      <4> QED BY <1>2, <3>2, <4>1 DEF ClosedInv, ClosedLogs, Open
    <3> QED BY <3>1, <3>2
  <2> QED BY <2>12 DEF ClosedLogs
<1> QED BY <1>1, <1>2

\* A session that begins is the one that is open.
LEMMA BeginOpens ==
  ASSUME NEW st, Rows(st), RowsFirst(st), Begin(st), ClosedLogs(st, crashed')
  PROVE  ClosedInv'
<1>1. /\ active' \in SessionId /\ mode' = "LIVE" /\ store'[active'].status = "ACTIVE"
      /\ \A s \in SessionId : s # active' => store'[s] = st[s]
  BY BeginDoes
<1>2. IsLive' /\ Open' = crashed' \cup {active'} BY <1>1 DEF IsLive, Open
<1>3. ClosedLogs(store', Open') BY <1>1, <1>2 DEF ClosedLogs
<1> QED BY <1>1, <1>2, <1>3 DEF ClosedInv

LEMMA StopsStartsClosed ==
  ASSUME RunnerInv, SourcesInv, SingleSymbol, LogInv, ClosedInv,
         Start \/ Stop \/ Crash \/ CrashInStop
  PROVE  ClosedInv'
<1>0. Rows(store) /\ RowsFirst(store) BY DEF RunnerInv
<1>1. PICK st : st = AfterStop OBVIOUS
<1>2. Rows(st) /\ RowsFirst(st) /\ ClosedLogs(st, crashed) BY <1>1, StopDoes, StopCloses
<1>3. CASE Start
  <2>1. Begin(st) /\ crashed' = crashed BY <1>1, <1>3 DEF Start
  <2> QED BY <1>2, <2>1, BeginOpens
<1>4. CASE Stop
  <2>1. store' = st /\ crashed' = crashed /\ ~IsLive' BY <1>1, <1>4 DEF Stop, IsLive
  <2> QED BY <1>2, <2>1 DEF ClosedInv, Open
<1>5. CASE Crash
  <2>1. Begin(store) /\ crashed' = Open BY <1>5 DEF Crash, CrashAndRestart, Open
  <2>2. ClosedLogs(store, crashed') BY <2>1 DEF ClosedInv
  <2> QED BY <1>0, <2>1, <2>2, BeginOpens
<1>6. CASE CrashInStop
  <2>1. PICK e, mid : e = Ended /\ mid = AppendEvent(store, active, e) OBVIOUS
  <2>2. Begin(mid) /\ IsLive /\ crashed' = crashed \cup {active}
    BY <1>6, <2>1 DEF CrashInStop, CrashAndRestart
  <2>3. active \in SessionId /\ store[active].status = "ACTIVE"
    BY <2>2 DEF RunnerInv, ClosedInv
  <2>4. Logged(store, mid, active, e) BY <1>0, <2>1, <2>3, AppendOne
  <2>5. /\ Rows(mid) /\ mid[active].status = "ACTIVE"
        /\ \A t \in SessionId : t # active => mid[t] = store[t]
    BY <2>3, <2>4 DEF Logged
  <2>6. RowsFirst(mid) BY <1>0, <2>5 DEF RowsFirst
  <2>7. ClosedLogs(mid, crashed') BY <2>2, <2>3, <2>5 DEF ClosedLogs, ClosedInv, Open
  <2> QED BY <2>2, <2>5, <2>6, <2>7, BeginOpens
<1> QED BY <1>3, <1>4, <1>5, <1>6

LEMMA StepsClosed ==
  ASSUME ~AnyTime, RunnerInv, SourcesInv, SingleSymbol, LogInv, ClosedInv, [Next]_vars
  PROVE  ClosedInv'
<1>1. CASE Start \/ Stop \/ Crash \/ CrashInStop BY <1>1, StopsStartsClosed
<1>2. ASSUME NEW s \in SessionId, NEW n \in Targets, StartReplay(s, n) PROVE ClosedInv'
  <2>1. PICK st : st = AfterStop OBVIOUS
  <2>2. ClosedLogs(st, crashed) BY <2>1, StopCloses
  <2>3. store' = st /\ crashed' = crashed /\ ~IsLive' BY <1>2, <2>1 DEF StartReplay, IsLive
  <2> QED BY <2>2, <2>3 DEF ClosedInv, Open
<1>3. CASE (\E n \in Targets : Seek(n)) \/ Pause \/ Resume \/ ReplayStep
  <2>1. store' = store /\ ~IsLive /\ ~IsLive' BY <1>3, Controls, ReplayGoesOn
  <2>2. crashed' = crashed BY <1>3 DEF Seek, Pause, Resume, ReplayStep
  <2> QED BY <2>1, <2>2 DEF ClosedInv, Open
<1>4. CASE Recorded \/ UNCHANGED vars
  <2>1. CASE Recorded
    <3>1. Open' = Open BY <2>1 DEF Recorded, Open
    <3>2. ASSUME NEW s \in SessionId
          PROVE  /\ store'[s].status \in {"NONE", "ACTIVE", "STOPPED"}
                 /\ store'[s].status = "ACTIVE" => s \in Open
                 /\ store'[s].status = "STOPPED" => EndsLog(store'[s].events)
      <4>1. CASE s = active
        <5>1. store'[s].status = "ACTIVE" /\ s \in Open BY <2>1, <4>1 DEF Recorded, ClosedInv, Open
        <5> QED BY <5>1
      <4>2. CASE s # active
        <5>1. store'[s] = store[s] BY <2>1, <4>2 DEF Recorded
        <5> QED BY <5>1 DEF ClosedInv, ClosedLogs
      <4> QED BY <4>1, <4>2
    <3>3. ClosedLogs(store', Open') BY <3>1, <3>2 DEF ClosedLogs
    <3>4. IsLive' => store'[active'].status = "ACTIVE"
      <4>1. active \in SessionId BY DEF RunnerInv
      <4> QED BY <2>1, <4>1 DEF Recorded, ClosedInv
    <3> QED BY <3>3, <3>4 DEF ClosedInv
  <2>2. CASE UNCHANGED vars
    <3>1. store' = store /\ mode' = mode /\ active' = active /\ crashed' = crashed
      BY <2>2 DEF vars, runner
    <3> QED BY <3>1 DEF ClosedInv, Open, IsLive
  <2> QED BY <1>4, <2>1, <2>2
<1>5. ASSUME NEW x \in Symbols, NEW n \in 1..MaxBatch, LiveStep(x, n) PROVE Recorded
  BY <1>5, LiveSteps
<1>6. ASSUME NEW x \in Symbols, UserOrder(x) PROVE Recorded BY <1>6, UserOrders
<1>7. ASSUME NEW x \in Symbols, AutoResume(x) PROVE Recorded BY <1>7, Timers
<1>8. ASSUME NEW x \in Symbols, NEW kinds \in Scenarios, NEW timed \in BOOLEAN,
             InjectScenario(x, kinds, timed)
      PROVE  Recorded
  BY <1>8, Scenes
<1> QED BY <1>1, <1>2, <1>3, <1>4, <1>5, <1>6, <1>7, <1>8 DEF Next

LEMMA InitClosed ==
  ASSUME Init
  PROVE  ClosedInv
<1>1. PICK st, e : st = CreateSession(NoSessions, 1) /\ e = Evt("START", Primary, 2) OBVIOUS
<1>2. PICK one \in SessionId : one = 1 BY StoreAssumption DEF SessionId
<1>3. /\ Rows(st) /\ st[one].status = "ACTIVE"
      /\ \A s \in SessionId : s # one => st[s].status = "NONE"
  <2> DEFINE row == [NoSession EXCEPT !.status = "ACTIVE"]
  <2>1. DOMAIN row = Fields /\ row.status = "ACTIVE" /\ DOMAIN NoSession = Fields
        /\ NoSession.status = "NONE"
    BY DEF NoSession, Fields
  <2>2. DOMAIN NoSessions = SessionId /\ \A s \in SessionId : NoSessions[s] = NoSession
    BY DEF NoSessions
  <2>3. st = [NoSessions EXCEPT ![one] = row] BY <1>1, <1>2 DEF CreateSession
  <2> HIDE DEF row
  <2> QED BY <2>1, <2>2, <2>3 DEF Rows
<1>4. store = AppendEvent(st, one, e) /\ active = one /\ mode = "LIVE"
  BY <1>1, <1>2 DEF Init
<1>5. Logged(st, store, one, e) BY <1>3, <1>4, AppendOne
<1>6. \A s \in SessionId : store[s].status = st[s].status BY <1>5 DEF Logged
<1>7. IsLive /\ one \in Open BY <1>4 DEF IsLive, Open
<1>8. ClosedLogs(store, Open) BY <1>3, <1>6, <1>7 DEF ClosedLogs
<1> QED BY <1>3, <1>4, <1>6, <1>8 DEF ClosedInv

\* With one symbol every session that was left is closed, unless a crash cut it: its row
\* says so, and SessionEnded has the highest number of its log.
THEOREM SessionsEndClosed == ~AnyTime /\ SingleSymbol => (Spec => []SessionsClosed)
<1> SUFFICES ASSUME ~AnyTime, SingleSymbol PROVE Spec => []SessionsClosed OBVIOUS
<1> DEFINE Inv == RunnerInv /\ SourcesInv /\ LogInv /\ ClosedInv
<1>1. Init => Inv BY InitOK, InitClosed
<1>2. Inv /\ [Next]_vars => Inv' BY StepsOK, StepsClosed DEF StepOK
<1>3. Inv => SessionsClosed
  <2>1. ASSUME ClosedInv PROVE SessionsClosed
    BY <2>1 DEF ClosedInv, ClosedLogs, Open, SessionsClosed, EndsLog, Seqs
  <2> QED BY <2>1
<1> QED BY <1>1, <1>2, <1>3, PTL DEF Spec

-----------------------------------------------------------------------------
(* With one symbol, and playback controls kept to replays, the runner         *)
(* implements SessionRecords: under the mapping of Session (Records), the     *)
(* initial state is an initial state of the records and every step one of     *)
(* their steps, or none.                                                      *)

\* What is known of every reachable state.
AllInv == RunnerInv /\ SourcesInv /\ LogInv /\ ClosedInv

\* The records as the mapping shows them.
LEMMA MappedLog ==
  ASSUME NEW s \in SessionId
  PROVE  /\ Records!Stays(s) <=> (Phase(s)' = Phase(s) /\ store'[s].events = store[s].events)
         /\ Records!Opens(s) <=> /\ Phase(s) = "new" /\ Phase(s)' = "recording"
                                 /\ DOMAIN store'[s].events # {}
         /\ Records!Records(s) <=> /\ Phase(s) = "recording" /\ Phase(s)' = "recording"
                                   /\ Kept(store[s].events, store'[s].events)
         /\ Records!Closes(s) <=> /\ Phase(s) = "recording" /\ Phase(s)' = "closed"
                                  /\ Kept(store[s].events, store'[s].events)
                                  /\ EndsLog(store'[s].events)
         /\ Records!IsCut(s) <=> /\ Phase(s) = "recording" /\ Phase(s)' = "cut"
                                 /\ Kept(store[s].events, store'[s].events)
BY DEF Records!Stays, Records!Opens, Records!Records, Records!Closes, Records!IsCut,
       Records!Extended, Records!Ended, Kept, EndsLog

\* A session whose row and whose log stay as they are, and that is recorded neither
\* before nor after.
LEMMA NotRecorded ==
  ASSUME NEW s \in SessionId, store'[s] = store[s],
         ~(s = active /\ IsLive), ~(s = active' /\ IsLive')
  PROVE  Records!Stays(s)
<1>1. Phase(s)' = Phase(s) BY DEF Phase
<1> QED BY <1>1, MappedLog

\* The one recorder is the live session.
LEMMA OnlyActive == Records!OneRecorder /\ Records!OneRecorder'
<1>1. \A s \in SessionId : Phase(s) = "recording" => s = active BY DEF Phase
<1>2. \A s \in SessionId : Phase(s)' = "recording" => s = active' BY DEF Phase
<1> QED BY <1>1, <1>2 DEF Records!OneRecorder

\* Recording goes on.
LEMMA GoesOn ==
  ASSUME RunnerInv, RunnerInv', Recorded, LogsKept(store, store')
  PROVE  Records!RNext
<1> SUFFICES ASSUME NEW s \in SessionId PROVE Records!Stays(s) \/ Records!Records(s)
  BY OnlyActive DEF Records!RNext
<1>1. CASE s = active
  <2>1. store[s].status # "NONE" /\ store'[s].status # "NONE" /\ IsLive /\ IsLive' /\ active' = s
    BY <1>1 DEF RunnerInv, Recorded
  <2>2. Phase(s) = "recording" /\ Phase(s)' = "recording" BY <1>1, <2>1 DEF Phase
  <2>3. Kept(store[s].events, store'[s].events) BY DEF LogsKept
  <2> QED BY <2>2, <2>3, MappedLog
<1>2. CASE s # active
  <2>1. store'[s] = store[s] /\ active' = active BY <1>2 DEF Recorded
  <2> QED BY <1>2, <2>1, NotRecorded
<1> QED BY <1>1, <1>2

\* A session that is no longer recorded has been closed, or a crash has cut it.
LEMMA Leaves ==
  ASSUME AllInv, ClosedInv', LogsKept(store, store'), IsLive, NEW s \in SessionId,
         s = active, store'[s].status # "NONE", ~(s = active' /\ IsLive')
  PROVE  Records!Closes(s) \/ Records!IsCut(s)
<1>2. s = active /\ store[s].status # "NONE" BY DEF AllInv, RunnerInv
<1>3. Phase(s) = "recording" BY <1>2 DEF Phase
<1>4. Kept(store[s].events, store'[s].events) BY DEF LogsKept
<1>5. CASE store'[s].status = "STOPPED"
  <2>1. Phase(s)' = "closed" BY <1>2, <1>5 DEF Phase
  <2>2. EndsLog(store'[s].events) BY <1>5 DEF ClosedInv, ClosedLogs
  <2> QED BY <1>2, <1>3, <1>4, <2>1, <2>2, MappedLog
<1>6. CASE store'[s].status # "STOPPED"
  <2>1. Phase(s)' = "cut" BY <1>2, <1>6 DEF Phase
  <2> QED BY <1>2, <1>3, <1>4, <2>1, MappedLog
<1> QED BY <1>5, <1>6

\* From the store that a stop or a crash leaves, either nothing is recorded or a
\* session begins.
LEMMA Ends ==
  ASSUME AllInv, ClosedInv', LogsKept(store, store'), NEW st, Rows(st), RowsFirst(st),
         \A s \in SessionId : (st[s].status = "NONE") <=> (store[s].status = "NONE"),
         ~IsLive => st = store, \A s \in SessionId : s # active => st[s] = store[s],
         Begin(st) \/ (store' = st /\ ~IsLive')
  PROVE  Records!RNext
<1> SUFFICES ASSUME NEW s \in SessionId
             PROVE  \/ Records!Stays(s) \/ Records!Opens(s)
                    \/ Records!Closes(s) \/ Records!IsCut(s)
  BY OnlyActive DEF Records!RNext
<1>1. CASE store' = st /\ ~IsLive'
  <2>1. CASE s = active /\ IsLive
    <3>1. store[s].status # "NONE" BY <2>1 DEF AllInv, RunnerInv
    <3>2. store'[s].status # "NONE" BY <1>1, <3>1
    <3> QED BY <1>1, <2>1, <3>2, Leaves
  <2>2. CASE ~(s = active /\ IsLive)
    <3>1. store'[s] = store[s] BY <1>1, <2>2
    <3> QED BY <1>1, <2>2, <3>1, NotRecorded
  <2> QED BY <2>1, <2>2
<1>2. CASE Begin(st)
  <2>1. /\ active' \in SessionId /\ st[active'].status = "NONE"
        /\ \A t \in SessionId : t # active' => store'[t] = st[t]
        /\ store'[active'].status = "ACTIVE" /\ DOMAIN store'[active'].events = {2}
        /\ mode' = "LIVE"
    BY <1>2, BeginDoes
  <2>2. IsLive' BY <2>1 DEF IsLive
  <2>3. CASE s = active'
    <3>1. store[s].status = "NONE" BY <2>1, <2>3
    <3>2. Phase(s) = "new" BY <3>1 DEF Phase
    <3>3. Phase(s)' = "recording" BY <2>1, <2>2, <2>3 DEF Phase
    <3> QED BY <2>1, <2>3, <3>2, <3>3, MappedLog
  <2>4. CASE s # active' /\ s = active /\ IsLive
    <3>1. store[s].status # "NONE" BY <2>4 DEF AllInv, RunnerInv
    <3>2. store'[s].status # "NONE" BY <2>1, <2>4, <3>1
    <3> QED BY <2>4, <3>2, Leaves
  <2>5. CASE s # active' /\ ~(s = active /\ IsLive)
    <3>1. store'[s] = store[s] BY <2>1, <2>5
    <3> QED BY <2>5, <3>1, NotRecorded
  <2> QED BY <2>3, <2>4, <2>5
<1> QED BY <1>1, <1>2

\* Of the store, a crash in the middle of stop() leaves SessionEnded behind.
LEMMA HalfStopped ==
  ASSUME AllInv, IsLive, NEW st, st = AppendEvent(store, active, Ended)
  PROVE  /\ Rows(st) /\ RowsFirst(st)
         /\ \A s \in SessionId : (st[s].status = "NONE") <=> (store[s].status = "NONE")
         /\ \A s \in SessionId : s # active => st[s] = store[s]
<1>1. PICK e : e = Ended OBVIOUS
<1>2. Rows(store) /\ RowsFirst(store) /\ active \in SessionId /\ store[active].status # "NONE"
  BY DEF AllInv, RunnerInv
<1>3. Logged(store, st, active, e) BY <1>1, <1>2, AppendOne
<1>4. /\ Rows(st) /\ \A s \in SessionId : st[s].status = store[s].status
      /\ \A s \in SessionId : s # active => st[s] = store[s]
  BY <1>3 DEF Logged
<1>5. RowsFirst(st) BY <1>2, <1>4 DEF RowsFirst
<1> QED BY <1>4, <1>5

LEMMA StepRefines ==
  ASSUME ~AnyTime, SingleSymbol, AllInv, [Next]_vars
  PROVE  AllInv' /\ (Records!RNext \/ UNCHANGED Records!rvars)
<1>0. StepOK /\ ClosedInv' BY StepsOK, StepsClosed DEF AllInv
<1>1. AllInv' /\ RunnerInv /\ RunnerInv' /\ LogsKept(store, store')
  BY <1>0 DEF AllInv, StepOK
<1>2. PICK st : st = AfterStop OBVIOUS
<1>3. /\ Rows(st) /\ RowsFirst(st)
      /\ \A s \in SessionId : (st[s].status = "NONE") <=> (store[s].status = "NONE")
      /\ ~IsLive => st = store
      /\ \A s \in SessionId : s # active => st[s] = store[s]
  BY <1>1, <1>2, StopDoes
<1>4. CASE Start
  <2>1. Begin(st) BY <1>2, <1>4 DEF Start
  <2> QED BY <1>0, <1>1, <1>3, <2>1, Ends
<1>5. CASE Stop \/ \E s \in SessionId, n \in Targets : StartReplay(s, n)
  <2>1. store' = st /\ ~IsLive' BY <1>2, <1>5 DEF Stop, StartReplay, IsLive
  <2> QED BY <1>0, <1>1, <1>3, <2>1, Ends
<1>6. CASE Crash
  <2>1. Begin(store) BY <1>6 DEF Crash, CrashAndRestart
  <2>2. Rows(store) /\ RowsFirst(store) BY <1>1 DEF RunnerInv
  <2> QED BY <1>0, <1>1, <2>1, <2>2, Ends
<1>7. CASE CrashInStop
  <2>1. PICK mid : mid = AppendEvent(store, active, Ended) OBVIOUS
  <2>2. IsLive /\ Begin(mid) BY <1>7, <2>1 DEF CrashInStop, CrashAndRestart
  <2> QED BY <1>0, <1>1, <2>1, <2>2, HalfStopped, Ends
<1>8. CASE (\E n \in Targets : Seek(n)) \/ Pause \/ Resume \/ ReplayStep
  <2>1. store' = store /\ ~IsLive /\ ~IsLive' BY <1>1, <1>8, Controls, ReplayGoesOn
  <2>2. \A s \in SessionId : Records!Stays(s) BY <2>1, NotRecorded
  <2> QED BY <1>1, <2>2, OnlyActive DEF Records!RNext
<1>9. CASE Recorded BY <1>1, <1>9, GoesOn
<1>10. CASE UNCHANGED vars
  <2>1. store' = store /\ mode' = mode /\ active' = active BY <1>10 DEF vars, runner
  <2>2. \A s \in SessionId : Phase(s)' = Phase(s) BY <2>1 DEF Phase, IsLive
  <2> QED BY <1>1, <2>1, <2>2 DEF Records!rvars
<1>11. ASSUME NEW x \in Symbols, NEW n \in 1..MaxBatch, LiveStep(x, n) PROVE Recorded
  BY <1>1, <1>11, LiveSteps DEF AllInv
<1>12. ASSUME NEW x \in Symbols, UserOrder(x) PROVE Recorded
  BY <1>1, <1>12, UserOrders DEF AllInv
<1>13. ASSUME NEW x \in Symbols, AutoResume(x) PROVE Recorded BY <1>13, Timers DEF AllInv
<1>14. ASSUME NEW x \in Symbols, NEW kinds \in Scenarios, NEW timed \in BOOLEAN,
              InjectScenario(x, kinds, timed)
       PROVE  Recorded
  BY <1>14, Scenes DEF AllInv
<1> QED BY <1>1, <1>4, <1>5, <1>6, <1>7, <1>8, <1>9, <1>10, <1>11, <1>12, <1>13, <1>14 DEF Next

LEMMA InitRefines ==
  ASSUME Init
  PROVE  AllInv /\ Records!RInit
<1>1. AllInv BY InitOK, InitClosed DEF AllInv
<1>2. PICK one \in SessionId : one = 1 BY StoreAssumption DEF SessionId
<1>3. IsLive /\ active = one BY <1>2 DEF Init, IsLive
<1>4. \A s \in SessionId : s # one => store[s].status = "NONE"
  <2>1. PICK st, e : st = CreateSession(NoSessions, one) /\ e = Evt("START", Primary, 2) OBVIOUS
  <2>2. PICK new : new = store OBVIOUS
  <2>3. new = AppendEvent(st, one, e) BY <1>2, <2>1, <2>2 DEF Init
  <2>4. Rows(st) /\ \A s \in SessionId : s # one => st[s].status = "NONE"
    <3> DEFINE row == [NoSession EXCEPT !.status = "ACTIVE"]
    <3>1. DOMAIN row = Fields /\ DOMAIN NoSession = Fields /\ NoSession.status = "NONE"
      BY DEF NoSession, Fields
    <3>2. DOMAIN NoSessions = SessionId /\ \A s \in SessionId : NoSessions[s] = NoSession
      BY DEF NoSessions
    <3>3. st = [NoSessions EXCEPT ![one] = row] BY <2>1 DEF CreateSession
    <3> HIDE DEF row
    <3> QED BY <3>1, <3>2, <3>3 DEF Rows
  <2>5. Logged(st, new, one, e) BY <2>3, <2>4, AppendOne
  <2> QED BY <2>2, <2>4, <2>5 DEF Logged
<1>5. \A s \in SessionId : Phase(s) = "new" => DOMAIN store[s].events = {}
  BY <1>1 DEF Phase, AllInv, RunnerInv, RowsFirst
<1>6. \A s \in SessionId : Phase(s) \in {"new", "recording"} BY <1>3, <1>4 DEF Phase
<1>7. Records!OneRecorder BY OnlyActive
<1> QED BY <1>1, <1>5, <1>6, <1>7 DEF Records!RInit

\* With one symbol, and playback controls kept to replays, sessions are recorded as the
\* records promise: once, by one recorder, with SessionEnded at the end or cut by a crash,
\* and never changed afterwards.
THEOREM Refinement == ~AnyTime /\ SingleSymbol => (Spec => ImplementsRecords)
<1> SUFFICES ASSUME ~AnyTime, SingleSymbol PROVE Spec => ImplementsRecords OBVIOUS
<1>1. Init => AllInv /\ Records!RInit BY InitRefines
<1>2. AllInv /\ [Next]_vars => AllInv' /\ [Records!RNext]_(Records!rvars) BY StepRefines
<1> QED BY <1>1, <1>2, PTL DEF Spec, ImplementsRecords, Records!RSpec

-----------------------------------------------------------------------------
(* Logs read in the order of their numbers. *)

\* The numbers of S up to n: as many as n's place among them.
UpTo(S, n) == {m \in S : m <= n}

LEMMA Places ==
  ASSUME NEW S \in SUBSET Nat, IsFiniteSet(S)
  PROVE  /\ Cardinality(S) \in Nat
         /\ \A n \in S : Cardinality(UpTo(S, n)) \in 1..Cardinality(S)
         /\ \A m, n \in S : m < n => Cardinality(UpTo(S, m)) < Cardinality(UpTo(S, n))
<1>0. Cardinality(S) \in Nat BY FS_CardinalityType
<1>1. ASSUME NEW n \in S
      PROVE  /\ IsFiniteSet(UpTo(S, n)) /\ Cardinality(UpTo(S, n)) \in Nat
             /\ Cardinality(UpTo(S, n)) <= Cardinality(S)
             /\ n \in UpTo(S, n)
  <2>1. UpTo(S, n) \in SUBSET S /\ n \in UpTo(S, n) BY DEF UpTo
  <2>2. IsFiniteSet(UpTo(S, n)) /\ Cardinality(UpTo(S, n)) <= Cardinality(S)
    BY <2>1, FS_Subset
  <2> QED BY <2>1, <2>2, FS_CardinalityType
<1>2. ASSUME NEW n \in S PROVE Cardinality(UpTo(S, n)) \in 1..Cardinality(S)
  <2>1. Cardinality(UpTo(S, n)) # 0 BY <1>1, FS_EmptySet
  <2> QED BY <1>0, <1>1, <2>1
<1>3. ASSUME NEW m \in S, NEW n \in S, m < n
      PROVE  Cardinality(UpTo(S, m)) < Cardinality(UpTo(S, n))
  <2>0. m \in Nat /\ n \in Nat OBVIOUS
  <2>1. UpTo(S, m) \in SUBSET UpTo(S, n)
    <3>1. \A k \in S : k <= m => k <= n
      <4> SUFFICES ASSUME NEW k \in S, k <= m PROVE k <= n OBVIOUS
      <4>1. k \in Nat OBVIOUS
      <4> QED BY <1>3, <2>0, <4>1
    <3> QED BY <3>1 DEF UpTo
  <2>2. n \notin UpTo(S, m) BY <1>3, <2>0 DEF UpTo
  <2>3. UpTo(S, m) # UpTo(S, n) BY <1>1, <2>2
  <2>4. /\ Cardinality(UpTo(S, m)) <= Cardinality(UpTo(S, n))
        /\ Cardinality(UpTo(S, m)) # Cardinality(UpTo(S, n))
    BY <1>1, <2>1, <2>3, FS_Subset
  <2> QED BY <1>1, <2>4
<1> QED BY <1>0, <1>2, <1>3

\* Every place is taken by one number.
LEMMA NthIs ==
  ASSUME NEW S \in SUBSET Nat, IsFiniteSet(S)
  PROVE  /\ \A k \in 1..Cardinality(S) : Nth(S, k) \in S /\ Cardinality(UpTo(S, Nth(S, k))) = k
         /\ \A n \in S : Nth(S, Cardinality(UpTo(S, n))) = n
<1> DEFINE c == Cardinality(S)
           place == [n \in S |-> Cardinality(UpTo(S, n))]
<1>1. /\ c \in Nat
      /\ \A n \in S : Cardinality(UpTo(S, n)) \in 1..c
      /\ \A m, n \in S : m < n => Cardinality(UpTo(S, m)) < Cardinality(UpTo(S, n))
  BY Places
<1>2. ASSUME NEW m \in S, NEW n \in S, Cardinality(UpTo(S, m)) = Cardinality(UpTo(S, n))
      PROVE  m = n
  <2>1. /\ m \in Nat /\ n \in Nat
        /\ Cardinality(UpTo(S, m)) \in Nat /\ Cardinality(UpTo(S, n)) \in Nat
    BY <1>1
  <2>2. ~(m < n) /\ ~(n < m) BY <1>1, <1>2, <2>1
  <2> QED BY <2>1, <2>2
<1>3. place \in Injection(S, 1..c)
  <2>1. place \in [S -> 1..c] BY <1>1
  <2>2. \A m, n \in S : place[m] = place[n] => m = n BY <1>2
  <2> QED BY <2>1, <2>2 DEF Injection, IsInjective
<1>4. place \in Surjection(S, 1..c)
  <2>1. IsFiniteSet(1..c) /\ Cardinality(1..c) = c BY <1>1, FS_Interval
  <2> QED BY <1>3, <2>1, FS_Injection
<1>5. ASSUME NEW k \in 1..c PROVE Nth(S, k) \in S /\ Cardinality(UpTo(S, Nth(S, k))) = k
  <2>1. PICK n \in S : Cardinality(UpTo(S, n)) = k BY <1>4 DEF Surjection
  <2>2. \E m \in S : Cardinality({l \in S : l <= m}) = k BY <2>1 DEF UpTo
  <2>3. Nth(S, k) \in S /\ Cardinality({l \in S : l <= Nth(S, k)}) = k
    BY <2>2 DEF Nth
  <2> QED BY <2>3 DEF UpTo
<1>6. ASSUME NEW n \in S PROVE Nth(S, Cardinality(UpTo(S, n))) = n BY <1>1, <1>2, <1>5
<1> QED BY <1>5, <1>6

\* The only ascending enumeration of S is Nth.
LEMMA Ascending ==
  ASSUME NEW S \in SUBSET Nat, NEW k \in Nat, NEW g \in [1..k -> S],
         \A i, j \in 1..k : i < j => g[i] < g[j],
         \A n \in S : \E i \in 1..k : g[i] = n
  PROVE  /\ IsFiniteSet(S) /\ Cardinality(S) = k
         /\ \A i \in 1..k : Nth(S, i) = g[i]
<1>0. \A i \in 1..k : g[i] \in Nat
  <2>1. \A i \in 1..k : g[i] \in S OBVIOUS
  <2> QED BY <2>1
<1>1. \A i, j \in 1..k : g[i] = g[j] => i = j
  <2> SUFFICES ASSUME NEW i \in 1..k, NEW j \in 1..k, g[i] = g[j] PROVE i = j OBVIOUS
  <2>1. i \in Nat /\ j \in Nat /\ g[i] \in Nat /\ g[j] \in Nat BY <1>0
  <2>2. ~(i < j) /\ ~(j < i) BY <2>1
  <2> QED BY <2>1, <2>2
<1>2. IsFiniteSet(S) /\ Cardinality(S) = k
  <2>1. g \in Bijection(1..k, S) BY <1>1 DEF Bijection, Injection, Surjection, IsInjective
  <2>2. ExistsBijection(1..k, S) BY <2>1 DEF ExistsBijection
  <2> QED BY <2>2, FS_CountingElements, FS_NatBijection
<1>3. ASSUME NEW i \in 1..k PROVE Nth(S, i) = g[i]
  <2> DEFINE h == [j \in 1..i |-> g[j]]
  <2>0. i \in Nat /\ 1..i \subseteq 1..k /\ i \in 1..i OBVIOUS
  <2>1. \A j \in 1..k : g[j] <= g[i] <=> j <= i
    <3> SUFFICES ASSUME NEW j \in 1..k PROVE g[j] <= g[i] <=> j <= i OBVIOUS
    <3>1. j \in Nat /\ g[j] \in Nat /\ g[i] \in Nat BY <1>0
    <3>2. j < i => g[j] < g[i] OBVIOUS
    <3>3. i < j => g[i] < g[j] OBVIOUS
    <3> QED BY <2>0, <3>1, <3>2, <3>3
  <2>2. h \in [1..i -> UpTo(S, g[i])] BY <2>0, <2>1 DEF UpTo
  <2>3. \A n \in UpTo(S, g[i]) : \E j \in 1..i : h[j] = n
    <3> SUFFICES ASSUME NEW n \in UpTo(S, g[i]) PROVE \E j \in 1..i : h[j] = n OBVIOUS
    <3>1. n \in S /\ n <= g[i] BY DEF UpTo
    <3>2. PICK j \in 1..k : g[j] = n BY <3>1
    <3>3. j <= i BY <2>1, <3>1, <3>2
    <3> QED BY <3>2, <3>3
  <2>4. \A a, b \in 1..i : h[a] = h[b] => a = b BY <1>1, <2>0
  <2>5. h \in Bijection(1..i, UpTo(S, g[i]))
    BY <2>2, <2>3, <2>4 DEF Bijection, Injection, Surjection, IsInjective
  <2>6. ExistsBijection(1..i, UpTo(S, g[i])) BY <2>5 DEF ExistsBijection
  <2>7. Cardinality(UpTo(S, g[i])) = i BY <2>0, <2>6, FS_CountingElements
  <2>8. Nth(S, Cardinality(UpTo(S, g[i]))) = g[i] BY <1>2, NthIs
  <2> QED BY <2>7, <2>8
<1> QED BY <1>2, <1>3

\* The values come each once, in the order of the numbers.
LEMMA OrderedValues ==
  ASSUME NEW f, NEW S \in SUBSET Nat, IsFiniteSet(S)
  PROVE  /\ Cardinality(S) \in Nat /\ DOMAIN InOrder(f, S) = 1..Cardinality(S)
         /\ \A k \in 1..Cardinality(S) : Nth(S, k) \in S /\ InOrder(f, S)[k] = f[Nth(S, k)]
         /\ \A n \in S : \E k \in 1..Cardinality(S) : Nth(S, k) = n
         /\ \A i, j \in 1..Cardinality(S) : i < j => Nth(S, i) < Nth(S, j)
<1>1. /\ Cardinality(S) \in Nat
      /\ \A n \in S : Cardinality(UpTo(S, n)) \in 1..Cardinality(S)
      /\ \A m, n \in S : m < n => Cardinality(UpTo(S, m)) < Cardinality(UpTo(S, n))
  BY Places
<1>2. /\ \A k \in 1..Cardinality(S) : Nth(S, k) \in S /\ Cardinality(UpTo(S, Nth(S, k))) = k
      /\ \A n \in S : Nth(S, Cardinality(UpTo(S, n))) = n
  BY NthIs
<1>3. ASSUME NEW i \in 1..Cardinality(S), NEW j \in 1..Cardinality(S), i < j
      PROVE  Nth(S, i) < Nth(S, j)
  <2>1. PICK m \in S, n \in S : m = Nth(S, i) /\ n = Nth(S, j) BY <1>2
  <2>2. Cardinality(UpTo(S, m)) = i /\ Cardinality(UpTo(S, n)) = j BY <1>2, <2>1
  <2>3. m \in Nat /\ n \in Nat /\ i \in Nat /\ j \in Nat BY <1>1
  <2>4. m # n /\ ~(n < m) BY <1>1, <1>3, <2>2, <2>3
  <2> QED BY <2>1, <2>3, <2>4
<1> QED BY <1>1, <1>2, <1>3 DEF InOrder

\* g lists S in ascending order; then the values of f come along g.
Lists(g, k, S) ==
  /\ g \in [1..k -> S]
  /\ \A i, j \in 1..k : i < j => g[i] < g[j]
  /\ \A n \in S : \E i \in 1..k : g[i] = n

Along(f, g, k) == [i \in 1..k |-> f[g[i]]]

LEMMA OrderedAlong ==
  ASSUME NEW S \in SUBSET Nat, NEW k \in Nat, NEW g, Lists(g, k, S), NEW f
  PROVE  /\ IsFiniteSet(S) /\ Cardinality(S) = k
         /\ InOrder(f, S) = Along(f, g, k)
<1>1. IsFiniteSet(S) /\ Cardinality(S) = k /\ \A i \in 1..k : Nth(S, i) = g[i]
  BY Ascending DEF Lists
<1> QED BY <1>1 DEF InOrder, Along

LEMMA OrderedSeq ==
  ASSUME NEW T, NEW S \in SUBSET Nat, IsFiniteSet(S), NEW f, \A n \in S : f[n] \in T
  PROVE  InOrder(f, S) \in Seq(T) /\ Len(InOrder(f, S)) = Cardinality(S)
<1>1. /\ Cardinality(S) \in Nat
      /\ \A k \in 1..Cardinality(S) : Nth(S, k) \in S
  BY OrderedValues
<1>2. InOrder(f, S) \in [1..Cardinality(S) -> T] BY <1>1 DEF InOrder
<1> QED BY <1>1, <1>2, SeqDef

\* Functions that agree on S have the same values in order.
LEMMA OrderedSame ==
  ASSUME NEW f, NEW h, NEW S \in SUBSET Nat, IsFiniteSet(S), \A n \in S : f[n] = h[n]
  PROVE  InOrder(f, S) = InOrder(h, S)
<1>1. \A k \in 1..Cardinality(S) : Nth(S, k) \in S BY OrderedValues
<1> QED BY <1>1 DEF InOrder

LEMMA OrderedNone ==
  ASSUME NEW f
  PROVE  InOrder(f, {}) = <<>>
<1>1. Cardinality({}) = 0 BY FS_EmptySet
<1>2. 1..0 = {} OBVIOUS
<1>3. InOrder(f, {}) = [k \in {} |-> f[Nth({}, k)]] BY <1>1, <1>2 DEF InOrder
<1> QED BY <1>3

\* A number above the others comes last.
LastAdded(f, S, m) == InOrder(f, S \cup {m}) = Append(InOrder(f, S), f[m])

LEMMA OrderedAppend ==
  ASSUME NEW T, NEW S \in SUBSET Nat, IsFiniteSet(S), NEW f, \A n \in S : f[n] \in T,
         NEW m \in Nat, f[m] \in T, \A n \in S : n < m
  PROVE  IsFiniteSet(S \cup {m}) /\ LastAdded(f, S, m)
<1> DEFINE c == Cardinality(S)
           g == [i \in 1..(c + 1) |-> IF i = c + 1 THEN m ELSE Nth(S, i)]
<1>1. /\ c \in Nat /\ DOMAIN InOrder(f, S) = 1..c
      /\ \A k \in 1..c : Nth(S, k) \in S /\ InOrder(f, S)[k] = f[Nth(S, k)]
      /\ \A n \in S : \E k \in 1..c : Nth(S, k) = n
      /\ \A i, j \in 1..c : i < j => Nth(S, i) < Nth(S, j)
  BY OrderedValues
<1>2. InOrder(f, S) \in Seq(T) /\ Len(InOrder(f, S)) = c BY OrderedSeq
<1> HIDE DEF c
<1>3. \A i \in 1..(c + 1) : i \in 1..c \/ i = c + 1 BY <1>1
<1>4. \A i \in 1..c : i \in 1..(c + 1) /\ i # c + 1 BY <1>1
<1>5. \A i \in 1..c : g[i] = Nth(S, i) BY <1>4
<1>6. g[c + 1] = m /\ c + 1 \in 1..(c + 1) BY <1>1
<1>7. g \in [1..(c + 1) -> S \cup {m}] BY <1>1, <1>3, <1>5, <1>6
<1>8. ASSUME NEW i \in 1..(c + 1), NEW j \in 1..(c + 1), i < j PROVE g[i] < g[j]
  <2>1. i \in 1..c BY <1>1, <1>8
  <2>2. CASE j \in 1..c BY <1>1, <1>5, <1>8, <2>1, <2>2
  <2>3. CASE j = c + 1 BY <1>1, <1>5, <1>6, <2>1, <2>3
  <2> QED BY <1>3, <2>2, <2>3
<1>9. ASSUME NEW n \in S \cup {m} PROVE \E i \in 1..(c + 1) : g[i] = n
  <2>1. CASE n = m BY <1>6, <2>1
  <2>2. CASE n \in S BY <1>1, <1>4, <1>5, <2>2
  <2> QED BY <2>1, <2>2
<1>10. S \cup {m} \in SUBSET Nat /\ c + 1 \in Nat BY <1>1
<1> HIDE DEF g
<1>11. PICK s : s = InOrder(f, S \cup {m}) OBVIOUS
<1>13. IsFiniteSet(S \cup {m}) /\ s = [i \in 1..(c + 1) |-> f[g[i]]]
  <2>1. PICK U \in SUBSET Nat, k \in Nat : U = S \cup {m} /\ k = c + 1 BY <1>10
  <2>2. Lists(g, k, U) BY <1>7, <1>8, <1>9, <2>1 DEF Lists
  <2>3. IsFiniteSet(U) /\ InOrder(f, U) = Along(f, g, k) BY <2>1, <2>2, OrderedAlong
  <2> QED BY <1>11, <2>1, <2>3 DEF Along
<1>12. s = Append(InOrder(f, S), f[m])
  <2>1. PICK r \in Seq(T) : r = InOrder(f, S) BY <1>2
  <2>2. /\ Append(r, f[m]) \in Seq(T) /\ Len(Append(r, f[m])) = c + 1
        /\ \A i \in 1..c : Append(r, f[m])[i] = r[i]
        /\ Append(r, f[m])[c + 1] = f[m]
    BY <1>2, <2>1, AppendProperties
  <2>3. \A i \in 1..c : s[i] = Append(r, f[m])[i] BY <1>1, <1>4, <1>5, <1>13, <2>1, <2>2
  <2>4. s[c + 1] = f[m] BY <1>6, <1>13
  <2>5. Append(r, f[m]) \in [1..(c + 1) -> T] BY <2>2, LenProperties
  <2>6. \A i \in 1..(c + 1) : s[i] = Append(r, f[m])[i] BY <1>3, <2>2, <2>3, <2>4
  <2> QED BY <1>13, <2>1, <2>5, <2>6
<1> QED BY <1>11, <1>12, <1>13 DEF LastAdded

\* The first value is that of the least number, the rest are those of the others.
HasFirst(f, S) ==
  \E m \in S : /\ \A n \in S : m <= n
               /\ InOrder(f, S) # <<>> /\ Head(InOrder(f, S)) = f[m]
               /\ Tail(InOrder(f, S)) = InOrder(f, S \ {m})

LEMMA OrderedFirst ==
  ASSUME NEW T, NEW S \in SUBSET Nat, IsFiniteSet(S), S # {}, NEW f, \A n \in S : f[n] \in T
  PROVE  HasFirst(f, S)
<1> DEFINE c == Cardinality(S)
<1>1. /\ c \in Nat /\ DOMAIN InOrder(f, S) = 1..c
      /\ \A k \in 1..c : Nth(S, k) \in S /\ InOrder(f, S)[k] = f[Nth(S, k)]
      /\ \A n \in S : \E k \in 1..c : Nth(S, k) = n
      /\ \A i, j \in 1..c : i < j => Nth(S, i) < Nth(S, j)
  BY OrderedValues
<1>2. InOrder(f, S) \in Seq(T) /\ Len(InOrder(f, S)) = c BY OrderedSeq
<1>3. c > 0 BY <1>1, FS_EmptySet
<1> HIDE DEF c
<1>4. PICK m \in S : m = Nth(S, 1) BY <1>1, <1>3
<1>5. ASSUME NEW n \in S PROVE m <= n /\ (n # m => m < n)
  <2>1. PICK k \in 1..c : Nth(S, k) = n BY <1>1
  <2>2. 1 \in 1..c /\ (k = 1 \/ 1 < k) BY <1>1, <1>3
  <2>3. n = m \/ m < n BY <1>1, <1>4, <2>1, <2>2
  <2>4. m \in Nat /\ n \in Nat OBVIOUS
  <2> QED BY <2>3, <2>4
<1>6. PICK r \in Seq(T) : r = InOrder(f, S) BY <1>2
<1>7. /\ r # <<>> /\ Head(r) = r[1] /\ Tail(r) \in Seq(T) /\ Len(Tail(r)) = c - 1
      /\ \A i \in 1..(c - 1) : Tail(r)[i] = r[i + 1]
  <2>1. Len(r) = c BY <1>2, <1>6
  <2>2. r # <<>> BY <1>1, <1>3, <2>1
  <2> QED BY <2>1, <2>2, HeadTailProperties
<1>8. Head(r) = f[m]
  <2>1. 1 \in 1..c BY <1>1, <1>3
  <2> QED BY <1>1, <1>4, <1>6, <1>7, <2>1
<1> DEFINE g == [i \in 1..(c - 1) |-> Nth(S, i + 1)]
<1>9. \A i \in 1..(c - 1) : i + 1 \in 1..c /\ 1 < i + 1 /\ 1 \in 1..c BY <1>1, <1>3
<1>10. PICK U \in SUBSET Nat, k \in Nat : U = S \ {m} /\ k = c - 1
  <2>1. S \ {m} \in SUBSET Nat OBVIOUS
  <2>2. c - 1 \in Nat BY <1>1, <1>3
  <2> HIDE DEF g
  <2> QED BY <2>1, <2>2
<1>11. Lists(g, k, U)
  <2>1. ASSUME NEW i \in 1..k PROVE g[i] \in U
    <3>1. i + 1 \in 1..c /\ 1 < i + 1 /\ 1 \in 1..c BY <1>9, <1>10
    <3>2. Nth(S, i + 1) \in S /\ m < Nth(S, i + 1) BY <1>1, <1>4, <3>1
    <3>3. m \in Nat /\ Nth(S, i + 1) # m BY <3>2
    <3> QED BY <1>10, <3>2, <3>3
  <2>2. ASSUME NEW i \in 1..k, NEW j \in 1..k, i < j PROVE g[i] < g[j]
    <3>1. i + 1 \in 1..c /\ j + 1 \in 1..c /\ i + 1 < j + 1 BY <1>9, <1>10, <2>2
    <3> QED BY <1>1, <1>10, <3>1
  <2>3. ASSUME NEW n \in U PROVE \E i \in 1..k : g[i] = n
    <3>1. PICK a \in 1..c : Nth(S, a) = n BY <1>1, <1>10
    <3>2. a # 1 BY <1>4, <1>10, <3>1
    <3>3. a - 1 \in 1..k /\ (a - 1) + 1 = a BY <1>1, <1>10, <3>2
    <3> QED BY <1>10, <3>1, <3>3
  <2>4. g \in [1..k -> U] BY <1>10, <2>1
  <2> QED BY <2>2, <2>3, <2>4 DEF Lists

<1>12. InOrder(f, U) = [i \in 1..k |-> f[g[i]]]
  <2> HIDE DEF g
  <2>1. InOrder(f, U) = Along(f, g, k) BY <1>11, OrderedAlong
  <2> QED BY <2>1 DEF Along
<1>13. Tail(r) = InOrder(f, U)
  <2>1. Tail(r) \in [1..k -> T] BY <1>7, <1>10, LenProperties
  <2>2. \A i \in 1..k : Tail(r)[i] = f[g[i]]
    <3> SUFFICES ASSUME NEW i \in 1..k PROVE Tail(r)[i] = f[g[i]] OBVIOUS
    <3>1. i + 1 \in 1..c BY <1>9, <1>10
    <3>2. Tail(r)[i] = r[i + 1] BY <1>7, <1>10
    <3>3. g[i] = Nth(S, i + 1) BY <1>10
    <3> QED BY <1>1, <1>6, <3>1, <3>2, <3>3
  <2> HIDE DEF g
  <2> QED BY <1>12, <2>1, <2>2
<1> QED BY <1>5, <1>6, <1>7, <1>8, <1>10, <1>13 DEF HasFirst

\* The first k values are those of the numbers up to some number.
FirstBelow(f, S, k) == \E u \in Nat : SubSeq(InOrder(f, S), 1, k) = InOrder(f, UpTo(S, u))

LEMMA OrderedPrefix ==
  ASSUME NEW T, NEW S \in SUBSET (Nat \ {0}), IsFiniteSet(S), NEW f, \A n \in S : f[n] \in T,
         NEW k \in Nat, k <= Cardinality(S)
  PROVE  FirstBelow(f, S, k)
<1> SUFFICES \E u \in Nat : SubSeq(InOrder(f, S), 1, k) = InOrder(f, UpTo(S, u))
  BY DEF FirstBelow
<1> DEFINE c == Cardinality(S)
<1>0. S \in SUBSET Nat OBVIOUS
<1>1. /\ c \in Nat /\ DOMAIN InOrder(f, S) = 1..c
      /\ \A i \in 1..c : Nth(S, i) \in S /\ InOrder(f, S)[i] = f[Nth(S, i)]
      /\ \A n \in S : \E i \in 1..c : Nth(S, i) = n
      /\ \A i, j \in 1..c : i < j => Nth(S, i) < Nth(S, j)
  BY <1>0, OrderedValues
<1>2. k <= c OBVIOUS
<1> HIDE DEF c
<1>3. CASE k = 0
  <2>1. UpTo(S, 0) = {}
    <3>1. \A n \in S : ~(n <= 0)
      <4> SUFFICES ASSUME NEW n \in S PROVE ~(n <= 0) OBVIOUS
      <4>1. n \in Nat \ {0} OBVIOUS
      <4> QED BY <4>1
    <3> QED BY <3>1 DEF UpTo
  <2>2. PICK r : r = InOrder(f, S) OBVIOUS
  <2>3. SubSeq(r, 1, 0) = <<>> BY SubSeqEmpty
  <2> QED BY <1>3, <2>1, <2>2, <2>3, OrderedNone
<1>4. CASE k # 0
  <2>1. k \in 1..c /\ \A i \in 1..k : i \in 1..c /\ (i = k \/ i < k) BY <1>1, <1>2, <1>4
  <2>2. PICK u \in S : u = Nth(S, k) BY <1>1, <2>1
  <2>3. PICK U \in SUBSET Nat : U = UpTo(S, u) BY DEF UpTo
  <2> DEFINE g == [i \in 1..k |-> Nth(S, i)]
  <2>4. Lists(g, k, U)
    <3>1. ASSUME NEW i \in 1..k PROVE Nth(S, i) \in U
      <4>1. Nth(S, i) \in S /\ (Nth(S, i) = u \/ Nth(S, i) < u) BY <1>1, <2>1, <2>2
      <4>2. Nth(S, i) \in Nat /\ u \in Nat BY <4>1
      <4>3. Nth(S, i) <= u BY <4>1, <4>2
      <4> QED BY <2>3, <4>1, <4>3 DEF UpTo
    <3>2. ASSUME NEW n \in U PROVE \E i \in 1..k : Nth(S, i) = n
      <4>1. n \in S /\ n <= u BY <2>3 DEF UpTo
      <4>2. PICK i \in 1..c : Nth(S, i) = n BY <1>1, <4>1
      <4>3. n \in Nat /\ u \in Nat /\ i \in Nat BY <4>1
      <4>4. k < i => u < n BY <1>1, <2>1, <2>2, <4>2
      <4>5. i \in 1..k BY <4>1, <4>3, <4>4
      <4> QED BY <4>2, <4>5
    <3>3. ASSUME NEW i \in 1..k, NEW j \in 1..k, i < j PROVE Nth(S, i) < Nth(S, j)
      BY <1>1, <2>1, <3>3
    <3> QED BY <3>1, <3>2, <3>3 DEF Lists
  <2>5. PICK r \in Seq(T) : r = InOrder(f, S) BY <1>0, OrderedSeq
  <2>6. PICK one \in Int : one = 1 OBVIOUS
  <2>7. \A i \in one..k : r[i] \in T
    <3> SUFFICES ASSUME NEW i \in 1..k PROVE r[i] \in T BY <2>6
    <3>1. i \in 1..c BY <2>1
    <3> QED BY <1>1, <2>5, <3>1
  <2>8. /\ SubSeq(r, 1, k) \in Seq(T) /\ Len(SubSeq(r, 1, k)) = k
        /\ \A i \in 1..k : SubSeq(r, 1, k)[i] = r[i]
    <3>1. /\ SubSeq(r, one, k) \in Seq(T)
          /\ Len(SubSeq(r, one, k)) = IF one <= k THEN k - one + 1 ELSE 0
          /\ \A i \in 1..(k - one + 1) : SubSeq(r, one, k)[i] = r[one + i - 1]
      BY <2>7, SubSeqProperties
    <3>2. k - one + 1 = k /\ one <= k BY <2>1, <2>6
    <3>3. \A i \in 1..k : one + i - 1 = i BY <2>6
    <3> QED BY <2>6, <3>1, <3>2, <3>3
  <2>9. SubSeq(r, 1, k) \in [1..k -> T] BY <2>8, LenProperties
  <2>10. \A i \in 1..k : SubSeq(r, 1, k)[i] = f[g[i]] BY <1>1, <2>1, <2>5, <2>8
  <2>11. InOrder(f, U) = [i \in 1..k |-> f[g[i]]]
    <3> HIDE DEF g
    <3>1. InOrder(f, U) = Along(f, g, k) BY <2>4, OrderedAlong
    <3> QED BY <3>1 DEF Along
  <2>12. SubSeq(r, 1, k) = InOrder(f, U)
    <3> HIDE DEF g
    <3> QED BY <2>9, <2>10, <2>11
  <2> QED BY <2>2, <2>3, <2>5, <2>12
<1> QED BY <1>3, <1>4

-----------------------------------------------------------------------------
(* What the store holds, and the totals of its rows. *)

LogOK(log) ==
  /\ IsFiniteSet(DOMAIN log) /\ DOMAIN log \subseteq Nat \ {0}
  /\ \A n \in DOMAIN log : log[n] \in Event /\ log[n].seq = n

\* The numbers of the events before the session's end.
Others(log) == {n \in DOMAIN log : log[n].kind # "END"}

\* The total of a session that was not stopped is above its numbers, that of a
\* stopped one counts the others at least.
RowOK(r) ==
  /\ LogOK(r.events) /\ r.total \in Nat /\ r.status \in {"NONE", "ACTIVE", "STOPPED"}
  /\ r.status = "ACTIVE" => \A n \in DOMAIN r.events : n <= r.total
  /\ r.status = "STOPPED" => Cardinality(Others(r.events)) <= r.total
RowsOK(st) == Rows(st) /\ \A s \in SessionId : RowOK(st[s])

\* log2 is log with the events of es.
With(log, log2, es) ==
  /\ DOMAIN log2 = DOMAIN log \cup {es[i].seq : i \in DOMAIN es}
  /\ \A i \in DOMAIN es : log2[es[i].seq] = es[i]
  /\ \A n \in DOMAIN log : n \notin {es[i].seq : i \in DOMAIN es} => log2[n] = log[n]

LEMMA LogWith ==
  ASSUME NEW log, LogOK(log), NEW es \in Seq(Event), NEW log2, With(log, log2, es)
  PROVE  LogOK(log2)
<1>0. /\ DOMAIN log2 = DOMAIN log \cup {es[i].seq : i \in DOMAIN es}
      /\ \A i \in DOMAIN es : log2[es[i].seq] = es[i]
      /\ \A n \in DOMAIN log : n \notin {es[i].seq : i \in DOMAIN es} => log2[n] = log[n]
  BY DEF With
<1> DEFINE new == {es[i].seq : i \in DOMAIN es}
<1>1. \A i \in DOMAIN es : es[i] \in Event /\ es[i].seq \in Nat \ {0}
  <2> SUFFICES ASSUME NEW i \in DOMAIN es PROVE es[i] \in Event /\ es[i].seq \in Nat \ {0}
    OBVIOUS
  <2>1. es[i] \in Event BY ElementOfSeq
  <2> QED BY <2>1 DEF Event
<1>2. IsFiniteSet(new)
  <2>1. DOMAIN es = 1..Len(es) /\ Len(es) \in Nat BY LenProperties
  <2>2. IsFiniteSet(DOMAIN es) BY <2>1, FS_Interval
  <2> DEFINE g == [i \in DOMAIN es |-> es[i].seq]
  <2>3. g \in Surjection(DOMAIN es, new) BY DEF Surjection
  <2> QED BY <2>2, <2>3, FS_Surjection
<1>3. IsFiniteSet(DOMAIN log2)
  <2>1. IsFiniteSet(DOMAIN log) BY DEF LogOK
  <2>2. IsFiniteSet(DOMAIN log \cup new)
    <3> HIDE DEF new
    <3> QED BY <1>2, <2>1, FS_Union
  <2> QED BY <1>0, <2>2
<1>4. DOMAIN log2 \subseteq Nat \ {0} BY <1>0, <1>1 DEF LogOK
<1>5. ASSUME NEW n \in DOMAIN log2 PROVE log2[n] \in Event /\ log2[n].seq = n
  <2>1. CASE n \in new BY <1>0, <1>1, <2>1
  <2>2. CASE n \notin new BY <1>0, <2>2 DEF LogOK
  <2> QED BY <2>1, <2>2
<1> QED BY <1>3, <1>4, <1>5 DEF LogOK

\* A number above the total becomes the total.
LEMMA RowAppended ==
  ASSUME NEW st, RowsOK(st), NEW s \in SessionId, st[s].status = "ACTIVE", NEW e \in Event,
         NEW new, new = AppendEvent(st, s, e)
  PROVE  RowsOK(new)
<1>1. Rows(st) BY DEF RowsOK
<1>2. Logged(st, new, s, e) BY <1>1, AppendOne
<1>3. LogOK(new[s].events)
  <2>1. PICK es \in Seq(Event) : es = <<e>> /\ DOMAIN es = {1} /\ es[1] = e
    <3>1. <<e>> \in Seq(Event) /\ DOMAIN <<e>> = {1} /\ <<e>>[1] = e OBVIOUS
    <3> QED BY <3>1
  <2>2. {es[i].seq : i \in DOMAIN es} = {e.seq} BY <2>1
  <2>3. LogOK(st[s].events) BY DEF RowsOK, RowOK
  <2>4. PICK log, log2 : log = st[s].events /\ log2 = new[s].events OBVIOUS
  <2>5. With(log, log2, es) BY <1>2, <2>1, <2>2, <2>4 DEF Logged, With
  <2> QED BY <2>3, <2>4, <2>5, LogWith
<1>4. /\ new[s].total = IF st[s].total < e.seq THEN e.seq ELSE st[s].total
      /\ new[s].status = "ACTIVE"
  <2> DEFINE f == [n \in DOMAIN st[s].events \cup {e.seq} |->
                     IF n = e.seq THEN e ELSE st[s].events[n]]
  <2>1. new = [st EXCEPT ![s].events = f, ![s].total = IF @ < e.seq THEN e.seq ELSE @]
    BY DEF AppendEvent
  <2> HIDE DEF f
  <2> QED BY <1>1, <2>1 DEF Rows, Fields
<1>5. RowOK(new[s])
  <2>1. e.seq \in Nat \ {0} BY DEF Event
  <2>2. st[s].total \in Nat /\ \A n \in DOMAIN st[s].events : n \in Nat /\ n <= st[s].total
    BY DEF RowsOK, RowOK, LogOK
  <2>3. new[s].total \in Nat /\ st[s].total <= new[s].total /\ e.seq <= new[s].total
    BY <1>4, <2>1, <2>2
  <2>4. \A n \in DOMAIN new[s].events : n \in DOMAIN st[s].events \/ n = e.seq
    BY <1>2 DEF Logged
  <2>5. ASSUME NEW n \in DOMAIN new[s].events PROVE n <= new[s].total
    BY <2>1, <2>2, <2>3, <2>4
  <2> QED BY <1>3, <1>4, <2>3, <2>5 DEF RowOK
<1>6. \A t \in SessionId : t # s => RowOK(new[t]) BY <1>2 DEF Logged, RowsOK
<1> QED BY <1>2, <1>5, <1>6 DEF RowsOK, Logged

LEMMA RowsAppended ==
  ASSUME NEW st, RowsOK(st), NEW s \in SessionId, st[s].status = "ACTIVE",
         NEW es \in Seq(Event), es # <<>>, NEW from \in Nat, NumberedFrom(es, from),
         NEW new, new = AppendEvents(st, s, es)
  PROVE  RowsOK(new)
<1>1. Rows(st) BY DEF RowsOK
<1>2. DOMAIN es = 1..Len(es) /\ Len(es) \in Nat \ {0}
  <2>1. DOMAIN es = 1..Len(es) /\ Len(es) \in Nat BY LenProperties
  <2>2. Len(es) # 0 BY EmptySeq
  <2> QED BY <2>1, <2>2
<1>3. \A i \in DOMAIN es : es[i].seq = from + i - 1 BY DEF NumberedFrom
<1>4. \A i, j \in DOMAIN es : es[i].seq = es[j].seq => i = j BY <1>2, <1>3
<1>5. AllLogged(st, new, s, es) BY <1>1, <1>4, AppendMany
<1>6. LogOK(new[s].events)
  <2>1. LogOK(st[s].events) BY DEF RowsOK, RowOK
  <2>2. PICK log, log2 : log = st[s].events /\ log2 = new[s].events OBVIOUS
  <2>3. With(log, log2, es) BY <1>5, <2>2 DEF AllLogged, With
  <2> QED BY <2>1, <2>2, <2>3, LogWith
<1>7. PICK last \in Nat :
        /\ last = es[Len(es)].seq
        /\ \A i \in DOMAIN es : es[i].seq \in Nat /\ es[i].seq <= last
  <2>1. Len(es) \in DOMAIN es BY <1>2
  <2>2. es[Len(es)].seq = from + Len(es) - 1 BY <1>3, <2>1
  <2>3. from + Len(es) - 1 \in Nat BY <1>2
  <2>4. \A i \in DOMAIN es : es[i].seq \in Nat /\ es[i].seq <= from + Len(es) - 1
    BY <1>2, <1>3
  <2> QED BY <2>2, <2>3, <2>4
<1>8. /\ new[s].total = IF st[s].total < last THEN last ELSE st[s].total
      /\ new[s].status = "ACTIVE"
  <2> DEFINE f == [n \in DOMAIN st[s].events \cup {es[i].seq : i \in DOMAIN es} |->
                     IF n \in {es[i].seq : i \in DOMAIN es}
                     THEN es[CHOOSE i \in DOMAIN es : es[i].seq = n] ELSE st[s].events[n]]
  <2>1. new = [st EXCEPT ![s].events = f, ![s].total = IF @ < last THEN last ELSE @]
    BY <1>7 DEF AppendEvents
  <2> HIDE DEF f
  <2> QED BY <1>1, <2>1 DEF Rows, Fields
<1>9. RowOK(new[s])
  <2>1. st[s].total \in Nat /\ \A n \in DOMAIN st[s].events : n \in Nat /\ n <= st[s].total
    BY DEF RowsOK, RowOK, LogOK
  <2>2. new[s].total \in Nat /\ st[s].total <= new[s].total /\ last <= new[s].total
    BY <1>8, <2>1
  <2>3. \A n \in DOMAIN new[s].events :
          n \in DOMAIN st[s].events \/ n \in {es[i].seq : i \in DOMAIN es}
    BY <1>5 DEF AllLogged
  <2>4. ASSUME NEW n \in DOMAIN new[s].events PROVE n <= new[s].total
    <3>1. CASE n \in DOMAIN st[s].events BY <2>1, <2>2, <3>1
    <3>2. CASE n \in {es[i].seq : i \in DOMAIN es} BY <1>7, <2>2, <3>2
    <3> QED BY <2>3, <3>1, <3>2
  <2> QED BY <1>6, <1>8, <2>2, <2>4 DEF RowOK
<1>10. \A t \in SessionId : t # s => RowOK(new[t]) BY <1>5 DEF AllLogged, RowsOK
<1> QED BY <1>5, <1>9, <1>10 DEF RowsOK, AllLogged

\* stop() counts the log before SessionEnded: its other events are no more.
LEMMA RowClosed ==
  ASSUME NEW st, RowsOK(st), NEW s \in SessionId, st[s].status = "ACTIVE",
         NEW e \in Event, e.kind = "END", NEW mid, mid = AppendEvent(st, s, e),
         NEW new, new = UpdateSession(mid, s, "STOPPED", CountEvents(st, s) + 1)
  PROVE  RowsOK(new)
<1>1. Rows(st) BY DEF RowsOK
<1>2. Logged(st, mid, s, e) /\ RowsOK(mid) BY <1>1, AppendOne, RowAppended
<1>3. Rows(mid) BY <1>2 DEF RowsOK
<1>4. PICK total : total = CountEvents(st, s) + 1 OBVIOUS
<1>5. PICK stopped : stopped = "STOPPED" OBVIOUS
<1>6. /\ Rows(new) /\ \A t \in SessionId : new[t].events = mid[t].events
      /\ new[s].status = stopped /\ \A t \in SessionId : t # s => new[t] = mid[t]
  <2>1. new = UpdateSession(mid, s, stopped, total) BY <1>4, <1>5
  <2> QED BY <1>3, <2>1, Updated
<1>7. new[s].total = total
  <2>1. new = [mid EXCEPT ![s].status = "STOPPED", ![s].total = total]
    BY <1>4 DEF UpdateSession
  <2> QED BY <1>3, <2>1 DEF Rows, Fields
<1>8. Others(new[s].events) \subseteq DOMAIN st[s].events
  BY <1>2, <1>6 DEF Others, Logged
<1>9. IsFiniteSet(DOMAIN st[s].events) BY DEF RowsOK, RowOK, LogOK
<1>10. /\ Cardinality(DOMAIN st[s].events) \in Nat
       /\ IsFiniteSet(Others(new[s].events)) /\ Cardinality(Others(new[s].events)) \in Nat
       /\ Cardinality(Others(new[s].events)) <= Cardinality(DOMAIN st[s].events)
  BY <1>8, <1>9, FS_Subset, FS_CardinalityType
<1>11. total \in Nat /\ Cardinality(Others(new[s].events)) <= total
  BY <1>4, <1>10 DEF CountEvents, Seqs
<1>12. RowOK(new[s])
  <2>1. LogOK(new[s].events) BY <1>2, <1>6 DEF RowsOK, RowOK
  <2> QED BY <1>5, <1>6, <1>7, <1>11, <2>1 DEF RowOK
<1>13. \A t \in SessionId : t # s => RowOK(new[t]) BY <1>2, <1>6 DEF RowsOK
<1> QED BY <1>6, <1>12, <1>13 DEF RowsOK

LEMMA RowCreated ==
  ASSUME NEW st, RowsOK(st), NEW s \in SessionId
  PROVE  /\ RowsOK(CreateSession(st, s)) /\ CreateSession(st, s)[s].status = "ACTIVE"
         /\ \A t \in SessionId : t # s => CreateSession(st, s)[t] = st[t]
<1> DEFINE row == [NoSession EXCEPT !.status = "ACTIVE"]
<1>1. /\ DOMAIN row = Fields /\ row.status = "ACTIVE" /\ row.total = 0
      /\ DOMAIN row.events = {}
  BY DEF NoSession, Fields
<1>2. CreateSession(st, s) = [st EXCEPT ![s] = row] BY DEF CreateSession
<1>3. LogOK(row.events) BY <1>1, FS_EmptySet DEF LogOK
<1>4. RowOK(row) BY <1>1, <1>3 DEF RowOK
<1> HIDE DEF row
<1> QED BY <1>1, <1>2, <1>4 DEF RowsOK, Rows

StoreInv == RowsOK(store) /\ (IsLive => store[active].status = "ACTIVE")

LEMMA EndedIsEvent ==
  ASSUME SourcesInv
  PROVE  Ended \in Event /\ Ended.kind = "END"
<1>1. PICK x \in Symbols, n \in Nat \ {0} : x = Primary /\ n = sources[x].next
  BY PrimaryIsSymbol DEF SourcesInv, SourcesOK, SourceOK
<1>2. Ended = Evt("END", x, n) BY <1>1 DEF Ended
<1>3. "END" \in Kind BY DEF Kind
<1> QED BY <1>1, <1>2, <1>3 DEF Evt, Event

LEMMA StopRows ==
  ASSUME RunnerInv, SourcesInv, StoreInv, NEW st, st = AfterStop
  PROVE  RowsOK(st)
<1>1. CASE ~IsLive BY <1>1, StopDoes DEF StoreInv
<1>2. CASE IsLive
  <2>1. PICK e, mid : e = Ended /\ mid = AppendEvent(store, active, e) OBVIOUS
  <2>2. st = UpdateSession(mid, active, "STOPPED", CountEvents(store, active) + 1)
    BY <1>2, <2>1 DEF AfterStop, Closed
  <2>3. active \in SessionId /\ RowsOK(store) /\ store[active].status = "ACTIVE"
    BY <1>2 DEF RunnerInv, StoreInv
  <2>4. e \in Event /\ e.kind = "END" BY <2>1, EndedIsEvent
  <2>5. PICK old, s : old = store /\ s = active OBVIOUS
  <2> QED BY <2>1, <2>2, <2>3, <2>4, <2>5, RowClosed
<1> QED BY <1>1, <1>2

LEMMA BeginRows ==
  ASSUME NEW st, RowsOK(st), Begin(st)
  PROVE  RowsOK(store') /\ store'[active'].status = "ACTIVE"
<1>1. PICK s : s = Min(Unused(st)) OBVIOUS
<1>2. Unused(st) # {} /\ Unused(st) \subseteq SessionId BY DEF Begin, Unused
<1>3. s \in SessionId BY <1>1, <1>2, FirstSession
<1>4. PICK mid : mid = CreateSession(st, s) OBVIOUS
<1>5. PICK e : e = Evt("START", Primary, NewSources[Primary].next) OBVIOUS
<1>6. store' = AppendEvent(mid, s, e) /\ active' = s BY <1>1, <1>4, <1>5 DEF Begin
<1>7. e \in Event
  <2>1. NewSources[Primary].next = 2 BY PrimaryIsSymbol DEF NewSources
  <2>2. "START" \in Kind /\ 2 \in Nat \ {0} BY DEF Kind
  <2> QED BY <1>5, <2>1, <2>2, PrimaryIsSymbol DEF Evt, Event
<1>8. RowsOK(mid) /\ mid[s].status = "ACTIVE" BY <1>3, <1>4, RowCreated
<1>9. PICK new : new = store' OBVIOUS
<1>10. RowsOK(new) BY <1>3, <1>6, <1>7, <1>8, <1>9, RowAppended
<1>11. Logged(mid, new, s, e) BY <1>3, <1>6, <1>8, <1>9, AppendOne DEF RowsOK
<1> QED BY <1>3, <1>6, <1>8, <1>9, <1>10, <1>11 DEF Logged

\* What is recorded keeps the rows as they should be.
LEMMA OneRecorded ==
  ASSUME RunnerInv, StoreInv, Recorded, NEW e \in Event, store' = AppendEvent(store, active, e)
  PROVE  StoreInv'
<1>1. active \in SessionId /\ RowsOK(store) /\ store[active].status = "ACTIVE"
  BY DEF RunnerInv, StoreInv, Recorded
<1>2. PICK old, s, new : old = store /\ s = active /\ new = store' OBVIOUS
<1>3. RowsOK(new) BY <1>1, <1>2, RowAppended
<1> QED BY <1>1, <1>2, <1>3 DEF StoreInv, Recorded

LEMMA ManyRecorded ==
  ASSUME RunnerInv, StoreInv, Recorded, NEW es \in Seq(Event), es # <<>>,
         NEW from \in Nat, NumberedFrom(es, from), store' = AppendEvents(store, active, es)
  PROVE  StoreInv'
<1>1. active \in SessionId /\ RowsOK(store) /\ store[active].status = "ACTIVE"
  BY DEF RunnerInv, StoreInv, Recorded
<1>2. PICK old, s, new : old = store /\ s = active /\ new = store' OBVIOUS
<1>3. RowsOK(new) BY <1>1, <1>2, RowsAppended
<1> QED BY <1>1, <1>2, <1>3 DEF StoreInv, Recorded

\* The events a handler logs.
LEMMA ScenarioEvents ==
  ASSUME SourcesInv, NEW x \in Symbols, NEW kinds \in Scenarios,
         NEW drawn, drawn = Allocated(sources, x, Len(kinds))
  PROVE  /\ kinds \in Seq(Kind) /\ Len(kinds) \in {1, 2} /\ SourcesOK(drawn)
         /\ drawn[x].next \in Nat /\ drawn[x].next = sources[x].next + Len(kinds)
         /\ drawn[x].queue = sources[x].queue
         /\ Copies(drawn, x, kinds) \in Seq(Event) /\ Copies(drawn, x, kinds) # <<>>
         /\ DOMAIN Copies(drawn, x, kinds) = 1..Len(kinds)
         /\ NumberedFrom(Copies(drawn, x, kinds), drawn[x].next)
<1>1. kinds \in Seq(Kind) /\ Len(kinds) \in {1, 2}
  <2>1. kinds \in {<<"NEWS">>, <<"HALT">>, <<"RESUME">>, <<"NEWS", "HALT">>}
    BY SessionAssumption
  <2>2. "NEWS" \in Kind /\ "HALT" \in Kind /\ "RESUME" \in Kind BY DEF Kind
  <2>3. \A a, b \in Kind : /\ <<a>> \in Seq(Kind) /\ <<a, b>> \in Seq(Kind)
                           /\ Len(<<a>>) = 1 /\ Len(<<a, b>>) = 2
    OBVIOUS
  <2>4. CASE kinds = <<"NEWS", "HALT">> BY <2>2, <2>3, <2>4
  <2>5. CASE kinds = <<"NEWS">> BY <2>2, <2>3, <2>5
  <2>6. CASE kinds = <<"HALT">> BY <2>2, <2>3, <2>6
  <2>7. CASE kinds = <<"RESUME">> BY <2>2, <2>3, <2>7
  <2> QED BY <2>1, <2>4, <2>5, <2>6, <2>7
<1>2. SourcesOK(sources) /\ Len(kinds) \in Nat BY <1>1 DEF SourcesInv
<1>3. SourcesOK(drawn) /\ drawn[x].next = sources[x].next + Len(kinds)
      /\ drawn[x].queue = sources[x].queue
  BY <1>2, AllocatedDoes
<1>4. drawn[x].next \in Nat BY <1>3 DEF SourcesOK, SourceOK
<1>5. PICK es : es = Copies(drawn, x, kinds) OBVIOUS
<1>6. /\ es \in Seq(Event) /\ DOMAIN es = 1..Len(kinds)
      /\ \A i \in 1..Len(kinds) : es[i].seq = drawn[x].next + i - 1
  BY <1>1, <1>3, <1>5, CopiesAre
<1>7. es # <<>>
  <2>1. 1 \in DOMAIN es BY <1>1, <1>6
  <2>2. 1 \notin DOMAIN <<>> OBVIOUS
  <2> QED BY <2>1, <2>2
<1>8. NumberedFrom(es, drawn[x].next) BY <1>6 DEF NumberedFrom
<1> QED BY <1>1, <1>3, <1>4, <1>5, <1>6, <1>7, <1>8

LEMMA OrderEvents ==
  ASSUME SourcesInv, NEW x \in Symbols, NEW next, next = sources[x].next,
         NEW es, es = <<Evt("ORDER", x, next), Evt("MARKET", x, next + 1)>>
  PROVE  /\ next \in Nat \ {0} /\ es \in Seq(Event) /\ es # <<>> /\ DOMAIN es = {1, 2}
         /\ NumberedFrom(es, next)
         /\ es[1] = Evt("ORDER", x, next) /\ es[2] = Evt("MARKET", x, next + 1)
<1>1. PICK a, b : a = Evt("ORDER", x, next) /\ b = Evt("MARKET", x, next + 1) OBVIOUS
<1>2. next \in Nat \ {0} /\ next + 1 \in Nat \ {0} BY DEF SourcesInv, SourcesOK, SourceOK
<1>3. "ORDER" \in Kind /\ "MARKET" \in Kind BY DEF Kind
<1>4. a \in Event /\ b \in Event BY <1>1, <1>2, <1>3 DEF Evt, Event
<1>5. es = <<a, b>> BY <1>1
<1>6. es \in Seq(Event) /\ DOMAIN es = {1, 2} /\ es[1] = a /\ es[2] = b /\ es # <<>>
  BY <1>4, <1>5
<1>7. a.seq = next /\ b.seq = next + 1 BY <1>1 DEF Evt
<1>8. NumberedFrom(es, next)
  <2>1. next + 1 - 1 = next /\ next + 2 - 1 = next + 1 BY <1>2
  <2> QED BY <1>6, <1>7, <2>1 DEF NumberedFrom
<1> QED BY <1>1, <1>2, <1>6, <1>8

LEMMA StepsStored ==
  ASSUME ~AnyTime, RunnerInv, SourcesInv, StoreInv, [Next]_vars
  PROVE  StoreInv'
<1>0. RowsOK(store) BY DEF StoreInv
<1>1. PICK st : st = AfterStop OBVIOUS
<1>2. RowsOK(st) BY <1>1, StopRows
<1>3. CASE Start
  <2>1. Begin(st) BY <1>1, <1>3 DEF Start
  <2> QED BY <1>2, <2>1, BeginRows DEF StoreInv
<1>4. CASE Stop BY <1>1, <1>2, <1>4 DEF Stop, StoreInv, IsLive
<1>5. CASE Crash
  <2>1. Begin(store) BY <1>5 DEF Crash, CrashAndRestart
  <2> QED BY <1>0, <2>1, BeginRows DEF StoreInv
<1>6. CASE CrashInStop
  <2>1. PICK e, mid : e = Ended /\ mid = AppendEvent(store, active, e) OBVIOUS
  <2>2. Begin(mid) /\ IsLive BY <1>6, <2>1 DEF CrashInStop, CrashAndRestart
  <2>3. PICK old, s : old = store /\ s = active OBVIOUS
  <2>4. s \in SessionId /\ RowsOK(old) /\ old[s].status = "ACTIVE"
    BY <2>2, <2>3 DEF RunnerInv, StoreInv
  <2>5. e \in Event BY <2>1, EndedIsEvent
  <2>6. RowsOK(mid) BY <2>1, <2>3, <2>4, <2>5, RowAppended
  <2> QED BY <2>2, <2>6, BeginRows DEF StoreInv
<1>7. ASSUME NEW s \in SessionId, NEW n \in Targets, StartReplay(s, n) PROVE StoreInv'
  BY <1>1, <1>2, <1>7 DEF StartReplay, StoreInv, IsLive
<1>8. CASE (\E n \in Targets : Seek(n)) \/ Pause \/ Resume \/ ReplayStep
  <2>1. store' = store /\ ~IsLive' BY <1>8, Controls, ReplayGoesOn
  <2> QED BY <2>1 DEF StoreInv
<1>9. ASSUME NEW x \in Symbols, NEW n \in 1..MaxBatch, LiveStep(x, n) PROVE StoreInv'
  <2>1. Recorded BY <1>9, LiveSteps
  <2>2. PICK e : e = Head(sources[x].queue) OBVIOUS
  <2>3. store' = AppendEvent(store, active, e) BY <1>9, <2>2 DEF LiveStep
  <2>4. e \in Event
    <3>1. sources[x].queue \in Seq(Event) /\ sources[x].queue # <<>>
      BY DEF SourcesInv, SourcesOK, SourceOK
    <3> QED BY <2>2, <3>1, HeadTailProperties
  <2> QED BY <2>1, <2>3, <2>4, OneRecorded
<1>10. ASSUME NEW x \in Symbols, UserOrder(x) PROVE StoreInv'
  <2>1. Recorded BY <1>10, UserOrders
  <2>2. PICK n, es : n = sources[x].next /\ es = <<Evt("ORDER", x, n), Evt("MARKET", x, n + 1)>>
    OBVIOUS
  <2>3. store' = AppendEvents(store, active, es) BY <1>10, <2>2 DEF UserOrder
  <2>4. n \in Nat /\ es \in Seq(Event) /\ es # <<>> /\ NumberedFrom(es, n) BY <2>2, OrderEvents
  <2> QED BY <2>1, <2>3, <2>4, ManyRecorded
<1>11. ASSUME NEW x \in Symbols, AutoResume(x) PROVE StoreInv'
  <2>1. Recorded BY <1>11, Timers
  <2>2. CASE running /\ sources[x].halted
    <3>1. PICK n \in Nat \ {0} : n = sources[x].next BY DEF SourcesInv, SourcesOK, SourceOK
    <3>2. PICK e : e = Evt("RESUME", x, n) OBVIOUS
    <3>3. store' = AppendEvent(store, active, e) BY <1>11, <2>2, <3>1, <3>2 DEF AutoResume
    <3>4. "RESUME" \in Kind BY DEF Kind
    <3>5. e \in Event BY <3>2, <3>4 DEF Evt, Event
    <3> QED BY <2>1, <3>3, <3>5, OneRecorded
  <2>3. CASE ~(running /\ sources[x].halted)
    <3>1. store' = store /\ active' = active /\ mode' = mode
      BY <1>11, <2>3 DEF AutoResume, runner
    <3> QED BY <3>1 DEF StoreInv, IsLive
  <2> QED BY <2>2, <2>3
<1>12. ASSUME NEW x \in Symbols, NEW kinds \in Scenarios, NEW timed \in BOOLEAN,
              InjectScenario(x, kinds, timed)
       PROVE  StoreInv'
  <2>1. Recorded BY <1>12, Scenes
  <2>2. PICK drawn : drawn = Allocated(sources, x, Len(kinds)) OBVIOUS
  <2>3. PICK es : es = Copies(drawn, x, kinds) OBVIOUS
  <2>4. store' = AppendEvents(store, active, es) BY <1>12, <2>2, <2>3 DEF InjectScenario
  <2>5. PICK n \in Nat : n = drawn[x].next BY <2>2, ScenarioEvents
  <2>6. es \in Seq(Event) /\ es # <<>> /\ NumberedFrom(es, n) BY <2>2, <2>3, <2>5, ScenarioEvents
  <2> QED BY <2>1, <2>4, <2>6, ManyRecorded
<1>13. CASE UNCHANGED vars BY <1>13 DEF vars, runner, StoreInv, IsLive
<1> QED BY <1>3, <1>4, <1>5, <1>6, <1>7, <1>8, <1>9, <1>10, <1>11, <1>12, <1>13 DEF Next

LEMMA InitStored ==
  ASSUME Init
  PROVE  StoreInv
<1>1. PICK one \in SessionId : one = 1 BY StoreAssumption DEF SessionId
<1>2. PICK st, e : st = CreateSession(NoSessions, one) /\ e = Evt("START", Primary, 2) OBVIOUS
<1>3. PICK new : new = store OBVIOUS
<1>4. new = AppendEvent(st, one, e) /\ active = one BY <1>1, <1>2, <1>3 DEF Init
<1>5. RowsOK(NoSessions)
  <2>1. DOMAIN NoSession = Fields /\ NoSession.status = "NONE" /\ NoSession.total = 0
        /\ DOMAIN NoSession.events = {}
    BY DEF NoSession, Fields
  <2>2. RowOK(NoSession) BY <2>1, FS_EmptySet DEF RowOK, LogOK
  <2>3. DOMAIN NoSessions = SessionId /\ \A s \in SessionId : NoSessions[s] = NoSession
    BY DEF NoSessions
  <2> QED BY <2>1, <2>2, <2>3 DEF RowsOK, Rows
<1>6. RowsOK(st) /\ st[one].status = "ACTIVE"
  <2>1. PICK none : none = NoSessions OBVIOUS
  <2> QED BY <1>2, <1>5, <2>1, RowCreated
<1>7. e \in Event
  <2>1. "START" \in Kind /\ 2 \in Nat \ {0} BY DEF Kind
  <2> QED BY <1>2, <2>1, PrimaryIsSymbol DEF Evt, Event
<1>8. RowsOK(new) BY <1>4, <1>6, <1>7, RowAppended
<1>9. Logged(st, new, one, e) BY <1>4, <1>6, AppendOne DEF RowsOK
<1> QED BY <1>3, <1>4, <1>6, <1>8, <1>9 DEF StoreInv, Logged

-----------------------------------------------------------------------------
(* The replay source. *)

\* A replay's total is no less than the events before the end of its log, and a
\* replay that ended by itself has its cursor beyond that.
ReplayInv ==
  /\ replay.cursor \in Nat \ {0} /\ replay.total \in Nat /\ replay.buffer \in Seq(Event)
  /\ replay.session \in SessionId \cup {0}
  /\ replay.session \in SessionId =>
       Cardinality(Others(store[replay.session].events)) <= replay.total
  /\ task \in {"replay", "done"} => replay.session = active
  /\ task \in {"replay", "live"} => running
  /\ task = "done" /\ mode = "STOPPED" => replay.cursor > replay.total

LEMMA EventsInOrder ==
  ASSUME NEW log, LogOK(log), NEW S, S \subseteq DOMAIN log
  PROVE  /\ S \in SUBSET Nat /\ S \in SUBSET (Nat \ {0}) /\ IsFiniteSet(S)
         /\ \A n \in S : log[n] \in Event
         /\ InOrder(log, S) \in Seq(Event) /\ Len(InOrder(log, S)) = Cardinality(S)
<1>1. S \in SUBSET (Nat \ {0}) /\ S \in SUBSET Nat /\ \A n \in S : log[n] \in Event
  BY DEF LogOK
<1>2. IsFiniteSet(S) BY FS_Subset DEF LogOK
<1>3. PICK T : T = Event OBVIOUS
<1>4. InOrder(log, S) \in Seq(T) /\ Len(InOrder(log, S)) = Cardinality(S)
  BY <1>1, <1>2, <1>3, OrderedSeq
<1> QED BY <1>1, <1>2, <1>3, <1>4

\* What next_event finds: the buffer, or the first events from the cursor on.
LEMMA BufferedIs ==
  ASSUME NEW st, RowsOK(st), NEW r, r.session \in SessionId, r.buffer \in Seq(Event)
  PROVE  /\ Buffered(st, r) \in Seq(Event)
         /\ r.buffer # <<>> => Buffered(st, r) = r.buffer
         /\ r.buffer = <<>> =>
              \E u \in Nat : Buffered(st, r) =
                InOrder(st[r.session].events, UpTo(From(st, r.session, r.cursor), u))
<1>1. CASE r.buffer # <<>> BY <1>1 DEF Buffered
<1>2. CASE r.buffer = <<>>
  <2>1. PICK log, S : log = st[r.session].events /\ S = From(st, r.session, r.cursor) OBVIOUS
  <2>2. LogOK(log) /\ S \subseteq DOMAIN log BY <2>1 DEF RowsOK, RowOK, From, Seqs
  <2>3. /\ S \in SUBSET (Nat \ {0}) /\ IsFiniteSet(S)
        /\ \A n \in S : log[n] \in Event
        /\ InOrder(log, S) \in Seq(Event) /\ Len(InOrder(log, S)) = Cardinality(S)
    BY <2>2, EventsInOrder
  <2>4. PICK rest \in Seq(Event) : rest = InOrder(log, S) BY <2>3
  <2>5. Buffered(st, r) = SubSeq(rest, 1, IF Len(rest) < ChunkSize THEN Len(rest) ELSE ChunkSize)
    BY <1>2, <2>1, <2>4 DEF Buffered, GetEvents
  <2>6. PICK k \in Nat : k = (IF Len(rest) < ChunkSize THEN Len(rest) ELSE ChunkSize)
                         /\ k <= Cardinality(S)
    <3>1. Len(rest) \in Nat /\ ChunkSize \in Nat BY ChunkAssumption
    <3> QED BY <2>3, <2>4, <3>1
  <2>7. PICK T : T = Event OBVIOUS
  <2>8. \E u \in Nat : SubSeq(InOrder(log, S), 1, k) = InOrder(log, UpTo(S, u))
    <3>1. FirstBelow(log, S, k) BY <2>3, <2>6, <2>7, OrderedPrefix
    <3> QED BY <3>1 DEF FirstBelow
  <2>9. PICK u \in Nat : Buffered(st, r) = InOrder(log, UpTo(S, u)) BY <2>4, <2>5, <2>6, <2>8
  <2>10. UpTo(S, u) \subseteq DOMAIN log BY <2>2 DEF UpTo
  <2>11. InOrder(log, UpTo(S, u)) \in Seq(Event) BY <2>2, <2>10, EventsInOrder
  <2> QED BY <1>2, <2>1, <2>9, <2>11
<1> QED BY <1>1, <1>2

LEMMA NewReplayTotal ==
  ASSUME NEW st, RowsOK(st), NEW s \in SessionId, st[s].status # "NONE"
  PROVE  /\ NewReplay(st, s).total \in Nat
         /\ Cardinality(Others(st[s].events)) <= NewReplay(st, s).total
<1>1. PICK row, log : row = st[s] /\ log = row.events OBVIOUS
<1>2. /\ LogOK(log) /\ row.total \in Nat /\ row.status \in {"ACTIVE", "STOPPED"}
      /\ row.status = "ACTIVE" => \A n \in DOMAIN log : n <= row.total
      /\ row.status = "STOPPED" => Cardinality(Others(log)) <= row.total
  BY <1>1 DEF RowsOK, RowOK
<1>3. Others(log) \subseteq DOMAIN log BY DEF Others
<1>4. /\ IsFiniteSet(DOMAIN log) /\ Cardinality(DOMAIN log) \in Nat
      /\ IsFiniteSet(Others(log)) /\ Cardinality(Others(log)) \in Nat
      /\ Cardinality(Others(log)) <= Cardinality(DOMAIN log)
  BY <1>2, <1>3, FS_Subset, FS_CardinalityType DEF LogOK
<1>5. NewReplay(st, s).total = IF row.total > 0 THEN row.total ELSE Cardinality(DOMAIN log)
  BY <1>1 DEF NewReplay, NoReplay, CountEvents, Seqs
<1>6. ASSUME row.status = "ACTIVE" PROVE Cardinality(Others(log)) <= row.total
  <2>1. \A n \in DOMAIN log : n \in Nat \ {0} /\ n <= row.total BY <1>2, <1>6 DEF LogOK
  <2>2. Others(log) \subseteq 1..row.total BY <1>2, <1>3, <2>1
  <2>3. IsFiniteSet(1..row.total) /\ Cardinality(1..row.total) = row.total
    BY <1>2, FS_Interval
  <2> QED BY <2>2, <2>3, FS_Subset
<1> QED BY <1>1, <1>2, <1>4, <1>5, <1>6

\* The log a replay reads is that of a session left for good.
LEMMA ReplayedLogStays ==
  ASSUME RunnerInv, OnlyLive(store, store'), replay.session \in SessionId
  PROVE  store'[replay.session].events = store[replay.session].events
BY DEF RunnerInv, OnlyLive

LEMMA ReplayKept ==
  ASSUME RunnerInv, OnlyLive(store, store'), ReplayInv, replay' = replay
  PROVE  /\ replay'.cursor \in Nat \ {0} /\ replay'.total \in Nat /\ replay'.buffer \in Seq(Event)
         /\ replay'.session \in SessionId \cup {0}
         /\ replay'.session \in SessionId =>
              Cardinality(Others(store'[replay'.session].events)) <= replay'.total
BY ReplayedLogStays DEF ReplayInv

LEMMA StepsReplay ==
  ASSUME ~AnyTime, RunnerInv, SourcesInv, StoreInv, ReplayInv, [Next]_vars
  PROVE  ReplayInv'
<1>0. OnlyLive(store, store') /\ RunnerInv' BY StepsOK DEF StepOK
<1>1. 0 \notin SessionId BY StoreAssumption DEF SessionId
<1>2. ASSUME replay' = NoReplay
      PROVE  /\ replay'.cursor \in Nat \ {0} /\ replay'.total \in Nat
             /\ replay'.buffer \in Seq(Event) /\ replay'.session \in SessionId \cup {0}
             /\ replay'.session \notin SessionId
  <2>1. <<>> \in Seq(Event) /\ 1 \in Nat \ {0} BY EmptySeq
  <2> QED BY <1>1, <1>2, <2>1 DEF NoReplay
<1>3. CASE Start \/ Crash \/ CrashInStop
  <2>1. /\ task' = "live" /\ running' = TRUE
        /\ replay' = replay \/ replay' = NoReplay
    BY <1>3 DEF Start, Crash, CrashInStop, CrashAndRestart, Begin
  <2> QED BY <1>0, <1>2, <2>1, ReplayKept DEF ReplayInv
<1>4. CASE Stop
  <2>1. task' = "none" /\ replay' = replay BY <1>4 DEF Stop
  <2> QED BY <1>0, <2>1, ReplayKept DEF ReplayInv
<1>5. ASSUME NEW s \in SessionId, NEW n \in Targets, StartReplay(s, n) PROVE ReplayInv'
  <2>1. PICK st, r : st = AfterStop /\ r = NewReplay(st, s) OBVIOUS
  <2>2. /\ store[s].status # "NONE" /\ store' = st /\ active' = s /\ task' = "replay"
        /\ mode' = "REPLAY" /\ running' = TRUE /\ replay' = SeekTo(r, n)
    BY <1>5, <2>1 DEF StartReplay
  <2>3. RowsOK(st) /\ st[s].status # "NONE" BY <2>1, <2>2, StopRows, StopDoes
  <2>4. r.total \in Nat /\ Cardinality(Others(st[s].events)) <= r.total
    BY <2>1, <2>3, NewReplayTotal
  <2>5. DOMAIN r = {"session", "cursor", "total", "paused", "buffer"} /\ r.session = s
    BY <2>1 DEF NewReplay, NoReplay
  <2>6. /\ replay'.session = s /\ replay'.total = r.total /\ replay'.buffer = <<>>
        /\ replay'.cursor = IF n < 1 THEN 1 ELSE n
    BY <2>2, <2>5 DEF SeekTo
  <2>7. n \in Nat \ {0} /\ <<>> \in Seq(Event) BY SessionAssumption, EmptySeq
  <2>8. replay'.cursor \in Nat \ {0} BY <2>6, <2>7
  <2> QED BY <2>2, <2>4, <2>6, <2>7, <2>8 DEF ReplayInv
<1>6. ASSUME NEW n \in Targets, Seek(n) PROVE ReplayInv'
  <2>1. /\ Controllable /\ store' = store /\ active' = active
        /\ \/ mode = "PAUSED" /\ mode' = mode /\ task' = task /\ running' = running
           \/ running' = TRUE /\ mode' = "REPLAY"
    BY <1>6 DEF Seek
  <2>2. DOMAIN replay = {"session", "cursor", "total", "paused", "buffer"} BY DEF RunnerInv
  <2>3. /\ replay'.session = replay.session /\ replay'.total = replay.total
        /\ replay'.buffer = <<>> /\ replay'.cursor = IF n < 1 THEN 1 ELSE n
    BY <1>6, <2>2 DEF Seek, SeekTo
  <2>4. n \in Nat \ {0} /\ <<>> \in Seq(Event) BY SessionAssumption, EmptySeq
  <2>5. replay'.cursor \in Nat \ {0} BY <2>3, <2>4
  <2>6. replay.session = active BY <2>1 DEF Controllable
  <2> QED BY <2>1, <2>3, <2>4, <2>5, <2>6 DEF ReplayInv
<1>7. CASE Pause
  <2>1. /\ Controllable /\ store' = store /\ active' = active /\ mode' = "PAUSED"
        /\ replay' = [replay EXCEPT !.paused = TRUE] /\ task' = task /\ running' = running
    BY <1>7 DEF Pause
  <2>2. /\ replay'.session = replay.session /\ replay'.total = replay.total
        /\ replay'.buffer = replay.buffer /\ replay'.cursor = replay.cursor
    BY <2>1
  <2> QED BY <2>1, <2>2 DEF ReplayInv
<1>8. CASE Resume
  <2>1. /\ Controllable /\ store' = store /\ active' = active /\ mode' = "REPLAY"
        /\ replay' = [replay EXCEPT !.paused = FALSE]
        /\ running' = IF task = Respawned THEN running ELSE TRUE
        /\ task' = Respawned
    BY <1>8 DEF Resume
  <2>2. /\ replay'.session = replay.session /\ replay'.total = replay.total
        /\ replay'.buffer = replay.buffer /\ replay'.cursor = replay.cursor
    BY <2>1
  <2>3. replay.session = active BY <2>1 DEF Controllable
  <2>4. task' \in {"replay", "live"} => running' BY <2>1 DEF ReplayInv
  <2> QED BY <2>1, <2>2, <2>3, <2>4 DEF ReplayInv
<1>9. CASE ReplayStep
  <2>1. /\ task = "replay" /\ store' = store /\ active' = active /\ running' = running
    BY <1>9 DEF ReplayStep
  <2>2. replay.session = active /\ running BY <2>1 DEF ReplayInv
  <2>3. CASE ~HasNext(replay)
    <3>1. replay' = replay /\ task' = "done" BY <1>9, <2>3 DEF ReplayStep
    <3>2. ~(replay.cursor <= replay.total) BY <2>3 DEF HasNext
    <3>3. replay.cursor > replay.total BY <3>2 DEF ReplayInv
    <3> QED BY <2>1, <2>2, <3>1, <3>3 DEF ReplayInv
  <2>4. CASE HasNext(replay)
    <3>1. task' = task /\ mode' = mode BY <1>9, <2>2, <2>4 DEF ReplayStep
    <3>2. CASE replay' = replay BY <2>1, <3>1, <3>2 DEF ReplayInv
    <3>3. CASE replay' # replay
      <4>1. replay' = Advanced(store, replay) /\ HasEvent(store, replay)
        BY <1>9, <2>2, <2>4, <3>3 DEF ReplayStep
      <4>2. PICK b \in Seq(Event) : b = Buffered(store, replay)
        <5>1. PICK st, r : st = store /\ r = replay OBVIOUS
        <5>2. RowsOK(st) /\ r.session \in SessionId /\ r.buffer \in Seq(Event)
          BY <2>2, <5>1 DEF StoreInv, ReplayInv, RunnerInv
        <5>3. Buffered(st, r) \in Seq(Event) BY <5>2, BufferedIs
        <5> QED BY <5>1, <5>3
      <4>3. b # <<>> BY <4>1, <4>2 DEF HasEvent
      <4>4. Head(b) \in Event /\ Tail(b) \in Seq(Event) BY <4>3, HeadTailProperties
      <4>5. PICK k \in Nat \ {0} : k = Head(b).seq BY <4>4 DEF Event
      <4>6. k + 1 \in Nat \ {0} OBVIOUS
      <4>7. DOMAIN replay = {"session", "cursor", "total", "paused", "buffer"} BY DEF RunnerInv
      <4>8. /\ replay'.session = replay.session /\ replay'.total = replay.total
            /\ replay'.buffer = Tail(b) /\ replay'.cursor = k + 1
        BY <4>1, <4>2, <4>5, <4>7 DEF Advanced
      <4> QED BY <2>1, <2>2, <3>1, <4>4, <4>6, <4>8 DEF ReplayInv
    <3> QED BY <3>2, <3>3
  <2> QED BY <2>3, <2>4
<1>10. ASSUME replay' = replay, task' = task, mode' = mode, running' = running, active' = active
       PROVE  ReplayInv'
  BY <1>0, <1>10, ReplayKept DEF ReplayInv
<1>11. ASSUME NEW x \in Symbols,
              (\E n \in 1..MaxBatch : LiveStep(x, n)) \/ UserOrder(x) \/ AutoResume(x)
       PROVE  ReplayInv'
  BY <1>10, <1>11 DEF LiveStep, UserOrder, AutoResume, runner
<1>12. ASSUME NEW x \in Symbols, NEW kinds \in Scenarios, NEW timed \in BOOLEAN,
              InjectScenario(x, kinds, timed)
       PROVE  ReplayInv'
  BY <1>10, <1>12 DEF InjectScenario, runner
<1>13. CASE UNCHANGED vars BY <1>10, <1>13 DEF vars, runner
<1> QED BY <1>3, <1>4, <1>5, <1>6, <1>7, <1>8, <1>9, <1>11, <1>12, <1>13 DEF Next

LEMMA InitReplay ==
  ASSUME Init
  PROVE  ReplayInv
<1>1. 0 \notin SessionId BY StoreAssumption DEF SessionId
<1>2. replay = NoReplay /\ task = "live" /\ running BY DEF Init
<1>3. <<>> \in Seq(Event) /\ 1 \in Nat \ {0} BY EmptySeq
<1> QED BY <1>1, <1>2, <1>3 DEF NoReplay, ReplayInv

\* A replay that ended by itself has shown every event before SessionEnded, if their
\* numbers leave no hole: whatever was done to the session while it was recorded, its
\* total is no less than the number of these, and the cursor is beyond the total.
THEOREM ReplaysComplete == ~AnyTime => (Spec => []ReplayComplete)
<1> SUFFICES ASSUME ~AnyTime PROVE Spec => []ReplayComplete OBVIOUS
<1> DEFINE Inv == RunnerInv /\ SourcesInv /\ StoreInv /\ ReplayInv
<1>1. Init => Inv BY InitOK, InitStored, InitReplay
<1>2. Inv /\ [Next]_vars => Inv' BY StepsOK, StepsStored, StepsReplay DEF StepOK
<1>3. Inv => ReplayComplete
  <2> SUFFICES ASSUME RunnerInv, StoreInv, ReplayInv, task = "done", mode = "STOPPED",
                      NEW others, others = Others(store[active].events),
                      others = 1..Cardinality(others), NEW n \in others
               PROVE  n < replay.cursor
    BY DEF ReplayComplete, Others, Seqs
  <2>1. active \in SessionId /\ replay.session = active BY DEF RunnerInv, ReplayInv
  <2>2. PICK c : c = Cardinality(others) OBVIOUS
  <2>3. c <= replay.total /\ replay.total \in Nat /\ replay.cursor \in Nat
        /\ replay.cursor > replay.total
    BY <2>1, <2>2 DEF ReplayInv
  <2>4. c \in Nat
    <3>1. IsFiniteSet(DOMAIN store[active].events) /\ others \subseteq DOMAIN store[active].events
      BY <2>1 DEF StoreInv, RowsOK, RowOK, LogOK, Others
    <3> QED BY <2>2, <3>1, FS_Subset, FS_CardinalityType
  <2>5. n \in 1..c BY <2>2
  <2> QED BY <2>3, <2>4, <2>5
<1> QED BY <1>1, <1>2, <1>3, PTL DEF Spec

-----------------------------------------------------------------------------
(* The projections of one more event. *)

Marking == {"HALT", "RESUME"}
Marks(es) == {i \in DOMAIN es : es[i].kind \in Marking}
Markets(es) == {i \in DOMAIN es : es[i].kind = "MARKET"}

LEMMA GreatestIs ==
  ASSUME NEW S \in SUBSET Nat, IsFiniteSet(S), S # {}
  PROVE  Max(S) \in S /\ \A n \in S : n <= Max(S)
<1> DEFINE c == Cardinality(S)
<1>1. /\ c \in Nat
      /\ \A k \in 1..c : Nth(S, k) \in S
      /\ \A n \in S : \E k \in 1..c : Nth(S, k) = n
      /\ \A i, j \in 1..c : i < j => Nth(S, i) < Nth(S, j)
  BY OrderedValues
<1>2. c # 0 BY FS_EmptySet
<1> HIDE DEF c
<1>3. c \in 1..c BY <1>1, <1>2
<1>4. PICK x \in S : x = Nth(S, c) BY <1>1, <1>3
<1>5. \A n \in S : x >= n
  <2> SUFFICES ASSUME NEW n \in S PROVE x >= n OBVIOUS
  <2>1. PICK k \in 1..c : Nth(S, k) = n BY <1>1
  <2>2. k = c \/ k < c BY <1>1
  <2>3. n = x \/ n < x BY <1>1, <1>3, <1>4, <2>1, <2>2
  <2>4. n \in Nat /\ x \in Nat OBVIOUS
  <2> QED BY <2>3, <2>4
<1>6. \E y \in S : \A n \in S : y >= n BY <1>5
<1>7. Max(S) \in S /\ \A n \in S : Max(S) >= n BY <1>6 DEF Max
<1>8. \A n \in S : n \in Nat OBVIOUS
<1> QED BY <1>7, <1>8

LEMMA GreatestOnly ==
  ASSUME NEW S \in SUBSET Nat, NEW m \in S, \A n \in S : n <= m
  PROVE  Max(S) = m
<1>1. \A n \in S : n \in Nat OBVIOUS
<1>2. \A n \in S : m >= n BY <1>1
<1>3. Max(S) \in S /\ \A n \in S : Max(S) >= n BY <1>2 DEF Max
<1>4. PICK x \in Nat : x = Max(S) BY <1>3
<1> QED BY <1>3, <1>4

\* Places of a sequence.
LEMMA PlacesOf ==
  ASSUME NEW es \in Seq(Event), NEW S, S \subseteq DOMAIN es
  PROVE  S \in SUBSET Nat /\ IsFiniteSet(S) /\ \A i \in S : es[i] \in Event
<1>1. DOMAIN es = 1..Len(es) /\ Len(es) \in Nat BY LenProperties
<1>2. IsFiniteSet(DOMAIN es) BY <1>1, FS_Interval
<1> QED BY <1>1, <1>2, FS_Subset, ElementOfSeq

LEMMA TapeOfNone == OnTape(<<>>) = <<>> /\ \A h : HaltedAfter(h, <<>>) = h
<1>1. PICK es : es = <<>> OBVIOUS
<1>2. DOMAIN es = {} BY <1>1
<1>3. OnTape(es) = InOrder(es, {}) BY <1>2 DEF OnTape
<1>4. OnTape(es) = <<>> BY <1>3, OrderedNone
<1>5. \A h : HaltedAfter(h, es) = h BY <1>2 DEF HaltedAfter
<1> QED BY <1>1, <1>4, <1>5

LEMMA TapeOfSeq ==
  ASSUME NEW es \in Seq(Event)
  PROVE  OnTape(es) \in Seq(Event)
<1>1. PICK S, T : S = Markets(es) /\ T = Event OBVIOUS
<1>2. S \subseteq DOMAIN es BY <1>1 DEF Markets
<1>3. S \in SUBSET Nat /\ IsFiniteSet(S) /\ \A i \in S : es[i] \in T BY <1>1, <1>2, PlacesOf
<1>4. InOrder(es, S) \in Seq(T) BY <1>3, OrderedSeq
<1> QED BY <1>1, <1>4 DEF OnTape, Markets

LEMMA TapeOfMore ==
  ASSUME NEW es \in Seq(Event), NEW e \in Event
  PROVE  OnTape(Append(es, e)) = IF e.kind = "MARKET" THEN Append(OnTape(es), e) ELSE OnTape(es)
<1>0. PICK more \in Seq(Event) : more = Append(es, e) BY AppendProperties
<1>12. PICK m \in Nat : m = Len(es) + 1 BY LenProperties
<1>1. /\ more = Append(es, e) /\ Len(more) = m
      /\ (\A i \in 1..Len(es) : more[i] = es[i]) /\ more[m] = e
  BY <1>0, <1>12, AppendProperties
<1>2. DOMAIN es = 1..Len(es) /\ Len(es) \in Nat /\ m = Len(es) + 1 /\ DOMAIN more = 1..m
  BY <1>1, <1>12, LenProperties
<1>3. DOMAIN more = DOMAIN es \cup {m} /\ \A i \in DOMAIN es : i < m /\ more[i] = es[i]
  BY <1>1, <1>2
<1>4. PICK S, T : S = Markets(es) /\ T = Event OBVIOUS
<1>5. S \subseteq DOMAIN es /\ \A i \in S : i < m /\ more[i] = es[i] BY <1>3, <1>4 DEF Markets
<1>6. S \in SUBSET Nat /\ IsFiniteSet(S) /\ (\A i \in S : more[i] \in T) /\ more[m] \in T
  BY <1>1, <1>4, <1>5, PlacesOf
<1>7. InOrder(more, S) = InOrder(es, S) BY <1>5, <1>6, OrderedSame
<1>8. OnTape(es) = InOrder(es, S) BY <1>4 DEF OnTape, Markets
<1>9. OnTape(more) = InOrder(more, Markets(more)) BY DEF OnTape, Markets
<1>10. CASE e.kind = "MARKET"
  <2>1. Markets(more) = S \cup {m} BY <1>1, <1>3, <1>4, <1>10 DEF Markets
  <2>2. InOrder(more, S \cup {m}) = Append(InOrder(more, S), more[m])
    <3>1. \A i \in S : i < m BY <1>5
    <3>2. /\ S \in SUBSET Nat /\ IsFiniteSet(S) /\ (\A i \in S : more[i] \in T)
          /\ more[m] \in T /\ m \in Nat
      BY <1>6
    <3>3. LastAdded(more, S, m) BY <3>1, <3>2, OrderedAppend
    <3> QED BY <3>3 DEF LastAdded
  <2> QED BY <1>1, <1>7, <1>8, <1>9, <1>10, <2>1, <2>2
<1>11. CASE e.kind # "MARKET"
  <2>1. Markets(more) = S BY <1>1, <1>3, <1>4, <1>11 DEF Markets
  <2> QED BY <1>1, <1>7, <1>8, <1>9, <1>11, <2>1
<1> QED BY <1>10, <1>11

LEMMA HaltedByMore ==
  ASSUME NEW es \in Seq(Event), NEW e \in Event, NEW h
  PROVE  HaltedAfter(h, Append(es, e)) =
           IF e.kind \in Marking THEN e.kind = "HALT" ELSE HaltedAfter(h, es)
<1>0. PICK more \in Seq(Event) : more = Append(es, e) BY AppendProperties
<1>12. PICK m \in Nat : m = Len(es) + 1 BY LenProperties
<1>1. /\ more = Append(es, e) /\ Len(more) = m
      /\ (\A i \in 1..Len(es) : more[i] = es[i]) /\ more[m] = e
  BY <1>0, <1>12, AppendProperties
<1>2. DOMAIN es = 1..Len(es) /\ Len(es) \in Nat /\ m = Len(es) + 1 /\ DOMAIN more = 1..m
  BY <1>1, <1>12, LenProperties
<1>3. DOMAIN more = DOMAIN es \cup {m} /\ \A i \in DOMAIN es : i < m /\ more[i] = es[i]
  BY <1>1, <1>2
<1>4. /\ HaltedAfter(h, es) = IF Marks(es) = {} THEN h ELSE es[Max(Marks(es))].kind = "HALT"
      /\ HaltedAfter(h, more) = IF Marks(more) = {} THEN h ELSE more[Max(Marks(more))].kind = "HALT"
  BY DEF HaltedAfter, Marks, Marking
<1>5. CASE e.kind \in Marking
  <2>1. Marks(more) = Marks(es) \cup {m} BY <1>1, <1>3, <1>5 DEF Marks
  <2>2. PICK S : S = Marks(more) OBVIOUS
  <2>3. S \in SUBSET Nat /\ m \in S /\ \A n \in S : n <= m
    <3>1. \A n \in S : n \in DOMAIN es \/ n = m BY <2>1, <2>2 DEF Marks
    <3>2. \A n \in DOMAIN es : n \in Nat /\ n <= m BY <1>1, <1>2
    <3> QED BY <2>1, <2>2, <3>1, <3>2
  <2>4. Max(S) = m BY <2>3, GreatestOnly
  <2> QED BY <1>1, <1>4, <1>5, <2>2, <2>3, <2>4
<1>6. CASE e.kind \notin Marking
  <2>1. Marks(more) = Marks(es) BY <1>1, <1>3, <1>6 DEF Marks
  <2>2. CASE Marks(es) = {} BY <1>1, <1>4, <1>6, <2>1, <2>2
  <2>3. CASE Marks(es) # {}
    <3>1. PICK S : S = Marks(es) OBVIOUS
    <3>2. S \subseteq DOMAIN es BY <3>1 DEF Marks
    <3>3. S \in SUBSET Nat /\ IsFiniteSet(S) /\ S # {} BY <2>3, <3>1, <3>2, PlacesOf
    <3>4. Max(S) \in S BY <3>3, GreatestIs
    <3>5. more[Max(S)] = es[Max(S)] BY <1>3, <3>2, <3>4
    <3> QED BY <1>1, <1>4, <1>6, <2>1, <2>3, <3>1, <3>5
  <2> QED BY <2>2, <2>3
<1> QED BY <1>5, <1>6

\* Processing one event, or none.
LEMMA ProcessedOne ==
  ASSUME NEW e \in Event
  PROVE  /\ OnTape(<<e>>) = IF e.kind = "MARKET" THEN <<e>> ELSE <<>>
         /\ \A h : HaltedAfter(h, <<e>>) = IF e.kind \in Marking THEN e.kind = "HALT" ELSE h
<1>1. PICK none \in Seq(Event) : none = <<>> BY EmptySeq
<1>2. Append(none, e) = <<e>> BY <1>1
<1>3. OnTape(none) = none /\ \A h : HaltedAfter(h, none) = h BY <1>1, TapeOfNone
<1>4. OnTape(<<e>>) = IF e.kind = "MARKET" THEN Append(none, e) ELSE none
  BY <1>2, <1>3, TapeOfMore
<1>5. ASSUME NEW h
      PROVE  HaltedAfter(h, <<e>>) = IF e.kind \in Marking THEN e.kind = "HALT" ELSE h
  <2>1. HaltedAfter(h, Append(none, e)) =
          IF e.kind \in Marking THEN e.kind = "HALT" ELSE HaltedAfter(h, none)
    BY HaltedByMore
  <2> QED BY <1>2, <1>3, <2>1
<1> QED BY <1>1, <1>2, <1>4, <1>5

-----------------------------------------------------------------------------
(* What a replay shows. *)

\* The projections are those of the events of log numbered in S.
Shown(t, h, log, S) == t = OnTape(InOrder(log, S)) /\ h = HaltedAfter(FALSE, InOrder(log, S))

\* The buffer is what the log holds from the cursor up to some number.
BufferInv ==
  replay.session \in SessionId =>
    \E u \in Nat : replay.buffer =
      InOrder(store[replay.session].events, UpTo(From(store, replay.session, replay.cursor), u))

\* The projections are those of the log before the cursor, but for the event that is
\* held, which is the last of these.
ShownBut(log, b) ==
  \/ inflight = <<>> /\ Shown(tape, replayHalted, log, b)
  \/ \E m \in b : /\ \A n \in b : n <= m
                  /\ inflight = <<log[m]>> /\ Shown(tape, replayHalted, log, b \ {m})

ShownInv ==
  replay.session = active /\ ~late =>
    ShownBut(store[active].events, Before(store, active, replay.cursor))

\* The events up to the last, and the last.
LEMMA LastOne ==
  ASSUME NEW log, LogOK(log), NEW b, b \subseteq DOMAIN log, NEW m \in b, \A n \in b : n <= m
  PROVE  InOrder(log, b) = Append(InOrder(log, b \ {m}), log[m])
<1>1. PICK S, e : S = b \ {m} /\ e = log[m] OBVIOUS
<1>2. e \in Event /\ m \in Nat /\ \A n \in b : n \in Nat BY <1>1 DEF LogOK
<1>3. PICK T : T = Event OBVIOUS
<1>4. S \subseteq DOMAIN log BY <1>1
<1>5. S \in SUBSET Nat /\ IsFiniteSet(S) /\ \A n \in S : log[n] \in T
  BY <1>3, <1>4, EventsInOrder
<1>6. \A n \in S : n < m
  <2> SUFFICES ASSUME NEW n \in S PROVE n < m OBVIOUS
  <2>1. n \in Nat /\ n <= m /\ n # m BY <1>1, <1>2
  <2> QED BY <1>2, <2>1
<1>7. log[m] \in T /\ m \in Nat BY <1>1, <1>2, <1>3
<1>8. LastAdded(log, S, m) BY <1>5, <1>6, <1>7, OrderedAppend
<1>9. S \cup {m} = b BY <1>1
<1> QED BY <1>1, <1>8, <1>9 DEF LastAdded

LEMMA FrontOf ==
  ASSUME NEW es \in Seq(Event), NEW e \in Event
  PROVE  SubSeq(Append(es, e), 1, Len(es)) = es
<1>1. Len(es) \in Nat BY LenProperties
<1>2. CASE Len(es) = 0
  <2>1. es = <<>> BY <1>2, EmptySeq
  <2>2. PICK r : r = Append(es, e) OBVIOUS
  <2>3. SubSeq(r, 1, 0) = <<>> BY SubSeqEmpty
  <2> QED BY <1>2, <2>1, <2>2, <2>3
<1>3. CASE Len(es) # 0
  <2>1. Append(es, e) = es \o <<e>> /\ <<e>> \in Seq(Event) BY AppendIsConcat
  <2>2. 1 \in 1..Len(es) /\ Len(es) \in 1..Len(es) BY <1>1, <1>3
  <2>3. PICK one, last : one = 1 /\ last = Len(es) /\ one \in 1..Len(es) /\ last \in 1..Len(es)
    BY <2>2
  <2>4. PICK t \in Seq(Event) : t = <<e>> BY <2>1
  <2>5. SubSeq(es \o t, one, last) = SubSeq(es, one, last) BY <2>3, SubSeqOfConcat1
  <2>6. SubSeq(es, 1, Len(es)) = es BY SubSeqFull
  <2> QED BY <2>1, <2>3, <2>4, <2>5, <2>6
<1> QED BY <1>2, <1>3

\* The event held is processed: everything before the cursor is shown.
LEMMA HeldProcessed ==
  ASSUME NEW log, LogOK(log), NEW b, b \subseteq DOMAIN log, ShownBut(log, b), Process(inflight)
  PROVE  Shown(tape', replayHalted', log, b)
<1>1. tape' = tape \o OnTape(inflight) /\ replayHalted' = HaltedAfter(replayHalted, inflight)
  BY DEF Process
<1>2. CASE inflight = <<>> /\ Shown(tape, replayHalted, log, b)
  <2>1. OnTape(inflight) = <<>> /\ HaltedAfter(replayHalted, inflight) = replayHalted
    BY <1>2, TapeOfNone
  <2>2. tape \in Seq(Event)
    <3>1. InOrder(log, b) \in Seq(Event) BY EventsInOrder
    <3>2. PICK es \in Seq(Event) : es = InOrder(log, b) BY <3>1
    <3> QED BY <1>2, <3>2, TapeOfSeq DEF Shown
  <2>3. tape \o <<>> = tape BY <2>2, ConcatEmptySeq
  <2> QED BY <1>1, <1>2, <2>1, <2>3 DEF Shown
<1>3. ASSUME NEW m \in b, \A n \in b : n <= m, inflight = <<log[m]>>,
             Shown(tape, replayHalted, log, b \ {m})
      PROVE  Shown(tape', replayHalted', log, b)
  <2>1. PICK S, e : S = b \ {m} /\ e = log[m] OBVIOUS
  <2>2. PICK es \in Seq(Event) : es = InOrder(log, S)
    <3>1. S \subseteq DOMAIN log BY <2>1
    <3> QED BY <3>1, EventsInOrder
  <2>3. e \in Event /\ m \in Nat /\ \A n \in b : n \in Nat BY <2>1 DEF LogOK
  <2>4. InOrder(log, b) = Append(es, e) BY <1>3, <2>1, <2>2, LastOne
  <2>5. PICK t \in Seq(Event), h \in {HaltedAfter(FALSE, es)} : t = OnTape(es)
    BY <2>2, TapeOfSeq
  <2>6. tape = t /\ replayHalted = h /\ inflight = <<e>> BY <1>3, <2>1, <2>2, <2>5 DEF Shown
  <2>7. /\ OnTape(Append(es, e)) = IF e.kind = "MARKET" THEN Append(t, e) ELSE t
        /\ HaltedAfter(FALSE, Append(es, e)) = IF e.kind \in Marking THEN e.kind = "HALT" ELSE h
    BY <2>3, <2>5, TapeOfMore, HaltedByMore
  <2>8. /\ OnTape(<<e>>) = IF e.kind = "MARKET" THEN <<e>> ELSE <<>>
        /\ HaltedAfter(h, <<e>>) = IF e.kind \in Marking THEN e.kind = "HALT" ELSE h
    BY <2>3, ProcessedOne
  <2>9. t \o <<>> = t /\ Append(t, e) = t \o <<e>>
    BY <2>3, ConcatEmptySeq, AppendIsConcat
  <2>10. tape' = OnTape(Append(es, e)) BY <1>1, <2>6, <2>7, <2>8, <2>9
  <2>11. replayHalted' = HaltedAfter(FALSE, Append(es, e)) BY <1>1, <2>6, <2>7, <2>8
  <2> QED BY <2>4, <2>10, <2>11 DEF Shown
<1> QED BY <1>2, <1>3 DEF ShownBut

\* The next event is the first from the cursor on, and the buffer goes on from there.
ReadsOn(log, c, u, b) ==
  \E m \in DOMAIN log :
    /\ c <= m /\ m \in Nat /\ Head(b) = log[m] /\ Head(b).seq = m
    /\ \A n \in DOMAIN log : c <= n => m <= n
    /\ Tail(b) = InOrder(log, UpTo({n \in DOMAIN log : m + 1 <= n}, u))

LEMMA NextTaken ==
  ASSUME NEW log, LogOK(log), NEW c \in Nat, NEW u \in Nat,
         NEW b, b = InOrder(log, UpTo({n \in DOMAIN log : c <= n}, u)), b # <<>>
  PROVE  ReadsOn(log, c, u, b)
<1> DEFINE S == UpTo({n \in DOMAIN log : c <= n}, u)
<1>1. S = {n \in DOMAIN log : c <= n /\ n <= u} BY DEF UpTo
<1>2. S \subseteq DOMAIN log BY <1>1
<1> HIDE DEF S
<1>3. PICK T : T = Event OBVIOUS
<1>4. S \in SUBSET Nat /\ IsFiniteSet(S) /\ \A n \in S : log[n] \in T
  BY <1>2, <1>3, EventsInOrder
<1>5. S # {}
  <2>1. b = InOrder(log, S) BY DEF S
  <2> QED BY <2>1, OrderedNone
<1>6. PICK m \in S : /\ \A n \in S : m <= n
                     /\ Head(InOrder(log, S)) = log[m]
                     /\ Tail(InOrder(log, S)) = InOrder(log, S \ {m})
  <2>1. HasFirst(log, S) BY <1>4, <1>5, OrderedFirst
  <2> QED BY <2>1 DEF HasFirst
<1>7. b = InOrder(log, S) BY DEF S
<1>8. m \in DOMAIN log /\ m \in Nat /\ c <= m /\ m <= u /\ log[m].seq = m
  BY <1>1 DEF LogOK
<1>9. \A n \in DOMAIN log : n \in Nat BY DEF LogOK
<1>10. ASSUME NEW n \in DOMAIN log, c <= n PROVE m <= n
  <2>1. n \in Nat BY <1>9
  <2>2. CASE n <= u BY <1>1, <1>6, <1>10, <2>2
  <2>3. CASE ~(n <= u) BY <1>8, <2>1, <2>3
  <2> QED BY <2>2, <2>3
<1>11. S \ {m} = UpTo({n \in DOMAIN log : m + 1 <= n}, u)
  <2>1. ASSUME NEW n \in DOMAIN log
        PROVE  (c <= n /\ n <= u /\ n # m) <=> (m + 1 <= n /\ n <= u)
    <3>1. n \in Nat BY <1>9
    <3>2. c <= n => m <= n BY <1>10
    <3> QED BY <1>8, <3>1, <3>2
  <2>2. S \ {m} = {n \in DOMAIN log : c <= n /\ n <= u /\ n # m} BY <1>1
  <2>3. UpTo({n \in DOMAIN log : m + 1 <= n}, u) = {n \in DOMAIN log : m + 1 <= n /\ n <= u}
    BY DEF UpTo
  <2> QED BY <2>1, <2>2, <2>3
<1> QED BY <1>6, <1>7, <1>8, <1>10, <1>11 DEF ReadsOn

\* An emptied buffer is no part of the log.
LEMMA NothingBuffered ==
  ASSUME NEW log, LogOK(log), NEW S, S \subseteq DOMAIN log
  PROVE  \E u \in Nat : <<>> = InOrder(log, UpTo(S, u))
<1>1. UpTo(S, 0) = {}
  <2>1. \A n \in S : ~(n <= 0)
    <3> SUFFICES ASSUME NEW n \in S PROVE ~(n <= 0) OBVIOUS
    <3>1. n \in Nat \ {0} BY DEF LogOK
    <3> QED BY <3>1
  <2> QED BY <2>1 DEF UpTo
<1>2. PICK f : f = log OBVIOUS
<1>3. InOrder(f, {}) = <<>> BY OrderedNone
<1> QED BY <1>1, <1>2, <1>3

\* What fast-forwarding to n shows.
LEMMA ForwardShows ==
  ASSUME NEW st, NEW s, NEW n, FastForward(st, s, n)
  PROVE  Shown(tape', replayHalted', st[s].events, Before(st, s, n))
BY DEF FastForward, GetEvents, Shown

LEMMA StepsBuffer ==
  ASSUME ~AnyTime, RunnerInv, SourcesInv, StoreInv, ReplayInv, BufferInv, ShownInv, [Next]_vars
  PROVE  BufferInv' /\ ShownInv'
<1>0. OnlyLive(store, store') /\ RunnerInv' /\ StoreInv' BY StepsOK, StepsStored DEF StepOK
<1>1. ASSUME replay' = replay PROVE BufferInv'
  <2> SUFFICES ASSUME replay.session \in SessionId
               PROVE  \E u \in Nat : replay.buffer =
                        InOrder(store'[replay.session].events,
                                UpTo(From(store', replay.session, replay.cursor), u))
    BY <1>1 DEF BufferInv
  <2>1. store'[replay.session].events = store[replay.session].events
    BY <1>0, ReplayedLogStays
  <2>2. From(store', replay.session, replay.cursor) = From(store, replay.session, replay.cursor)
    BY <2>1 DEF From, Seqs
  <2> QED BY <2>1, <2>2 DEF BufferInv
<1>2. ASSUME replay'.session \in SessionId, replay'.buffer = <<>> PROVE BufferInv'
  <2>1. PICK log, S : /\ log = store'[replay'.session].events
                      /\ S = From(store', replay'.session, replay'.cursor)
    OBVIOUS
  <2>2. LogOK(log) /\ S \subseteq DOMAIN log
    BY <1>0, <1>2, <2>1 DEF StoreInv, RowsOK, RowOK, From, Seqs
  <2> QED BY <1>2, <2>1, <2>2, NothingBuffered DEF BufferInv
<1>3. ASSUME IsLive' PROVE ShownInv'
  <2>1. replay'.session # active' BY <1>0, <1>3 DEF RunnerInv
  <2> QED BY <2>1 DEF ShownInv
<1>4. CASE Start \/ Crash \/ CrashInStop
  <2>1. IsLive' /\ (replay' = replay \/ replay' = NoReplay)
    BY <1>4 DEF Start, Crash, CrashInStop, CrashAndRestart, Begin, IsLive
  <2>2. replay' = NoReplay => BufferInv'
    <3>1. 0 \notin SessionId BY StoreAssumption DEF SessionId
    <3> QED BY <3>1 DEF NoReplay, BufferInv
  <2> QED BY <1>1, <1>3, <2>1, <2>2
<1>5. CASE Stop
  <2>1. PICK st : st = AfterStop OBVIOUS
  <2>2. /\ replay' = replay /\ active' = active /\ store' = st /\ inflight' = <<>>
        /\ tape' = tape /\ replayHalted' = replayHalted /\ late' = (late \/ inflight # <<>>)
    BY <1>5, <2>1 DEF Stop
  <2>3. ASSUME replay'.session = active', ~late'
        PROVE  ShownBut(store[active].events, Before(store, active, replay.cursor))'
    <3>1. ~IsLive BY <2>2, <2>3 DEF RunnerInv
    <3>2. st = store BY <2>1, <3>1, StopDoes
    <3>3. inflight = <<>> /\ ~late BY <2>2, <2>3
    <3>4. Shown(tape, replayHalted, store[active].events, Before(store, active, replay.cursor))
      BY <2>2, <2>3, <3>3 DEF ShownInv, ShownBut
    <3>5. /\ store' = store /\ replay' = replay /\ active' = active /\ inflight' = <<>>
          /\ tape' = tape /\ replayHalted' = replayHalted
      BY <2>2, <3>2
    <3>6. Before(store', active', replay'.cursor) = Before(store, active, replay.cursor)
      BY <3>5 DEF Before, Seqs
    <3> QED BY <3>4, <3>5, <3>6 DEF ShownBut
  <2>4. ShownInv' BY <2>3 DEF ShownInv
  <2> QED BY <1>1, <2>2, <2>4
<1>6. ASSUME NEW s \in SessionId, NEW n \in Targets, StartReplay(s, n)
      PROVE  BufferInv' /\ ShownInv'
  <2>1. PICK st, r : st = AfterStop /\ r = NewReplay(st, s) OBVIOUS
  <2>2. /\ store' = st /\ active' = s /\ replay' = SeekTo(r, n) /\ inflight' = <<>>
        /\ FastForward(st, s, n)
    BY <1>6, <2>1 DEF StartReplay
  <2>3. DOMAIN r = {"session", "cursor", "total", "paused", "buffer"} /\ r.session = s
    BY <2>1 DEF NewReplay, NoReplay
  <2>4. n \in Nat \ {0} BY SessionAssumption
  <2>5. replay'.session = s /\ replay'.buffer = <<>> /\ replay'.cursor = n
    <3>1. replay'.cursor = IF n < 1 THEN 1 ELSE n BY <2>2, <2>3 DEF SeekTo
    <3> QED BY <2>2, <2>3, <2>4, <3>1 DEF SeekTo
  <2>6. Shown(tape', replayHalted', st[s].events, Before(st, s, n)) BY <2>2, ForwardShows
  <2>7. ShownInv' BY <2>2, <2>5, <2>6 DEF ShownInv, ShownBut, Before, Seqs
  <2> QED BY <1>2, <2>5, <2>7
<1>7. ASSUME NEW n \in Targets, Seek(n) PROVE BufferInv' /\ ShownInv'
  <2>1. /\ Controllable /\ store' = store /\ active' = active /\ inflight' = inflight
        /\ FastForward(store, active, n) /\ late' = (inflight # <<>>)
    BY <1>7 DEF Seek
  <2>2. DOMAIN replay = {"session", "cursor", "total", "paused", "buffer"} BY DEF RunnerInv
  <2>3. n \in Nat \ {0} BY SessionAssumption
  <2>4. replay'.session = replay.session /\ replay'.buffer = <<>> /\ replay'.cursor = n
    <3>1. /\ replay'.session = replay.session /\ replay'.buffer = <<>>
          /\ replay'.cursor = IF n < 1 THEN 1 ELSE n
      BY <1>7, <2>2 DEF Seek, SeekTo
    <3>2. ~(n < 1) BY <2>3
    <3> QED BY <3>1, <3>2
  <2>5. replay.session = active /\ active \in SessionId BY <2>1 DEF Controllable, RunnerInv
  <2>6. Shown(tape', replayHalted', store[active].events, Before(store, active, n))
    BY <2>1, ForwardShows
  <2>7. ShownInv' BY <2>1, <2>4, <2>6 DEF ShownInv, ShownBut, Before, Seqs
  <2> QED BY <1>2, <2>4, <2>5, <2>7
<1>8. CASE Pause \/ Resume
  <2>1. /\ store' = store /\ active' = active /\ inflight' = inflight /\ tape' = tape
        /\ replayHalted' = replayHalted /\ late' = late
        /\ \E p \in BOOLEAN : replay' = [replay EXCEPT !.paused = p]
    BY <1>8 DEF Pause, Resume
  <2>2. /\ replay'.session = replay.session /\ replay'.buffer = replay.buffer
        /\ replay'.cursor = replay.cursor
    BY <2>1
  <2>3. ShownInv' BY <2>1, <2>2 DEF ShownInv, ShownBut, Before, Seqs
  <2>4. BufferInv' BY <2>1, <2>2 DEF BufferInv, From, Seqs
  <2> QED BY <2>3, <2>4
<1>9. CASE ReplayStep
  <2>1. /\ task = "replay" /\ store' = store /\ active' = active /\ late' = late
        /\ Process(inflight)
        /\ \/ inflight' = <<>> /\ replay' = replay
           \/ /\ HasEvent(store, replay) /\ replay' = Advanced(store, replay)
              /\ inflight' = <<Head(Buffered(store, replay))>>
    BY <1>9 DEF ReplayStep
  <2>2. replay.session = active /\ active \in SessionId BY <2>1 DEF ReplayInv, RunnerInv
  <2>3. PICK log, c : log = store[active].events /\ c = replay.cursor OBVIOUS
  <2>4. LogOK(log) /\ c \in Nat /\ RowsOK(store)
    BY <2>2, <2>3 DEF StoreInv, RowsOK, RowOK, ReplayInv
  <2>5. PICK b : b = Before(store, active, c) OBVIOUS
  <2>6. b = {n \in DOMAIN log : n < c} BY <2>3, <2>5 DEF Before, Seqs
  <2>7. ASSUME ~late PROVE Shown(tape', replayHalted', log, b)
    <3>1. ShownBut(log, b) BY <2>2, <2>3, <2>5, <2>7 DEF ShownInv
    <3>2. b \subseteq DOMAIN log BY <2>6
    <3> QED BY <2>1, <2>4, <3>1, <3>2, HeldProcessed
  <2>8. CASE inflight' = <<>> /\ replay' = replay
    <3>1. ShownInv' BY <2>1, <2>3, <2>5, <2>7, <2>8 DEF ShownInv, ShownBut, Before, Seqs
    <3> QED BY <1>1, <2>8, <3>1
  <2>9. CASE /\ HasEvent(store, replay) /\ replay' = Advanced(store, replay)
             /\ inflight' = <<Head(Buffered(store, replay))>>
    <3>0. PICK buf : buf = Buffered(store, replay) OBVIOUS
    <3>1. PICK u \in Nat : buf = InOrder(log, UpTo({n \in DOMAIN log : c <= n}, u))
      <4>1. PICK st, r : st = store /\ r = replay OBVIOUS
      <4>2. r.session \in SessionId /\ r.buffer \in Seq(Event) /\ RowsOK(st)
        BY <2>2, <2>4, <4>1 DEF ReplayInv
      <4>3. /\ r.buffer # <<>> => Buffered(st, r) = r.buffer
            /\ r.buffer = <<>> =>
                 \E u \in Nat : Buffered(st, r) =
                   InOrder(st[r.session].events, UpTo(From(st, r.session, r.cursor), u))
        BY <4>2, BufferedIs
      <4>4. \E u \in Nat : r.buffer =
              InOrder(st[r.session].events, UpTo(From(st, r.session, r.cursor), u))
        BY <4>1, <4>2 DEF BufferInv
      <4>5. \E u \in Nat : Buffered(st, r) =
              InOrder(st[r.session].events, UpTo(From(st, r.session, r.cursor), u))
        BY <4>3, <4>4
      <4>6. From(st, r.session, r.cursor) = {n \in DOMAIN log : c <= n}
        BY <2>2, <2>3, <4>1 DEF From, Seqs
      <4> QED BY <2>2, <2>3, <3>0, <4>1, <4>5, <4>6
    <3>2. buf # <<>> BY <2>9, <3>0 DEF HasEvent
    <3>3. PICK m \in DOMAIN log :
            /\ c <= m /\ m \in Nat /\ Head(buf) = log[m] /\ Head(buf).seq = m
            /\ \A n \in DOMAIN log : c <= n => m <= n
            /\ Tail(buf) = InOrder(log, UpTo({n \in DOMAIN log : m + 1 <= n}, u))
      <4>1. ReadsOn(log, c, u, buf) BY <2>4, <3>1, <3>2, NextTaken
      <4> QED BY <4>1 DEF ReadsOn
    <3>4. DOMAIN replay = {"session", "cursor", "total", "paused", "buffer"} BY DEF RunnerInv
    <3>5. /\ replay'.session = active /\ replay'.buffer = Tail(buf) /\ replay'.cursor = m + 1
      BY <2>2, <2>9, <3>0, <3>3, <3>4 DEF Advanced
    <3>6. BufferInv' BY <2>1, <2>3, <3>3, <3>5 DEF BufferInv, From, Seqs
    <3>7. PICK b2 : b2 = Before(store, active, m + 1) OBVIOUS
    <3>8. m \in b2 /\ (\A n \in b2 : n <= m) /\ b2 \ {m} = b
      <4>1. b2 = {n \in DOMAIN log : n < m + 1} BY <2>3, <3>7 DEF Before, Seqs
      <4>2. \A n \in DOMAIN log : n \in Nat BY <2>4 DEF LogOK
      <4>3. ASSUME NEW n \in DOMAIN log
            PROVE  (n < m + 1 <=> n <= m) /\ (n < c <=> n < m + 1 /\ n # m)
        <5>1. n \in Nat BY <4>2
        <5>2. c <= n => m <= n BY <3>3
        <5> QED BY <2>4, <3>3, <5>1, <5>2
      <4> QED BY <2>6, <3>3, <4>1, <4>3
    <3>9. inflight' = <<log[m]>> BY <2>9, <3>0, <3>3
    <3>10. ASSUME ~late' PROVE ShownBut(store[active].events, Before(store, active, replay.cursor))'
      <4>1. Shown(tape', replayHalted', log, b2 \ {m}) BY <2>1, <2>7, <3>8, <3>10
      <4>2. /\ store'[active'].events = log
            /\ Before(store', active', replay'.cursor) = b2
        BY <2>1, <2>3, <3>5, <3>7 DEF Before, Seqs
      <4> QED BY <3>8, <3>9, <4>1, <4>2 DEF ShownBut
    <3>11. ShownInv' BY <3>10 DEF ShownInv
    <3> QED BY <3>6, <3>11
  <2> QED BY <2>1, <2>8, <2>9
<1>10. ASSUME Recorded, replay' = replay PROVE BufferInv' /\ ShownInv'
  BY <1>1, <1>3, <1>10 DEF Recorded
<1>11. ASSUME NEW x \in Symbols,
              (\E n \in 1..MaxBatch : LiveStep(x, n)) \/ UserOrder(x) \/ AutoResume(x)
       PROVE  BufferInv' /\ ShownInv'
  <2>1. Recorded BY <1>11, LiveSteps, UserOrders, Timers
  <2> QED BY <1>10, <1>11, <2>1 DEF LiveStep, UserOrder, AutoResume
<1>12. ASSUME NEW x \in Symbols, NEW kinds \in Scenarios, NEW timed \in BOOLEAN,
              InjectScenario(x, kinds, timed)
       PROVE  BufferInv' /\ ShownInv'
  <2>1. Recorded BY <1>12, Scenes
  <2> QED BY <1>10, <1>12, <2>1 DEF InjectScenario
<1>13. CASE UNCHANGED vars
  <2>1. /\ store' = store /\ replay' = replay /\ active' = active /\ inflight' = inflight
        /\ tape' = tape /\ replayHalted' = replayHalted /\ late' = late
    BY <1>13 DEF vars, runner
  <2>2. ShownInv' BY <2>1 DEF ShownInv, ShownBut, Before, Seqs
  <2> QED BY <1>1, <2>1, <2>2
<1> QED BY <1>4, <1>5, <1>6, <1>7, <1>8, <1>9, <1>11, <1>12, <1>13 DEF Next

LEMMA InitShown ==
  ASSUME Init
  PROVE  BufferInv /\ ShownInv
<1>1. 0 \notin SessionId /\ 1 \in SessionId BY StoreAssumption DEF SessionId
<1>2. replay.session = 0 /\ active = 1 BY DEF Init, NoReplay
<1> QED BY <1>1, <1>2 DEF BufferInv, ShownInv

\* A replay that no seek and no stop disturbed between an event's arrival and its
\* processing shows exactly what the log holds before the cursor, except the event that
\* waits: across every pause, resume, seek, stop, refill of the buffer and new replay.
THEOREM ReplaysShowTheirLog == ~AnyTime => (Spec => []ReplayShowsPrefix)
<1> SUFFICES ASSUME ~AnyTime PROVE Spec => []ReplayShowsPrefix OBVIOUS
<1> DEFINE Inv == RunnerInv /\ SourcesInv /\ StoreInv /\ ReplayInv /\ BufferInv /\ ShownInv
<1>1. Init => Inv BY InitOK, InitStored, InitReplay, InitShown
<1>2. Inv /\ [Next]_vars => Inv' BY StepsOK, StepsStored, StepsReplay, StepsBuffer DEF StepOK
<1>3. Inv => ReplayShowsPrefix
  <2> SUFFICES ASSUME RunnerInv, StoreInv, ReplayInv, ShownInv,
                      task \in {"replay", "done"}, ~late,
                      NEW before,
                      before = GetEvents(store, active, Before(store, active, replay.cursor)),
                      NEW seen, seen = SubSeq(before, 1, Len(before) - Len(inflight))
               PROVE  tape = OnTape(seen) /\ replayHalted = HaltedAfter(FALSE, seen)
    BY DEF ReplayShowsPrefix
  <2>1. active \in SessionId /\ replay.session = active BY DEF RunnerInv, ReplayInv
  <2>2. PICK log, b : log = store[active].events /\ b = Before(store, active, replay.cursor)
    OBVIOUS
  <2>3. LogOK(log) /\ b \subseteq DOMAIN log /\ ShownBut(log, b)
    BY <2>1, <2>2 DEF StoreInv, RowsOK, RowOK, ShownInv, Before, Seqs
  <2>4. before = InOrder(log, b) /\ before \in Seq(Event)
    BY <2>2, <2>3, EventsInOrder DEF GetEvents
  <2>5. CASE inflight = <<>> /\ Shown(tape, replayHalted, log, b)
    <3>1. Len(inflight) = 0 /\ Len(before) \in Nat BY <2>4, <2>5
    <3>2. seen = SubSeq(before, 1, Len(before)) BY <3>1
    <3>3. seen = before BY <2>4, <3>2, SubSeqFull
    <3> QED BY <2>4, <2>5, <3>3 DEF Shown
  <2>6. ASSUME NEW m \in b, \A n \in b : n <= m, inflight = <<log[m]>>,
               Shown(tape, replayHalted, log, b \ {m})
        PROVE  tape = OnTape(seen) /\ replayHalted = HaltedAfter(FALSE, seen)
    <3>1. b \ {m} \subseteq DOMAIN log BY <2>3
    <3>2. PICK es \in Seq(Event), e \in Event : es = InOrder(log, b \ {m}) /\ e = log[m]
      <4>1. log[m] \in Event BY <2>3 DEF LogOK
      <4> QED BY <2>3, <3>1, <4>1, EventsInOrder
    <3>3. before = Append(es, e) BY <2>3, <2>4, <2>6, <3>2, LastOne
    <3>4. seen = es
      <4>1. Len(before) = Len(es) + 1 /\ Len(es) \in Nat /\ Len(inflight) = 1
        BY <2>6, <3>2, <3>3, AppendProperties
      <4>2. seen = SubSeq(before, 1, Len(es)) BY <4>1
      <4> QED BY <3>2, <3>3, <4>2, FrontOf
    <3> QED BY <2>6, <3>2, <3>4 DEF Shown
  <2> QED BY <2>3, <2>5, <2>6 DEF ShownBut
<1> QED BY <1>1, <1>2, <1>3, PTL DEF Spec

-----------------------------------------------------------------------------
(* What a live session shows of its log, and what its log tells. *)

MarketsOf(log) == {log[n] : n \in {m \in DOMAIN log : log[m].kind = "MARKET"}}
MarksOf(log) == {n \in DOMAIN log : log[n].kind \in Marking}

\* The tape t has each of the log's trades and deltas once.
ShowsAll(t, log) ==
  /\ t \in Seq(Event) /\ ToSet(t) = MarketsOf(log)
  /\ \A i, j \in DOMAIN t : t[i] = t[j] => i = j

\* Whether an engine is halted is what the last mark of the log says.
Tells(h, log) ==
  h <=> \E m \in MarksOf(log) : log[m].kind = "HALT" /\ \A n \in MarksOf(log) : n <= m

\* No trade or delta that waits in the queue is logged.  A mark that waits and is not
\* logged is the copy of a timer's resume, which is logged under the number before.
Waits(q, log) ==
  /\ \A i \in DOMAIN q : q[i].kind = "MARKET" => q[i].seq \notin DOMAIN log
  /\ \A i \in DOMAIN q :
       q[i].kind \in Marking /\ q[i].seq \notin DOMAIN log =>
         q[i].kind = "RESUME" /\ \E n \in DOMAIN log : n + 1 = q[i].seq /\ log[n].kind = "RESUME"

LiveOK(t, q, h, log) == ShowsAll(t, log) /\ Waits(q, log) /\ h \in BOOLEAN /\ Tells(h, log)

LiveInv ==
  IsLive => LiveOK(tape, sources[Primary].queue, sources[Primary].halted, store[active].events)

\* More events in the log: all of them new or there already.
LEMMA MarketsMore ==
  ASSUME NEW log, NEW e, NEW log2, Extended(log, log2, e), Kept(log, log2)
  PROVE  /\ MarketsOf(log2) = IF e.kind = "MARKET" THEN MarketsOf(log) \cup {e} ELSE MarketsOf(log)
         /\ MarksOf(log2) = IF e.kind \in Marking THEN MarksOf(log) \cup {e.seq} ELSE MarksOf(log)
<1>1. /\ DOMAIN log2 = DOMAIN log \cup {e.seq} /\ log2[e.seq] = e
      /\ \A n \in DOMAIN log : log2[n] = log[n]
  BY DEF Extended, Kept
<1>2. MarksOf(log2) = IF e.kind \in Marking THEN MarksOf(log) \cup {e.seq} ELSE MarksOf(log)
  BY <1>1 DEF MarksOf
<1>3. MarketsOf(log2) = IF e.kind = "MARKET" THEN MarketsOf(log) \cup {e} ELSE MarketsOf(log)
  BY <1>1 DEF MarketsOf
<1> QED BY <1>2, <1>3

\* A trade or delta that is new to the log is new to the tape.
LEMMA ShownOnce ==
  ASSUME NEW log, LogOK(log), NEW t, ShowsAll(t, log), NEW e \in Event, e.seq \notin DOMAIN log,
         NEW log2, MarketsOf(log2) = MarketsOf(log) \cup {e}
  PROVE  ShowsAll(Append(t, e), log2)
<1>1. t \in Seq(Event) /\ ToSet(t) = MarketsOf(log) /\ \A i, j \in DOMAIN t : t[i] = t[j] => i = j
  BY DEF ShowsAll
<1>2. e \notin ToSet(t)
  <2>1. \A n \in DOMAIN log : log[n].seq = n BY DEF LogOK
  <2>2. e \notin MarketsOf(log) BY <2>1 DEF MarketsOf
  <2> QED BY <1>1, <2>2
<1>3. PICK more \in Seq(Event), len \in Nat : more = Append(t, e) /\ len = Len(t)
  BY <1>1, AppendProperties, LenProperties
<1>4. /\ DOMAIN t = 1..len /\ DOMAIN more = 1..(len + 1)
      /\ \A i \in 1..len : more[i] = t[i] /\ more[i] # e
      /\ more[len + 1] = e
  <2>1. DOMAIN t = 1..len BY <1>1, <1>3, LenProperties
  <2>2. Len(more) = len + 1 /\ (\A i \in 1..len : more[i] = t[i]) /\ more[len + 1] = e
    BY <1>1, <1>3, AppendProperties
  <2>3. DOMAIN more = 1..(len + 1) BY <1>3, <2>2, LenProperties
  <2>4. \A i \in 1..len : t[i] # e BY <1>2, <2>1 DEF ToSet
  <2> QED BY <2>1, <2>2, <2>3, <2>4
<1>5. ToSet(more) = ToSet(t) \cup {e}
  <2>1. DOMAIN more = DOMAIN t \cup {len + 1} BY <1>4
  <2> QED BY <1>4, <2>1 DEF ToSet
<1>6. ASSUME NEW i \in DOMAIN more, NEW j \in DOMAIN more, more[i] = more[j] PROVE i = j
  <2>1. i \in 1..len \/ i = len + 1 BY <1>4
  <2>2. j \in 1..len \/ j = len + 1 BY <1>4
  <2> QED BY <1>1, <1>4, <1>6, <2>1, <2>2
<1> QED BY <1>1, <1>3, <1>5, <1>6 DEF ShowsAll

LEMMA TellsSame ==
  ASSUME NEW log, NEW log2, Kept(log, log2), MarksOf(log2) = MarksOf(log), NEW h, Tells(h, log)
  PROVE  Tells(h, log2)
<1>1. \A n \in MarksOf(log) : log2[n] = log[n] BY DEF MarksOf, Kept
<1> QED BY <1>1 DEF Tells

LEMMA TellsLast ==
  ASSUME NEW log2, NEW m \in MarksOf(log2), m \in Nat,
         \A n \in MarksOf(log2) : n \in Nat /\ n <= m, NEW h, h <=> log2[m].kind = "HALT"
  PROVE  Tells(h, log2)
<1>1. ASSUME NEW k \in MarksOf(log2), \A n \in MarksOf(log2) : n <= k PROVE k = m
  <2>1. k <= m /\ m <= k /\ k \in Nat BY <1>1
  <2> QED BY <2>1
<1> QED BY <1>1 DEF Tells

\* A second resume, just behind the one it copies, says nothing new.
LEMMA TellsAgain ==
  ASSUME NEW log, LogOK(log), NEW log2, Kept(log, log2), NEW m \in Nat, NEW n \in DOMAIN log,
         n + 1 = m, log[n].kind = "RESUME", m \notin DOMAIN log, log2[m].kind = "RESUME",
         MarksOf(log2) = MarksOf(log) \cup {m}, NEW h, Tells(h, log)
  PROVE  Tells(h, log2)
<1>1. \A k \in MarksOf(log) : log2[k] = log[k] /\ k \in Nat /\ k # m BY DEF MarksOf, Kept, LogOK
<1>2. n \in MarksOf(log) /\ n \in Nat BY DEF MarksOf, Marking, LogOK
<1>3. ASSUME NEW k \in MarksOf(log), log[k].kind = "HALT", \A i \in MarksOf(log) : i <= k
      PROVE  k \in MarksOf(log2) /\ log2[k].kind = "HALT" /\ \A i \in MarksOf(log2) : i <= k
  <2>1. n <= k /\ k # n /\ k # m /\ k \in Nat BY <1>1, <1>2, <1>3
  <2>2. m <= k BY <1>2, <2>1
  <2> QED BY <1>1, <1>3, <2>2
<1>4. ASSUME NEW k \in MarksOf(log2), log2[k].kind = "HALT", \A i \in MarksOf(log2) : i <= k
      PROVE  k \in MarksOf(log) /\ log[k].kind = "HALT" /\ \A i \in MarksOf(log) : i <= k
  <2>1. k # m BY <1>4
  <2> QED BY <1>1, <1>4, <2>1
<1> QED BY <1>3, <1>4 DEF Tells

\* The loop logs and processes the head of the queue.
LEMMA HeadShown ==
  ASSUME NEW q \in Seq(Event), q # <<>>, NEW next, NEW log, LogOK(log), Numbered(q, next, log),
         NEW t, NEW h, LiveOK(t, q, h, log), NEW e, e = q[1],
         NEW log2, Extended(log, log2, e), Kept(log, log2)
  PROVE  /\ ShowsAll(t \o OnTape(<<e>>), log2) /\ Tells(h, log2)
         /\ Waits(Tail(q), log2)
<1>1. 1 \in DOMAIN q /\ e \in Event
  <2>1. 1 \in DOMAIN q OBVIOUS
  <2> QED BY <2>1, ElementOfSeq
<1>2. e.seq \in Nat BY <1>1 DEF Event
<1>3. ShowsAll(t, log) /\ Waits(q, log) /\ Tells(h, log) BY DEF LiveOK
<1>4. /\ MarketsOf(log2) = IF e.kind = "MARKET" THEN MarketsOf(log) \cup {e} ELSE MarketsOf(log)
      /\ MarksOf(log2) = IF e.kind \in Marking THEN MarksOf(log) \cup {e.seq} ELSE MarksOf(log)
  BY MarketsMore
<1>5. t \in Seq(Event) /\ OnTape(<<e>>) = IF e.kind = "MARKET" THEN <<e>> ELSE <<>>
  BY <1>1, <1>3, ProcessedOne DEF ShowsAll
<1>6. ShowsAll(t \o OnTape(<<e>>), log2)
  <2>1. CASE e.kind = "MARKET"
    <3>1. e.seq \notin DOMAIN log BY <1>1, <1>3, <2>1 DEF Waits
    <3>2. ShowsAll(Append(t, e), log2) BY <1>1, <1>3, <1>4, <2>1, <3>1, ShownOnce
    <3>3. Append(t, e) = t \o <<e>> BY <1>1, <1>5, AppendIsConcat
    <3> QED BY <1>5, <2>1, <3>2, <3>3
  <2>2. CASE e.kind # "MARKET"
    <3>1. t \o <<>> = t BY <1>5, ConcatEmptySeq
    <3> QED BY <1>3, <1>4, <1>5, <2>2, <3>1 DEF ShowsAll
  <2> QED BY <2>1, <2>2
<1>7. Tells(h, log2)
  <2>1. CASE e.kind \notin Marking BY <1>3, <1>4, <2>1, TellsSame
  <2>2. CASE e.kind \in Marking /\ e.seq \in DOMAIN log
    <3>1. log[e.seq] = e BY <1>1, <2>2 DEF Numbered
    <3>2. e.seq \in MarksOf(log) BY <2>2, <3>1 DEF MarksOf
    <3>3. MarksOf(log2) = MarksOf(log) BY <1>4, <3>2
    <3> QED BY <1>3, <3>3, TellsSame
  <2>3. CASE e.kind \in Marking /\ e.seq \notin DOMAIN log
    <3>1. PICK n \in DOMAIN log : n + 1 = e.seq /\ log[n].kind = "RESUME" /\ e.kind = "RESUME"
      BY <1>1, <1>3, <2>3 DEF Waits
    <3>2. log2[e.seq] = e BY DEF Extended
    <3>3. MarksOf(log2) = MarksOf(log) \cup {e.seq} BY <1>4, <2>3
    <3>4. PICK m \in Nat : m = e.seq BY <1>2
    <3>5. /\ n + 1 = m /\ log[n].kind = "RESUME" /\ m \notin DOMAIN log /\ log2[m].kind = "RESUME"
          /\ MarksOf(log2) = MarksOf(log) \cup {m}
      BY <2>3, <3>1, <3>2, <3>3, <3>4
    <3> QED BY <1>3, <3>5, TellsAgain
  <2> QED BY <2>1, <2>2, <2>3
<1>8. Waits(Tail(q), log2)
  <2>1. ASSUME NEW i \in DOMAIN Tail(q)
        PROVE  \E k \in DOMAIN q : k # 1 /\ Tail(q)[i] = q[k]
    <3>1. i \in Nat /\ i + 1 \in DOMAIN q /\ i + 1 # 1 /\ Tail(q)[i] = q[i + 1] OBVIOUS
    <3> QED BY <3>1
  <2>2. \A k \in DOMAIN q : k # 1 => q[k].seq # e.seq BY <1>1 DEF Numbered
  <2>3. DOMAIN log2 = DOMAIN log \cup {e.seq} BY DEF Extended
  <2>4. \A n \in DOMAIN log : n \in DOMAIN log2 /\ log2[n] = log[n] BY DEF Kept
  <2>5. \A k \in DOMAIN q : q[k].kind = "MARKET" /\ k # 1 => q[k].seq \notin DOMAIN log2
    BY <1>3, <2>2, <2>3 DEF Waits
  <2>6. ASSUME NEW k \in DOMAIN q, q[k].kind \in Marking, q[k].seq \notin DOMAIN log2
        PROVE  /\ q[k].kind = "RESUME"
               /\ \E n \in DOMAIN log2 : n + 1 = q[k].seq /\ log2[n].kind = "RESUME"
    <3>1. q[k].seq \notin DOMAIN log BY <2>3, <2>6
    <3>2. PICK n \in DOMAIN log : /\ q[k].kind = "RESUME"
                                   /\ n + 1 = q[k].seq /\ log[n].kind = "RESUME"
      BY <1>3, <2>6, <3>1 DEF Waits
    <3> QED BY <2>4, <3>2
  <2> QED BY <2>1, <2>5, <2>6 DEF Waits
<1> QED BY <1>6, <1>7, <1>8

LEMMA MarketsMany ==
  ASSUME NEW log, NEW es, NEW log2, With(log, log2, es), Kept(log, log2)
  PROVE  /\ MarketsOf(log2) = MarketsOf(log) \cup {es[i] : i \in Markets(es)}
         /\ MarksOf(log2) = MarksOf(log) \cup {es[i].seq : i \in Marks(es)}
<1>1. /\ DOMAIN log2 = DOMAIN log \cup {es[i].seq : i \in DOMAIN es}
      /\ \A i \in DOMAIN es : log2[es[i].seq] = es[i]
      /\ \A n \in DOMAIN log : log2[n] = log[n]
  BY DEF With, Kept
<1>2. MarketsOf(log2) = MarketsOf(log) \cup {es[i] : i \in Markets(es)}
  <2>1. ASSUME NEW n \in DOMAIN log2, log2[n].kind = "MARKET"
        PROVE  log2[n] \in MarketsOf(log) \cup {es[i] : i \in Markets(es)}
    BY <1>1, <2>1 DEF MarketsOf, Markets
  <2>2. \A n \in DOMAIN log : log[n].kind = "MARKET" => log[n] \in MarketsOf(log2)
    BY <1>1 DEF MarketsOf
  <2>3. \A i \in Markets(es) : es[i] \in MarketsOf(log2) BY <1>1 DEF MarketsOf, Markets
  <2> QED BY <2>1, <2>2, <2>3 DEF MarketsOf
<1>3. MarksOf(log2) = MarksOf(log) \cup {es[i].seq : i \in Marks(es)}
  BY <1>1 DEF MarksOf, Marks
<1> QED BY <1>2, <1>3

\* log2 holds no more than log below next.
Beyond(log, log2, next) == \A n \in DOMAIN log2 : n \in DOMAIN log \/ (n \in Nat /\ next <= n)

\* What waits goes on waiting while fresh numbers are logged, and more may wait.
LEMMA WaitsMore ==
  ASSUME NEW q \in Seq(Event), NEW next \in Nat, NEW log, Numbered(q, next, log), Waits(q, log),
         NEW log2, Kept(log, log2), Beyond(log, log2, next), NEW es \in Seq(Event), Waits(es, log2)
  PROVE  Waits(q \o es, log2)
<1>1. ASSUME NEW i \in DOMAIN q
      PROVE  q[i].seq \in DOMAIN log2 => q[i].seq \in DOMAIN log
  <2>1. q[i].seq \in Nat /\ q[i].seq < next BY SeqIsNat DEF Numbered
  <2>2. ~(next <= q[i].seq) BY <2>1
  <2> QED BY <2>2 DEF Beyond
<1>2. \A n \in DOMAIN log : n \in DOMAIN log2 /\ log2[n] = log[n] BY DEF Kept
<1>3. ASSUME NEW i \in DOMAIN q, q[i].kind \in Marking, q[i].seq \notin DOMAIN log2
      PROVE  /\ q[i].kind = "RESUME"
             /\ \E n \in DOMAIN log2 : n + 1 = q[i].seq /\ log2[n].kind = "RESUME"
  <2>1. q[i].seq \notin DOMAIN log BY <1>2, <1>3
  <2>2. PICK n \in DOMAIN log : q[i].kind = "RESUME" /\ n + 1 = q[i].seq /\ log[n].kind = "RESUME"
    BY <1>3, <2>1 DEF Waits
  <2> QED BY <1>2, <2>2
<1>4. \A i \in DOMAIN q : q[i].kind = "MARKET" => q[i].seq \notin DOMAIN log2
  BY <1>1 DEF Waits
<1>5. \A i \in DOMAIN (q \o es) :
        (\E k \in DOMAIN q : (q \o es)[i] = q[k]) \/ (\E k \in DOMAIN es : (q \o es)[i] = es[k])
  <2> SUFFICES ASSUME NEW i \in DOMAIN (q \o es)
               PROVE  \/ \E k \in DOMAIN q : (q \o es)[i] = q[k]
                      \/ \E k \in DOMAIN es : (q \o es)[i] = es[k]
    OBVIOUS
  <2>1. /\ DOMAIN (q \o es) = 1..(Len(q) + Len(es)) /\ DOMAIN q = 1..Len(q)
        /\ DOMAIN es = 1..Len(es) /\ Len(q) \in Nat /\ Len(es) \in Nat
    OBVIOUS
  <2>2. CASE i \in 1..Len(q) BY <2>1, <2>2
  <2>3. CASE i \notin 1..Len(q)
    <3>1. i - Len(q) \in DOMAIN es /\ (q \o es)[i] = es[i - Len(q)] BY <2>1, <2>3
    <3> QED BY <3>1
  <2> QED BY <2>2, <2>3
<1> QED BY <1>3, <1>4, <1>5 DEF Waits

\* New events of an engine are trades, deltas and order events, and not logged yet.
LEMMA EngineWaits ==
  ASSUME NEW x \in Symbols, NEW h, NEW next \in Nat \ {0}, NEW n \in Nat, NEW log2,
         \A m \in DOMAIN log2 : m \in Nat /\ m < next
  PROVE  Waits(EngineEvents(x, h, next, n), log2)
<1>1. PICK es : es = EngineEvents(x, h, next, n) OBVIOUS
<1>2. DOMAIN es = 1..n /\ \A i \in 1..n : es[i].seq = next + i - 1 BY <1>1, EngineEventsAre
<1>3. \A i \in DOMAIN es : es[i].kind \notin Marking
  <2>1. \A i \in 1..n : es[i].kind \in {"ORDER", "MARKET"} BY <1>1 DEF EngineEvents, Evt
  <2> QED BY <1>2, <2>1 DEF Marking
<1>4. \A i \in DOMAIN es : ~(es[i].seq < next) BY <1>2
<1>5. \A i \in DOMAIN es : es[i].seq \notin DOMAIN log2 BY <1>4
<1> QED BY <1>1, <1>3, <1>5 DEF Waits

\* The halt flags.
LEMMA HaltFlags ==
  ASSUME NEW src, SourcesOK(src), NEW x \in Symbols
  PROVE  /\ \A n : Allocated(src, x, n)[x].halted = src[x].halted
         /\ \A n : Taken(src, x, n)[x].halted = src[x].halted
         /\ \A kinds : Inject(src, x, kinds)[x].halted =
              ("HALT" \in ToSet(kinds) \/ (src[x].halted /\ "RESUME" \notin ToSet(kinds)))
<1>1. DOMAIN src = Symbols /\ DOMAIN src[x] = {"next", "halted", "queue"} BY DEF SourcesOK, SourceOK
<1>2. \A n : Allocated(src, x, n)[x].halted = src[x].halted BY <1>1 DEF Allocated
<1>3. \A n : Taken(src, x, n)[x].halted = src[x].halted BY <1>1 DEF Taken, Allocated
<1>4. ASSUME NEW kinds
      PROVE  Inject(src, x, kinds)[x].halted =
               ("HALT" \in ToSet(kinds) \/ (src[x].halted /\ "RESUME" \notin ToSet(kinds)))
  <2>1. PICK cs : cs = Copies(src, x, kinds) OBVIOUS
  <2>2. Inject(src, x, kinds) =
          [src EXCEPT ![x].queue = @ \o cs, ![x].next = @ + Len(kinds),
                      ![x].halted = "HALT" \in ToSet(kinds) \/ (@ /\ "RESUME" \notin ToSet(kinds))]
    BY <2>1 DEF Inject
  <2> QED BY <1>1, <2>2
<1> QED BY <1>2, <1>3, <1>4

\* What is known of a live session with one symbol.
AsKnown == RunnerInv /\ SourcesInv /\ StoreInv /\ SingleSymbol /\ LogInv /\ LiveInv

LEMMA LiveFacts ==
  ASSUME AsKnown, IsLive
  PROVE  \A x \in Symbols :
           /\ x = Primary /\ SourcesOK(sources)
           /\ sources[x].queue \in Seq(Event) /\ sources[x].queue # <<>>
           /\ sources[x].next \in Nat \ {0} /\ active \in SessionId /\ Rows(store)
           /\ LogOK(store[active].events)
           /\ Numbered(sources[x].queue, sources[x].next, store[active].events)
           /\ LiveOK(tape, sources[x].queue, sources[x].halted, store[active].events)
<1> SUFFICES ASSUME NEW x \in Symbols
             PROVE  /\ x = Primary /\ SourcesOK(sources)
                    /\ sources[x].queue \in Seq(Event) /\ sources[x].queue # <<>>
                    /\ sources[x].next \in Nat \ {0} /\ active \in SessionId /\ Rows(store)
                    /\ LogOK(store[active].events)
                    /\ Numbered(sources[x].queue, sources[x].next, store[active].events)
                    /\ LiveOK(tape, sources[x].queue, sources[x].halted, store[active].events)
  OBVIOUS
<1>1. x = Primary BY PrimaryIsSymbol DEF AsKnown, SingleSymbol
<1>2. SourcesOK(sources) /\ SourceOK(sources[x]) BY DEF AsKnown, SourcesInv, SourcesOK
<1>3. active \in SessionId /\ Rows(store) BY DEF AsKnown, RunnerInv
<1>4. LogOK(store[active].events) BY <1>3 DEF AsKnown, StoreInv, RowsOK, RowOK
<1>5. /\ Numbered(sources[x].queue, sources[x].next, store[active].events)
      /\ LiveOK(tape, sources[x].queue, sources[x].halted, store[active].events)
  BY <1>1 DEF AsKnown, LogInv, LiveInv
<1> QED BY <1>1, <1>2, <1>3, <1>4, <1>5 DEF SourceOK

\* A step that stays live has to keep what is known of the data.
LEMMA LiveOn ==
  ASSUME NEW x \in Symbols, x = Primary,
         LiveOK(tape', sources'[x].queue, sources'[x].halted, store'[active'].events)
  PROVE  LiveInv'
BY DEF LiveInv

LEMMA LoopShows ==
  ASSUME AsKnown, NEW x \in Symbols, NEW n \in 1..MaxBatch, LiveStep(x, n)
  PROVE  LiveInv'
<1>0. RunnerInv /\ SourcesInv /\ SingleSymbol /\ LogInv BY DEF AsKnown
<1>1. StepOK /\ Recorded BY <1>0, LiveSteps
<1>2. IsLive /\ active' = active /\ LogsKept(store, store') /\ n \in Nat \ {0} /\ n \in Nat
  BY <1>0, <1>1, SourcesAssumption DEF StepOK, Recorded
<1>3. PICK q, next, log, h, log2, e, new :
        /\ q = sources[x].queue /\ next = sources[x].next /\ log = store[active].events
        /\ h = sources[x].halted /\ log2 = store'[active].events /\ e = Head(q)
        /\ new = sources'
  OBVIOUS
<1>4. /\ x = Primary /\ q \in Seq(Event) /\ q # <<>> /\ next \in Nat \ {0} /\ next \in Nat
      /\ active \in SessionId /\ SourcesOK(sources) /\ Rows(store)
      /\ LogOK(log) /\ Numbered(q, next, log) /\ LiveOK(tape, q, h, log)
  BY <1>2, <1>3, LiveFacts
<1>5. /\ new = Taken(sources, x, n) /\ store' = AppendEvent(store, active, e)
      /\ tape' = tape \o OnTape(<<e>>)
  BY <1>3 DEF LiveStep, Process
<1>6. e = q[1] BY <1>3, <1>4
<1>7. Extended(log, log2, e) /\ Kept(log, log2)
  <2>1. Logged(store, store', active, e) BY <1>4, <1>5, AppendOne
  <2> QED BY <1>2, <1>3, <1>4, <2>1 DEF Logged, Extended, LogsKept
<1>8. /\ ShowsAll(tape', log2) /\ Tells(h, log2)
      /\ Waits(Tail(q), log2)
  <2>1. /\ ShowsAll(tape \o OnTape(<<e>>), log2) /\ Tells(h, log2)
        /\ Waits(Tail(q), log2)
    BY <1>4, <1>6, <1>7, HeadShown
  <2> QED BY <1>5, <2>1
<1>9. new[x].halted = h BY <1>3, <1>4, <1>5, HaltFlags
<1>10. Waits(new[x].queue, log2)
  <2>1. /\ Len(q) > 1 => new[x].queue = Tail(q)
        /\ ~(Len(q) > 1) => new[x].queue = EngineEvents(x, h, next, n)
    BY <1>2, <1>3, <1>4, <1>5, TakenDoes
  <2>2. \A m \in DOMAIN log2 : m \in Nat /\ m < next
    <3>1. 1 \in DOMAIN q BY <1>4
    <3>2. e.seq \in Nat /\ e.seq < next BY <1>4, <1>6, <3>1, SeqIsNat DEF Numbered
    <3> QED BY <1>4, <1>7, <3>2 DEF Extended, Numbered
  <2>3. Waits(EngineEvents(x, h, next, n), log2) BY <1>2, <1>4, <2>2, EngineWaits
  <2> QED BY <1>8, <2>1, <2>3
<1>11. LiveOK(tape', new[x].queue, new[x].halted, log2)
  BY <1>4, <1>8, <1>9, <1>10 DEF LiveOK
<1> QED BY <1>2, <1>3, <1>4, <1>11, LiveOn

LEMMA OrdersShow ==
  ASSUME AsKnown, NEW x \in Symbols, UserOrder(x)
  PROVE  LiveInv'
<1>0. RunnerInv /\ SourcesInv /\ SingleSymbol /\ LogInv BY DEF AsKnown
<1>1. StepOK /\ Recorded BY <1>0, UserOrders
<1>2. IsLive /\ active' = active /\ LogsKept(store, store')
  BY <1>0, <1>1 DEF StepOK, Recorded
<1>3. PICK q, next, log, h, log2, new :
        /\ q = sources[x].queue /\ next = sources[x].next /\ log = store[active].events
        /\ h = sources[x].halted /\ log2 = store'[active].events /\ new = sources'
  OBVIOUS
<1>4. /\ x = Primary /\ q \in Seq(Event) /\ next \in Nat \ {0} /\ next \in Nat
      /\ active \in SessionId /\ SourcesOK(sources) /\ Rows(store)
      /\ LogOK(log) /\ Numbered(q, next, log) /\ LiveOK(tape, q, h, log)
  BY <1>2, <1>3, LiveFacts
<1>5. PICK a, b, es : /\ a = Evt("ORDER", x, next) /\ b = Evt("MARKET", x, next + 1)
                      /\ es = <<a, b>>
  OBVIOUS
<1>6. /\ es \in Seq(Event) /\ DOMAIN es = {1, 2} /\ es[1] = a /\ es[2] = b
      /\ NumberedFrom(es, next)
  BY <1>0, <1>3, <1>5, OrderEvents
<1>7. a \in Event /\ b \in Event /\ a.kind = "ORDER" /\ b.kind = "MARKET" /\ b.seq = next + 1
  <2>1. 1 \in DOMAIN es /\ 2 \in DOMAIN es BY <1>6
  <2>2. a \in Event /\ b \in Event BY <1>6, <2>1, ElementOfSeq
  <2> QED BY <1>5, <2>2 DEF Evt
<1>8. /\ new = Allocated(sources, x, 2) /\ store' = AppendEvents(store, active, es)
      /\ tape' = tape \o OnTape(es)
  BY <1>3, <1>5 DEF UserOrder, Process
<1>9. With(log, log2, es) /\ Kept(log, log2)
  <2>1. \A i, j \in DOMAIN es : es[i].seq = es[j].seq => i = j BY <1>4, <1>6 DEF NumberedFrom
  <2>2. AllLogged(store, store', active, es) BY <1>4, <1>8, <2>1, AppendMany
  <2> QED BY <1>2, <1>3, <1>4, <2>2 DEF AllLogged, With, LogsKept
<1>10. MarketsOf(log2) = MarketsOf(log) \cup {b} /\ MarksOf(log2) = MarksOf(log)
  <2>1. Markets(es) = {2} /\ Marks(es) = {} BY <1>6, <1>7 DEF Markets, Marks, Marking
  <2>2. /\ MarketsOf(log2) = MarketsOf(log) \cup {es[i] : i \in Markets(es)}
        /\ MarksOf(log2) = MarksOf(log) \cup {es[i].seq : i \in Marks(es)}
    BY <1>9, MarketsMany
  <2> QED BY <1>6, <2>1, <2>2
<1>11. ShowsAll(tape', log2)
  <2>1. ~(next + 1 < next) BY <1>4
  <2>2. b.seq \notin DOMAIN log BY <1>4, <1>7, <2>1 DEF Numbered
  <2>3. ShowsAll(Append(tape, b), log2) BY <1>4, <1>7, <1>10, <2>2, ShownOnce DEF LiveOK
  <2>4. OnTape(es) = <<b>>
    <3>1. PICK one \in Seq(Event), none \in Seq(Event) : one = <<a>> /\ none = <<>>
      <4>1. <<a>> \in Seq(Event) /\ <<>> \in Seq(Event) BY <1>7
      <4> QED BY <4>1
    <3>2. OnTape(one) = none BY <1>7, <3>1, ProcessedOne
    <3>3. es = Append(one, b) BY <1>5, <3>1
    <3>4. OnTape(Append(one, b)) = Append(none, b) BY <1>7, <3>2, TapeOfMore
    <3> QED BY <3>1, <3>3, <3>4
  <2>5. tape \in Seq(Event) BY <1>4 DEF LiveOK, ShowsAll
  <2>6. Append(tape, b) = tape \o <<b>> BY <1>7, <2>5, AppendIsConcat
  <2> QED BY <1>8, <2>3, <2>4, <2>6
<1>12. Tells(h, log2) BY <1>4, <1>9, <1>10, TellsSame DEF LiveOK
<1>13. Waits(q, log2)
  <2>1. PICK none \in Seq(Event) : none = <<>> BY EmptySeq
  <2>2. Waits(none, log2)
    <3>1. DOMAIN none = {} BY <2>1
    <3> QED BY <3>1 DEF Waits
  <2>3. Beyond(log, log2, next)
    <3>1. \A i \in DOMAIN es : es[i].seq \in Nat /\ next <= es[i].seq
      BY <1>4, <1>6 DEF NumberedFrom
    <3> QED BY <1>9, <3>1 DEF Beyond, With
  <2>4. Waits(q \o none, log2) BY <1>4, <1>9, <2>2, <2>3, WaitsMore DEF LiveOK
  <2> QED BY <1>4, <2>1, <2>4, ConcatEmptySeq
<1>14. new[x].queue = q /\ new[x].halted = h
  <2>1. PICK two \in Nat : two = 2 OBVIOUS
  <2>2. new = Allocated(sources, x, two) BY <1>8, <2>1
  <2>3. new[x].queue = sources[x].queue BY <1>4, <2>1, <2>2, AllocatedDoes
  <2>4. new[x].halted = sources[x].halted BY <1>4, <2>2, HaltFlags
  <2> QED BY <1>3, <2>3, <2>4
<1>15. LiveOK(tape', new[x].queue, new[x].halted, log2)
  BY <1>4, <1>11, <1>12, <1>13, <1>14 DEF LiveOK
<1> QED BY <1>2, <1>3, <1>4, <1>15, LiveOn

\* A scenario has no trades; its last mark, if any, is its last event and sets the flag.
LEMMA ScenarioMarks ==
  ASSUME NEW kinds \in Scenarios
  PROVE  /\ DOMAIN kinds = 1..Len(kinds) /\ Len(kinds) \in {1, 2}
         /\ \A i \in DOMAIN kinds : kinds[i] # "MARKET"
         /\ \/ /\ \A i \in DOMAIN kinds : kinds[i] \notin Marking
               /\ "HALT" \notin ToSet(kinds) /\ "RESUME" \notin ToSet(kinds)
            \/ /\ kinds[Len(kinds)] \in Marking
               /\ kinds[Len(kinds)] = "HALT" => "HALT" \in ToSet(kinds)
               /\ kinds[Len(kinds)] = "RESUME" =>
                    "HALT" \notin ToSet(kinds) /\ "RESUME" \in ToSet(kinds)
<1>1. kinds \in {<<"NEWS">>, <<"HALT">>, <<"RESUME">>, <<"NEWS", "HALT">>}
  BY SessionAssumption
<1>2. ASSUME NEW a, kinds = <<a>>
      PROVE  DOMAIN kinds = {1} /\ Len(kinds) = 1 /\ kinds[1] = a /\ ToSet(kinds) = {a}
  <2>1. DOMAIN kinds = {1} /\ Len(kinds) = 1 /\ kinds[1] = a BY <1>2
  <2> QED BY <2>1 DEF ToSet
<1>3. ASSUME NEW a, NEW b, kinds = <<a, b>>
      PROVE  /\ DOMAIN kinds = {1, 2} /\ Len(kinds) = 2 /\ kinds[1] = a /\ kinds[2] = b
             /\ ToSet(kinds) = {a, b}
  <2>1. DOMAIN kinds = {1, 2} /\ Len(kinds) = 2 /\ kinds[1] = a /\ kinds[2] = b BY <1>3
  <2> QED BY <2>1 DEF ToSet
<1>4. 1..1 = {1} /\ 1..2 = {1, 2} OBVIOUS
<1>5. CASE kinds = <<"NEWS", "HALT">> BY <1>3, <1>4, <1>5 DEF Marking
<1>6. CASE kinds = <<"NEWS">> BY <1>2, <1>4, <1>6 DEF Marking
<1>7. CASE kinds = <<"HALT">> BY <1>2, <1>4, <1>7 DEF Marking
<1>8. CASE kinds = <<"RESUME">> BY <1>2, <1>4, <1>8 DEF Marking
<1> QED BY <1>1, <1>5, <1>6, <1>7, <1>8

LEMMA ScenesShow ==
  ASSUME AsKnown, NEW x \in Symbols, NEW kinds \in Scenarios, NEW timed \in BOOLEAN,
         InjectScenario(x, kinds, timed)
  PROVE  LiveInv'
<1>0. RunnerInv /\ SourcesInv /\ SingleSymbol /\ LogInv BY DEF AsKnown
<1>1. StepOK /\ Recorded BY <1>0, Scenes
<1>2. IsLive /\ active' = active /\ LogsKept(store, store')
  BY <1>0, <1>1 DEF StepOK, Recorded
<1>3. PICK q, next, log, h, log2, new :
        /\ q = sources[x].queue /\ next = sources[x].next /\ log = store[active].events
        /\ h = sources[x].halted /\ log2 = store'[active].events /\ new = sources'
  OBVIOUS
<1>4. /\ x = Primary /\ q \in Seq(Event) /\ next \in Nat \ {0} /\ next \in Nat
      /\ active \in SessionId /\ SourcesOK(sources) /\ Rows(store)
      /\ LogOK(log) /\ Numbered(q, next, log) /\ LiveOK(tape, q, h, log)
  BY <1>2, <1>3, LiveFacts
<1>5. PICK drawn : drawn = Allocated(sources, x, Len(kinds)) OBVIOUS
<1>6. PICK es, from, len :
        es = Copies(drawn, x, kinds) /\ from = drawn[x].next /\ len = Len(kinds)
  OBVIOUS
<1>7. /\ SourcesOK(drawn) /\ from \in Nat /\ from = next + len /\ drawn[x].queue = q
      /\ es \in Seq(Event) /\ es # <<>> /\ DOMAIN es = 1..len /\ NumberedFrom(es, from)
      /\ kinds \in Seq(Kind) /\ len \in {1, 2}
  BY <1>0, <1>3, <1>5, <1>6, ScenarioEvents
<1>8. /\ new = Inject(drawn, x, kinds) /\ store' = AppendEvents(store, active, es)
      /\ tape' = tape
  BY <1>3, <1>5, <1>6 DEF InjectScenario, runner
<1>9. With(log, log2, es) /\ Kept(log, log2)
  <2>1. \A i, j \in DOMAIN es : es[i].seq = es[j].seq => i = j BY <1>7 DEF NumberedFrom
  <2>2. AllLogged(store, store', active, es) BY <1>4, <1>8, <2>1, AppendMany
  <2> QED BY <1>2, <1>3, <1>4, <2>2 DEF AllLogged, With, LogsKept
<1>10. DOMAIN kinds = DOMAIN es /\ \A i \in DOMAIN es : es[i].kind = kinds[i]
  <2>1. DOMAIN kinds = 1..len BY <1>6, ScenarioMarks
  <2> QED BY <1>6, <1>7, <2>1 DEF Copies, Evt
<1>11. /\ MarketsOf(log2) = MarketsOf(log)
       /\ MarksOf(log2) = MarksOf(log) \cup {es[i].seq : i \in Marks(es)}
  <2>1. Markets(es) = {} BY <1>10, ScenarioMarks DEF Markets
  <2>2. /\ MarketsOf(log2) = MarketsOf(log) \cup {es[i] : i \in Markets(es)}
        /\ MarksOf(log2) = MarksOf(log) \cup {es[i].seq : i \in Marks(es)}
    BY <1>9, MarketsMany
  <2> QED BY <2>1, <2>2
<1>12. ShowsAll(tape', log2) BY <1>4, <1>8, <1>11 DEF LiveOK, ShowsAll
<1>13. Waits(q \o es, log2)
  <2>1. \A i \in DOMAIN es : es[i].seq \in DOMAIN log2 /\ es[i].kind # "MARKET"
    BY <1>9, <1>10, ScenarioMarks DEF With
  <2>2. Waits(es, log2) BY <2>1 DEF Waits
  <2>3. Beyond(log, log2, next)
    <3>1. ASSUME NEW i \in DOMAIN es PROVE es[i].seq \in Nat /\ next <= es[i].seq
      <4>1. i \in Nat /\ 1 <= i /\ len \in Nat /\ es[i].seq = from + i - 1
        BY <1>7 DEF NumberedFrom
      <4> QED BY <1>4, <1>7, <4>1
    <3> QED BY <1>9, <3>1 DEF Beyond, With
  <2> QED BY <1>4, <1>7, <1>9, <2>2, <2>3, WaitsMore DEF LiveOK
<1>14. new[x].queue = q \o es BY <1>6, <1>7, <1>8, InjectDoes
<1>15. PICK h2 : h2 = new[x].halted OBVIOUS
<1>16. h2 = ("HALT" \in ToSet(kinds) \/ (h /\ "RESUME" \notin ToSet(kinds)))
  <2>1. drawn[x].halted = h BY <1>3, <1>4, <1>5, HaltFlags
  <2>2. new[x].halted = ("HALT" \in ToSet(kinds)
                         \/ (drawn[x].halted /\ "RESUME" \notin ToSet(kinds)))
    BY <1>7, <1>8, HaltFlags
  <2> QED BY <1>15, <2>1, <2>2
<1>17. Tells(h2, log2)
  <2>1. CASE /\ \A i \in DOMAIN kinds : kinds[i] \notin Marking
             /\ "HALT" \notin ToSet(kinds) /\ "RESUME" \notin ToSet(kinds)
    <3>1. Marks(es) = {} BY <1>10, <2>1 DEF Marks
    <3>2. MarksOf(log2) = MarksOf(log) BY <1>11, <3>1
    <3>3. h2 <=> h BY <1>16, <2>1
    <3>4. Tells(h, log2) BY <1>4, <1>9, <3>2, TellsSame DEF LiveOK
    <3> QED BY <3>3, <3>4 DEF Tells
  <2>2. CASE /\ kinds[len] \in Marking
             /\ kinds[len] = "HALT" => "HALT" \in ToSet(kinds)
             /\ kinds[len] = "RESUME" => "HALT" \notin ToSet(kinds) /\ "RESUME" \in ToSet(kinds)
    <3>1. len \in DOMAIN es /\ len \in Nat BY <1>7
    <3>2. PICK m \in Nat : m = from + len - 1 BY <1>7
    <3>3. es[len].seq = m /\ log2[m] = es[len] /\ log2[m].kind = kinds[len]
      <4>1. es[len].seq = m BY <1>7, <3>1, <3>2 DEF NumberedFrom
      <4> QED BY <1>9, <1>10, <3>1, <4>1 DEF With
    <3>4. m \in MarksOf(log2) BY <1>10, <1>11, <2>2, <3>1, <3>3 DEF Marks
    <3>5. ASSUME NEW k \in MarksOf(log2) PROVE k \in Nat /\ k <= m
      <4>1. CASE k \in MarksOf(log)
        <5>1. k \in Nat /\ k < next BY <1>4, <4>1 DEF MarksOf, Numbered
        <5> QED BY <1>4, <1>7, <3>1, <3>2, <5>1
      <4>2. CASE k \notin MarksOf(log)
        <5>1. PICK i \in DOMAIN es : k = es[i].seq BY <1>11, <4>2 DEF Marks
        <5>2. k = from + i - 1 /\ i \in 1..len BY <1>7, <5>1 DEF NumberedFrom
        <5> QED BY <1>7, <3>1, <3>2, <5>2
      <4> QED BY <4>1, <4>2
    <3>6. h2 <=> log2[m].kind = "HALT"
      <4>1. kinds[len] = "HALT" \/ kinds[len] = "RESUME" BY <2>2 DEF Marking
      <4>2. CASE kinds[len] = "HALT" BY <1>16, <2>2, <3>3, <4>2
      <4>3. CASE kinds[len] = "RESUME" BY <1>16, <2>2, <3>3, <4>3
      <4> QED BY <4>1, <4>2, <4>3
    <3> QED BY <3>4, <3>5, <3>6, TellsLast
  <2> QED BY <1>6, <2>1, <2>2, ScenarioMarks
<1>18. h2 \in BOOLEAN BY <1>16
<1>19. LiveOK(tape', new[x].queue, new[x].halted, log2)
  BY <1>12, <1>13, <1>14, <1>15, <1>17, <1>18 DEF LiveOK
<1> QED BY <1>2, <1>3, <1>4, <1>19, LiveOn

\* A timer logs its resume, and the copy of it waits behind everything else.
LEMMA TimersShow ==
  ASSUME AsKnown, NEW x \in Symbols, AutoResume(x)
  PROVE  LiveInv'
<1>0. RunnerInv /\ SourcesInv /\ SingleSymbol /\ LogInv BY DEF AsKnown
<1>1. StepOK /\ Recorded BY <1>0, Timers
<1>2. IsLive /\ active' = active /\ LogsKept(store, store') /\ tape' = tape
  BY <1>0, <1>1 DEF StepOK, Recorded, AutoResume, runner
<1>3. PICK q, next, log, h, log2, new :
        /\ q = sources[x].queue /\ next = sources[x].next /\ log = store[active].events
        /\ h = sources[x].halted /\ log2 = store'[active].events /\ new = sources'
  OBVIOUS
<1>4. /\ x = Primary /\ q \in Seq(Event) /\ next \in Nat \ {0} /\ next \in Nat
      /\ active \in SessionId /\ SourcesOK(sources) /\ Rows(store)
      /\ LogOK(log) /\ Numbered(q, next, log) /\ LiveOK(tape, q, h, log)
  BY <1>2, <1>3, LiveFacts
<1>5. CASE ~(running /\ sources[x].halted)
  <2>1. sources' = sources /\ store' = store BY <1>5 DEF AutoResume
  <2> QED BY <1>2, <1>3, <1>4, <2>1, LiveOn
<1>6. CASE running /\ sources[x].halted
  <2>1. PICK e, drawn, kinds : /\ e = Evt("RESUME", x, next) /\ kinds = <<"RESUME">>
                               /\ drawn = Allocated(sources, x, 1)
    OBVIOUS
  <2>2. new = Inject(drawn, x, kinds) /\ store' = AppendEvent(store, active, e)
    BY <1>3, <1>6, <2>1 DEF AutoResume
  <2>3. SourcesOK(drawn) /\ drawn[x].next = next + 1 /\ drawn[x].queue = q
    <3>1. PICK one \in Nat : one = 1 OBVIOUS
    <3>2. drawn = Allocated(sources, x, one) BY <2>1, <3>1
    <3>3. /\ SourcesOK(drawn) /\ drawn[x].next = sources[x].next + one
          /\ drawn[x].queue = sources[x].queue
      BY <1>4, <3>2, AllocatedDoes
    <3> QED BY <1>3, <3>1, <3>3
  <2>4. kinds \in Seq(Kind) /\ Len(kinds) = 1 /\ DOMAIN kinds = {1} /\ kinds[1] = "RESUME"
    <3>1. "RESUME" \in Kind BY DEF Kind
    <3>2. \A a \in Kind : <<a>> \in Seq(Kind) /\ Len(<<a>>) = 1 OBVIOUS
    <3> QED BY <2>1, <3>1, <3>2
  <2>5. PICK es : es = Copies(drawn, x, kinds) OBVIOUS
  <2>6. es \in Seq(Event) /\ DOMAIN es = {1} /\ es[1].seq = next + 1 /\ es[1].kind = "RESUME"
    <3>1. es \in Seq(Event) BY <2>3, <2>4, <2>5, CopiesAre
    <3>2. es = [i \in {1} |-> Evt(kinds[i], x, next + 1 + i - 1)] BY <2>3, <2>4, <2>5 DEF Copies
    <3>3. next + 1 + 1 - 1 = next + 1 BY <1>4
    <3> QED BY <2>4, <3>1, <3>2, <3>3 DEF Evt
  <2>7. new[x].queue = q \o es /\ new[x].halted = FALSE
    <3>1. new[x].queue = drawn[x].queue \o es BY <2>2, <2>3, <2>4, <2>5, InjectDoes
    <3>2. ToSet(kinds) = {"RESUME"} BY <2>4 DEF ToSet
    <3>3. new[x].halted = ("HALT" \in ToSet(kinds)
                           \/ (drawn[x].halted /\ "RESUME" \notin ToSet(kinds)))
      BY <2>2, <2>3, HaltFlags
    <3> QED BY <2>3, <3>1, <3>2, <3>3
  <2>8. e.seq = next /\ e.kind = "RESUME" BY <2>1 DEF Evt
  <2>9. Extended(log, log2, e) /\ Kept(log, log2)
    <3>1. Logged(store, store', active, e) BY <1>4, <2>2, AppendOne
    <3> QED BY <1>2, <1>3, <1>4, <3>1 DEF Logged, Extended, LogsKept
  <2>10. MarketsOf(log2) = MarketsOf(log) /\ MarksOf(log2) = MarksOf(log) \cup {next}
    BY <2>8, <2>9, MarketsMore DEF Marking
  <2>11. ShowsAll(tape, log2) BY <1>4, <2>10 DEF LiveOK, ShowsAll
  <2>12. log2[next].kind = "RESUME" /\ next \in DOMAIN log2 BY <2>8, <2>9 DEF Extended
  <2>13. Tells(FALSE, log2)
    <3>1. ASSUME NEW k \in MarksOf(log2) PROVE k \in Nat /\ k <= next
      <4>1. k \in DOMAIN log \/ k = next BY <2>10 DEF MarksOf
      <4> QED BY <1>4, <4>1 DEF Numbered
    <3>2. next \in MarksOf(log2) BY <2>10
    <3>3. PICK no \in BOOLEAN : no = FALSE OBVIOUS
    <3>4. no <=> log2[next].kind = "HALT" BY <2>12, <3>3
    <3>5. Tells(no, log2) BY <1>4, <3>1, <3>2, <3>4, TellsLast
    <3> QED BY <3>3, <3>5
  <2>14. Waits(q \o es, log2)
    <3>1. Waits(es, log2) BY <2>6, <2>12 DEF Waits
    <3>2. next <= next BY <1>4
    <3>3. Beyond(log, log2, next) BY <1>4, <2>8, <2>9, <3>2 DEF Beyond, Extended
    <3> QED BY <1>4, <2>6, <2>9, <3>1, <3>3, WaitsMore DEF LiveOK
  <2>15. LiveOK(tape', new[x].queue, new[x].halted, log2)
    BY <1>2, <2>7, <2>11, <2>13, <2>14 DEF LiveOK
  <2> QED BY <1>2, <1>3, <1>4, <2>15, LiveOn
<1> QED BY <1>5, <1>6

\* A session begins with nothing shown and with quotes that wait.
LEMMA FirstShows ==
  ASSUME NEW src, src = Allocated(NewSources, Primary, 1),
         NEW log, DOMAIN log = {2}, log[2].kind = "START", NEW t, t = <<>>
  PROVE  LiveOK(t, src[Primary].queue, src[Primary].halted, log)
<1>1. PICK x \in Symbols : x = Primary BY PrimaryIsSymbol
<1>2. PICK new : new = NewSources OBVIOUS
<1>3. new[x] = [next |-> 2, halted |-> FALSE, queue |-> EngineEvents(x, FALSE, 1, 1)]
  BY <1>2 DEF NewSources
<1>4. SourcesOK(new) BY <1>2, NewSourcesDo
<1>5. src[x].queue = new[x].queue /\ src[x].halted = new[x].halted
  <2>1. PICK one \in Nat : one = 1 OBVIOUS
  <2>2. src = Allocated(new, x, one) BY <1>1, <1>2, <2>1
  <2>3. src[x].queue = new[x].queue BY <1>4, <2>2, AllocatedDoes
  <2>4. src[x].halted = new[x].halted BY <1>4, <2>2, HaltFlags
  <2> QED BY <2>3, <2>4
<1>6. PICK q : q = src[x].queue OBVIOUS
<1>7. q = [i \in 1..1 |-> Evt("MARKET", x, 1 + i - 1)] BY <1>3, <1>5, <1>6 DEF EngineEvents
<1>8. DOMAIN q = {1} /\ q[1].kind = "MARKET" /\ q[1].seq = 1
  <2>1. 1..1 = {1} /\ 1 + 1 - 1 = 1 OBVIOUS
  <2> QED BY <1>7, <2>1 DEF Evt
<1>9. Waits(q, log) BY <1>8 DEF Waits, Marking
<1>10. MarketsOf(log) = {} /\ MarksOf(log) = {} BY DEF MarketsOf, MarksOf, Marking
<1>11. ShowsAll(t, log)
  <2>1. t \in Seq(Event) /\ DOMAIN t = {} BY EmptySeq
  <2> QED BY <1>10, <2>1 DEF ShowsAll, ToSet
<1>12. PICK h \in BOOLEAN : h = FALSE /\ Tells(h, log) BY <1>10 DEF Tells
<1>13. src[x].halted = h
  <2>1. new[x].halted = FALSE BY <1>3
  <2> QED BY <1>5, <1>12, <2>1
<1>14. LiveOK(t, q, h, log) BY <1>9, <1>11, <1>12 DEF LiveOK
<1> QED BY <1>1, <1>6, <1>13, <1>14

LEMMA BeginShows ==
  ASSUME NEW st, Rows(st), Begin(st)
  PROVE  LiveInv'
<1>1. PICK s : s = Min(Unused(st)) OBVIOUS
<1>2. Unused(st) # {} /\ Unused(st) \subseteq SessionId BY DEF Begin, Unused
<1>3. s \in SessionId BY <1>1, <1>2, FirstSession
<1>4. PICK mid, e : /\ mid = CreateSession(st, s)
                    /\ e = Evt("START", Primary, NewSources[Primary].next)
  OBVIOUS
<1>5. /\ store' = AppendEvent(mid, s, e) /\ sources' = Allocated(NewSources, Primary, 1)
      /\ active' = s /\ tape' = <<>>
  BY <1>1, <1>4 DEF Begin
<1>6. e.seq = 2 /\ e.kind = "START" BY <1>4, PrimaryIsSymbol DEF Evt, NewSources
<1>7. Rows(mid) /\ DOMAIN mid[s].events = {}
  <2> DEFINE row == [NoSession EXCEPT !.status = "ACTIVE"]
  <2>1. DOMAIN row = Fields /\ DOMAIN row.events = {} BY DEF NoSession, Fields
  <2>2. mid = [st EXCEPT ![s] = row] BY <1>4 DEF CreateSession
  <2> HIDE DEF row
  <2> QED BY <1>3, <2>1, <2>2 DEF Rows
<1>8. Logged(mid, store', s, e) BY <1>3, <1>5, <1>7, AppendOne
<1>9. PICK log : log = store'[s].events OBVIOUS
<1>10. DOMAIN log = {2} /\ log[2].kind = "START" BY <1>6, <1>7, <1>8, <1>9 DEF Logged
<1>11. LiveOK(tape', sources'[Primary].queue, sources'[Primary].halted, log)
  BY <1>5, <1>10, FirstShows
<1> QED BY <1>5, <1>9, <1>11 DEF LiveInv

LEMMA InitShows ==
  ASSUME Init
  PROVE  LiveInv
<1>1. PICK one \in SessionId : one = 1 BY StoreAssumption DEF SessionId
<1>2. PICK st, e : st = CreateSession(NoSessions, one) /\ e = Evt("START", Primary, 2) OBVIOUS
<1>3. /\ store = AppendEvent(st, one, e) /\ sources = Allocated(NewSources, Primary, 1)
      /\ active = one /\ tape = <<>>
  BY <1>1, <1>2 DEF Init
<1>4. e.seq = 2 /\ e.kind = "START" BY <1>2 DEF Evt
<1>5. Rows(st) /\ DOMAIN st[one].events = {}
  <2> DEFINE row == [NoSession EXCEPT !.status = "ACTIVE"]
  <2>1. DOMAIN row = Fields /\ DOMAIN NoSession = Fields /\ DOMAIN row.events = {}
    BY DEF NoSession, Fields
  <2>2. DOMAIN NoSessions = SessionId /\ \A s \in SessionId : NoSessions[s] = NoSession
    BY DEF NoSessions
  <2>3. st = [NoSessions EXCEPT ![one] = row] BY <1>2 DEF CreateSession
  <2> HIDE DEF row
  <2> QED BY <2>1, <2>2, <2>3 DEF Rows
<1>6. PICK new : new = store OBVIOUS
<1>7. Logged(st, new, one, e) BY <1>3, <1>5, <1>6, AppendOne
<1>8. PICK log : log = new[one].events OBVIOUS
<1>9. DOMAIN log = {2} /\ log[2].kind = "START" BY <1>4, <1>5, <1>7, <1>8 DEF Logged
<1>10. PICK src, t : src = sources /\ t = tape OBVIOUS
<1>11. LiveOK(t, src[Primary].queue, src[Primary].halted, log)
  BY <1>3, <1>9, <1>10, FirstShows
<1> QED BY <1>3, <1>6, <1>8, <1>10, <1>11 DEF LiveInv

LEMMA StepsShow ==
  ASSUME ~AnyTime, AsKnown, [Next]_vars
  PROVE  LiveInv'
<1>0. RunnerInv /\ SourcesInv /\ Rows(store) BY DEF AsKnown, RunnerInv
<1>1. CASE Start
  <2>1. PICK st : st = AfterStop OBVIOUS
  <2>2. Rows(st) BY <1>0, <2>1, StopDoes
  <2>3. Begin(st) BY <1>1, <2>1 DEF Start
  <2> QED BY <2>2, <2>3, BeginShows
<1>2. CASE Stop BY <1>2 DEF Stop, LiveInv, IsLive
<1>3. CASE Crash
  <2>1. Begin(store) BY <1>3 DEF Crash, CrashAndRestart
  <2> QED BY <1>0, <2>1, BeginShows
<1>4. CASE CrashInStop
  <2>1. PICK mid, e : mid = AppendEvent(store, active, e) /\ e = Ended OBVIOUS
  <2>2. Begin(mid) BY <1>4, <2>1 DEF CrashInStop, CrashAndRestart
  <2>3. active \in SessionId BY <1>0 DEF RunnerInv
  <2>4. Rows(mid) BY <1>0, <2>1, <2>3, AppendOne DEF Logged
  <2> QED BY <2>2, <2>4, BeginShows
<1>5. ASSUME NEW s \in SessionId, NEW n \in Targets, StartReplay(s, n) PROVE LiveInv'
  BY <1>5 DEF StartReplay, LiveInv, IsLive
<1>6. CASE (\E n \in Targets : Seek(n)) \/ Pause \/ Resume \/ ReplayStep
  <2>1. ~IsLive' BY <1>0, <1>6, Controls, ReplayGoesOn
  <2> QED BY <2>1 DEF LiveInv
<1>7. ASSUME NEW x \in Symbols, NEW n \in 1..MaxBatch, LiveStep(x, n) PROVE LiveInv'
  BY <1>7, LoopShows
<1>8. ASSUME NEW x \in Symbols, UserOrder(x) PROVE LiveInv' BY <1>8, OrdersShow
<1>9. ASSUME NEW x \in Symbols, AutoResume(x) PROVE LiveInv' BY <1>9, TimersShow
<1>10. ASSUME NEW x \in Symbols, NEW kinds \in Scenarios, NEW timed \in BOOLEAN,
              InjectScenario(x, kinds, timed)
       PROVE  LiveInv'
  BY <1>10, ScenesShow
<1>11. CASE UNCHANGED vars BY <1>11 DEF vars, runner, AsKnown, LiveInv, IsLive
<1> QED BY <1>1, <1>2, <1>3, <1>4, <1>5, <1>6, <1>7, <1>8, <1>9, <1>10, <1>11 DEF Next

\* Whoever reads the log to its end has the flag that its last mark sets.
LEMMA ReadToEnd ==
  ASSUME NEW log, LogOK(log), NEW S, S = DOMAIN log, NEW h, h = HaltedAfter(FALSE, InOrder(log, S))
  PROVE  h \in BOOLEAN /\ Tells(h, log)
<1>1. PICK f, c, es : f = log /\ c = Cardinality(S) /\ es = InOrder(f, S) OBVIOUS
<1>2. S \in SUBSET Nat /\ IsFiniteSet(S) BY EventsInOrder
<1>3. /\ c \in Nat /\ DOMAIN es = 1..c
      /\ \A k \in 1..c : Nth(S, k) \in S /\ es[k] = f[Nth(S, k)]
      /\ \A n \in S : \E k \in 1..c : Nth(S, k) = n
      /\ \A i, j \in 1..c : i < j => Nth(S, i) < Nth(S, j)
  BY <1>1, <1>2, OrderedValues
<1>4. h = IF Marks(es) = {} THEN FALSE ELSE es[Max(Marks(es))].kind = "HALT"
  BY <1>1 DEF HaltedAfter, Marks, Marking
<1>5. CASE Marks(es) = {}
  <2>1. MarksOf(log) = {} BY <1>1, <1>3, <1>5 DEF Marks, MarksOf
  <2> QED BY <1>4, <1>5, <2>1 DEF Tells
<1>6. CASE Marks(es) # {}
  <2>1. PICK M : M = Marks(es) OBVIOUS
  <2>2. M \in SUBSET Nat /\ M \subseteq 1..c /\ IsFiniteSet(1..c)
    BY <1>3, <2>1, FS_Interval DEF Marks
  <2>3. IsFiniteSet(M) BY <2>2, FS_Subset
  <2>4. Max(M) \in M /\ \A k \in M : k <= Max(M) BY <1>6, <2>1, <2>2, <2>3, GreatestIs
  <2>5. PICK last \in 1..c : last = Max(M) BY <2>2, <2>4
  <2>6. PICK m \in S : m = Nth(S, last) /\ es[last] = f[m] BY <1>3
  <2>7. m \in MarksOf(log) /\ m \in Nat
    BY <1>1, <1>2, <2>1, <2>4, <2>5, <2>6 DEF Marks, MarksOf
  <2>8. ASSUME NEW n \in MarksOf(log) PROVE n \in Nat /\ n <= m
    <3>1. n \in S /\ n \in Nat /\ log[n].kind \in Marking BY <1>2 DEF MarksOf
    <3>2. PICK k \in 1..c : Nth(S, k) = n BY <1>3, <3>1
    <3>3. k \in M BY <1>1, <1>3, <2>1, <3>1, <3>2 DEF Marks
    <3>4. k = last \/ k < last BY <2>4, <2>5, <3>3
    <3>5. n = m \/ n < m BY <1>3, <2>6, <3>2, <3>4
    <3> QED BY <2>7, <3>1, <3>5
  <2>9. h <=> log[m].kind = "HALT" BY <1>1, <1>4, <1>6, <2>1, <2>5, <2>6
  <2>10. Tells(h, log) BY <2>7, <2>8, <2>9, TellsLast
  <2>11. h \in BOOLEAN BY <1>4, <1>6
  <2> QED BY <2>10, <2>11
<1> QED BY <1>5, <1>6

LEMMA InitKnown ==
  ASSUME SingleSymbol, Init
  PROVE  AsKnown
BY InitOK, InitStored, InitShows DEF AsKnown

LEMMA StepsKnown ==
  ASSUME ~AnyTime, AsKnown, [Next]_vars
  PROVE  AsKnown'
<1>1. RunnerInv /\ SourcesInv /\ StoreInv /\ SingleSymbol /\ LogInv BY DEF AsKnown
<1>2. StepOK BY <1>1, StepsOK
<1>3. StoreInv' BY <1>1, StepsStored
<1>4. LiveInv' BY StepsShow
<1> QED BY <1>1, <1>2, <1>3, <1>4 DEF StepOK, AsKnown

\* What a live session shows has each trade and delta of its log, and each once,
\* although those of a user's order overtake what waits in the queue and scenarios are
\* logged ahead of it.
THEOREM LiveSessionsShowTheirLog == ~AnyTime /\ SingleSymbol => (Spec => []LiveShowsLog)
<1> SUFFICES ASSUME ~AnyTime, SingleSymbol PROVE Spec => []LiveShowsLog OBVIOUS
<1>1. Init => AsKnown BY InitKnown
<1>2. AsKnown /\ [Next]_vars => AsKnown' BY StepsKnown
<1>3. AsKnown => LiveShowsLog
  <2> SUFFICES ASSUME AsKnown, IsLive,
                      NEW logged, logged = {store[active].events[n] : n \in Seqs(store, active)}
               PROVE  /\ ToSet(tape) = {e \in logged : e.kind = "MARKET"}
                      /\ Len(tape) = Cardinality(ToSet(tape))
    BY DEF LiveShowsLog
  <2>1. PICK t, log : t = tape /\ log = store[active].events OBVIOUS
  <2>2. ShowsAll(t, log) BY <2>1 DEF AsKnown, LiveInv, LiveOK
  <2>3. ToSet(t) = MarketsOf(log) /\ t \in Seq(Event) /\ \A i, j \in DOMAIN t : t[i] = t[j] => i = j
    BY <2>2 DEF ShowsAll
  <2>4. MarketsOf(log) = {e \in logged : e.kind = "MARKET"} BY <2>1 DEF MarketsOf, Seqs
  <2>5. Len(t) = Cardinality(ToSet(t))
    <3>1. PICK n \in Nat : n = Len(t) /\ DOMAIN t = 1..n BY <2>3, LenProperties
    <3> DEFINE g == [i \in 1..n |-> t[i]]
    <3>2. g \in Bijection(1..n, ToSet(t))
      <4>1. g \in Injection(1..n, ToSet(t)) BY <2>3, <3>1 DEF Injection, IsInjective, ToSet
      <4>2. g \in Surjection(1..n, ToSet(t)) BY <3>1 DEF Surjection, ToSet
      <4> QED BY <4>1, <4>2 DEF Bijection
    <3>3. ExistsBijection(1..n, ToSet(t)) BY <3>2 DEF ExistsBijection
    <3>4. IsFiniteSet(1..n) /\ Cardinality(1..n) = n BY FS_Interval
    <3> QED BY <3>1, <3>3, <3>4, FS_Bijection
  <2> QED BY <2>1, <2>3, <2>4, <2>5
<1> QED BY <1>1, <1>2, <1>3, PTL DEF Spec

\* The log of a live session tells which engine is halted, although a scenario's halt
\* sets the flag before the loop sees it, and a timer's resume is logged twice.
THEOREM LogsTellHalts == ~AnyTime /\ SingleSymbol => (Spec => []LogTellsHalts)
<1> SUFFICES ASSUME ~AnyTime, SingleSymbol PROVE Spec => []LogTellsHalts OBVIOUS
<1>1. Init => AsKnown BY InitKnown
<1>2. AsKnown /\ [Next]_vars => AsKnown' BY StepsKnown
<1>3. AsKnown => LogTellsHalts
  <2> SUFFICES ASSUME AsKnown, IsLive, NEW x \in Symbols,
                      NEW log, log = store[active].events,
                      NEW S, S = {n \in DOMAIN log : log[n].symbol = x}
               PROVE  sources[x].halted = HaltedAfter(FALSE, InOrder(log, S))
    BY DEF LogTellsHalts
  <2>1. PICK h, h2 : h = sources[x].halted /\ h2 = HaltedAfter(FALSE, InOrder(log, S)) OBVIOUS
  <2>2. LogOK(log) /\ h \in BOOLEAN /\ Tells(h, log) BY <2>1, LiveFacts DEF LiveOK
  <2>3. S = DOMAIN log
    <3>1. \A n \in DOMAIN log : log[n].symbol \in Symbols BY <2>2 DEF LogOK, Event
    <3> QED BY <3>1 DEF SingleSymbol
  <2>4. h2 \in BOOLEAN /\ Tells(h2, log) BY <2>1, <2>2, <2>3, ReadToEnd
  <2>5. h <=> h2 BY <2>2, <2>4 DEF Tells
  <2> QED BY <2>1, <2>2, <2>4, <2>5
<1> QED BY <1>1, <1>2, <1>3, PTL DEF Spec
=============================================================================

---------------------------- MODULE ReplaySource ----------------------------
(***************************************************************************)
(* sim/replay_source.py: a cursor over one session of the store, with a    *)
(* buffer filled a chunk at a time.  Its clock only repeats the time of    *)
(* the event returned; the speed only scales the pacing delay, which the   *)
(* replay loop of Session may be in for any length of time.                *)
(***************************************************************************)
EXTENDS EventStore

CONSTANT ChunkSize
ASSUME ChunkAssumption == ChunkSize \in Nat \ {0}

VARIABLE replay  \* the runner's replay_source; session 0 is None

NoReplay == [session |-> 0, cursor |-> 1, total |-> 0, paused |-> FALSE, buffer |-> <<>>]

\* The constructor.
NewReplay(st, s) ==
  [NoReplay EXCEPT !.session = s,
                   !.total = IF st[s].total > 0 THEN st[s].total ELSE CountEvents(st, s)]

SeekTo(r, n) == [r EXCEPT !.cursor = IF n < 1 THEN 1 ELSE n, !.buffer = <<>>]

\* Mutant of HasNext: the last event is taken for read.
HasNextBefore(r) == r.buffer # <<>> \/ r.cursor < r.total

HasNext(r) == r.buffer # <<>> \/ r.cursor <= r.total

\* What next_event finds in its buffer, after a refill if that was empty.
Buffered(st, r) ==
  IF r.buffer # <<>> THEN r.buffer
  ELSE LET rest == GetEvents(st, r.session, From(st, r.session, r.cursor))
       IN  SubSeq(rest, 1, IF Len(rest) < ChunkSize THEN Len(rest) ELSE ChunkSize)

\* next_event returns an event, the head of Buffered, unless it returns None.
HasEvent(st, r) == ~r.paused /\ Buffered(st, r) # <<>>
Advanced(st, r) ==
  [r EXCEPT !.buffer = Tail(Buffered(st, r)), !.cursor = Head(Buffered(st, r)).seq + 1]
=============================================================================

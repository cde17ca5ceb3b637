----------------------------- MODULE EventStore -----------------------------
(***************************************************************************)
(* storage/event_store.py: sessions and their events, keyed by (session,   *)
(* seq).  A method that writes is one transaction; several of them make up *)
(* one handler of the runner, so they are operators on the whole store.    *)
(* Of an event only what the readers tell apart is kept.                   *)
(***************************************************************************)
EXTENDS Integers, Sequences, SequencesExt, FiniteSets, FiniteSetsExt

CONSTANTS Symbols, MaxSessions

ASSUME StoreAssumption == IsFiniteSet(Symbols) /\ Symbols # {} /\ MaxSessions \in Nat \ {0}

VARIABLE store  \* session -> its row of the table sessions, and its events

SessionId == 1..MaxSessions

\* MARKET stands for trades and book deltas, which feed the projections; ORDER
\* for the order events, which feed none of them; NEWS for a scenario's shock.
Kind == {"START", "END", "MARKET", "ORDER", "NEWS", "HALT", "RESUME"}
Event == [kind : Kind, symbol : Symbols, seq : Nat \ {0}]
Evt(k, x, n) == [kind |-> k, symbol |-> x, seq |-> n]

NoSession == [status |-> "NONE", total |-> 0, events |-> <<>>]
NoSessions == [s \in SessionId |-> NoSession]
Seqs(st, s) == DOMAIN st[s].events

CreateSession(st, s) == [st EXCEPT ![s] = [NoSession EXCEPT !.status = "ACTIVE"]]

\* update_session, as stop() calls it: the total is set, not raised.
UpdateSession(st, s, status, total) ==
  [st EXCEPT ![s].status = status, ![s].total = total]

\* INSERT OR REPLACE, and the total raised to the highest number.
AppendEvent(st, s, e) ==
  [st EXCEPT ![s].events = [n \in DOMAIN @ \cup {e.seq} |-> IF n = e.seq THEN e ELSE @[n]],
             ![s].total = IF @ < e.seq THEN e.seq ELSE @]

\* One after the other; the events of es have different numbers.
AppendEvents(st, s, es) ==
  LET new == {es[i].seq : i \in DOMAIN es}
      event(n) == es[CHOOSE i \in DOMAIN es : es[i].seq = n]
      last == es[Len(es)].seq
  IN  [st EXCEPT ![s].events = [n \in DOMAIN @ \cup new |-> IF n \in new THEN event(n) ELSE @[n]],
                 ![s].total = IF @ < last THEN last ELSE @]

CountEvents(st, s) == Cardinality(Seqs(st, s))

From(st, s, n) == {m \in Seqs(st, s) : n <= m}
Before(st, s, n) == {m \in Seqs(st, s) : m < n}

\* ORDER BY: the values of f at the numbers of S, in ascending order of these.
Nth(S, k) == CHOOSE n \in S : Cardinality({m \in S : m <= n}) = k
InOrder(f, S) == [k \in 1..Cardinality(S) |-> f[Nth(S, k)]]

\* get_events without a limit.
GetEvents(st, s, asked) == InOrder(st[s].events, asked)
=============================================================================

---------------------------- MODULE AgentSources ----------------------------
(***************************************************************************)
(* sim/agent_source.py and sim/multiplex_source.py as the session runner   *)
(* sees them: per symbol an engine with its counter and its halt flag, and *)
(* the events waiting to be returned by next_event.  The head of queue[x]  *)
(* is the event the multiplexer's heap has prefetched, the rest is         *)
(* _pending_events: both hand out first what came first.                   *)
(***************************************************************************)
EXTENDS EventStore

CONSTANTS
  MaxSeq,    \* session -> where the engines' counters stop (bound)
  MaxBatch   \* events of one step of the agents (bound)
ASSUME SourcesAssumption ==
  MaxSeq \in [SessionId -> {n \in Nat : n > 2}] /\ MaxBatch \in Nat \ {0}

VARIABLE sources  \* symbol -> counter, halt flag and waiting events

\* allocate_seq, n times.
Allocated(src, x, n) == [src EXCEPT ![x].next = @ + n]

\* Events out of the engine: a halted one refuses orders and changes nothing else.
EngineEvents(x, halted, from, n) ==
  [i \in 1..n |-> Evt(IF halted THEN "ORDER" ELSE "MARKET", x, from + i - 1)]

\* The constructor: market makers quote before trading starts.
NewSources ==
  [x \in Symbols |-> [next |-> 2, halted |-> FALSE, queue |-> EngineEvents(x, FALSE, 1, 1)]]

\* inject_market_event, for each of kinds: the event gets a number of its own and
\* is queued for the loop; the flag is set or cleared at once.
Copies(src, x, kinds) == [i \in DOMAIN kinds |-> Evt(kinds[i], x, src[x].next + i - 1)]

\* Mutant of Inject: a resume only notifies the agents.
InjectKeepsHalt(src, x, kinds) ==
  [src EXCEPT ![x].queue = @ \o Copies(src, x, kinds),
              ![x].next = @ + Len(kinds),
              ![x].halted = @ \/ "HALT" \in ToSet(kinds)]

Inject(src, x, kinds) ==
  [src EXCEPT ![x].queue = @ \o Copies(src, x, kinds),
              ![x].next = @ + Len(kinds),
              ![x].halted = "HALT" \in ToSet(kinds) \/ (@ /\ "RESUME" \notin ToSet(kinds))]

\* next_event returned the head of queue[x]; the heap is refilled from the rest,
\* or from n more events, which the agents generate.
Taken(src, x, n) ==
  IF Len(src[x].queue) > 1 THEN [src EXCEPT ![x].queue = Tail(@)]
  ELSE Allocated([src EXCEPT ![x].queue = EngineEvents(x, src[x].halted, src[x].next, n)], x, n)
=============================================================================

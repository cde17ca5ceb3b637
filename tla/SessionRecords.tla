--------------------------- MODULE SessionRecords ---------------------------
(***************************************************************************)
(* What the stored sessions promise to whoever reads them later, with no   *)
(* runner, tasks, timers or counters: a session is recorded once, by the   *)
(* only recorder there is, nothing of its log is taken back, and when the  *)
(* recording is closed SessionEnded is its last event.  A crash may cut a  *)
(* recording; a closed or cut one stays as it is.  Session implements it   *)
(* (ImplementsRecords there).                                              *)
(***************************************************************************)
EXTENDS Integers

CONSTANT SessionId

VARIABLES
  phase,  \* session -> "new", "recording", "closed" or "cut"
  log     \* session -> number -> event

rvars == <<phase, log>>

\* Nothing recorded is lost or replaced.
Extended(s) == \A n \in DOMAIN log[s] : n \in DOMAIN log'[s] /\ log'[s][n] = log[s][n]

Ended(l) == \E n \in DOMAIN l : l[n].kind = "END" /\ \A m \in DOMAIN l : m <= n

Stays(s) == phase'[s] = phase[s] /\ log'[s] = log[s]
Opens(s) == phase[s] = "new" /\ phase'[s] = "recording" /\ DOMAIN log'[s] # {}
Records(s) == phase[s] = "recording" /\ phase'[s] = "recording" /\ Extended(s)
Closes(s) == phase[s] = "recording" /\ phase'[s] = "closed" /\ Extended(s) /\ Ended(log'[s])
IsCut(s) == phase[s] = "recording" /\ phase'[s] = "cut" /\ Extended(s)

OneRecorder == \A s, t \in SessionId : phase[s] = "recording" /\ phase[t] = "recording" => s = t

RInit ==
  /\ phase \in [SessionId -> {"new", "recording"}] /\ OneRecorder
  /\ \A s \in SessionId : phase[s] = "new" => DOMAIN log[s] = {}

\* One session may end and another begin in one step.
RNext ==
  /\ \A s \in SessionId : Stays(s) \/ Opens(s) \/ Records(s) \/ Closes(s) \/ IsCut(s)
  /\ OneRecorder'

RSpec == RInit /\ [][RNext]_rvars
=============================================================================

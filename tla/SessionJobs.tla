---------------------------- MODULE SessionJobs ----------------------------
(***************************************************************************)
(* What SessionManager promises whoever sends it jobs (Job::session_id,    *)
(* dispatch): a job takes effect at one moment between its sending and its *)
(* answer, in the order in which its session's jobs were sent, on what     *)
(* they left; one that is dropped has had no effect; an id is given once.  *)
(* Parking, retries, resolver threads and the shards' inboxes do not show. *)
(* Worker is shown to implement it; Manager builds on it.                  *)
(***************************************************************************)
CONSTANTS
  Callers,   \* API handlers
  Sessions,  \* session ids
  Ops,       \* kinds of job the callers submit
  Creating   \* those that open the session they name

VARIABLES
  opened,  \* ids given out
  live,    \* sessions that exist
  job,     \* each caller's job
  ahead    \* unanswered jobs of the same session that came first

NoJob == [st |-> "idle", op |-> "touch", id |-> 0, commits |-> 0]

Init ==
  /\ opened = {} /\ live = {}
  /\ job = [c \in Callers |-> NoJob]
  /\ ahead = [c \in Callers |-> {}]

Send(c, op, s) ==
  /\ job' = [job EXCEPT ![c] = [st |-> "sent", op |-> op, id |-> s, commits |-> 0]]
  /\ ahead' = [ahead EXCEPT ![c] = {d \in Callers : job[d].st = "sent" /\ job[d].id = s}]
  /\ UNCHANGED live

\* A job on an id, whether it names a session or not.
Ask(c, op, s) ==
  /\ job[c].st = "idle" /\ op \notin Creating
  /\ Send(c, op, s)
  /\ UNCHANGED opened

\* fork, and the second hop of fork_from, for an id nobody was given before.
Open(c, op, s) ==
  /\ job[c].st = IF op = "adopt" THEN "branched" ELSE "idle"
  /\ op \in Creating /\ s \notin opened
  /\ opened' = opened \cup {s}
  /\ Send(c, op, s)

\* What a job does to its session, and what it is answered.
Effect(op, s, outcome) ==
  \/ op \in Creating /\ outcome = "ok" /\ live' = live \cup {s}
  \/ op = "discard" /\ outcome = "ok" /\ live' = live \ {s}
  \/ /\ op \notin Creating \cup {"discard"} /\ s \notin live
     /\ outcome = "unknown" /\ UNCHANGED live
  \/ /\ op \notin Creating \cup {"discard"} /\ s \in live
     /\ outcome \in CASE op = "branch" -> {"branched"}
                      [] op = "touch" -> {"ok"}
                      [] OTHER -> {"ok", "err"}
     /\ UNCHANGED live

Answer(c, outcome) ==
  /\ job[c].st = "sent" /\ ahead[c] = {}
  /\ Effect(job[c].op, job[c].id, outcome)
  /\ job' = [job EXCEPT ![c].st = outcome,
                        ![c].commits = IF job[c].op = "advance" /\ outcome = "ok" THEN 1 ELSE 0]
  /\ ahead' = [d \in Callers |-> ahead[d] \ {c}]
  /\ UNCHANGED opened

\* A panic drops jobs of one session, and none before any that came first.
Drop(s, lost) ==
  /\ \A c \in lost : job[c].st = "sent" /\ job[c].id = s /\ ahead[c] \subseteq lost
  /\ job' = [c \in Callers |-> IF c \in lost THEN [job[c] EXCEPT !.st = "gone"] ELSE job[c]]
  /\ ahead' = [d \in Callers |-> ahead[d] \ lost]
  /\ UNCHANGED <<opened, live>>

\* The sweep.
Expire(idle) ==
  /\ live' = live \ idle
  /\ UNCHANGED <<opened, job, ahead>>

\* The caller reads its answer.
Return(c) ==
  /\ job[c].st \in {"ok", "err", "unknown", "gone", "branched"}
  /\ job' = [job EXCEPT ![c] = NoJob]
  /\ UNCHANGED <<opened, live, ahead>>

Next ==
  \/ \E c \in Callers, s \in Sessions :
       \/ \E op \in Ops : Ask(c, op, s)
       \/ \E op \in Creating : Open(c, op, s)
  \/ \E c \in Callers, outcome \in {"ok", "err", "unknown", "branched"} : Answer(c, outcome)
  \/ \E s \in Sessions, lost \in SUBSET Callers : Drop(s, lost)
  \/ \E idle \in SUBSET live : Expire(idle)
  \/ \E c \in Callers : Return(c)

Spec == Init /\ [][Next]_<<opened, live, job, ahead>>
=============================================================================

---------------------------- MODULE ZoneTransfer ----------------------------
(***************************************************************************)
(* What a requester is promised of a zone transfer, whatever the master    *)
(* does to keep the promise: the callback of a request is called at most   *)
(* once, and with the address of a world process that has finished loading *)
(* and that is a world of the zone the request asked for.                  *)
(***************************************************************************)
CONSTANTS
  Requests,    \* the requests of all requesters
  Targets,     \* where a request may want to go
  Answers,     \* what a world process is known by: map, clone, id, port
  Unset,       \* the target of a request not made yet
  NoAnswer     \* the answer to a request not answered yet

VARIABLES
  status,      \* "idle", "waiting" or "answered"
  target,      \* the target of each request
  answer,      \* what each request was answered
  loaded       \* the world processes that have ever finished loading

vars == <<status, target, answer, loaded>>

Init ==
  /\ status = [q \in Requests |-> "idle"]
  /\ target = [q \in Requests |-> Unset]
  /\ answer = [q \in Requests |-> NoAnswer]
  /\ loaded = {}

Ask(q, t) ==
  /\ status[q] = "idle"
  /\ status' = [status EXCEPT ![q] = "waiting"]
  /\ target' = [target EXCEPT ![q] = t]
  /\ UNCHANGED <<answer, loaded>>

Load ==
  /\ loaded' \subseteq Answers
  /\ \E a \in loaded' : loaded' = loaded \cup {a}
  /\ UNCHANGED <<status, target, answer>>

Tell(q, a) ==
  /\ status[q] = "waiting"
  /\ a \in loaded
  /\ <<a.map, a.clone>> = target[q]
  /\ status' = [status EXCEPT ![q] = "answered"]
  /\ answer' = [answer EXCEPT ![q] = a]
  /\ UNCHANGED <<target, loaded>>

Next ==
  \/ \E q \in Requests, t \in Targets : Ask(q, t)
  \/ Load
  \/ \E q \in Requests, a \in loaded : Tell(q, a)

Spec == Init /\ [][Next]_vars
=============================================================================

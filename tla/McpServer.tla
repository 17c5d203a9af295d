----------------------------- MODULE McpServer -----------------------------
(***************************************************************************)
(* mcp/server.py: a request's handler and the tool call it dispatches. The *)
(* call is a task of its own behind a shield, so that a client that gives  *)
(* up, once or many times, never abandons a robot in mid-motion, and every *)
(* call leaves one record.                                                 *)
(***************************************************************************)
EXTENDS Naturals

CONSTANTS
  Request,     (* tools/call requests                                      *)
  MaxCancels   (* bound: cancellations of one request                      *)

VARIABLES
  handler,     (* [Request -> where its handler is]                        *)
  task,        (* [Request -> its toolset.call]                            *)
  lock,        (* the requests whose call holds the toolset's lock         *)
  cancels,     (* [Request -> cancellations delivered to its handler]      *)
  record       (* [Request -> the outcomes logged for it]                  *)

serverVars == <<handler, task, lock, cancels, record>>

Answered == {"ok", "error"}

Init ==
  /\ handler = [r \in Request |-> "none"]
  /\ task = [r \in Request |-> "none"]
  /\ lock = {}
  /\ cancels = [r \in Request |-> 0]
  /\ record = [r \in Request |-> {}]

Receive(r) ==
  /\ handler[r] = "none"
  /\ handler' = [handler EXCEPT ![r] = "shielded"]
  /\ task' = [task EXCEPT ![r] = "queued"]
  /\ UNCHANGED <<lock, cancels, record>>

(* AgentToolSet.call: one at a time, never preempted. *)
Run(r) ==
  /\ task[r] = "queued" /\ lock = {}
  /\ task' = [task EXCEPT ![r] = "running"] /\ lock' = {r}
  /\ UNCHANGED <<handler, cancels, record>>

(* toolset.call never raises: a failure is a result too. *)
Finish(r, outcome) ==
  /\ task[r] = "running"
  /\ task' = [task EXCEPT ![r] = outcome] /\ lock' = lock \ {r}
  /\ UNCHANGED <<handler, cancels, record>>

End(r, how, outcome) ==
  /\ handler' = [handler EXCEPT ![r] = how]
  /\ record' = [record EXCEPT ![r] = @ \cup {outcome}]

(* Mutant: the wait after a cancellation can be cancelled itself. *)
Cancel_Twice(r) ==
  /\ handler[r] \in {"shielded", "draining"} /\ cancels[r] < MaxCancels
  /\ cancels' = [cancels EXCEPT ![r] = @ + 1]
  /\ IF handler[r] = "shielded"
       THEN handler' = [handler EXCEPT ![r] = "draining"] /\ UNCHANGED record
       ELSE End(r, "cancelled", "interrupted")
  /\ UNCHANGED <<task, lock>>

(* The request is cancelled; from the second time on the handler's loop    *)
(* swallows it.                                                            *)
Cancel(r) ==
  /\ handler[r] \in {"shielded", "draining"} /\ cancels[r] < MaxCancels
  /\ cancels' = [cancels EXCEPT ![r] = @ + 1]
  /\ handler' = [handler EXCEPT ![r] = "draining"]
  /\ UNCHANGED <<task, lock, record>>

(* The call has settled: a cancelled handler logs it and raises. *)
Abandoned(r) ==
  /\ handler[r] = "draining" /\ task[r] \in Answered
  /\ End(r, "cancelled", "interrupted")
  /\ UNCHANGED <<task, lock, cancels>>

Reply(r) ==
  /\ handler[r] = "shielded" /\ task[r] \in Answered
  /\ End(r, "replied", task[r])
  /\ UNCHANGED <<task, lock, cancels>>

Next ==
  \E r \in Request :
    \/ Receive(r) \/ Run(r) \/ (\E o \in Answered : Finish(r, o))
    \/ Cancel(r) \/ Abandoned(r) \/ Reply(r)

Spec == Init /\ [][Next]_serverVars

-----------------------------------------------------------------------------
(* A handler is over only when its call is, and a call that ran has left   *)
(* exactly one record, of what became of it: a request cancelled any       *)
(* number of times neither abandons a motion nor runs one off the books    *)
(* (mcp/server.py's call_tool).                                            *)
NoCallIsAbandoned ==
  \A r \in Request :
    handler[r] \in {"replied", "cancelled"} =>
      /\ task[r] \in Answered
      /\ record[r] = {IF handler[r] = "cancelled" THEN "interrupted" ELSE task[r]}
=============================================================================

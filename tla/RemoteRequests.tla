---------------------------- MODULE RemoteRequests ----------------------------
(* The writes of a remote participant carry an idempotency key.  The first    *)
(* request with a key registers it, executes, and then completes or fails the *)
(* record; the others are answered from the record.  A record that has been   *)
(* pending for thirty seconds is taken over by the next request, which        *)
(* executes again.  Requests run in processes of their own, which may stop    *)
(* anywhere or be slow.                                                       *)
EXTENDS Integers, Sequences, FiniteSets

CONSTANTS
  Requests,                         \* requests with one key and action
  Bodies,                           \* what they ask for (hashes)
  MaxLapses, MaxCrashes, MaxFaults  \* bounds

None == "none"

VARIABLES
  once,     \* an action that is refused when it was done (claim, submit)
  record,   \* of remote_idempotency_keys
  call,     \* the requests under way and those answered
  effects,  \* what was executed, by whom
  lapses, crashes, faults

bounds == <<lapses, crashes, faults>>
vars == <<once, record, call, effects, bounds>>

Fresh == [at |-> "new", body |-> None, response |-> None]

Init ==
  /\ once \in BOOLEAN
  /\ record = [state |-> None, hash |-> None, id |-> None, stale |-> FALSE, response |-> None]
  /\ call = [r \in Requests |-> Fresh]
  /\ effects = << >> /\ lapses = 0 /\ crashes = 0 /\ faults = 0

Goes(r, to) == call' = [call EXCEPT ![r].at = to]
Answers(r, response) == call' = [call EXCEPT ![r].at = "answered", ![r].response = response]

(* The request is the generation of the record: its id is new.               *)
Register(r, body) ==
  record' = [state |-> "pending", hash |-> body, id |-> r, stale |-> FALSE, response |-> None]

TakeOver(r) == record' = [record EXCEPT !.id = r, !.stale = FALSE]

Receive(r, body) ==
  /\ call[r].at = "new"
  /\ LET execute == call' = [call EXCEPT ![r].at = "execute", ![r].body = body]
         refuse(code) == call' = [call EXCEPT ![r].at = "answered", ![r].body = body, ![r].response = code]
     IN \/ record.state = None /\ Register(r, body) /\ execute
        \/ record.state # None /\ record.hash # body /\ refuse("mismatch") /\ UNCHANGED record
        \/ /\ record.state = "pending" /\ record.hash = body
           /\ IF record.stale THEN TakeOver(r) /\ execute ELSE refuse("in flight") /\ UNCHANGED record
        \/ record.state = "completed" /\ record.hash = body /\ refuse(record.response) /\ UNCHANGED record
        \/ record.state = "failed" /\ record.hash = body /\ refuse("prior failure") /\ UNCHANGED record
  /\ UNCHANGED <<once, effects, bounds>>

(* The command commits on its own.  A writer that is busy answers 503 and     *)
(* leaves the record pending; every other error fails it.                    *)
Done == once /\ effects # << >>

Execute(r) ==
  /\ call[r].at = "execute"
  /\ \/ ~Done /\ effects' = Append(effects, [by |-> r, body |-> call[r].body]) /\ Goes(r, "complete")
     \/ Goes(r, "fail") /\ UNCHANGED effects
     \/ Answers(r, "busy") /\ UNCHANGED effects
  /\ UNCHANGED <<once, record, bounds>>

(* A record is completed or failed by its id: whoever was overtaken writes    *)
(* nothing, and is answered all the same.                                    *)
Ends(r, state, response) ==
  IF record.id = r THEN record' = [record EXCEPT !.state = state, !.response = response]
                   ELSE UNCHANGED record

Complete(r) ==
  /\ call[r].at = "complete"
  /\ Ends(r, "completed", r) /\ Answers(r, r)
  /\ UNCHANGED <<once, effects, bounds>>

(* A completion that cannot be written ends in the handler's own catch.       *)
CompletionFails(r) ==
  /\ call[r].at = "complete" /\ faults < MaxFaults /\ faults' = faults + 1
  /\ Goes(r, "fail")
  /\ UNCHANGED <<once, record, effects, lapses, crashes>>

Fail(r) ==
  /\ call[r].at = "fail"
  /\ Ends(r, "failed", None) /\ Answers(r, "error")
  /\ UNCHANGED <<once, effects, bounds>>

(* Thirty seconds go by.                                                     *)
Lapse ==
  /\ record.state = "pending" /\ ~record.stale /\ lapses < MaxLapses /\ lapses' = lapses + 1
  /\ record' = [record EXCEPT !.stale = TRUE]
  /\ UNCHANGED <<once, call, effects, crashes, faults>>

Crash(r) ==
  /\ call[r].at \in {"execute", "complete", "fail"} /\ crashes < MaxCrashes /\ crashes' = crashes + 1
  /\ Answers(r, None)
  /\ UNCHANGED <<once, record, effects, lapses, faults>>

Step(r) ==
  \/ \E body \in Bodies : Receive(r, body)
  \/ Execute(r) \/ Complete(r) \/ CompletionFails(r) \/ Fail(r) \/ Crash(r)

Next == Lapse \/ \E r \in Requests : Step(r)

Spec == Init /\ [][Next]_vars
-----------------------------------------------------------------------------
Executing(r) == call[r].at \in {"execute", "complete", "fail"}

TypeOK ==
  /\ once \in BOOLEAN
  /\ record \in [state : {None, "pending", "completed", "failed"}, hash : Bodies \cup {None},
                 id : Requests \cup {None}, stale : BOOLEAN, response : Requests \cup {None}]
  /\ call \in [Requests -> [at : {"new", "execute", "complete", "fail", "answered"}, body : Bodies \cup {None},
                 response : Requests \cup {None, "mismatch", "in flight", "prior failure", "busy", "error"}]]
  /\ effects \in Seq([by : Requests, body : Bodies])
  /\ lapses \in 0 .. MaxLapses /\ crashes \in 0 .. MaxCrashes /\ faults \in 0 .. MaxFaults

(* What is done under a key is what its first request asked for, and is done  *)
(* again only after the record was pending for thirty seconds; a replay tells *)
(* what was done; a key is failed though its command was done only after a    *)
(* takeover or a completion that could not be written.                        *)
KeyIsHonoured ==
  /\ \A k \in DOMAIN effects : effects[k].body = record.hash
  /\ Len(effects) <= lapses + 1
  /\ Cardinality({r \in Requests : Executing(r)}) <= lapses + 1
  /\ \A r \in Requests : record.response = r => \E k \in DOMAIN effects : effects[k].by = r
  /\ record.state = "failed" /\ effects # << >> => lapses > 0 \/ faults > 0
  /\ \A r \in Requests : call[r].response \in Requests \ {r} => record.state = "completed" /\ record.response = call[r].response

(* A record that is completed or failed stays as it is, so every replay of a  *)
(* key tells the same.                                                        *)
AnswersStand ==
  [][record.state \in {"completed", "failed"} => record' = record]_vars
=============================================================================

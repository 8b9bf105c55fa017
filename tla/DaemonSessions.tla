--------------------------- MODULE DaemonSessions ---------------------------
(* Daemons that claim Tasks for their agents and run one worker process for   *)
(* each claim.  A session row records the claim under the epoch of the Task;  *)
(* the daemon reports its end, and recovery fails or releases the Task that   *)
(* still carries the epoch.  Daemons crash and leave their workers behind,    *)
(* reports are lost, heartbeats stop, and a rejected Task is resumed under a  *)
(* new epoch.                                                                 *)
EXTENDS Integers, Sequences, FiniteSets

CONSTANTS
  Tasks, Daemons, Agents,
  Host,          \* the daemon of an agent
  Embedded,      \* the daemons that run inside the API process
  Limit,         \* sessions a daemon may have open
  MaxClaims,     \* bound: sessions ever created
  MaxEpochs,     \* bound: epochs ever minted
  MaxCrashes,    \* bound: crashes and stops of a daemon
  Naming,        \* the agents that name their Task in a heartbeat
  MaxLost,       \* bound: requests of a daemon that fail
  MaxSilent,     \* bound: times a live daemon is silent for ten minutes
  MaxRefused     \* bound: drives that fail or find no budget

VARIABLES
  task,      \* status, epoch and owner of each Task
  epoch,     \* the last epoch minted
  sess,      \* the session rows
  up,        \* "down", "recovering" or "up"
  offer,     \* sessions whose claim the daemon has not started yet
  local,     \* sessions in a daemon's memory
  worker,    \* the epoch the process of a session works under, 0 without one
  post,      \* reports on their way to the API
  beat,      \* is the daemon's heartbeat fresh
  pointer,   \* the Task an agent last named in a heartbeat
  faults     \* what has gone wrong so far

vars == <<task, epoch, sess, up, offer, local, worker, post, beat, pointer, faults>>
process == <<up, offer, local, worker>>

NoTask == "none"
Sids == DOMAIN sess
Open(s) == sess[s].status \in {"starting", "running"}
OpenRows(d) == {s \in Sids : Host[sess[s].agent] = d /\ Open(s)}
Held(t) == task[t].status \in {"claimed", "in_progress"}
Daemon(s) == Host[sess[s].agent]
Lives(d) == up[d] # "down"
Spend(kind) == faults' = [faults EXCEPT ![kind] = @ + 1]

Init ==
  /\ task = [t \in Tasks |-> [status |-> "pending", token |-> 0, owner |-> NoTask]]
  /\ epoch = 0 /\ sess = << >> /\ worker = << >>
  /\ up = [d \in Daemons |-> "up"] /\ beat = [d \in Daemons |-> TRUE]
  /\ offer = {} /\ local = {} /\ post = {}
  /\ pointer = [a \in Agents |-> NoTask]
  /\ faults = [crash |-> 0, lost |-> 0, silent |-> 0, refused |-> 0]

(***************************************************************************)
(* Recovery of the Task                                                    *)
(***************************************************************************)
Freed(t, status) == [status |-> status, token |-> 0, owner |-> NoTask]

(* Mutant of Matches: the epoch of the session is ignored.                  *)
MatchesTask(row, t) == row.task = t

Matches(row, t) == row.task = t /\ row.token = task[t].token

(* "failed" stands for failed and lost, which recovery treats alike.        *)
(* A Task in progress whose worker died fails; any other Task still held is *)
(* released; only the epoch of the session counts.                          *)
Driven(S, rows) ==
  [t \in Tasks |->
     LET over == {s \in S : rows[s].status \notin {"starting", "running"} /\ Matches(rows[s], t)}
     IN IF over = {} \/ ~Held(t) THEN task[t]
        ELSE IF task[t].status = "in_progress" /\ \E s \in over : rows[s].status = "failed"
             THEN Freed(t, "failed") ELSE Freed(t, "pending")]

(* Every write of a session's end is followed by the drive, which may fail  *)
(* or be refused by the transition budget; the sweep tries it again.        *)
Drive(S, rows) ==
  /\ sess' = rows
  /\ \/ task' = Driven(S, rows) /\ UNCHANGED faults
     \/ faults.refused < MaxRefused /\ Spend("refused") /\ UNCHANGED task

(* The first end that is recorded stays.                                    *)
Written(S, status) == [s \in Sids |-> IF s \in S /\ Open(s) THEN [sess[s] EXCEPT !.status = status]
                                      ELSE sess[s]]

(* Mutant of SweepTask: only work that was started.                         *)
SweepStarted(t) ==
  /\ task[t].status = "in_progress"
  /\ \E s \in Sids : ~Open(s) /\ Matches(sess[s], t) /\ Drive({s}, sess)
  /\ UNCHANGED <<epoch, process, post, beat, pointer>>

SweepTask(t) ==
  /\ Held(t)
  /\ \E s \in Sids : ~Open(s) /\ Matches(sess[s], t) /\ Drive({s}, sess)
  /\ Driven(Sids, sess) # task
  /\ UNCHANGED <<epoch, process, post, beat, pointer>>

(* A daemon that does not run here and has been silent for ten minutes.     *)
Ghostly(d) == ~beat[d] /\ ~(d \in Embedded /\ up[d] = "up")

SweepGhost(s) ==
  /\ Open(s) /\ Ghostly(Daemon(s))
  /\ Drive({s}, Written({s}, "failed"))
  /\ UNCHANGED <<epoch, process, post, beat, pointer>>

(* An agent may be silent for thirty minutes at any time: the Task it named *)
(* last is released, if it still owns it.                                   *)
SweepAgent(a) ==
  LET t == pointer[a]
  IN /\ t # NoTask
     /\ IF Held(t) /\ task[t].owner = a THEN task' = [task EXCEPT ![t] = Freed(t, "pending")]
                                        ELSE UNCHANGED task
     /\ pointer' = [pointer EXCEPT ![a] = NoTask]
     /\ UNCHANGED <<epoch, sess, process, post, beat, faults>>

(***************************************************************************)
(* The daemon                                                              *)
(***************************************************************************)
(* A standalone daemon asks the API, which counts its open rows; an         *)
(* embedded one only knows the sessions in its memory.                      *)
Admits(d, a) ==
  d \in Embedded \/ (Cardinality(OpenRows(d)) < Limit /\ \A s \in OpenRows(d) : sess[s].agent # a)

Claim(a, t) ==
  LET d == Host[a]
      mine == {s \in local : Daemon(s) = d}
  IN /\ up[d] = "up" /\ task[t].status = "pending"
     /\ Cardinality(mine) < Limit /\ \A s \in mine : sess[s].agent # a
     /\ Admits(d, a)
     /\ d \in Embedded => \A s \in offer : Daemon(s) # d
     /\ Len(sess) < MaxClaims /\ epoch < MaxEpochs
     /\ epoch' = epoch + 1
     /\ task' = [task EXCEPT ![t] = [status |-> "claimed", token |-> epoch', owner |-> a]]
     /\ sess' = Append(sess, [agent |-> a, task |-> t, token |-> epoch', status |-> "starting",
                              placed |-> FALSE])
     /\ worker' = Append(worker, 0)
     /\ offer' = offer \cup {Len(sess')}
     /\ UNCHANGED <<up, local, post, beat, pointer, faults>>

(* The answer to a claim does not arrive: the daemon only counts an error.  *)
LoseAnswer(s) ==
  /\ s \in offer /\ Daemon(s) \notin Embedded /\ faults.lost < MaxLost
  /\ Spend("lost") /\ offer' = offer \ {s}
  /\ UNCHANGED <<task, epoch, sess, up, local, worker, post, beat, pointer>>

Report(s, status) == post' = post \cup {[s |-> s, status |-> status]}

(* The process is spawned with the epoch of the claim and reported running. *)
StartSession(s) ==
  /\ s \in offer /\ Lives(Daemon(s))
  /\ offer' = offer \ {s}
  /\ \/ /\ local' = local \cup {s}
        /\ worker' = [worker EXCEPT ![s] = sess[s].token]
        /\ Report(s, "running")
     \/ Report(s, "failed") /\ UNCHANGED <<local, worker>>
  /\ UNCHANGED <<task, epoch, sess, up, beat, pointer, faults>>

(* An exit, an error or a silent process: the session leaves the memory     *)
(* whether or not its report arrives.                                       *)
EndSession(s, status) ==
  /\ s \in local /\ Lives(Daemon(s))
  /\ local' = local \ {s}
  /\ worker' \in {worker, [worker EXCEPT ![s] = 0]}
  /\ status = "completed" => worker'[s] = 0
  /\ Report(s, status)
  /\ UNCHANGED <<task, epoch, sess, up, offer, beat, pointer, faults>>

(* A process nobody watches any more comes to its end.                      *)
Vanish(s) ==
  /\ worker[s] # 0 /\ s \notin local
  /\ worker' = [worker EXCEPT ![s] = 0]
  /\ UNCHANGED <<task, epoch, sess, up, offer, local, post, beat, pointer, faults>>

(* The PATCH of a session, or the update inside the API process.            *)
Deliver(p) ==
  /\ p \in post /\ post' = post \ {p}
  /\ IF p.status = "running"
     THEN /\ sess' = IF Open(p.s) THEN [sess EXCEPT ![p.s].status = "running", ![p.s].placed = TRUE]
                     ELSE [sess EXCEPT ![p.s].placed = TRUE]
          /\ UNCHANGED <<task, faults>>
     ELSE Drive({p.s}, Written({p.s}, p.status))
  /\ UNCHANGED <<epoch, process, beat, pointer>>

(* A failed report of an end is swallowed; a failed report of the start     *)
(* ends the process and is followed by a report of that end.                *)
Lose(p) ==
  /\ p \in post /\ Daemon(p.s) \notin Embedded /\ faults.lost < MaxLost
  /\ Spend("lost")
  /\ IF p.status = "running" /\ p.s \in local
     THEN /\ post' = (post \ {p}) \cup {[s |-> p.s, status |-> "failed"]}
          /\ local' = local \ {p.s} /\ worker' = [worker EXCEPT ![p.s] = 0]
     ELSE post' = post \ {p} /\ UNCHANGED <<local, worker>>
  /\ UNCHANGED <<task, epoch, sess, up, offer, beat, pointer>>

Heartbeat(d) ==
  /\ up[d] = "up" /\ ~beat[d]
  /\ beat' = [beat EXCEPT ![d] = TRUE]
  /\ UNCHANGED <<task, epoch, sess, process, post, pointer, faults>>

Silence(d) ==
  /\ beat[d] /\ beat' = [beat EXCEPT ![d] = FALSE]
  /\ IF Lives(d) THEN faults.silent < MaxSilent /\ Spend("silent") ELSE UNCHANGED faults
  /\ UNCHANGED <<task, epoch, sess, process, post, pointer>>

Mine(S, d) == {s \in S : Daemon(s) = d}

(* The processes of a daemon that crashes go on.                            *)
Crash(d) ==
  /\ Lives(d) /\ faults.crash < MaxCrashes /\ Spend("crash")
  /\ up' = [up EXCEPT ![d] = "down"]
  /\ offer' = offer \ Mine(offer, d) /\ local' = local \ Mine(local, d)
  /\ UNCHANGED <<task, epoch, sess, worker, post, beat, pointer>>

(* A stop releases the sessions in memory; what was being started is left.  *)
Stop(d) ==
  /\ up[d] = "up" /\ faults.crash < MaxCrashes /\ Spend("crash")
  /\ up' = [up EXCEPT ![d] = "down"]
  /\ offer' = offer \ Mine(offer, d) /\ local' = local \ Mine(local, d)
  /\ worker' = [s \in Sids |-> IF s \in Mine(local, d) THEN 0 ELSE worker[s]]
  /\ post' = post \cup {[s |-> s, status |-> "released"] : s \in Mine(local, d)}
  /\ UNCHANGED <<task, epoch, sess, beat, pointer>>

(* A standalone daemon first reports the end of every open session.         *)
Restart(d) ==
  /\ up[d] = "down" /\ d \notin Embedded
  /\ up' = [up EXCEPT ![d] = "recovering"]
  /\ post' = post \cup {[s |-> s, status |-> IF sess[s].placed THEN "failed" ELSE "released"] :
                          s \in OpenRows(d)}
  /\ UNCHANGED <<task, epoch, sess, offer, local, worker, beat, pointer, faults>>

Ready(d) ==
  /\ up[d] = "recovering" /\ \A p \in post : Daemon(p.s) # d
  /\ up' = [up EXCEPT ![d] = "up"]
  /\ UNCHANGED <<task, epoch, sess, offer, local, worker, post, beat, pointer, faults>>

(* An embedded one ends them itself, before it may find that its            *)
(* credentials are gone.                                                    *)
StartEmbedded(d) ==
  /\ up[d] = "down" /\ d \in Embedded
  /\ Drive(OpenRows(d), Written(OpenRows(d), "failed"))
  /\ \/ up' = [up EXCEPT ![d] = "up"] /\ beat' = [beat EXCEPT ![d] = TRUE]
     \/ OpenRows(d) # {} /\ UNCHANGED <<up, beat>>
  /\ UNCHANGED <<epoch, offer, local, worker, post, pointer>>

(***************************************************************************)
(* The worker and the reviewer                                             *)
(***************************************************************************)
Works(s) == worker[s] # 0 /\ worker[s] = task[sess[s].task].token

Start(s) ==
  LET t == sess[s].task
  IN /\ Works(s) /\ task[t].status = "claimed"
     /\ task' = [task EXCEPT ![t].status = "in_progress"]
     /\ UNCHANGED <<epoch, sess, process, post, beat, pointer, faults>>

(* Mutant of Continued: the ended sessions of the task go on too.           *)
ContinuedAll(t) ==
  [s \in Sids |-> IF sess[s].task = t THEN [sess[s] EXCEPT !.token = epoch + 1] ELSE sess[s]]

(* Rework mints an epoch; the session goes over to it, unless its daemon is *)
(* a ghost: then it ends, under the old epoch.                              *)
Continued(t) ==
  [s \in Sids |->
     IF ~(Open(s) /\ Matches(sess[s], t)) THEN sess[s]
     ELSE IF Ghostly(Daemon(s)) THEN [sess[s] EXCEPT !.status = "failed"]
     ELSE [sess[s] EXCEPT !.token = epoch + 1]]

Rework(s) ==
  LET t == sess[s].task
  IN /\ Works(s) /\ task[t].status = "rejected" /\ epoch < MaxEpochs
     /\ epoch' = epoch + 1
     /\ task' = [task EXCEPT ![t].status = "in_progress", ![t].token = epoch']
     /\ sess' = Continued(t)
     /\ worker' = [worker EXCEPT ![s] = epoch']
     /\ UNCHANGED <<up, offer, local, post, beat, pointer, faults>>

Submit(s) ==
  LET t == sess[s].task
  IN /\ Works(s) /\ task[t].status = "in_progress"
     /\ task' = [task EXCEPT ![t].status = "submitted"]
     /\ UNCHANGED <<epoch, sess, process, post, beat, pointer, faults>>

(* A heartbeat of the agent names the Task it works on.                     *)
NameTask(s) ==
  LET a == sess[s].agent
  IN /\ worker[s] # 0 /\ a \in Naming /\ pointer[a] # sess[s].task
     /\ pointer' = [pointer EXCEPT ![a] = sess[s].task]
     /\ UNCHANGED <<task, epoch, sess, process, post, beat, faults>>

Review(t) ==
  /\ task[t].status = "submitted"
  /\ \E verdict \in {"rejected", "done"} : task' = [task EXCEPT ![t].status = verdict]
  /\ UNCHANGED <<epoch, sess, process, post, beat, pointer, faults>>

Retry(t) ==
  /\ task[t].status = "failed"
  /\ task' = [task EXCEPT ![t].status = "pending"]
  /\ UNCHANGED <<epoch, sess, process, post, beat, pointer, faults>>

Ends == {"completed", "failed"}

Next ==
  \/ \E t \in Tasks : SweepTask(t) \/ Review(t) \/ Retry(t) \/ \E a \in Agents : Claim(a, t)
  \/ \E a \in Agents : SweepAgent(a)
  \/ \E d \in Daemons : \/ Heartbeat(d) \/ Silence(d) \/ Crash(d) \/ Stop(d)
                        \/ Restart(d) \/ Ready(d) \/ StartEmbedded(d)
  \/ \E s \in Sids : \/ SweepGhost(s) \/ LoseAnswer(s) \/ StartSession(s) \/ Vanish(s)
                     \/ Start(s) \/ Rework(s) \/ Submit(s) \/ NameTask(s)
                     \/ \E status \in Ends : EndSession(s, status)
  \/ \E p \in post : Deliver(p) \/ Lose(p)

Spec == Init /\ [][Next]_vars

(***************************************************************************)
(* Properties                                                              *)
(***************************************************************************)
(* Every variable has its type.                                             *)
TypeOK ==
  /\ \A t \in Tasks : /\ task[t].status \in {"pending", "claimed", "in_progress", "submitted",
                                             "rejected", "failed", "done"}
                      /\ task[t].token \in 0 .. epoch /\ task[t].owner \in Agents \cup {NoTask}
                      /\ task[t].status \in {"pending", "failed"} <=> task[t].token = 0
  /\ \A s \in Sids : /\ sess[s].status \in {"starting", "running", "released"} \cup Ends
                     /\ worker[s] \in 0 .. epoch
  /\ local \cup offer \subseteq Sids /\ local \cap offer = {}

(* An epoch of a Task has one session, through every continuation.          *)
OneSessionPerEpoch ==
  \A r, s \in Sids : r # s /\ sess[r].task = sess[s].task => sess[r].token # sess[s].token

(* While a worker is at work under the epoch of its Task and its session is *)
(* open, the session carries that epoch: its death will be noticed.         *)
SessionFollowsWorker == \A s \in Sids : Works(s) /\ Open(s) => sess[s].token = worker[s]

(* A standalone daemon has no more open sessions than its limit, and one    *)
(* for an agent, whatever it remembers.                                     *)
CapacityHolds ==
  \A d \in Daemons \ Embedded :
    /\ Cardinality(OpenRows(d)) <= Limit
    /\ \A r, s \in OpenRows(d) : sess[r].agent = sess[s].agent => r = s

(* The rows of the API, the epochs of the Tasks and the processes agree.    *)
SessionsAgree == TypeOK /\ OneSessionPerEpoch /\ SessionFollowsWorker /\ CapacityHolds

(* A held Task is taken from its owner only when the session of its epoch   *)
(* is over, or the owner, silent, named that very Task; and the first       *)
(* recorded end of a session stays, whatever report comes later.            *)
TakenFromTheEnded ==
  [][/\ \A t \in Tasks : Held(t) /\ task'[t].token = 0 =>
          \/ \E s \in DOMAIN sess' : /\ sess'[s].status \notin {"starting", "running"}
                                     /\ sess'[s].task = t /\ sess'[s].token = task[t].token
          \/ pointer[task[t].owner] = t
     /\ \A s \in Sids : ~Open(s) =>
          sess'[s].status = sess[s].status /\ sess'[s].token = sess[s].token]_vars

(* A Task that is held under the epoch of a session without a process is    *)
(* given up: failed, or released to be claimed again.                       *)
Abandoned(t, e) ==
  /\ Held(t) /\ task[t].token = e
  /\ \E s \in Sids : Matches(sess[s], t) /\ worker[s] = 0 /\ s \notin offer

WorkRecovered ==
  \A t \in Tasks, e \in 1 .. MaxEpochs : Abandoned(t, e) ~> ~(Held(t) /\ task[t].token = e)
=============================================================================

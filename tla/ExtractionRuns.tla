--------------------------- MODULE ExtractionRuns ---------------------------
(* The Learning Loop extracts Findings from the history of a habitat.  A run  *)
(* reserves a logical work item, opens an attempt under a lease, persists its *)
(* candidates one transaction at a time, and closes the attempt and then the  *)
(* item.  Processes on one database run, die and start again; the pass at the *)
(* start of a process closes the attempts whose lease has run out.            *)
EXTENDS Integers, Sequences, FiniteSets

CONSTANTS
  Items, Candidates, Workers,
  Yields,       \* the valid candidates, in order, of each item's window
  Family,       \* the claim each candidate states, whatever its evidence
  MaxLapses,    \* bound: leases that run out on a run that is alive
  MaxCrashes    \* bound: processes that die

None == "none"

VARIABLES
  item,      \* work items: status, completing attempt, generation, what they replace
  attempt,   \* the attempts of each item, in order
  found,     \* Findings: first and last attempt, occurrences, revision, what they replace
  work,      \* what each process is doing
  told,      \* completions announced for each item
  lapses, crashes

vars == <<item, attempt, found, work, told, lapses, crashes>>

NoItem == [status |-> "absent", by |-> 0, gen |-> 0, prior |-> None]
NoFinding == [first |-> <<None, 0>>, last |-> <<None, 0>>, count |-> 0, revision |-> 0, prior |-> None]
Idle == [at |-> "idle", item |-> None, no |-> 0, left |-> << >>, outcome |-> None,
         told |-> FALSE, boot |-> FALSE, stale |-> {}, sweep |-> {}]

Done == {"succeeded", "partial", "failed"}
Open(i) == item[i].status = "pending" /\ item[i].by = 0
Present == {i \in Items : item[i].status # "absent"}
Known == {c \in Candidates : found[c].count > 0}
Latest(i) == attempt[i][Len(attempt[i])]

Init ==
  /\ item = [i \in Items |-> NoItem] /\ attempt = [i \in Items |-> << >>]
  /\ found = [c \in Candidates |-> NoFinding]
  /\ work = [w \in Workers |-> Idle] /\ told = [i \in Items |-> 0]
  /\ lapses = 0 /\ crashes = 0

(* What a process goes back to when its run is over: the recovery it ran     *)
(* for, or nothing.                                                          *)
After(w) ==
  IF work[w].boot THEN [Idle EXCEPT !.at = "recover", !.boot = TRUE, !.stale = work[w].stale] ELSE Idle

(***************************************************************************)
(* A run                                                                   *)
(***************************************************************************)
(* Scheduled and ensured deliveries converge on the key of their window; one *)
(* that finds the item there is deduplicated, and nothing changes.           *)
Reserve(w, i) ==
  /\ work[w] = Idle /\ item[i].status = "absent"
  /\ item' = [item EXCEPT ![i].status = "pending"]
  /\ work' = [work EXCEPT ![w].at = "reserved", ![w].item = i]
  /\ UNCHANGED <<attempt, found, told, lapses, crashes>>

(* A fresh rerun takes the next generation and replaces the latest one.      *)
Newest == {i \in Present : \A j \in Present : item[j].gen =< item[i].gen}

Rerun(w, i) ==
  /\ work[w] = Idle /\ item[i].status = "absent"
  /\ \E prior \in IF Present = {} THEN {None} ELSE Newest :
       item' = [item EXCEPT ![i] =
         [NoItem EXCEPT !.status = "pending", !.prior = prior,
                        !.gen = 1 + IF prior = None THEN 0 ELSE item[prior].gen]]
  /\ work' = [work EXCEPT ![w].at = "reserved", ![w].item = i]
  /\ UNCHANGED <<attempt, found, told, lapses, crashes>>

OpenAttempt(w) ==
  LET i == work[w].item
  IN /\ work[w].at = "reserved"
     /\ attempt' = [attempt EXCEPT ![i] = Append(@, [status |-> "running", lapsed |-> FALSE])]
     /\ work' = [work EXCEPT ![w].at = "collect", ![w].no = Len(attempt[i]) + 1]
     /\ UNCHANGED <<item, found, told, lapses, crashes>>

(* The sources answer, in part or not, and the extractor yields its          *)
(* candidates or throws; a dry run keeps none of them.                       *)
Collect(w) ==
  /\ work[w].at = "collect"
  /\ \/ \E left \in {<< >>, Yields[work[w].item]}, outcome \in {"succeeded", "partial"} :
          work' = [work EXCEPT ![w].at = "persist", ![w].left = left, ![w].outcome = outcome]
     \/ work' = [work EXCEPT ![w].at = "close", ![w].outcome = "failed"]
  /\ UNCHANGED <<item, attempt, found, told, lapses, crashes>>

Running(i, n) == attempt[i][n].status = "running"

(* Mutant of Kept: the line forks at its first revision.                    *)
KeptAnew(c, at) ==
  LET kin == {d \in Known : Family[d] = Family[c]}
  IN IF c \in Known THEN [found[c] EXCEPT !.last = at, !.count = @ + 1]
     ELSE [first |-> at, last |-> at, count |-> 1, revision |-> 1 + Cardinality(kin),
           prior |-> IF kin = {} THEN None ELSE CHOOSE d \in kin : found[d].revision = 1]

(* A candidate seen before only recurs; one with new evidence is the next    *)
(* revision of its claim.                                                    *)
Kept(c, at) ==
  LET kin == {d \in Known : Family[d] = Family[c]}
      prior == CHOOSE d \in kin : \A e \in kin : found[e].revision =< found[d].revision
  IN IF c \in Known THEN [found[c] EXCEPT !.last = at, !.count = @ + 1]
     ELSE [first |-> at, last |-> at, count |-> 1,
           revision |-> 1 + IF kin = {} THEN 0 ELSE found[prior].revision,
           prior |-> IF kin = {} THEN None ELSE prior]

(* Mutant of Persist: the attempt may be closed.                            *)
PersistUnfenced(w) ==
  LET c == Head(work[w].left)
  IN /\ work[w].at = "persist" /\ work[w].left # << >>
     /\ found' = [found EXCEPT ![c] = Kept(c, <<work[w].item, work[w].no>>)]
     /\ work' = [work EXCEPT ![w].left = Tail(@)]
     /\ UNCHANGED <<item, attempt, told, lapses, crashes>>

(* One candidate, in a transaction that holds only for a running attempt; a  *)
(* transaction that throws loses its candidate, a lost fence fails the run.  *)
Persist(w) ==
  LET i == work[w].item
      c == Head(work[w].left)
  IN /\ work[w].at = "persist" /\ work[w].left # << >>
     /\ \/ /\ Running(i, work[w].no)
           /\ found' = [found EXCEPT ![c] = Kept(c, <<i, work[w].no>>)]
           /\ work' = [work EXCEPT ![w].left = Tail(@)]
        \/ /\ ~Running(i, work[w].no)
           /\ work' = [work EXCEPT ![w].at = "close", ![w].outcome = "failed", ![w].left = << >>]
           /\ UNCHANGED found
        \/ work' = [work EXCEPT ![w].left = Tail(@)] /\ UNCHANGED found
     /\ UNCHANGED <<item, attempt, told, lapses, crashes>>

Persisted(w) ==
  /\ work[w].at = "persist" /\ work[w].left = << >>
  /\ work' = [work EXCEPT ![w].at = "close"]
  /\ UNCHANGED <<item, attempt, found, told, lapses, crashes>>

(* Only a running attempt is closed.  A run that did not fail stops when it  *)
(* has lost its attempt; a failed one goes on to its item all the same.      *)
Close(w) ==
  LET i == work[w].item
      n == work[w].no
  IN /\ work[w].at = "close"
     /\ IF Running(i, n)
        THEN /\ attempt' = [attempt EXCEPT ![i][n].status = work[w].outcome]
             /\ work' = [work EXCEPT ![w].at = "finish", ![w].told = TRUE]
        ELSE /\ UNCHANGED attempt
             /\ work' = [work EXCEPT ![w] =
                  IF work[w].outcome = "failed" THEN [@ EXCEPT !.at = "finish"] ELSE After(w)]
     /\ UNCHANGED <<item, found, told, lapses, crashes>>

(* An item is completed once, by the first attempt that asks.                *)
Completed(i, n, status) ==
  IF Open(i) THEN [item EXCEPT ![i].status = status, ![i].by = n] ELSE item

Finish(w) ==
  LET i == work[w].item
  IN /\ work[w].at = "finish"
     /\ item' = Completed(i, work[w].no, work[w].outcome)
     /\ work' = [work EXCEPT ![w].at = "tell"]
     /\ UNCHANGED <<attempt, found, told, lapses, crashes>>

(* A completion is announced by the run that closed its own attempt.         *)
Tell(w) ==
  /\ work[w].at = "tell"
  /\ told' = IF work[w].told THEN [told EXCEPT ![work[w].item] = @ + 1] ELSE told
  /\ work' = [work EXCEPT ![w] = After(w)]
  /\ UNCHANGED <<item, attempt, found, lapses, crashes>>

(***************************************************************************)
(* The pass at the start of a process                                      *)
(***************************************************************************)
Stale ==
  UNION {{<<i, n>> : n \in {m \in DOMAIN attempt[i] : Running(i, m) /\ attempt[i][m].lapsed}} : i \in Items}

Boot(w) ==
  /\ work[w] = Idle /\ Present # {}
  /\ work' = [work EXCEPT ![w].at = "recover", ![w].boot = TRUE, ![w].stale = Stale]
  /\ UNCHANGED <<item, attempt, found, told, lapses, crashes>>

MarkStale(w) ==
  \E s \in work[w].stale :
    /\ work[w].at = "recover"
    /\ attempt' = IF Running(s[1], s[2]) THEN [attempt EXCEPT ![s[1]][s[2]].status = "failed"] ELSE attempt
    /\ work' = [work EXCEPT ![w].stale = @ \ {s}, ![w].item = s[1], ![w].no = s[2],
                            ![w].at = IF Running(s[1], s[2]) THEN "judge" ELSE "recover"]
    /\ UNCHANGED <<item, found, told, lapses, crashes>>

Committed(i, n) == \E c \in Candidates : <<i, n>> \in {found[c].first, found[c].last}

(* An attempt that committed Findings completes its item; for any other the  *)
(* item is run again, unless its policy is off.                              *)
Judge(w) ==
  LET i == work[w].item
  IN /\ work[w].at = "judge"
     /\ \/ /\ Committed(i, work[w].no)
           /\ item' = Completed(i, work[w].no, "succeeded")
           /\ work' = [work EXCEPT ![w] = After(w)]
        \/ /\ ~Committed(i, work[w].no) /\ UNCHANGED item
           /\ \/ work' = [work EXCEPT ![w] = [After(w) EXCEPT !.at = "reserved", !.item = i]]
              \/ work' = [work EXCEPT ![w] = After(w)]
     /\ UNCHANGED <<attempt, found, told, lapses, crashes>>

BeginSweep(w) ==
  /\ work[w].at = "recover" /\ work[w].stale = {}
  /\ work' = [work EXCEPT ![w].at = "sweep", ![w].sweep = {i \in Items : item[i].status = "pending"}]
  /\ UNCHANGED <<item, attempt, found, told, lapses, crashes>>

(* Mutant of Swept: only items with committed Findings.                     *)
SweptCommitted(i) ==
  LET n == Len(attempt[i])
  IN IF n = 0 \/ ~Committed(i, n) \/ Latest(i).status = "running" THEN item
     ELSE Completed(i, n, IF Latest(i).status # "failed" THEN Latest(i).status ELSE "partial")

(* The second pass completes the items whose latest attempt is closed, and   *)
(* skips those that have no attempt or a running one.                        *)
Swept(i) ==
  LET n == Len(attempt[i])
  IN IF n = 0 \/ Latest(i).status = "running" THEN item
     ELSE Completed(i, n, IF Latest(i).status # "failed" THEN Latest(i).status
                          ELSE IF Committed(i, n) THEN "partial" ELSE "failed")

Sweep(w) ==
  /\ work[w].at = "sweep"
  /\ \/ \E i \in work[w].sweep :
          /\ item' = Swept(i)
          /\ work' = [work EXCEPT ![w].sweep = @ \ {i}]
     \/ work[w].sweep = {} /\ work' = [work EXCEPT ![w] = Idle] /\ UNCHANGED item
  /\ UNCHANGED <<attempt, found, told, lapses, crashes>>

(***************************************************************************)
(* Time and failures                                                       *)
(***************************************************************************)
Abandoned(i) ==
  \A w \in Workers : ~(work[w].item = i /\ work[w].no = Len(attempt[i]) /\ work[w].at # "judge")

Lapse(i) ==
  /\ attempt[i] # << >> /\ Latest(i).status = "running" /\ ~Latest(i).lapsed
  /\ \/ Abandoned(i) /\ UNCHANGED lapses
     \/ ~Abandoned(i) /\ lapses < MaxLapses /\ lapses' = lapses + 1
  /\ attempt' = [attempt EXCEPT ![i][Len(attempt[i])].lapsed = TRUE]
  /\ UNCHANGED <<item, found, work, told, crashes>>

Crash(w) ==
  /\ work[w] # Idle /\ crashes < MaxCrashes /\ crashes' = crashes + 1
  /\ work' = [work EXCEPT ![w] = Idle]
  /\ UNCHANGED <<item, attempt, found, told, lapses>>

Step(w) ==
  \/ OpenAttempt(w) \/ Collect(w) \/ Persist(w) \/ Persisted(w) \/ Close(w) \/ Finish(w) \/ Tell(w)
  \/ MarkStale(w) \/ Judge(w) \/ BeginSweep(w) \/ Sweep(w)

Next ==
  \/ \E w \in Workers : Step(w) \/ Boot(w) \/ Crash(w) \/ \E i \in Items : Reserve(w, i) \/ Rerun(w, i)
  \/ \E i \in Items : Lapse(i)

Spec == Init /\ [][Next]_vars
-----------------------------------------------------------------------------
(* The variables hold values of the kinds the tables declare.                *)
TypeOK ==
  /\ item \in [Items -> [status : {"absent", "pending"} \cup Done, by : Nat, gen : Nat,
                         prior : Items \cup {None}]]
  /\ \A i \in Items : item[i].by \in 0..Len(attempt[i])
  /\ \A i \in Items : \A n \in DOMAIN attempt[i] : attempt[i][n].status \in {"running"} \cup Done
  /\ told \in [Items -> Nat]

(* The Findings of one claim are one line of revisions without a gap or a    *)
(* fork: each replaces the one before it, whichever runs persisted them.     *)
RevisionsAreALine ==
  \A c \in Known :
    IF found[c].revision = 1 THEN found[c].prior = None
    ELSE /\ found[c].prior \in Known /\ Family[found[c].prior] = Family[c]
         /\ found[found[c].prior].revision = found[c].revision - 1
         /\ \A d \in Known \ {c} : found[d].prior # found[c].prior

(* An item whose attempt succeeded or succeeded in part is never left with   *)
(* another verdict of that attempt, and one that is completed as good has    *)
(* an attempt that was closed.                                               *)
VerdictAgrees ==
  \A i \in Items : item[i].by > 0 =>
    LET status == attempt[i][item[i].by].status
    IN status # "running" /\ (status # "failed" => item[i].status = status)

(* However often an item is run, recovered and completed, its completion is  *)
(* announced at most once.                                                   *)
AnnouncedOnce == \A i \in Items : told[i] =< 1

(* What the processes leave behind agrees, however they interleave.          *)
RunsAgree == TypeOK /\ RevisionsAreALine /\ VerdictAgrees /\ AnnouncedOnce

(* A process whose attempt was closed by a recovery adds nothing to the      *)
(* Findings: every change of one is made by an attempt that is running.  A   *)
(* completed item and a closed attempt stay as they are.                     *)
RunsAreFenced ==
  [][/\ \A c \in Candidates : found'[c] # found[c] =>
          LET at == found'[c].last IN Running(at[1], at[2]) /\ found'[c].first \in {found[c].first, at}
     /\ \A i \in Items :
          /\ item[i].by > 0 => item'[i] = item[i]
          /\ \A n \in DOMAIN attempt[i] : ~Running(i, n) => attempt'[i][n] = attempt[i][n]]_vars

(* An item that was attempted is completed in the end.                       *)
AttemptedItemsComplete == \A i \in Items : (attempt[i] # << >>) ~> (item[i].by > 0)
=============================================================================

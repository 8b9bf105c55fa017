----------------------------- MODULE MC_Creation -----------------------------
(* The creation of Tasks: the publication kernel, and the schedules whose     *)
(* occurrences are published through it.  A kernel and a schedule touch each  *)
(* other only in the transactions both modules have, so that nothing is       *)
(* gained by interleaving them: a behaviour of this module is one of an       *)
(* instance of one of the two, the part it takes, while the variables of the  *)
(* other rest.                                                                *)
EXTENDS TaskPublication, TLC

CONSTANTS a1, a2, w1, w2, r1, r2

VARIABLES part, clock, sched, occ, att, retry, missions, pass, repair, spent

schedule == <<clock, sched, occ, att, retry, missions, pass, repair, spent>>
everything == <<part, vars, schedule>>

Nobody == {}
OneWorker == {w1}
TwoWorkers == {w1, w2}
OneKey == {a1}
TwoKeys == {a1, a2}
OneRequest == {r1}
TwoRequests == {r1, r2}
OnlyA2 == {a2}

(* Two keys in pages of two, and a Task that is deleted while its stream      *)
(* delivery is due.                                                           *)
Published2 == INSTANCE TaskPublication WITH
  Keys <- TwoKeys, Targeted <- OneKey, Requests <- OneRequest, Workers <- OneWorker,
  Others <- Nobody, Limit <- 2, Deletable <- OnlyA2

(* A schedule alone with its edits; one whose passes of three processes       *)
(* drift, are denied or crash; repairs of one occurrence; and, with denials   *)
(* without limit, the two shapes of a schedule until its occurrences settle.  *)
Both == {"once", "recurring"}
Recurring == {"recurring"}
Once == {"once"}
Cadence == INSTANCE ScheduledOccurrences WITH
  Workers <- Nobody, Shape <- "template", Kinds <- Both, MaxSlot <- 2, MaxReclaims <- 1,
  MaxRetries <- 0, MaxEdits <- 2, MaxCrashes <- 0, MaxDenials <- 0
Passes == INSTANCE ScheduledOccurrences WITH
  Workers <- TwoWorkers, Shape <- "template", Kinds <- Recurring, MaxSlot <- 1, MaxReclaims <- 1,
  MaxRetries <- 0, MaxEdits <- 1, MaxCrashes <- 2, MaxDenials <- 2
Repairs == INSTANCE ScheduledOccurrences WITH
  Workers <- OneWorker, Shape <- "template", Kinds <- Once, MaxSlot <- 0, MaxReclaims <- 1,
  MaxRetries <- 3, MaxEdits <- 2, MaxCrashes <- 2, MaxDenials <- 0
Templates == INSTANCE ScheduledOccurrences WITH
  Workers <- OneWorker, Shape <- "template", Kinds <- Recurring, MaxSlot <- 1, MaxReclaims <- 1,
  MaxRetries <- 0, MaxEdits <- 1, MaxCrashes <- 2, MaxDenials <- -1
Handlers == INSTANCE ScheduledOccurrences WITH
  Workers <- OneWorker, Shape <- "handler", Kinds <- Once, MaxSlot <- 1, MaxReclaims <- 1,
  MaxRetries <- 0, MaxEdits <- 2, MaxCrashes <- 2, MaxDenials <- -1

Begin ==
  /\ part \in {"requests", "published", "cadence", "passes", "repairs", "templates", "handlers"}
  /\ IF part = "published" THEN Published2!Init ELSE Init
  /\ CASE part = "cadence" -> Cadence!Init
       [] part = "passes" -> Passes!Init
       [] part = "templates" -> Templates!Init
       [] part = "handlers" -> Handlers!Init
       [] OTHER -> Repairs!Init

Step ==
  \/ part = "requests" /\ Next /\ UNCHANGED <<part, schedule>>
  \/ part = "published" /\ Published2!Next /\ UNCHANGED <<part, schedule>>
  \/ part = "cadence" /\ Cadence!Next /\ UNCHANGED <<part, vars>>
  \/ part = "passes" /\ Passes!Next /\ UNCHANGED <<part, vars>>
  \/ part = "repairs" /\ Repairs!Next /\ UNCHANGED <<part, vars>>
  \/ part = "templates" /\ Templates!Next /\ UNCHANGED <<part, vars>>
  \/ part = "handlers" /\ Handlers!Next /\ UNCHANGED <<part, vars>>

(* The dispatch worker's interval, the clock, and adapters that recover: one  *)
(* that is called again and again for a Task that exists accepts some time.   *)
PublicationGoesOn ==
  /\ WF_vars(part = "published" /\ Published2!Work(w1))
  /\ \A a \in TwoKeys :
       /\ WF_vars(part = "published" /\ Published2!Expire(a))
       /\ WF_vars(part = "published" /\ Published2!Deadline(a))
       /\ \A k \in Kinds : SF_vars(part = "published" /\ Published2!Accept(a, k))

(* Time passes, the poller polls, a pass runs to its end unless it crashes, a *)
(* lease runs out, and a recovery worker keeps scanning: as long as one of    *)
(* these is due, one of them happens.  Users and repairs owe nothing.         *)
SchedulesGoOn ==
  /\ WF_schedule(/\ part = "templates"
                 /\ \/ Templates!Tick \/ Templates!Poll
                    \/ \E s \in 0..1 :
                         \/ Templates!Expire(s) \/ Templates!Recover(s, w1)
                         \/ \E o \in {"scheduler", w1} :
                              Templates!Claim(s, o) \/ Templates!Body(s, o))
  /\ WF_schedule(/\ part = "handlers"
                 /\ \/ Handlers!Tick \/ Handlers!Poll
                    \/ \E s \in 0..1 :
                         \/ Handlers!Expire(s) \/ Handlers!Recover(s, w1)
                         \/ \E o \in {"scheduler", w1} :
                              Handlers!Claim(s, o) \/ Handlers!Body(s, o))

Behaviour == Begin /\ [][Step]_everything /\ PublicationGoesOn /\ SchedulesGoOn
-----------------------------------------------------------------------------
(* The schedule, its occurrences, their publications and repairs agree.       *)
OccurrencesAgree ==
  CASE part = "cadence" -> Cadence!OccurrencesAgree
    [] part = "passes" -> Passes!OccurrencesAgree
    [] part = "templates" -> Templates!OccurrencesAgree
    [] part = "handlers" -> Handlers!OccurrencesAgree
    [] OTHER -> Repairs!OccurrencesAgree

(* A Mission is made only from the schedule its occurrence was reserved from, *)
(* and what became of an occurrence stays.                                    *)
OccurrenceIsFinal == Passes!OccurrenceIsFinal

(* A published creation is decided, or its Task deleted, and every reserved   *)
(* occurrence is published or rejected.                                       *)
CreationsSettle ==
  /\ part = "published" => Published2!PublishedSettles
  /\ part \in {"templates", "handlers"} => Templates!OccurrencesSettle
=============================================================================

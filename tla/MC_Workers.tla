------------------------------ MODULE MC_Workers ------------------------------
(* Three workers in the background: the recovery of daemon sessions, the      *)
(* drains of the automation inbox and the delivery of notifications.  They    *)
(* share no state, so that nothing is gained by interleaving them: a          *)
(* behaviour of this module is one of an instance of one of the three, the    *)
(* part it takes, while the variables of the others rest.                     *)
EXTENDS NotificationDelivery, Sequences, TLC

CONSTANTS n1, w1, w2, slack, t1, t2, d1, d2, a1, a2, r1, r2, p1, p2

VARIABLES
  part,
  task, epoch, sess, up, offer, local, pid, post, beat, pointer, mishaps,
  clock, inbox, plan, live, row, check, fired, run, outbox, drain, crashes

sessions == <<task, epoch, sess, up, offer, local, pid, post, beat, pointer, mishaps>>
automation == <<clock, inbox, plan, live, row, check, fired, run, outbox, drain, crashes>>
everything == <<part, vars, sessions, automation>>

OneDelivery == {n1}
OneHook == {w1}
OneChat == {slack}
Mixed == {{}, {"in_app"}, {"in_app", "webhook"}, {"webhook", slack}}

(* The second instance of notifications has no administrator.                 *)
Pushed == {{"webhook"}, {"in_app", slack}}
Notices == INSTANCE NotificationDelivery WITH
  Menus <- Pushed, MaxStops <- 2, AdminClears <- FALSE

Nobody == {}
Task1 == {t1}
TwoTasks == {t1, t2}
Daemon1 == {d1}
Agent1 == {a1}
TwoAgents == {a1, a2}
Alone == a1 :> d1
Together == a1 :> d1 @@ a2 :> d1

(* One standalone daemon with one agent and one Task; one with two agents and *)
(* room for one session; and a standalone and an embedded daemon that lose no *)
(* request.                                                                   *)
Sessions == INSTANCE DaemonSessions WITH
  worker <- pid, faults <- mishaps,
  Tasks <- Task1, Daemons <- Daemon1, Agents <- Agent1, Host <- Alone, Embedded <- Nobody,
  Limit <- 1, MaxClaims <- 2, MaxEpochs <- 3, MaxCrashes <- 1, Naming <- Nobody, MaxLost <- 0,
  MaxSilent <- 0, MaxRefused <- 1
Crowd == INSTANCE DaemonSessions WITH
  worker <- pid, faults <- mishaps,
  Tasks <- TwoTasks, Daemons <- Daemon1, Agents <- TwoAgents, Host <- Together,
  Embedded <- Nobody, Limit <- 1, MaxClaims <- 2, MaxEpochs <- 2, MaxCrashes <- 0,
  Naming <- Agent1, MaxLost <- 1, MaxSilent <- 0, MaxRefused <- 0
Recovery == INSTANCE DaemonSessions WITH
  worker <- pid, faults <- mishaps,
  Tasks <- Task1, Daemons <- Daemon1, Agents <- Agent1, Host <- Alone, Embedded <- Nobody,
  Limit <- 1, MaxClaims <- 2, MaxEpochs <- 2, MaxCrashes <- 1, Naming <- Nobody, MaxLost <- 0,
  MaxSilent <- 0, MaxRefused <- 1
Embeds == INSTANCE DaemonSessions WITH
  worker <- pid, faults <- mishaps,
  Tasks <- Task1, Daemons <- Daemon1, Agents <- Agent1, Host <- Alone, Embedded <- Daemon1,
  Limit <- 1, MaxClaims <- 2, MaxEpochs <- 2, MaxCrashes <- 1, Naming <- Nobody, MaxLost <- 0,
  MaxSilent <- 0, MaxRefused <- 1

(* Two drains of one rule through two generations; and one drain of two       *)
(* rules.                                                                     *)
Rule1 == {r1}
TwoRules == {r1, r2}
Drain1 == {p1}
TwoDrains == {p1, p2}
Lists == {<<"release", "unsafe">>}
Single == {<<"unsafe">>}
Inbox == INSTANCE AutomationInbox WITH
  Rules <- Rule1, Drains <- TwoDrains, Plans <- Lists, MaxGen <- 2, TTL <- 1, MaxClock <- 2,
  MaxLeases <- 3, MaxCrashes <- 1
Flow == INSTANCE AutomationInbox WITH
  Rules <- TwoRules, Drains <- Drain1, Plans <- Single, MaxGen <- 1, TTL <- 1, MaxClock <- 2,
  MaxLeases <- 3, MaxCrashes <- 1

Begin ==
  /\ Init
  /\ part \in {"deliveries", "notices", "sessions", "crowd", "recovery", "embedded", "inbox", "flow"}
  /\ CASE part = "crowd" -> Crowd!Init
       [] part = "embedded" -> Embeds!Init
       [] OTHER -> Sessions!Init
  /\ IF part = "inbox" THEN Inbox!Init ELSE Flow!Init

Step ==
  \/ part = "deliveries" /\ Next /\ UNCHANGED <<part, sessions, automation>>
  \/ part = "notices" /\ Notices!Next /\ UNCHANGED <<part, sessions, automation>>
  \/ part = "sessions" /\ Sessions!Next /\ UNCHANGED <<part, vars, automation>>
  \/ part = "crowd" /\ Crowd!Next /\ UNCHANGED <<part, vars, automation>>
  \/ part = "recovery" /\ Recovery!Next /\ UNCHANGED <<part, vars, automation>>
  \/ part = "embedded" /\ Embeds!Next /\ UNCHANGED <<part, vars, automation>>
  \/ part = "inbox" /\ Inbox!Next /\ UNCHANGED <<part, vars, sessions>>
  \/ part = "flow" /\ Flow!Next /\ UNCHANGED <<part, vars, sessions>>

(* The interval worker visits every due unit, a request ends, a lease runs    *)
(* out, and a worker that stopped is started again: as long as one of these   *)
(* is due, one of them happens.                                               *)
NoticesAreServed ==
  WF_vars(/\ part = "notices"
          /\ \/ \E k \in Keys : \/ Notices!Pass(n1, k) \/ Notices!Lapse(n1, k)
                               \/ \E n \in 1..Total : Notices!Settle(n1, k, n)
             \/ worker = "stopping" /\ Notices!Exit
             \/ Notices!Start)

(* The sweeps run every minute; requests are answered or fail; a process      *)
(* comes to its end or is timed out; ten minutes pass.                        *)
SessionsAreSwept ==
  /\ WF_sessions(/\ part = "recovery"
                 /\ \/ Recovery!SweepTask(t1) \/ Recovery!Ready(d1)
                    \/ up[d1] = "down" /\ Recovery!Silence(d1)
                    \/ \E s \in DOMAIN sess :
                         \/ Recovery!SweepGhost(s) \/ Recovery!StartSession(s)
                         \/ Recovery!Vanish(s) \/ Recovery!EndSession(s, "failed")
                    \/ \E p \in post : Recovery!Deliver(p))
  /\ WF_sessions(/\ part = "embedded"
                 /\ \/ Embeds!SweepTask(t1)
                    \/ up[d1] = "down" /\ Embeds!Silence(d1)
                    \/ \E s \in DOMAIN sess :
                         \/ Embeds!SweepGhost(s) \/ Embeds!StartSession(s)
                         \/ Embeds!Vanish(s) \/ Embeds!EndSession(s, "failed")
                    \/ \E p \in post : Embeds!Deliver(p))

(* The drain's interval and the clock.                                        *)
InboxIsDrained ==
  /\ WF_automation(part = "flow" /\ Flow!Tick)
  /\ WF_automation(part = "flow" /\ Flow!Work(p1))

Behaviour ==
  Begin /\ [][Step]_everything /\ NoticesAreServed /\ SessionsAreSwept /\ InboxIsDrained
-----------------------------------------------------------------------------
(* The rows of the API, the epochs of the Tasks and the processes agree.      *)
SessionsAgree ==
  CASE part = "crowd" -> Crowd!SessionsAgree
    [] part = "embedded" -> Embeds!SessionsAgree
    [] OTHER -> Sessions!SessionsAgree

(* A Task is taken only from an owner whose session is over or who is silent, *)
(* and the first recorded end of a session stays.                             *)
TakenFromTheEnded == Sessions!TakenFromTheEnded

(* The entry of the inbox, its deliveries, their evidence and their runs      *)
(* agree.                                                                     *)
InboxAgrees == IF part = "inbox" THEN Inbox!InboxAgrees ELSE Flow!InboxAgrees

(* A Task that is held under a session without a process is given up, every   *)
(* admitted delivery of the inbox is settled or handed to an operator and the *)
(* completion of a run handed on, and every delivery of a notification is     *)
(* concluded.                                                                 *)
NothingIsStranded ==
  /\ part \in {"recovery", "embedded"} => Recovery!WorkRecovered
  /\ part = "flow" => Flow!InboxFlows
  /\ part = "notices" => Notices!DeliveriesConclude
=============================================================================

-------------------------- MODULE FindingPromotion --------------------------
(* People review an extracted Finding, each decision against the version they *)
(* saw, and promote an accepted one into a draft page of the Wiki.  A         *)
(* promotion is one row under a lease; a page carries the promotion's tag, by *)
(* which a retry finds the page of a promotion that was cut short.            *)
EXTENDS Integers, Sequences, FiniteSets

LOCAL INSTANCE Functions

CONSTANTS
  Reviewers, Workers,
  Instants,    \* what the clock of a process may read, in milliseconds
  MaxDecisions, MaxCalls, MaxFaults, MaxEdits   \* bounds

ASSUME PromotionAssumption ==
  {MaxDecisions, MaxCalls, MaxFaults, MaxEdits} \subseteq Nat /\ Instants \subseteq Nat

None == "none"

VARIABLES
  finding,   \* status and decision version
  cited,     \* every citation resolves and is unchanged
  reviews,   \* the decisions recorded, in order
  seen,      \* the decision version each reviewer has on screen
  promo,     \* the promotion row
  pages,     \* pages, and what became of the promotion's tag on them
  call,      \* the promoting calls that run
  begun,     \* how many calls began under each lease
  faults, edits

vars == <<finding, cited, reviews, seen, promo, pages, call, begun, faults, edits>>

(* A lease names a person and a millisecond, so that calls of one person in   *)
(* one millisecond have the same.                                            *)
Leases == [owner : Reviewers, generation : Instants]
NoLease == [owner |-> None, generation |-> 0]
Shared(l) == begun[l] > 1
Calls == FoldFunction(+, 0, begun)

NoPromo == [status |-> "absent", lease |-> NoLease, target |-> 0]
Idle == [at |-> "idle", lease |-> NoLease, page |-> 0, read |-> NoPromo]

Decisions == {"accept", "reject", "request_revision", "withdraw"}
Result(decision) ==
  CASE decision = "accept" -> "accepted" [] decision = "reject" -> "rejected"
    [] decision = "request_revision" -> "proposed" [] decision = "withdraw" -> "withdrawn"
Allowed(decision) == IF decision = "withdraw" THEN {"accepted"} ELSE {"proposed"}

Init ==
  /\ finding = [status |-> "proposed", version |-> 1] /\ cited = TRUE /\ reviews = << >>
  /\ seen = [v \in Reviewers |-> 1] /\ promo = NoPromo /\ pages = << >>
  /\ call = [w \in Workers |-> Idle] /\ begun = [l \in Leases |-> 0] /\ faults = 0 /\ edits = 0

(***************************************************************************)
(* Review                                                                  *)
(***************************************************************************)
Look(v) ==
  /\ seen[v] # finding.version
  /\ seen' = [seen EXCEPT ![v] = finding.version]
  /\ UNCHANGED <<finding, cited, reviews, promo, pages, call, begun, faults, edits>>

(* Mutant of Admitted: the version that was seen is not compared.            *)
AdmittedBlindly(v, decision) == finding.status \in Allowed(decision)

(* A decision counts if its reviewer saw the current version and the Finding *)
(* is in a state that admits it; the review is recorded with it.             *)
Admitted(v, decision) == seen[v] = finding.version /\ finding.status \in Allowed(decision)

Decide(v, decision) ==
  /\ Len(reviews) < MaxDecisions /\ Admitted(v, decision)
  /\ finding' = [status |-> Result(decision), version |-> seen[v] + 1]
  /\ reviews' = Append(reviews, [decision |-> decision, from |-> seen[v], by |-> v])
  /\ UNCHANGED <<cited, seen, promo, pages, call, begun, faults, edits>>

(***************************************************************************)
(* Promotion                                                               *)
(***************************************************************************)
Eligible == finding.status = "accepted" /\ cited

Begin(w, v, t) ==
  LET l == [owner |-> v, generation |-> t]
  IN /\ call[w] = Idle /\ Eligible /\ Calls < MaxCalls
     /\ begun' = [begun EXCEPT ![l] = @ + 1]
     /\ call' = [call EXCEPT ![w] = [Idle EXCEPT !.at = "reserve", !.lease = l]]
     /\ UNCHANGED <<finding, cited, reviews, seen, promo, pages, faults, edits>>

(* If the Finding still is eligible it gets its promotion row, or the call    *)
(* reads the one there is: a finished promotion is answered with its page.    *)
Reserve(w) ==
  /\ call[w].at = "reserve"
  /\ \/ /\ Eligible /\ promo.status = "absent"
        /\ promo' = [NoPromo EXCEPT !.status = "pending", !.lease = call[w].lease]
        /\ call' = [call EXCEPT ![w].at = "page"]
     \/ /\ Eligible /\ promo.status = "pending" /\ UNCHANGED promo
        /\ call' = [call EXCEPT ![w].at = "rearm", ![w].read = promo]
     \/ /\ ~Eligible \/ promo.status = "succeeded"
        /\ UNCHANGED promo /\ call' = [call EXCEPT ![w] = Idle]
  /\ UNCHANGED <<finding, cited, reviews, seen, pages, begun, faults, edits>>

(* The lease that was read still is the lease of a pending row.               *)
Unmoved(w) == promo.status = "pending" /\ promo.lease = call[w].read.lease

(* A call that has the lease it read goes on with the row as it was read.     *)
(* Otherwise the row passes to its owner's next call, or to anyone half a     *)
(* minute after it was written, which is up to the clock; the call that took  *)
(* it goes on with the row as it is.                                         *)
Rearm(w) ==
  LET read == call[w].read
      GoesOn(target) == [call EXCEPT ![w].page = target,
                                     ![w].at = IF target # 0 THEN "succeed" ELSE "page"]
  IN /\ call[w].at = "rearm"
     /\ \/ read.lease = call[w].lease /\ UNCHANGED promo /\ call' = GoesOn(read.target)
        \/ /\ read.lease # call[w].lease /\ Unmoved(w)
           /\ promo' = [promo EXCEPT !.lease = call[w].lease] /\ call' = GoesOn(promo.target)
        \/ /\ read.lease # call[w].lease
           /\ read.lease.owner # call[w].lease.owner \/ ~Unmoved(w)
           /\ UNCHANGED promo /\ call' = [call EXCEPT ![w] = Idle]
     /\ UNCHANGED <<finding, cited, reviews, seen, pages, begun, faults, edits>>

Tagged == {p \in DOMAIN pages : pages[p] \in {"made", "tagged"}}

(* A page with the promotion's tag is taken for its page, whoever tagged it;  *)
(* of several, the one whose title comes first.                              *)
FindPage(w) ==
  /\ call[w].at = "page"
  /\ \/ Tagged = {} /\ call' = [call EXCEPT ![w].at = "create"]
     \/ \E p \in Tagged : call' = [call EXCEPT ![w].at = "record", ![w].page = p]
  /\ UNCHANGED <<finding, cited, reviews, seen, promo, pages, begun, faults, edits>>

CreatePage(w) ==
  /\ call[w].at = "create"
  /\ pages' = Append(pages, "made")
  /\ call' = [call EXCEPT ![w].at = "record", ![w].page = Len(pages) + 1]
  /\ UNCHANGED <<finding, cited, reviews, seen, promo, begun, faults, edits>>

(* Mutant of Holds: the lease is not compared.                              *)
HoldsAlways(w) == TRUE

(* Only the holder of the lease of a pending row writes it.                  *)
Holds(w) == promo.status = "pending" /\ promo.lease = call[w].lease

RecordPage(w) ==
  /\ call[w].at = "record"
  /\ IF Holds(w)
     THEN /\ promo' = [promo EXCEPT !.target = call[w].page]
          /\ call' = [call EXCEPT ![w].at = "succeed"]
     ELSE UNCHANGED promo /\ call' = [call EXCEPT ![w] = Idle]
  /\ UNCHANGED <<finding, cited, reviews, seen, pages, begun, faults, edits>>

(* The link to the Finding may fail, and nothing depends on it.              *)
Succeed(w) ==
  /\ call[w].at = "succeed"
  /\ promo' = IF Holds(w) THEN [promo EXCEPT !.status = "succeeded", !.target = call[w].page] ELSE promo
  /\ call' = [call EXCEPT ![w] = Idle]
  /\ UNCHANGED <<finding, cited, reviews, seen, pages, begun, faults, edits>>

(***************************************************************************)
(* The world around                                                        *)
(***************************************************************************)
(* A source is changed or removed, or is back as it was.                     *)
Degrade ==
  /\ edits < MaxEdits /\ edits' = edits + 1 /\ cited' = ~cited
  /\ UNCHANGED <<finding, reviews, seen, promo, pages, call, begun, faults>>

(* People give a page whatever tags they like, that of a promotion included,  *)
(* once there is one; they delete pages, and write pages of their own.       *)
EditTags(p, to) ==
  /\ edits < MaxEdits /\ edits' = edits + 1
  /\ CASE to = "tagged" -> pages[p] = "untagged" /\ promo.status # "absent"
       [] to = "untagged" -> pages[p] \in {"made", "tagged"}
  /\ pages' = [pages EXCEPT ![p] = to]
  /\ UNCHANGED <<finding, cited, reviews, seen, promo, call, begun, faults>>

DeletePage(p) ==
  /\ edits < MaxEdits /\ edits' = edits + 1
  /\ pages[p] # "gone" /\ pages' = [pages EXCEPT ![p] = "gone"]
  /\ UNCHANGED <<finding, cited, reviews, seen, promo, call, begun, faults>>

WritePage(tag) ==
  /\ edits < MaxEdits /\ edits' = edits + 1
  /\ (tag = "tagged" => promo.status # "absent") /\ pages' = Append(pages, tag)
  /\ UNCHANGED <<finding, cited, reviews, seen, promo, call, begun, faults>>

(* A step of the call throws, or its process dies.                           *)
Abort(w) ==
  /\ call[w] # Idle /\ faults < MaxFaults /\ faults' = faults + 1
  /\ call' = [call EXCEPT ![w] = Idle]
  /\ UNCHANGED <<finding, cited, reviews, seen, promo, pages, begun, edits>>

Next ==
  \/ \E v \in Reviewers : Look(v) \/ \E decision \in Decisions : Decide(v, decision)
  \/ \E w \in Workers :
       \/ \E v \in Reviewers, t \in Instants : Begin(w, v, t)
       \/ Reserve(w) \/ Rearm(w) \/ FindPage(w) \/ CreatePage(w)
       \/ RecordPage(w) \/ Succeed(w) \/ Abort(w)
  \/ Degrade
  \/ \E tag \in {"tagged", "untagged"} :
       WritePage(tag) \/ \E p \in DOMAIN pages : EditTags(p, tag)
  \/ \E p \in DOMAIN pages : DeletePage(p)

Spec == Init /\ [][Next]_vars
-----------------------------------------------------------------------------
(* The variables hold values of the kinds the tables declare.                *)
TypeOK ==
  /\ finding.status \in {"proposed", "accepted", "rejected", "withdrawn"}
  /\ promo.status \in {"absent", "pending", "succeeded"}
  /\ promo.target \in 0..Len(pages) /\ \A w \in DOMAIN call : call[w].page \in 0..Len(pages)

(* The recorded decisions explain the Finding: one for every version, in the *)
(* order of the versions, each allowed by what the ones before it made of    *)
(* it; two reviewers who saw the same version never both decide.             *)
StatusAfter(n) == IF n = 0 THEN "proposed" ELSE Result(reviews[n].decision)
ReviewsAgree ==
  /\ finding = [status |-> StatusAfter(Len(reviews)), version |-> Len(reviews) + 1]
  /\ \A n \in DOMAIN reviews :
       reviews[n].from = n /\ StatusAfter(n - 1) \in Allowed(reviews[n].decision)

(* A promotion that succeeded has a page that was created for it.            *)
SucceededHasPage ==
  promo.status = "succeeded" => promo.target \in DOMAIN pages

(* A promotion is only begun for a Finding a review accepted.                *)
PromotedWasAccepted ==
  promo.status # "absent" => \E n \in DOMAIN reviews : reviews[n].decision = "accept"

(* A recorded page is never replaced by another, whichever calls are still    *)
(* under way, unless two of them have the lease of the row; and a promotion   *)
(* that succeeded stays as it is.                                            *)
TargetStays ==
  [][/\ promo.target # 0 /\ promo'.target # promo.target => Shared(promo.lease)
     /\ promo.status = "succeeded" => promo' = promo]_vars

(* Calls that come one after another make no second page while the first     *)
(* has the tag it was made with.                                             *)
OneOwnPage == \A p, q \in DOMAIN pages : pages[p] = "made" /\ pages[q] = "made" => p = q

(* The Finding, its reviews and its promotion agree.                         *)
FindingAgrees == TypeOK /\ ReviewsAgree /\ SucceededHasPage /\ PromotedWasAccepted
=============================================================================

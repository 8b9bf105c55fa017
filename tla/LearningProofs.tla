--------------------------- MODULE LearningProofs ---------------------------
(***************************************************************************)
(* Theorems about what is learnt from the work: the promotion of a Finding *)
(* to a page, which is extended, and the runs that extract Findings, an    *)
(* instance over variables of its own.  In both, the calls of several      *)
(* processes share a row.                                                  *)
(***************************************************************************)
EXTENDS FindingPromotion, FiniteSetTheorems, TLAPS

CONSTANTS
  MaxCrashes, MaxLapses, Items, Candidates, Yields, Family      \* of ExtractionRuns

VARIABLES
  item, attempt, found, work, told, overruns, deaths

Runs == INSTANCE ExtractionRuns WITH lapses <- overruns, crashes <- deaths

(***************************************************************************)
(* The promotion of a Finding                                              *)
(***************************************************************************)
LeaseKinds == Leases \cup {NoLease}
PromoRows == [status : {"absent", "pending", "succeeded"}, lease : LeaseKinds, target : Nat]
PromotingCalls ==
  [at : {"idle", "reserve", "rearm", "page", "create", "record", "succeed"}, lease : LeaseKinds,
   page : Nat, read : PromoRows]
PageStates == {"made", "tagged", "untagged", "gone"}

(* The row, among n pages and the calls that were begun: its target is a page *)
(* and its lease that of a call.                                             *)
RowFits(row, n, bg) ==
  /\ row \in PromoRows /\ row.target <= n
  /\ row.status = "absent" => row.target = 0
  /\ row.status = "succeeded" => row.target # 0
  /\ row.status # "absent" => row.lease \in Leases /\ bg[row.lease] > 0

(* A call, beside such a row: unless another call began with its lease, the   *)
(* row does not have the lease before the call has reserved it, and while it  *)
(* has, its page is the one the call has recorded.                           *)
CallFits(c, row, n, bg) ==
  /\ c \in PromotingCalls /\ c.page <= n /\ c.read.target <= n
  /\ c.at # "idle" => c.lease \in Leases /\ bg[c.lease] > 0
  /\ c.at \in {"record", "succeed"} => c.page # 0
  /\ c.at \in {"reserve", "rearm"} /\ row.status # "absent" /\ row.lease = c.lease => bg[c.lease] > 1
  /\ c.at = "rearm" /\ c.read.lease = c.lease => bg[c.lease] > 1
  /\ c.at \in {"page", "create", "record", "succeed"} /\ row.status = "pending" /\ row.lease = c.lease =>
       \/ bg[c.lease] > 1
       \/ row.target = IF c.at = "succeed" THEN c.page ELSE 0

(* Two calls that run have a lease in common only if both began with it.      *)
LeasesDiffer ==
  \A w, x \in Workers : w # x /\ call[w].at # "idle" /\ call[x].lease = call[w].lease =>
    call[x].at = "idle" \/ Shared(call[w].lease)

PromotionInv ==
  /\ pages \in Seq(PageStates) /\ begun \in [Leases -> Nat] /\ call \in [Workers -> PromotingCalls]
  /\ RowFits(promo, Len(pages), begun)
  /\ \A w \in Workers : CallFits(call[w], promo, Len(pages), begun)
  /\ LeasesDiffer

(* Nobody promotes what no review has accepted.                              *)
Accepted == \E n \in DOMAIN reviews : reviews[n].decision = "accept"
PromotesTheAccepted ==
  promo.status # "absent" \/ (\E w \in Workers : call[w].at # "idle") => Accepted

ReviewInv ==
  /\ reviews \in Seq([decision : Decisions, from : Nat, by : Reviewers])
  /\ seen \in [Reviewers -> Nat] /\ ReviewsAgree
  /\ finding.status \in {"proposed", "accepted", "rejected", "withdrawn"}

FindingInv == PromotionInv /\ ReviewInv /\ PromotesTheAccepted

(* The reviews.                                                              *)
LEMMA ReviewStep ==
  ASSUME ReviewInv, [Next]_vars
  PROVE  ReviewInv' /\ (Accepted => Accepted') /\ Len(reviews') \in Nat
<1>1. Len(reviews) \in Nat /\ reviews \in Seq([decision : Decisions, from : Nat, by : Reviewers])
  BY DEF ReviewInv
<1>2. ASSUME NEW v \in Reviewers, Look(v) PROVE ReviewInv' /\ UNCHANGED reviews
  <2>1. /\ seen' = [seen EXCEPT ![v] = finding.version] /\ UNCHANGED <<finding, reviews>>
    BY <1>2 DEF Look
  <2>2. finding.version \in Nat
    BY <1>1 DEF ReviewInv, ReviewsAgree
  <2>3. seen' \in [Reviewers -> Nat]
    BY <2>1, <2>2 DEF ReviewInv
  <2>4. ReviewsAgree'
    BY <2>1 DEF ReviewInv, ReviewsAgree, StatusAfter
  <2>5. QED BY <2>1, <2>3, <2>4 DEF ReviewInv
<1>3. ASSUME NEW v \in Reviewers, NEW decision \in Decisions, Decide(v, decision)
      PROVE  ReviewInv' /\ (Accepted => Accepted') /\ Len(reviews') \in Nat
  <2> DEFINE review == [decision |-> decision, from |-> seen[v], by |-> v]
  <2>1. /\ finding.status \in Allowed(decision) /\ seen[v] = finding.version
        /\ finding' = [status |-> Result(decision), version |-> seen[v] + 1]
        /\ reviews' = Append(reviews, review) /\ seen' = seen
    BY <1>3 DEF Decide, Admitted
  <2>2. seen[v] = Len(reviews) + 1 /\ finding.status = StatusAfter(Len(reviews))
    BY <2>1 DEF ReviewInv, ReviewsAgree
  <2>3. review \in [decision : Decisions, from : Nat, by : Reviewers]
    BY <1>1, <2>2
  <2>4. review.decision = decision /\ review.from = Len(reviews) + 1
    BY <2>2
  <2> HIDE DEF review
  <2>5. /\ reviews' \in Seq([decision : Decisions, from : Nat, by : Reviewers])
        /\ Len(reviews') = Len(reviews) + 1 /\ reviews'[Len(reviews) + 1] = review
        /\ \A n \in 1 .. Len(reviews) : reviews'[n] = reviews[n]
        /\ DOMAIN reviews' = 1 .. Len(reviews) + 1 /\ DOMAIN reviews = 1 .. Len(reviews)
    BY <1>1, <2>1, <2>3
  <2>6. /\ StatusAfter(Len(reviews))' = Result(decision)
        /\ \A n \in 0 .. Len(reviews) : StatusAfter(n)' = StatusAfter(n)
    <3>1. Len(reviews') # 0 /\ reviews'[Len(reviews')].decision = decision
      BY <1>1, <2>4, <2>5
    <3>2. StatusAfter(Len(reviews))' = Result(decision)
      BY <3>1, Zenon DEF StatusAfter
    <3>3. ASSUME NEW n \in 0 .. Len(reviews) PROVE StatusAfter(n)' = StatusAfter(n)
      <4>1. n = 0 \/ reviews'[n] = reviews[n]
        BY <1>1, <2>5
      <4>2. QED BY <4>1, Zenon DEF StatusAfter
    <3>4. QED BY <3>2, <3>3
  <2>7. ReviewsAgree'
    <3>1. finding' = [status |-> StatusAfter(Len(reviews))', version |-> Len(reviews') + 1]
      BY <2>1, <2>2, <2>5, <2>6
    <3>2. ASSUME NEW n \in DOMAIN reviews'
          PROVE  reviews'[n].from = n /\ StatusAfter(n - 1)' \in Allowed(reviews'[n].decision)
      <4>1. n - 1 \in 0 .. Len(reviews) /\ StatusAfter(n - 1)' = StatusAfter(n - 1)
        BY <1>1, <2>5, <2>6
      <4>2. CASE n = Len(reviews) + 1
        BY <1>1, <2>1, <2>2, <2>4, <2>5, <4>1, <4>2
      <4>3. CASE n \in DOMAIN reviews
        BY <2>5, <4>1, <4>3 DEF ReviewInv, ReviewsAgree
      <4>4. QED BY <1>1, <2>5, <4>2, <4>3
    <3>3. QED BY <3>1, <3>2, Zenon DEF ReviewsAgree
  <2>8. finding'.status \in {"proposed", "accepted", "rejected", "withdrawn"}
    BY <2>1 DEF Decisions, Result
  <2>9. Accepted => Accepted'
    BY <2>5 DEF Accepted
  <2>10. ReviewInv'
    BY <2>1, <2>5, <2>7, <2>8 DEF ReviewInv
  <2>11. QED BY <1>1, <2>5, <2>9, <2>10
<1>4. ASSUME UNCHANGED <<finding, reviews, seen>>
      PROVE  ReviewInv' /\ UNCHANGED reviews
  BY <1>4 DEF ReviewInv, ReviewsAgree, StatusAfter
<1>5. CASE UNCHANGED reviews /\ ReviewInv'
  BY <1>1, <1>5 DEF Accepted
<1>6. CASE UNCHANGED vars
  BY <1>4, <1>5, <1>6, Zenon DEF vars
<1>7. ASSUME NEW w \in Workers,
             \/ \E v \in Reviewers, t \in Instants : Begin(w, v, t)
             \/ Reserve(w) \/ Rearm(w) \/ FindPage(w) \/ CreatePage(w)
             \/ RecordPage(w) \/ Succeed(w) \/ Abort(w)
      PROVE  UNCHANGED <<finding, reviews, seen>>
  BY <1>7, Zenon DEF Begin, Reserve, Rearm, FindPage, CreatePage, RecordPage, Succeed, Abort
<1>8. ASSUME \/ Degrade \/ \E p \in DOMAIN pages : DeletePage(p)
             \/ \E tag \in {"tagged", "untagged"} :
                  WritePage(tag) \/ \E p \in DOMAIN pages : EditTags(p, tag)
      PROVE  UNCHANGED <<finding, reviews, seen>>
  BY <1>8, Zenon DEF Degrade, DeletePage, WritePage, EditTags
<1>9. QED BY <1>2, <1>3, <1>4, <1>5, <1>6, <1>7, <1>8, Zenon DEF Next

LEMMA IdleCall ==
  /\ Idle \in PromotingCalls /\ Idle.at = "idle" /\ Idle.page = 0 /\ Idle.read.target = 0
  /\ Idle.read = NoPromo /\ NoPromo \in PromoRows /\ NoPromo.status = "absent" /\ NoPromo.target = 0
BY DEF Idle, NoPromo, PromotingCalls, PromoRows, LeaseKinds

LEMMA IdleFits ==
  ASSUME NEW row, NEW n \in Nat, NEW bg
  PROVE  CallFits(Idle, row, n, bg)
BY IdleCall DEF CallFits

(* A call that moves on while the row rests, or that has ended.              *)
LEMMA CallMoves ==
  ASSUME PromotionInv, NEW w \in Workers, NEW c, call' = [call EXCEPT ![w] = c],
         CallFits(c, promo, Len(pages), begun),
         c.at # "idle" => call[w].at # "idle" /\ c.lease = call[w].lease,
         UNCHANGED <<promo, pages, begun>>
  PROVE  PromotionInv'
<1>1. /\ call' \in [Workers -> PromotingCalls] /\ call'[w] = c
      /\ \A x \in Workers \ {w} : call'[x] = call[x]
  BY DEF PromotionInv, CallFits
<1>2. \A x \in Workers : CallFits(call'[x], promo', Len(pages'), begun')
  BY <1>1 DEF PromotionInv
<1>3. \A x \in Workers : call'[x].at # "idle" =>
        call[x].at # "idle" /\ call'[x].lease = call[x].lease
  BY <1>1
<1>4. LeasesDiffer'
  BY <1>3 DEF PromotionInv, LeasesDiffer, Shared
<1>5. RowFits(promo', Len(pages'), begun') /\ pages' \in Seq(PageStates) /\ begun' \in [Leases -> Nat]
  BY DEF PromotionInv
<1>6. QED BY <1>1, <1>2, <1>4, <1>5 DEF PromotionInv

(* A call that writes the row leaves its lease there, so that the others only *)
(* have to do with it if both began with that lease.                         *)
LEMMA RowMoves ==
  ASSUME PromotionInv, NEW w \in Workers, call[w].at # "idle",
         NEW c, call' = [call EXCEPT ![w] = c],
         promo'.status # "absent", promo'.lease = call[w].lease,
         RowFits(promo', Len(pages), begun), CallFits(c, promo', Len(pages), begun),
         c.at # "idle" => c.lease = call[w].lease,
         UNCHANGED <<pages, begun>>
  PROVE  PromotionInv'
<1>1. /\ call' \in [Workers -> PromotingCalls] /\ call'[w] = c
      /\ \A x \in Workers \ {w} : call'[x] = call[x]
  BY DEF PromotionInv, CallFits
<1>2. ASSUME NEW x \in Workers \ {w}
      PROVE  CallFits(call[x], promo', Len(pages), begun)
  <2>1. CallFits(call[x], promo, Len(pages), begun)
    BY DEF PromotionInv
  <2>2. call[x].at # "idle" /\ call[x].lease = promo'.lease => begun[call[x].lease] > 1
    BY DEF PromotionInv, LeasesDiffer, Shared
  <2>3. QED BY <2>1, <2>2 DEF CallFits
<1>3. \A x \in Workers : CallFits(call'[x], promo', Len(pages'), begun')
  BY <1>1, <1>2
<1>4. \A x \in Workers : call'[x].at # "idle" =>
        call[x].at # "idle" /\ call'[x].lease = call[x].lease
  BY <1>1
<1>5. LeasesDiffer'
  BY <1>4 DEF PromotionInv, LeasesDiffer, Shared
<1>6. RowFits(promo', Len(pages'), begun') /\ pages' \in Seq(PageStates) /\ begun' \in [Leases -> Nat]
  BY DEF PromotionInv
<1>7. QED BY <1>1, <1>3, <1>5, <1>6 DEF PromotionInv

(* A page more, or another state of a page, is nothing to the row and the     *)
(* calls, which only know that theirs exist.                                 *)
LEMMA PagesGrow ==
  ASSUME PromotionInv, NEW n \in Nat, n >= Len(pages)
  PROVE  /\ RowFits(promo, n, begun)
         /\ \A w \in Workers : CallFits(call[w], promo, n, begun)
<1>1. Len(pages) \in Nat /\ promo.target \in Nat /\ promo.target <= Len(pages)
  BY DEF PromotionInv, RowFits, PromoRows
<1>2. RowFits(promo, n, begun)
  BY <1>1 DEF PromotionInv, RowFits
<1>3. ASSUME NEW w \in Workers PROVE CallFits(call[w], promo, n, begun)
  <2>1. CallFits(call[w], promo, Len(pages), begun)
    BY DEF PromotionInv
  <2>2. call[w].page \in Nat /\ call[w].read.target \in Nat
    BY <2>1 DEF CallFits, PromotingCalls, PromoRows
  <2>3. call[w].page <= n /\ call[w].read.target <= n
    BY <1>1, <2>1, <2>2 DEF CallFits
  <2>4. QED BY <2>1, <2>3 DEF CallFits
<1>4. QED BY <1>2, <1>3

LEMMA PagesStep ==
  ASSUME PromotionInv, pages' \in Seq(PageStates), Len(pages') >= Len(pages),
         UNCHANGED <<promo, call, begun>>
  PROVE  PromotionInv'
<1>1. Len(pages') \in Nat
  OBVIOUS
<1>2. RowFits(promo', Len(pages'), begun') /\ \A w \in Workers : CallFits(call'[w], promo', Len(pages'), begun')
  BY <1>1, PagesGrow
<1>3. LeasesDiffer'
  BY DEF PromotionInv, LeasesDiffer, Shared
<1>4. QED BY <1>2, <1>3 DEF PromotionInv

(* A call that begins shares its lease with whoever has it.                  *)
LEMMA BeginStep ==
  ASSUME PromotionInv, NEW w \in Workers, NEW v \in Reviewers, NEW t \in Instants, Begin(w, v, t)
  PROVE  PromotionInv'
<1> DEFINE l == [owner |-> v, generation |-> t]
           c == [Idle EXCEPT !.at = "reserve", !.lease = l]
<1>1. /\ call' = [call EXCEPT ![w] = c] /\ begun' = [begun EXCEPT ![l] = @ + 1]
      /\ UNCHANGED <<promo, pages>>
  BY DEF Begin
<1>2. l \in Leases
  BY DEF Leases
<1> HIDE DEF l
<1>3. /\ c \in PromotingCalls /\ c.at = "reserve" /\ c.lease = l /\ c.page = 0
      /\ c.read.target = 0
  BY <1>2, IdleCall DEF PromotingCalls, LeaseKinds
<1> HIDE DEF c
<1>4. /\ call' \in [Workers -> PromotingCalls] /\ call'[w] = c
      /\ \A x \in Workers \ {w} : call'[x] = call[x]
  BY <1>1, <1>3 DEF PromotionInv
<1>5. /\ begun' \in [Leases -> Nat] /\ begun'[l] = begun[l] + 1
      /\ \A k \in Leases : begun[k] \in Nat /\ begun'[k] \in Nat /\ begun'[k] >= begun[k]
  BY <1>1, <1>2 DEF PromotionInv
<1>6. RowFits(promo', Len(pages'), begun')
  <2>1. promo.status # "absent" => promo.lease \in Leases /\ begun'[promo.lease] > 0
    BY <1>5 DEF PromotionInv, RowFits
  <2>2. QED BY <1>1, <2>1 DEF PromotionInv, RowFits
<1>7. CallFits(c, promo', Len(pages'), begun')
  <2>1. promo.status # "absent" /\ promo.lease = l => begun'[l] > 1
    BY <1>2, <1>5 DEF PromotionInv, RowFits
  <2>2. Len(pages) \in Nat /\ begun'[l] > 0
    BY <1>2, <1>5 DEF PromotionInv
  <2>3. QED BY <1>1, <1>2, <1>3, <2>1, <2>2 DEF CallFits
<1>8. ASSUME NEW x \in Workers PROVE CallFits(call'[x], promo', Len(pages'), begun')
  <2>1. CASE x = w
    BY <1>4, <1>7, <2>1
  <2>2. CASE x # w
    <3>1. CallFits(call[x], promo, Len(pages), begun) /\ call'[x] = call[x]
      BY <1>4, <2>2 DEF PromotionInv
    <3>2. CASE call[x].at = "idle"
      BY <1>1, <3>1, <3>2 DEF CallFits
    <3>3. CASE call[x].at # "idle"
      <4>1. /\ call[x].lease \in Leases /\ begun'[call[x].lease] > 0
            /\ begun[call[x].lease] > 1 => begun'[call[x].lease] > 1
        BY <1>5, <3>1, <3>3 DEF CallFits
      <4>2. QED BY <1>1, <3>1, <4>1 DEF CallFits
    <3>4. QED BY <3>2, <3>3
  <2>3. QED BY <2>1, <2>2
<1>9. LeasesDiffer'
  <2>1. ASSUME NEW x \in Workers \ {w}, call[x].at # "idle"
        PROVE  /\ call[x].lease = l => begun'[l] > 1
               /\ begun[call[x].lease] > 1 => begun'[call[x].lease] > 1
    <3>1. call[x].lease \in Leases /\ begun[call[x].lease] > 0
      BY <2>1 DEF PromotionInv, CallFits
    <3>2. QED BY <1>2, <1>5, <3>1
  <2>2. ASSUME NEW x \in Workers, NEW y \in Workers, x # y, call'[x].at # "idle",
               call'[y].lease = call'[x].lease, call'[y].at # "idle"
        PROVE  begun'[call'[x].lease] > 1
    <3>1. CASE x = w
      BY <1>3, <1>4, <2>1, <2>2, <3>1
    <3>2. CASE y = w
      BY <1>3, <1>4, <2>1, <2>2, <3>2
    <3>3. CASE x # w /\ y # w
      BY <1>4, <2>1, <2>2, <3>3 DEF PromotionInv, LeasesDiffer, Shared
    <3>4. QED BY <3>1, <3>2, <3>3
  <2>3. QED BY <2>2 DEF LeasesDiffer, Shared
<1>10. pages' \in Seq(PageStates)
  BY <1>1 DEF PromotionInv
<1>11. QED BY <1>4, <1>5, <1>6, <1>8, <1>9, <1>10 DEF PromotionInv

LEMMA ReserveStep ==
  ASSUME PromotionInv, NEW w \in Workers, Reserve(w)
  PROVE  PromotionInv' /\ (promo' # promo => promo.status = "absent")
<1>1. /\ call[w] \in PromotingCalls /\ call[w].at = "reserve" /\ UNCHANGED <<pages, begun>>
      /\ CallFits(call[w], promo, Len(pages), begun) /\ RowFits(promo, Len(pages), begun)
      /\ Len(pages) \in Nat
  BY DEF PromotionInv, Reserve
<1>2. ASSUME promo.status = "absent", call' = [call EXCEPT ![w].at = "page"],
             promo' = [NoPromo EXCEPT !.status = "pending", !.lease = call[w].lease]
      PROVE  PromotionInv'
  <2> DEFINE c == [call[w] EXCEPT !.at = "page"]
  <2>1. call' = [call EXCEPT ![w] = c]
    BY <1>2
  <2>2. /\ c \in PromotingCalls /\ c.at = "page" /\ c.lease = call[w].lease /\ c.page = call[w].page
        /\ c.read = call[w].read
    BY <1>1 DEF PromotingCalls
  <2> HIDE DEF c
  <2>3. /\ promo' \in PromoRows /\ promo'.status = "pending" /\ promo'.lease = call[w].lease
        /\ promo'.target = 0
    BY <1>1, <1>2 DEF PromotingCalls, PromoRows, NoPromo
  <2>4. RowFits(promo', Len(pages), begun) /\ CallFits(c, promo', Len(pages), begun)
    BY <1>1, <2>2, <2>3 DEF RowFits, CallFits
  <2>5. QED BY <1>1, <2>1, <2>2, <2>3, <2>4, RowMoves
<1>3. ASSUME promo.status = "pending", promo' = promo,
             call' = [call EXCEPT ![w].at = "rearm", ![w].read = promo]
      PROVE  PromotionInv'
  <2> DEFINE c == [call[w] EXCEPT !.at = "rearm", !.read = promo]
  <2>1. call' = [call EXCEPT ![w] = c]
    BY <1>1, <1>3 DEF PromotionInv
  <2>2. /\ c \in PromotingCalls /\ c.at = "rearm" /\ c.lease = call[w].lease /\ c.page = call[w].page
        /\ c.read = promo
    BY <1>1 DEF PromotingCalls, RowFits
  <2> HIDE DEF c
  <2>3. CallFits(c, promo, Len(pages), begun)
    BY <1>1, <1>3, <2>2 DEF RowFits, CallFits
  <2>4. QED BY <1>1, <1>3, <2>1, <2>2, <2>3, CallMoves
<1>4. ASSUME promo' = promo, call' = [call EXCEPT ![w] = Idle] PROVE PromotionInv'
  BY <1>1, <1>4, IdleFits, IdleCall, CallMoves
<1>5. QED BY <1>2, <1>3, <1>4 DEF Reserve

(* The row passes with its page, or the call shares the lease it has read.    *)
LEMMA RearmStep ==
  ASSUME PromotionInv, NEW w \in Workers, Rearm(w)
  PROVE  /\ PromotionInv'
         /\ promo' # promo => promo.status = "pending" /\ promo'.target = promo.target
<1> DEFINE GoesOn(target) ==
      [call[w] EXCEPT !.page = target, !.at = IF target # 0 THEN "succeed" ELSE "page"]
<1>1. /\ call[w] \in PromotingCalls /\ call[w].at = "rearm" /\ UNCHANGED <<pages, begun>>
      /\ CallFits(call[w], promo, Len(pages), begun) /\ RowFits(promo, Len(pages), begun)
      /\ Len(pages) \in Nat
  BY DEF PromotionInv, Rearm
<1>2. promo.target \in Nat /\ call[w].read.target \in Nat /\ promo \in PromoRows
  BY <1>1 DEF RowFits, PromotingCalls, PromoRows
<1>3. ASSUME NEW target \in Nat
      PROVE  /\ [call EXCEPT ![w].page = target, ![w].at = IF target # 0 THEN "succeed" ELSE "page"]
                  = [call EXCEPT ![w] = GoesOn(target)]
             /\ GoesOn(target) \in PromotingCalls /\ GoesOn(target).lease = call[w].lease
             /\ GoesOn(target).page = target /\ GoesOn(target).read = call[w].read
             /\ GoesOn(target).at = IF target # 0 THEN "succeed" ELSE "page"
  <2>1. [call EXCEPT ![w].page = target, ![w].at = IF target # 0 THEN "succeed" ELSE "page"]
          = [call EXCEPT ![w] = GoesOn(target)]
    BY DEF PromotionInv
  <2>2. QED BY <1>1, <2>1 DEF PromotingCalls
<1> HIDE DEF GoesOn
<1>4. ASSUME call[w].read.lease = call[w].lease, promo' = promo,
             call' = [call EXCEPT ![w] = GoesOn(call[w].read.target)]
      PROVE  PromotionInv'
  <2>1. PICK c : c = GoesOn(call[w].read.target)
    OBVIOUS
  <2>2. /\ c \in PromotingCalls /\ c.lease = call[w].lease /\ c.page = call[w].read.target
        /\ c.read = call[w].read /\ c.at \in {"succeed", "page"} /\ (c.at = "succeed" => c.page # 0)
    BY <1>2, <1>3, <2>1
  <2>3. CallFits(c, promo, Len(pages), begun)
    BY <1>1, <1>4, <2>2 DEF CallFits
  <2>4. QED BY <1>1, <1>4, <2>1, <2>2, <2>3, CallMoves
<1>5. ASSUME promo.status = "pending", promo' = [promo EXCEPT !.lease = call[w].lease],
             call' = [call EXCEPT ![w] = GoesOn(promo.target)]
      PROVE  PromotionInv' /\ promo'.target = promo.target
  <2>1. PICK c : c = GoesOn(promo.target)
    OBVIOUS
  <2>2. /\ c \in PromotingCalls /\ c.lease = call[w].lease /\ c.page = promo.target
        /\ c.read = call[w].read /\ c.at = IF promo.target # 0 THEN "succeed" ELSE "page"
    BY <1>2, <1>3, <2>1
  <2>3. /\ promo' \in PromoRows /\ promo'.status = "pending" /\ promo'.lease = call[w].lease
        /\ promo'.target = promo.target
    BY <1>1, <1>2, <1>5 DEF PromotingCalls, PromoRows
  <2>4. RowFits(promo', Len(pages), begun) /\ CallFits(c, promo', Len(pages), begun)
    BY <1>1, <1>5, <2>2, <2>3 DEF RowFits, CallFits
  <2>5. PromotionInv'
    BY <1>1, <1>5, <2>1, <2>2, <2>3, <2>4, RowMoves
  <2>6. QED BY <2>3, <2>5
<1>6. ASSUME promo' = promo, call' = [call EXCEPT ![w] = Idle] PROVE PromotionInv'
  BY <1>1, <1>6, IdleFits, IdleCall, CallMoves
<1>7. \/ /\ call[w].read.lease = call[w].lease /\ promo' = promo
         /\ call' = [call EXCEPT ![w].page = call[w].read.target,
                                 ![w].at = IF call[w].read.target # 0 THEN "succeed" ELSE "page"]
      \/ /\ promo.status = "pending" /\ promo' = [promo EXCEPT !.lease = call[w].lease]
         /\ call' = [call EXCEPT ![w].page = promo.target,
                                 ![w].at = IF promo.target # 0 THEN "succeed" ELSE "page"]
      \/ promo' = promo /\ call' = [call EXCEPT ![w] = Idle]
  BY Zenon DEF Rearm, Unmoved
<1>8. QED BY <1>2, <1>3, <1>4, <1>5, <1>6, <1>7, Zenon

LEMMA FindStep ==
  ASSUME PromotionInv, NEW w \in Workers, FindPage(w)
  PROVE  PromotionInv'
<1>1. /\ call[w] \in PromotingCalls /\ call[w].at = "page" /\ UNCHANGED <<promo, pages, begun>>
      /\ CallFits(call[w], promo, Len(pages), begun)
  BY DEF PromotionInv, FindPage
<1>2. ASSUME NEW c, c \in PromotingCalls, c.lease = call[w].lease, c.read = call[w].read,
             \/ c.at = "create" /\ c.page = call[w].page
             \/ c.at = "record" /\ c.page \in 1 .. Len(pages),
             call' = [call EXCEPT ![w] = c]
      PROVE  PromotionInv'
  <2>1. CallFits(c, promo, Len(pages), begun)
    BY <1>1, <1>2 DEF CallFits
  <2>2. QED BY <1>1, <1>2, <2>1, CallMoves
<1>3. CASE Tagged = {} /\ call' = [call EXCEPT ![w].at = "create"]
  <2>1. PICK c : c = [call[w] EXCEPT !.at = "create"]
    OBVIOUS
  <2>2. /\ c \in PromotingCalls /\ c.lease = call[w].lease /\ c.read = call[w].read
        /\ c.at = "create" /\ c.page = call[w].page
    BY <1>1, <2>1 DEF PromotingCalls
  <2>3. call' = [call EXCEPT ![w] = c]
    BY <1>3, <2>1
  <2>4. QED BY <1>2, <2>2, <2>3
<1>4. ASSUME NEW p \in Tagged, call' = [call EXCEPT ![w].at = "record", ![w].page = p]
      PROVE  PromotionInv'
  <2>1. PICK c : c = [call[w] EXCEPT !.at = "record", !.page = p]
    OBVIOUS
  <2>2. p \in 1 .. Len(pages) /\ p \in Nat
    BY DEF Tagged, PromotionInv
  <2>3. /\ c \in PromotingCalls /\ c.lease = call[w].lease /\ c.read = call[w].read
        /\ c.at = "record" /\ c.page \in 1 .. Len(pages)
    BY <1>1, <2>1, <2>2 DEF PromotingCalls
  <2>4. call' = [call EXCEPT ![w] = c]
    BY <1>4, <2>1 DEF PromotionInv
  <2>5. QED BY <1>2, <2>3, <2>4
<1>5. QED BY <1>3, <1>4 DEF FindPage

LEMMA CreateStep ==
  ASSUME PromotionInv, NEW w \in Workers, CreatePage(w)
  PROVE  PromotionInv'
<1> DEFINE next == Len(pages) + 1
           c == [call[w] EXCEPT !.at = "record", !.page = next]
<1>1. /\ call[w] \in PromotingCalls /\ call[w].at = "create" /\ UNCHANGED <<promo, begun>>
      /\ pages' = Append(pages, "made")
  BY DEF PromotionInv, CreatePage
<1>2. call' = [call EXCEPT ![w] = c]
  BY <1>1 DEF CreatePage, PromotionInv
<1>3. /\ Len(pages) \in Nat /\ pages' \in Seq(PageStates) /\ Len(pages') = Len(pages) + 1
      /\ next = Len(pages) + 1 /\ next \in Nat
  BY <1>1 DEF PromotionInv, PageStates
<1> HIDE DEF next
<1>4. /\ c \in PromotingCalls /\ c.at = "record" /\ c.lease = call[w].lease /\ c.page = next
      /\ c.read = call[w].read
  BY <1>1, <1>3 DEF PromotingCalls
<1> HIDE DEF c
<1>5. /\ call' \in [Workers -> PromotingCalls] /\ call'[w] = c
      /\ \A x \in Workers \ {w} : call'[x] = call[x]
  BY <1>2, <1>4 DEF PromotionInv
<1>6. /\ RowFits(promo, next, begun)
      /\ \A x \in Workers : CallFits(call[x], promo, next, begun)
  BY <1>3, PagesGrow
<1>7. CallFits(c, promo, next, begun)
  BY <1>1, <1>3, <1>4, <1>6 DEF CallFits
<1>8. \A x \in Workers : CallFits(call'[x], promo', Len(pages'), begun')
  BY <1>1, <1>3, <1>5, <1>6, <1>7
<1>9. \A x \in Workers : call'[x].at # "idle" =>
        call[x].at # "idle" /\ call'[x].lease = call[x].lease
  BY <1>1, <1>4, <1>5
<1>10. LeasesDiffer'
  BY <1>1, <1>9 DEF PromotionInv, LeasesDiffer, Shared
<1>11. QED BY <1>1, <1>3, <1>5, <1>6, <1>8, <1>10 DEF PromotionInv

(* Who holds the lease and shares it with nobody records the first page.      *)
LEMMA RecordStep ==
  ASSUME PromotionInv, NEW w \in Workers, RecordPage(w)
  PROVE  /\ PromotionInv'
         /\ promo' # promo => promo.status = "pending" /\ (promo.target = 0 \/ Shared(promo.lease))
<1>1. /\ call[w] \in PromotingCalls /\ call[w].at = "record" /\ UNCHANGED <<pages, begun>>
      /\ CallFits(call[w], promo, Len(pages), begun) /\ RowFits(promo, Len(pages), begun)
      /\ Len(pages) \in Nat
  BY DEF PromotionInv, RecordPage
<1>2. CASE Holds(w)
  <2> DEFINE c == [call[w] EXCEPT !.at = "succeed"]
  <2>1. promo' = [promo EXCEPT !.target = call[w].page] /\ call' = [call EXCEPT ![w] = c]
    BY <1>2 DEF RecordPage
  <2>2. /\ c \in PromotingCalls /\ c.at = "succeed" /\ c.lease = call[w].lease /\ c.page = call[w].page
        /\ c.read = call[w].read
    BY <1>1 DEF PromotingCalls
  <2> HIDE DEF c
  <2>3. promo.status = "pending" /\ promo.lease = call[w].lease
    BY <1>2 DEF Holds
  <2>4. promo.target = 0 \/ Shared(promo.lease)
    BY <1>1, <2>3 DEF CallFits, Shared
  <2>5. /\ promo' \in PromoRows /\ promo'.status = "pending" /\ promo'.lease = call[w].lease
        /\ promo'.target = call[w].page
    BY <1>1, <2>1, <2>3 DEF PromoRows, PromotingCalls, RowFits
  <2>6. RowFits(promo', Len(pages), begun) /\ CallFits(c, promo', Len(pages), begun)
    BY <1>1, <2>2, <2>3, <2>5 DEF RowFits, CallFits
  <2>7. PromotionInv'
    BY <1>1, <2>1, <2>2, <2>5, <2>6, RowMoves
  <2>8. QED BY <2>3, <2>4, <2>7
<1>3. CASE ~Holds(w)
  <2>1. promo' = promo /\ call' = [call EXCEPT ![w] = Idle]
    BY <1>3 DEF RecordPage
  <2>2. QED BY <1>1, <2>1, IdleFits, IdleCall, CallMoves
<1>4. QED BY <1>2, <1>3

LEMMA SucceedStep ==
  ASSUME PromotionInv, NEW w \in Workers, Succeed(w)
  PROVE  /\ PromotionInv'
         /\ promo' # promo =>
              promo.status = "pending" /\ (promo'.target = promo.target \/ Shared(promo.lease))
<1>1. /\ call[w] \in PromotingCalls /\ call[w].at = "succeed" /\ UNCHANGED <<pages, begun>>
      /\ CallFits(call[w], promo, Len(pages), begun) /\ RowFits(promo, Len(pages), begun)
      /\ Len(pages) \in Nat /\ call' = [call EXCEPT ![w] = Idle]
  BY DEF PromotionInv, Succeed
<1>2. CASE Holds(w)
  <2>1. promo' = [promo EXCEPT !.status = "succeeded", !.target = call[w].page]
    BY <1>2 DEF Succeed
  <2>2. promo.status = "pending" /\ promo.lease = call[w].lease
    BY <1>2 DEF Holds
  <2>3. /\ promo' \in PromoRows /\ promo'.status = "succeeded" /\ promo'.lease = call[w].lease
        /\ promo'.target = call[w].page
    BY <1>1, <2>1, <2>2 DEF PromoRows, PromotingCalls, RowFits
  <2>4. promo.target = call[w].page \/ Shared(promo.lease)
    BY <1>1, <2>2 DEF CallFits, Shared
  <2>5. RowFits(promo', Len(pages), begun)
    BY <1>1, <2>3 DEF RowFits, CallFits
  <2>6. PromotionInv'
    BY <1>1, <2>3, <2>5, IdleFits, IdleCall, RowMoves
  <2>7. QED BY <2>2, <2>3, <2>4, <2>6
<1>3. CASE ~Holds(w)
  <2>1. promo' = promo
    BY <1>3 DEF Succeed
  <2>2. QED BY <1>1, <2>1, IdleFits, IdleCall, CallMoves
<1>4. QED BY <1>2, <1>3

TargetKept ==
  /\ promo.target # 0 /\ promo'.target # promo.target => Shared(promo.lease)
  /\ promo.status = "succeeded" => promo' = promo

(* The pages that people edit, delete and write.                             *)
PeopleEdit ==
  \/ \E tag \in {"tagged", "untagged"} : WritePage(tag) \/ \E p \in DOMAIN pages : EditTags(p, tag)
  \/ \E p \in DOMAIN pages : DeletePage(p)

LEMMA EditStep ==
  ASSUME pages \in Seq(PageStates), PeopleEdit
  PROVE  /\ pages' \in Seq(PageStates) /\ Len(pages') >= Len(pages) /\ UNCHANGED <<promo, call, begun>>
         /\ \A p \in DOMAIN pages' : pages'[p] = "made" => p \in DOMAIN pages /\ pages[p] = "made"
<1>1. Len(pages) \in Nat /\ DOMAIN pages = 1 .. Len(pages)
  OBVIOUS
<1>2. ASSUME NEW tag \in {"tagged", "untagged"}, WritePage(tag)
      PROVE  /\ pages' \in Seq(PageStates) /\ Len(pages') >= Len(pages) /\ UNCHANGED <<promo, call, begun>>
             /\ \A p \in DOMAIN pages' : pages'[p] = "made" => p \in DOMAIN pages /\ pages[p] = "made"
  <2>1. pages' = Append(pages, tag) /\ UNCHANGED <<promo, call, begun>>
    BY <1>2 DEF WritePage
  <2>2. tag \in PageStates /\ tag # "made"
    BY DEF PageStates
  <2>3. /\ pages' \in Seq(PageStates) /\ Len(pages') = Len(pages) + 1 /\ pages'[Len(pages) + 1] = tag
        /\ \A p \in 1 .. Len(pages) : pages'[p] = pages[p]
    BY <2>1, <2>2
  <2>4. QED BY <1>1, <2>1, <2>2, <2>3
<1>3. ASSUME NEW p \in DOMAIN pages, NEW to \in PageStates \ {"made"}, pages' = [pages EXCEPT ![p] = to]
      PROVE  /\ pages' \in Seq(PageStates) /\ Len(pages') >= Len(pages)
             /\ \A q \in DOMAIN pages' : pages'[q] = "made" => q \in DOMAIN pages /\ pages[q] = "made"
  BY <1>1, <1>3
<1>4. ASSUME NEW tag \in {"tagged", "untagged"}, NEW p \in DOMAIN pages, EditTags(p, tag)
      PROVE  pages' = [pages EXCEPT ![p] = tag] /\ UNCHANGED <<promo, call, begun>>
  BY <1>4 DEF EditTags
<1>5. ASSUME NEW p \in DOMAIN pages, DeletePage(p)
      PROVE  pages' = [pages EXCEPT ![p] = "gone"] /\ UNCHANGED <<promo, call, begun>>
  BY <1>5 DEF DeletePage
<1>6. {"tagged", "untagged", "gone"} \subseteq PageStates \ {"made"}
  BY DEF PageStates
<1>7. ASSUME NEW tag \in {"tagged", "untagged"}, NEW p \in DOMAIN pages, EditTags(p, tag)
      PROVE  /\ pages' \in Seq(PageStates) /\ Len(pages') >= Len(pages) /\ UNCHANGED <<promo, call, begun>>
             /\ \A q \in DOMAIN pages' : pages'[q] = "made" => q \in DOMAIN pages /\ pages[q] = "made"
  <2>1. pages' = [pages EXCEPT ![p] = tag] /\ UNCHANGED <<promo, call, begun>> /\ tag \in PageStates \ {"made"}
    BY <1>4, <1>6, <1>7
  <2>2. QED BY <1>3, <2>1
<1>8. ASSUME NEW p \in DOMAIN pages, DeletePage(p)
      PROVE  /\ pages' \in Seq(PageStates) /\ Len(pages') >= Len(pages) /\ UNCHANGED <<promo, call, begun>>
             /\ \A q \in DOMAIN pages' : pages'[q] = "made" => q \in DOMAIN pages /\ pages[q] = "made"
  <2>1. pages' = [pages EXCEPT ![p] = "gone"] /\ UNCHANGED <<promo, call, begun>> /\ "gone" \in PageStates \ {"made"}
    BY <1>5, <1>6, <1>8
  <2>2. QED BY <1>3, <2>1
<1>9. QED BY <1>2, <1>7, <1>8, Zenon DEF PeopleEdit

LEMMA PromotionStep ==
  ASSUME PromotionInv, [Next]_vars
  PROVE  PromotionInv' /\ TargetKept
<1>1. ASSUME NEW w \in Workers, NEW v \in Reviewers, NEW t \in Instants, Begin(w, v, t)
      PROVE  PromotionInv' /\ TargetKept
  <2>1. promo' = promo
    BY <1>1 DEF Begin
  <2>2. QED BY <1>1, <2>1, BeginStep DEF TargetKept
<1>2. ASSUME NEW w \in Workers, Reserve(w) PROVE PromotionInv' /\ TargetKept
  <2>1. promo.status = "absent" => promo.target = 0
    BY DEF PromotionInv, RowFits
  <2>2. QED BY <1>2, <2>1, ReserveStep DEF TargetKept
<1>3. ASSUME NEW w \in Workers, Rearm(w) PROVE PromotionInv' /\ TargetKept
  BY <1>3, RearmStep DEF TargetKept
<1>4. ASSUME NEW w \in Workers, FindPage(w) PROVE PromotionInv' /\ TargetKept
  BY <1>4, FindStep DEF FindPage, TargetKept
<1>5. ASSUME NEW w \in Workers, CreatePage(w) PROVE PromotionInv' /\ TargetKept
  BY <1>5, CreateStep DEF CreatePage, TargetKept
<1>6. ASSUME NEW w \in Workers, RecordPage(w) PROVE PromotionInv' /\ TargetKept
  BY <1>6, RecordStep DEF TargetKept
<1>7. ASSUME NEW w \in Workers, Succeed(w) PROVE PromotionInv' /\ TargetKept
  BY <1>7, SucceedStep DEF TargetKept
<1>8. ASSUME NEW w \in Workers, Abort(w) PROVE PromotionInv' /\ TargetKept
  <2>1. call' = [call EXCEPT ![w] = Idle] /\ UNCHANGED <<promo, pages, begun>>
    BY <1>8 DEF Abort
  <2>2. CallFits(Idle, promo, Len(pages), begun)
    BY IdleFits DEF PromotionInv
  <2>3. PromotionInv'
    BY <2>1, <2>2, IdleCall, CallMoves
  <2>4. QED BY <2>1, <2>3 DEF TargetKept
<1>9. ASSUME UNCHANGED <<promo, pages, call, begun>> PROVE PromotionInv' /\ TargetKept
  <2>1. pages' \in Seq(PageStates) /\ Len(pages') >= Len(pages)
    BY <1>9 DEF PromotionInv
  <2>2. PromotionInv'
    BY <1>9, <2>1, PagesStep
  <2>3. QED BY <1>9, <2>2 DEF TargetKept
<1>10. CASE PeopleEdit
  <2>1. /\ pages' \in Seq(PageStates) /\ Len(pages') >= Len(pages) /\ UNCHANGED <<promo, call, begun>>
    BY <1>10, EditStep DEF PromotionInv
  <2>2. PromotionInv'
    BY <2>1, PagesStep
  <2>3. QED BY <2>1, <2>2 DEF TargetKept
<1>11. ASSUME Degrade \/ UNCHANGED vars
              \/ (\E v \in Reviewers : Look(v) \/ \E decision \in Decisions : Decide(v, decision))
       PROVE  UNCHANGED <<promo, pages, call, begun>>
  BY <1>11, Zenon DEF Degrade, vars, Look, Decide
<1>12. QED
  BY <1>1, <1>2, <1>3, <1>4, <1>5, <1>6, <1>7, <1>8, <1>9, <1>10, <1>11, Zenon DEF Next, PeopleEdit

LEMMA EntryOfSeq ==
  ASSUME NEW S, NEW s \in Seq(S), NEW n \in DOMAIN s
  PROVE  s[n] \in S
OBVIOUS

LEMMA AcceptedIsRecorded ==
  ASSUME ReviewInv, finding.status = "accepted"
  PROVE  Accepted
<1>1. Len(reviews) \in Nat /\ reviews \in Seq([decision : Decisions, from : Nat, by : Reviewers])
  BY DEF ReviewInv
<1>2. StatusAfter(Len(reviews)) = "accepted"
  BY DEF ReviewInv, ReviewsAgree
<1>3. Len(reviews) # 0 /\ Result(reviews[Len(reviews)].decision) = "accepted"
  BY <1>2 DEF StatusAfter
<1>4. Len(reviews) \in DOMAIN reviews /\ reviews[Len(reviews)].decision \in Decisions
  <2>1. Len(reviews) \in DOMAIN reviews
    BY <1>1, <1>3
  <2>2. reviews[Len(reviews)] \in [decision : Decisions, from : Nat, by : Reviewers]
    BY <1>1, <2>1, EntryOfSeq, Zenon
  <2>3. QED BY <2>1, <2>2
<1>5. reviews[Len(reviews)].decision = "accept"
  BY <1>3, <1>4 DEF Decisions, Result
<1>6. QED BY <1>4, <1>5 DEF Accepted

LEMMA PromotesStep ==
  ASSUME FindingInv, [Next]_vars
  PROVE  PromotesTheAccepted'
<1> DEFINE Promoting == promo.status # "absent" \/ \E w \in Workers : call[w].at # "idle"
<1>1. SUFFICES ASSUME Promoting' PROVE Accepted
  BY ReviewStep, Zenon DEF FindingInv, PromotesTheAccepted
<1>2. ASSUME NEW w \in Workers, NEW v \in Reviewers, NEW t \in Instants, Begin(w, v, t) PROVE Accepted
  <2>1. finding.status = "accepted"
    BY <1>2 DEF Begin, Eligible
  <2>2. QED BY <2>1, AcceptedIsRecorded DEF FindingInv
<1>3. ASSUME NEW w \in Workers,
             \/ Reserve(w) \/ Rearm(w) \/ FindPage(w) \/ CreatePage(w)
             \/ RecordPage(w) \/ Succeed(w)
      PROVE  Promoting
  <2>1. call[w].at \in {"reserve", "rearm", "page", "create", "record", "succeed"}
    BY <1>3, Zenon DEF Reserve, Rearm, FindPage, CreatePage, RecordPage, Succeed
  <2>2. QED BY <2>1
<1>4. ASSUME NEW w \in Workers, Abort(w) PROVE Promoting
  <2>1. call' = [call EXCEPT ![w] = Idle] /\ promo' = promo /\ call \in [Workers -> PromotingCalls]
    BY <1>4 DEF Abort, FindingInv, PromotionInv
  <2>2. QED BY <1>1, <2>1, IdleCall
<1>5. ASSUME PeopleEdit PROVE Promoting
  <2>1. UNCHANGED <<promo, call>>
    BY <1>5, EditStep DEF FindingInv, PromotionInv
  <2>2. QED BY <1>1, <2>1
<1>6. ASSUME Degrade \/ UNCHANGED vars
             \/ (\E v \in Reviewers : Look(v) \/ \E decision \in Decisions : Decide(v, decision))
      PROVE  Promoting
  <2>1. UNCHANGED <<promo, call>>
    BY <1>6, Zenon DEF Degrade, vars, Look, Decide
  <2>2. QED BY <1>1, <2>1
<1>7. Promoting => Accepted
  BY DEF FindingInv, PromotesTheAccepted
<1>8. QED BY <1>2, <1>3, <1>4, <1>5, <1>6, <1>7, Zenon DEF Next, PeopleEdit

LEMMA FindingStarts ==
  ASSUME Init
  PROVE  FindingInv
<1>1. /\ pages = << >> /\ promo = NoPromo /\ begun = [l \in Leases |-> 0]
      /\ call = [w \in Workers |-> Idle]
  BY DEF Init
<1>2. Len(pages) = 0 /\ pages \in Seq(PageStates) /\ begun \in [Leases -> Nat]
  BY <1>1
<1>3. RowFits(promo, Len(pages), begun)
  BY <1>1, <1>2, IdleCall DEF RowFits
<1>4. call \in [Workers -> PromotingCalls] /\ \A w \in Workers : CallFits(call[w], promo, Len(pages), begun)
  BY <1>1, <1>2, IdleCall, IdleFits
<1>5. LeasesDiffer
  BY <1>1, IdleCall DEF LeasesDiffer
<1>6. ReviewInv
  BY DEF Init, ReviewInv, ReviewsAgree, StatusAfter
<1>7. PromotesTheAccepted
  BY <1>1, IdleCall DEF PromotesTheAccepted
<1>8. QED BY <1>2, <1>3, <1>4, <1>5, <1>6, <1>7 DEF FindingInv, PromotionInv

LEMMA FindingInvAgrees ==
  ASSUME FindingInv
  PROVE  FindingAgrees
<1>1. /\ promo \in PromoRows /\ promo.target <= Len(pages) /\ Len(pages) \in Nat
      /\ promo.status = "succeeded" => promo.target # 0
      /\ DOMAIN pages = 1 .. Len(pages) /\ DOMAIN call = Workers
      /\ \A w \in Workers : call[w] \in PromotingCalls /\ call[w].page <= Len(pages)
  BY DEF FindingInv, PromotionInv, RowFits, CallFits
<1>2. promo.target \in 0 .. Len(pages) /\ \A w \in DOMAIN call : call[w].page \in 0 .. Len(pages)
  BY <1>1 DEF PromoRows, PromotingCalls
<1>3. TypeOK
  BY <1>1, <1>2 DEF TypeOK, FindingInv, ReviewInv, PromoRows
<1>4. SucceededHasPage
  BY <1>1, <1>2 DEF SucceededHasPage
<1>5. PromotedWasAccepted
  BY DEF PromotedWasAccepted, FindingInv, PromotesTheAccepted, Accepted
<1>6. QED BY <1>3, <1>4, <1>5 DEF FindingAgrees, FindingInv, ReviewInv

(* The decisions of the reviewers explain the Finding, one for every version, *)
(* a promotion that succeeded has its page, and no Finding is promoted that   *)
(* no review has accepted.                                                    *)
THEOREM FindingTheorem == Spec => []FindingAgrees
<1>1. ASSUME FindingInv, [Next]_vars PROVE FindingInv'
  BY <1>1, ReviewStep, PromotionStep, PromotesStep, Zenon DEF FindingInv
<1>2. QED BY <1>1, FindingStarts, FindingInvAgrees, PTL DEF Spec

(* The page a promotion recorded is replaced by no call, unless two calls of  *)
(* one person began in one millisecond and have the lease of the row; and a   *)
(* promotion that succeeded stays as it is, whichever calls still run.        *)
THEOREM TargetTheorem == Spec => TargetStays
<1>1. ASSUME FindingInv, [Next]_vars PROVE FindingInv'
  BY <1>1, ReviewStep, PromotionStep, PromotesStep, Zenon DEF FindingInv
<1>2. ASSUME FindingInv, [Next]_vars
      PROVE  [/\ promo.target # 0 /\ promo'.target # promo.target => Shared(promo.lease)
              /\ promo.status = "succeeded" => promo' = promo]_vars
  BY <1>2, PromotionStep, Zenon DEF FindingInv, TargetKept
<1>3. QED BY <1>1, <1>2, FindingStarts, PTL DEF Spec, TargetStays

(* Where one call runs at a time, whoever is about to create a page has      *)
(* found none with the tag, and nobody but people has put it on one since.    *)
OneCaller == \A w, x \in Workers : w = x
NoneMade == \A p \in DOMAIN pages : pages[p] # "made"
MadeOnce == OneOwnPage /\ \A w \in Workers : call[w].at = "create" => NoneMade

LEMMA CallsGoOn ==
  ASSUME FindingInv, OneCaller, NEW w \in Workers, NEW c, call' = [call EXCEPT ![w] = c]
  PROVE  \A x \in Workers : call'[x] = c
BY DEF FindingInv, PromotionInv, OneCaller

LEMMA MadeOnceStep ==
  ASSUME FindingInv, OneCaller, MadeOnce, [Next]_vars
  PROVE  MadeOnce'
<1>1. pages \in Seq(PageStates) /\ call \in [Workers -> PromotingCalls]
  BY DEF FindingInv, PromotionInv
<1>2. ASSUME UNCHANGED <<pages, call>> PROVE MadeOnce'
  BY <1>2 DEF MadeOnce, OneOwnPage, NoneMade
<1>3. ASSUME UNCHANGED pages, \A x \in Workers : call'[x].at # "create" PROVE MadeOnce'
  BY <1>3 DEF MadeOnce, OneOwnPage
<1>4. ASSUME NEW w \in Workers, NEW v \in Reviewers, NEW t \in Instants, Begin(w, v, t) PROVE MadeOnce'
  <2>1. PICK c : c = [Idle EXCEPT !.at = "reserve", !.lease = [owner |-> v, generation |-> t]]
    OBVIOUS
  <2>2. c.at = "reserve"
    BY <2>1 DEF Idle
  <2>3. call' = [call EXCEPT ![w] = c] /\ UNCHANGED pages
    BY <1>4, <2>1 DEF Begin
  <2>4. QED BY <1>3, <2>2, <2>3, CallsGoOn
<1>5. ASSUME NEW w \in Workers, Reserve(w) \/ Rearm(w) \/ RecordPage(w) \/ Succeed(w) \/ Abort(w)
      PROVE  MadeOnce'
  <2>1. UNCHANGED pages
    BY <1>5, Zenon DEF Reserve, Rearm, RecordPage, Succeed, Abort
  <2>2. call'[w].at # "create"
    <3>1. CASE Reserve(w)
      BY <1>1, <3>1, IdleCall DEF Reserve, PromotingCalls
    <3>2. CASE Rearm(w)
      BY <1>1, <3>2, IdleCall DEF Rearm, PromotingCalls
    <3>3. CASE RecordPage(w)
      BY <1>1, <3>3, IdleCall DEF RecordPage, PromotingCalls
    <3>4. CASE Succeed(w) \/ Abort(w)
      BY <1>1, <3>4, IdleCall DEF Succeed, Abort
    <3>5. QED BY <1>5, <3>1, <3>2, <3>3, <3>4
  <2>3. QED BY <1>3, <2>1, <2>2 DEF OneCaller
<1>6. ASSUME NEW w \in Workers, FindPage(w) PROVE MadeOnce'
  <2>1. UNCHANGED pages
    BY <1>6 DEF FindPage
  <2>2. CASE Tagged = {}
    <3>1. NoneMade
      BY <2>2 DEF Tagged, NoneMade
    <3>2. QED BY <2>1, <3>1 DEF MadeOnce, OneOwnPage, NoneMade
  <2>3. ASSUME NEW p \in Tagged, call' = [call EXCEPT ![w].at = "record", ![w].page = p]
        PROVE  MadeOnce'
    <3>1. call'[w].at # "create"
      BY <1>1, <2>3 DEF PromotingCalls
    <3>2. QED BY <1>3, <2>1, <3>1 DEF OneCaller
  <2>4. QED BY <1>6, <2>2, <2>3 DEF FindPage
<1>7. ASSUME NEW w \in Workers, CreatePage(w) PROVE MadeOnce'
  <2>1. pages' = Append(pages, "made") /\ NoneMade
    BY <1>7 DEF CreatePage, MadeOnce
  <2>2. call'[w].at # "create"
    BY <1>1, <1>7 DEF CreatePage, PromotingCalls
  <2>3. \A p \in DOMAIN pages' : p = Len(pages) + 1 \/ (p \in DOMAIN pages /\ pages'[p] = pages[p])
    BY <1>1, <2>1
  <2>4. OneOwnPage'
    BY <2>1, <2>3 DEF OneOwnPage, NoneMade
  <2>5. QED BY <2>2, <2>4 DEF MadeOnce, OneCaller
<1>8. CASE PeopleEdit
  <2>1. /\ call' = call
        /\ \A p \in DOMAIN pages' : pages'[p] = "made" => p \in DOMAIN pages /\ pages[p] = "made"
    BY <1>1, <1>8, EditStep
  <2>2. QED BY <2>1 DEF MadeOnce, OneOwnPage, NoneMade
<1>9. ASSUME Degrade \/ UNCHANGED vars
             \/ (\E v \in Reviewers : Look(v) \/ \E decision \in Decisions : Decide(v, decision))
      PROVE  UNCHANGED <<pages, call>>
  BY <1>9, Zenon DEF Degrade, vars, Look, Decide
<1>10. QED BY <1>2, <1>4, <1>5, <1>6, <1>7, <1>8, <1>9, Zenon DEF Next, PeopleEdit

LEMMA MadeOnceStarts ==
  ASSUME Init
  PROVE  MadeOnce
<1>1. pages = << >>
  BY DEF Init
<1>2. QED BY <1>1 DEF MadeOnce, OneOwnPage, NoneMade

(* Calls that come one after another, however many were cut short and        *)
(* whatever people made of the tags and the pages, make no second page while  *)
(* the first has the tag it was made with.                                   *)
THEOREM OnePageTheorem ==
  ASSUME OneCaller
  PROVE  Spec => []OneOwnPage
<1>1. ASSUME FindingInv, [Next]_vars PROVE FindingInv'
  BY <1>1, ReviewStep, PromotionStep, PromotesStep, Zenon DEF FindingInv
<1>2. FindingInv /\ MadeOnce /\ [Next]_vars => MadeOnce'
  BY MadeOnceStep
<1>3. Init => MadeOnce
  BY MadeOnceStarts
<1>4. MadeOnce => OneOwnPage
  BY DEF MadeOnce
<1>5. QED BY <1>1, <1>2, <1>3, <1>4, FindingStarts, PTL DEF Spec

(***************************************************************************)
(* The runs that extract Findings                                          *)
(***************************************************************************)
(* Items and candidates are told from "none"; a window yields candidates.    *)
RunHypotheses ==
  "none" \notin Items /\ "none" \notin Candidates /\ Yields \in [Items -> Seq(Candidates)]

Outcomes == {"succeeded", "partial", "failed"}
ItemRows ==
  [status : {"absent", "pending"} \cup Outcomes, by : Nat, gen : Nat, prior : Items \cup {"none"}]
AttemptRows == [status : {"running"} \cup Outcomes, lapsed : BOOLEAN]
FindingRows ==
  [first : (Items \cup {"none"}) \X Nat, last : (Items \cup {"none"}) \X Nat, count : Nat,
   revision : Nat, prior : Candidates \cup {"none"}]
Attempting == {"collect", "persist", "close"}
Ended == {"finish", "tell"}
Entitled == {"reserved", "judge"}
Works ==
  [at : {"idle", "recover", "sweep"} \cup Attempting \cup Ended \cup Entitled,
   item : Items \cup {"none"}, no : Nat, left : Seq(Candidates), outcome : Outcomes \cup {"none"},
   told : BOOLEAN, boot : BOOLEAN, stale : SUBSET (Items \X Nat), sweep : SUBSET Items]

RunType ==
  /\ item \in [Items -> ItemRows] /\ attempt \in [Items -> Seq(AttemptRows)]
  /\ work \in [Workers -> Works] /\ told \in [Items -> Nat]

(* What a process knows of the item and the attempt it works on.             *)
Fit(c, it, at) ==
  /\ c.at \in Entitled \cup Attempting \cup Ended =>
       c.item \in Items /\ it[c.item].status # "absent"
  /\ c.at \in Attempting \cup Ended \cup {"judge"} => c.no \in DOMAIN at[c.item]
  /\ c.at \in Attempting => at[c.item][c.no].status \in {"running", "failed"}
  /\ c.at \in {"persist", "close"} \cup Ended => c.outcome \in Outcomes
  /\ c.at \in Ended => at[c.item][c.no].status = c.outcome
  /\ c.at = "judge" => at[c.item][c.no].status = "failed"
  /\ c.told => c.at \in Ended
  /\ \A s \in c.stale : s[1] \in Items /\ s[2] \in DOMAIN at[s[1]]

Fits == \A w \in Workers : Fit(work[w], item, attempt)

(* Only the last attempt of an item runs, under one process; another follows *)
(* when a recovery has closed it, and one process is entitled to open it.    *)
Rests(i, at) == \A n \in DOMAIN at[i] : at[i][n].status # "running"
AttemptsFollow ==
  /\ \A i \in Items : \A n \in DOMAIN attempt[i] :
       attempt[i][n].status = "running" => n = Len(attempt[i])
  /\ \A w \in Workers : work[w].at \in Entitled => Rests(work[w].item, attempt)
  /\ \A w, x \in Workers : w # x /\ work[w].at \in Entitled /\ work[x].at \in Entitled =>
       work[w].item # work[x].item
  /\ \A w, x \in Workers : w # x /\ work[w].at \in Attempting /\ work[x].at \in Attempting =>
       work[w].item # work[x].item \/ work[w].no # work[x].no

(* Nothing follows a run that closed its own attempt.                        *)
Announces(c) == c.at \in Ended /\ c.told
OneTells ==
  /\ \A i \in Items : told[i] <= 1
  /\ \A i \in Items : told[i] # 0 =>
       Rests(i, attempt) /\ \A x \in Workers : work[x].at \in Entitled => work[x].item # i
  /\ \A w \in Workers : Announces(work[w]) =>
       /\ told[work[w].item] = 0 /\ Rests(work[w].item, attempt)
       /\ \A x \in Workers : work[x].at \in Entitled => work[x].item # work[w].item
       /\ \A x \in Workers : x # w /\ Announces(work[x]) => work[x].item # work[w].item

ItemsAgree ==
  \A i \in Items :
    /\ item[i].by \in 0 .. Len(attempt[i])
    /\ item[i].by > 0 =>
         LET status == attempt[i][item[i].by].status
         IN status # "running" /\ (status # "failed" => item[i].status = status)
    /\ item[i].status = "absent" => item[i].by = 0 /\ attempt[i] = << >> /\ told[i] = 0

RunInv == RunType /\ Fits /\ AttemptsFollow /\ OneTells /\ ItemsAgree

USE DEF Runs!None

LEMMA IdleWorks ==
  /\ Runs!Idle \in Works /\ Runs!Idle.at = "idle" /\ Runs!Idle.told = FALSE /\ Runs!Idle.stale = {}
BY DEF Runs!Idle, Works, Outcomes

LEMMA AfterWorks ==
  ASSUME RunInv, NEW w \in Workers
  PROVE  /\ Runs!After(w) \in Works /\ Runs!After(w).at \in {"idle", "recover"}
         /\ Runs!After(w).told = FALSE /\ Runs!After(w).stale \subseteq work[w].stale
<1>1. work[w] \in Works
  BY DEF RunInv, RunType
<1>2. CASE work[w].boot
  <2>1. Runs!After(w) = [Runs!Idle EXCEPT !.at = "recover", !.boot = TRUE, !.stale = work[w].stale]
    BY <1>2 DEF Runs!After
  <2>2. work[w].stale \in SUBSET (Items \X Nat)
    BY <1>1 DEF Works
  <2>3. QED BY <2>1, <2>2, IdleWorks DEF Works
<1>3. CASE ~work[w].boot
  BY <1>3, IdleWorks DEF Runs!After
<1>4. QED BY <1>2, <1>3

(* Statuses of attempts move from running to an outcome, and items get one.  *)
Kept(it, jt, at, bt) ==
  /\ \A i \in Items : it[i].status # "absent" => jt[i].status # "absent"
  /\ \A i \in Items : \A n \in DOMAIN at[i] :
       /\ n \in DOMAIN bt[i]
       /\ bt[i][n].status = at[i][n].status
            \/ (at[i][n].status = "running" /\ bt[i][n].status \in Outcomes)

LEMMA StillFits ==
  ASSUME NEW it, NEW jt, NEW at, NEW bt, NEW c \in Works, Fit(c, it, at), Kept(it, jt, at, bt),
         c.at \in Attempting => bt[c.item][c.no].status \in {"running", "failed"}
  PROVE  Fit(c, jt, bt)
<1>1. c.at \in Entitled \cup Attempting \cup Ended =>
        c.item \in Items /\ jt[c.item].status # "absent"
  BY DEF Fit, Kept
<1>2. c.at \in Attempting \cup Ended \cup {"judge"} => c.no \in DOMAIN bt[c.item]
  BY DEF Fit, Kept, Entitled
<1>3. c.at \in Ended => bt[c.item][c.no].status = c.outcome
  BY DEF Fit, Kept, Ended, Outcomes
<1>4. c.at = "judge" => bt[c.item][c.no].status = "failed"
  BY DEF Fit, Kept, Entitled
<1>5. \A s \in c.stale : s[1] \in Items /\ s[2] \in DOMAIN bt[s[1]]
  BY DEF Fit, Kept
<1>6. QED BY <1>1, <1>2, <1>3, <1>4, <1>5, Zenon DEF Fit

LEMMA WorkMoves ==
  ASSUME RunInv, NEW w \in Workers, NEW c \in Works, work' = [work EXCEPT ![w] = c]
  PROVE  /\ work' \in [Workers -> Works] /\ work'[w] = c
         /\ \A x \in Workers \ {w} : work'[x] = work[x]
<1>1. work \in [Workers -> Works]
  BY DEF RunInv, RunType
<1>2. QED BY <1>1

(* A process goes on while the attempts rest.                                *)
LEMMA RunMoves ==
  ASSUME RunInv, NEW w \in Workers, NEW c \in Works, work' = [work EXCEPT ![w] = c],
         UNCHANGED <<attempt, told>>, Kept(item, item', attempt, attempt),
         Fit(c, item', attempt),
         c.at \in Entitled => work[w].at \in Entitled /\ c.item = work[w].item,
         c.at \in Attempting =>
           work[w].at \in Attempting /\ c.item = work[w].item /\ c.no = work[w].no,
         Announces(c) => Announces(work[w]) /\ c.item = work[w].item
  PROVE  work' \in [Workers -> Works] /\ Fits' /\ AttemptsFollow' /\ OneTells'
<1>1. /\ work' \in [Workers -> Works] /\ work'[w] = c
      /\ \A x \in Workers \ {w} : work'[x] = work[x]
  BY WorkMoves
<1>2. Fits'
  <2>1. ASSUME NEW x \in Workers \ {w} PROVE Fit(work'[x], item', attempt')
    <3>1. work[x] \in Works /\ Fit(work[x], item, attempt)
      BY DEF RunInv, RunType, Fits
    <3>2. work[x].at \in Attempting => attempt[work[x].item][work[x].no].status \in {"running", "failed"}
      BY <3>1 DEF Fit
    <3>3. Fit(work[x], item', attempt)
      BY <3>1, <3>2, StillFits
    <3>4. QED BY <1>1, <3>3
  <2>2. QED BY <1>1, <2>1 DEF Fits
<1>3. \A x \in Workers : work'[x].at \in Entitled => work[x].at \in Entitled /\ work'[x].item = work[x].item
  BY <1>1
<1>4. \A x \in Workers : work'[x].at \in Attempting =>
        work[x].at \in Attempting /\ work'[x].item = work[x].item /\ work'[x].no = work[x].no
  BY <1>1
<1>5. \A x \in Workers : Announces(work'[x]) => Announces(work[x]) /\ work'[x].item = work[x].item
  BY <1>1, Zenon
<1>6. AttemptsFollow'
  BY <1>3, <1>4 DEF RunInv, AttemptsFollow
<1>7. OneTells'
  <2>1. \A i \in Items : told'[i] <= 1
    BY DEF RunInv, OneTells
  <2>2. ASSUME NEW i \in Items, told'[i] # 0
        PROVE  Rests(i, attempt') /\ \A x \in Workers : work'[x].at \in Entitled => work'[x].item # i
    BY <1>3, <2>2 DEF RunInv, OneTells
  <2>3. ASSUME NEW v \in Workers, Announces(work'[v])
        PROVE  /\ told'[work'[v].item] = 0 /\ Rests(work'[v].item, attempt')
               /\ \A x \in Workers : work'[x].at \in Entitled => work'[x].item # work'[v].item
               /\ \A x \in Workers : x # v /\ Announces(work'[x]) => work'[x].item # work'[v].item
    <3>1. Announces(work[v]) /\ work'[v].item = work[v].item
      BY <1>5, <2>3
    <3>2. /\ told[work[v].item] = 0 /\ Rests(work[v].item, attempt)
          /\ \A x \in Workers : work[x].at \in Entitled => work[x].item # work[v].item
          /\ \A x \in Workers : x # v /\ Announces(work[x]) => work[x].item # work[v].item
      BY <3>1, Zenon DEF RunInv, OneTells
    <3>3. QED BY <1>3, <1>5, <3>1, <3>2
  <2>4. QED BY <2>1, <2>2, <2>3, Zenon DEF OneTells
<1>8. QED BY <1>1, <1>2, <1>6, <1>7

LEMMA SameItems ==
  ASSUME RunInv, UNCHANGED item
  PROVE  item' \in [Items -> ItemRows] /\ Kept(item, item', attempt, attempt)
BY DEF RunInv, RunType, Kept

LEMMA SameItemsAgree ==
  ASSUME RunInv, UNCHANGED <<item, attempt, told>>
  PROVE  ItemsAgree'
BY DEF RunInv, ItemsAgree

(* An item is completed by the outcome of an attempt that has ended.         *)
LEMMA ItemCompletes ==
  ASSUME RunInv, NEW i \in Items, NEW n \in DOMAIN attempt[i], NEW status \in Outcomes,
         attempt[i][n].status # "running",
         attempt[i][n].status # "failed" => status = attempt[i][n].status,
         item' = Runs!Completed(i, n, status), UNCHANGED <<attempt, told>>
  PROVE  /\ item' \in [Items -> ItemRows] /\ Kept(item, item', attempt, attempt) /\ ItemsAgree'
         /\ \A j \in Items : item[j].by > 0 => item'[j] = item[j]
<1>1. item \in [Items -> ItemRows] /\ attempt \in [Items -> Seq(AttemptRows)]
  BY DEF RunInv, RunType
<1>2. CASE ~Runs!Open(i)
  <2>1. item' = item
    BY <1>2 DEF Runs!Completed
  <2>2. QED BY <2>1, SameItems, SameItemsAgree
<1>3. CASE Runs!Open(i)
  <2> DEFINE row == [item[i] EXCEPT !.status = status, !.by = n]
  <2>1. item' = [[item EXCEPT ![i].status = status] EXCEPT ![i].by = n]
    BY <1>3 DEF Runs!Completed
  <2>2. n \in Nat /\ n > 0 /\ n \in 0 .. Len(attempt[i]) /\ item[i] \in ItemRows
    BY <1>1
  <2>3. row \in ItemRows /\ row.status = status /\ row.by = n
    BY <2>2 DEF ItemRows
  <2>4. item' = [item EXCEPT ![i] = row]
    BY <1>1, <2>1
  <2> HIDE DEF row
  <2>5. /\ item' \in [Items -> ItemRows] /\ item'[i] = row
        /\ \A j \in Items \ {i} : item'[j] = item[j]
    BY <1>1, <2>3, <2>4
  <2>6. Kept(item, item', attempt, attempt)
    BY <2>3, <2>5 DEF Kept, Outcomes
  <2>7. ItemsAgree'
    <3>1. ASSUME NEW j \in Items \ {i}
          PROVE  /\ item'[j].by \in 0 .. Len(attempt'[j])
                 /\ item'[j].by > 0 =>
                      LET last == attempt'[j][item'[j].by].status
                      IN last # "running" /\ (last # "failed" => item'[j].status = last)
                 /\ item'[j].status = "absent" =>
                      item'[j].by = 0 /\ attempt'[j] = << >> /\ told'[j] = 0
      BY <2>5 DEF RunInv, ItemsAgree
    <3>2. /\ item'[i].by \in 0 .. Len(attempt'[i])
          /\ item'[i].by > 0 =>
               LET last == attempt'[i][item'[i].by].status
               IN last # "running" /\ (last # "failed" => item'[i].status = last)
          /\ item'[i].status # "absent"
      BY <2>2, <2>3, <2>5 DEF Outcomes
    <3>3. QED BY <3>1, <3>2 DEF ItemsAgree
  <2>8. \A j \in Items : item[j].by > 0 => item'[j] = item[j]
    BY <1>3, <2>5 DEF Runs!Open
  <2>9. QED BY <2>5, <2>6, <2>7, <2>8
<1>4. QED BY <1>2, <1>3

(* What no later step undoes.                                                *)
VerdictsStand ==
  \A i \in Items :
    /\ item[i].by > 0 => item'[i] = item[i]
    /\ \A n \in DOMAIN attempt[i] : ~Runs!Running(i, n) => attempt'[i][n] = attempt[i][n]

Moved == RunInv' /\ VerdictsStand

LEMMA MovesOn ==
  ASSUME RunInv, NEW w \in Workers, NEW c \in Works, work' = [work EXCEPT ![w] = c],
         UNCHANGED <<item, attempt, told>>, Fit(c, item, attempt),
         c.at \in Entitled => work[w].at \in Entitled /\ c.item = work[w].item,
         c.at \in Attempting =>
           work[w].at \in Attempting /\ c.item = work[w].item /\ c.no = work[w].no,
         Announces(c) => Announces(work[w]) /\ c.item = work[w].item
  PROVE  Moved
<1>1. item' \in [Items -> ItemRows] /\ Kept(item, item', attempt, attempt)
  BY SameItems
<1>2. Fit(c, item', attempt)
  OBVIOUS
<1>3. work' \in [Workers -> Works] /\ Fits' /\ AttemptsFollow' /\ OneTells'
  BY <1>1, <1>2, RunMoves
<1>4. RunType'
  BY <1>1, <1>3 DEF RunInv, RunType
<1>5. QED BY <1>3, <1>4, SameItemsAgree DEF RunInv, Moved, VerdictsStand

LEMMA FitAtRest ==
  ASSUME RunInv, NEW w \in Workers, NEW c \in Works, c.at \in {"idle", "recover", "sweep"},
         c.told = FALSE, c.stale \subseteq work[w].stale
  PROVE  Fit(c, item, attempt)
<1>1. \A s \in work[w].stale : s[1] \in Items /\ s[2] \in DOMAIN attempt[s[1]]
  BY DEF RunInv, Fits, Fit
<1>2. QED BY <1>1 DEF Fit, Entitled, Attempting, Ended

LEMMA RunGoesBack ==
  ASSUME RunInv, NEW w \in Workers,
         work' = [work EXCEPT ![w] = Runs!After(w)] \/ work' = [work EXCEPT ![w] = Runs!Idle],
         UNCHANGED <<item, attempt, told>>
  PROVE  Moved
<1>1. ASSUME NEW c \in Works, c.at \in {"idle", "recover"}, c.told = FALSE,
             c.stale \subseteq work[w].stale, work' = [work EXCEPT ![w] = c]
      PROVE  Moved
  BY <1>1, FitAtRest, MovesOn DEF Entitled, Attempting, Ended, Announces
<1>2. QED BY <1>1, IdleWorks, AfterWorks

(* The deliveries of a window, the reruns, and the attempts.                 *)
LEMMA ItemBegins ==
  ASSUME RunInv, NEW w \in Workers, NEW i \in Items, NEW row \in ItemRows,
         work[w] = Runs!Idle, item[i].status = "absent",
         row.status = "pending", row.by = 0, item' = [item EXCEPT ![i] = row],
         work' = [[work EXCEPT ![w].at = "reserved"] EXCEPT ![w].item = i],
         UNCHANGED <<attempt, told>>
  PROVE  Moved
<1> DEFINE c == [Runs!Idle EXCEPT !.at = "reserved", !.item = i]
<1>1. /\ item \in [Items -> ItemRows] /\ attempt \in [Items -> Seq(AttemptRows)]
      /\ work \in [Workers -> Works] /\ told \in [Items -> Nat]
  BY DEF RunInv, RunType
<1>2. work' = [work EXCEPT ![w] = c]
  BY <1>1
<1>3. /\ c \in Works /\ c.at = "reserved" /\ c.item = i /\ c.told = FALSE /\ c.stale = {}
  BY IdleWorks DEF Works, Entitled
<1> HIDE DEF c
<1>4. /\ work' \in [Workers -> Works] /\ work'[w] = c
      /\ \A x \in Workers \ {w} : work'[x] = work[x]
  BY <1>2, <1>3, WorkMoves
<1>5. /\ item' \in [Items -> ItemRows] /\ item'[i] = row
      /\ \A j \in Items \ {i} : item'[j] = item[j]
  BY <1>1
<1>6. attempt[i] = << >> /\ told[i] = 0 /\ item[i].by = 0
  BY DEF RunInv, ItemsAgree
<1>7. \A x \in Workers : work[x].at \in Entitled \cup Attempting \cup Ended => work[x].item # i
  BY DEF RunInv, Fits, Fit
<1>8. Kept(item, item', attempt, attempt)
  BY <1>5 DEF Kept
<1>9. RunType'
  BY <1>1, <1>4, <1>5 DEF RunType
<1>10. Fits'
  <2>1. ASSUME NEW x \in Workers \ {w} PROVE Fit(work'[x], item', attempt')
    <3>1. work[x] \in Works /\ Fit(work[x], item, attempt)
      BY DEF RunInv, RunType, Fits
    <3>2. work[x].at \in Attempting => attempt[work[x].item][work[x].no].status \in {"running", "failed"}
      BY <3>1 DEF Fit
    <3>3. Fit(work[x], item', attempt)
      BY <1>8, <3>1, <3>2, StillFits
    <3>4. QED BY <1>4, <3>3
  <2>2. Fit(c, item', attempt')
    BY <1>3, <1>5 DEF Fit, Entitled, Attempting, Ended
  <2>3. QED BY <1>4, <2>1, <2>2 DEF Fits
<1>11. AttemptsFollow'
  <2>1. \A j \in Items : \A n \in DOMAIN attempt'[j] :
          attempt'[j][n].status = "running" => n = Len(attempt'[j])
    BY DEF RunInv, AttemptsFollow
  <2>2. Rests(i, attempt)
    BY <1>6 DEF Rests
  <2>3. \A v \in Workers : work'[v].at \in Entitled => Rests(work'[v].item, attempt')
    BY <1>3, <1>4, <2>2 DEF RunInv, AttemptsFollow
  <2>4. \A v, x \in Workers : v # x /\ work'[v].at \in Entitled /\ work'[x].at \in Entitled =>
          work'[v].item # work'[x].item
    BY <1>3, <1>4, <1>7 DEF RunInv, AttemptsFollow
  <2>5. \A v, x \in Workers : v # x /\ work'[v].at \in Attempting /\ work'[x].at \in Attempting =>
          work'[v].item # work'[x].item \/ work'[v].no # work'[x].no
    BY <1>3, <1>4 DEF RunInv, AttemptsFollow, Attempting
  <2>6. QED BY <2>1, <2>3, <2>4, <2>5, Zenon DEF AttemptsFollow
<1>12. OneTells'
  <2>1. \A x \in Workers : Announces(work'[x]) => Announces(work[x]) /\ work'[x] = work[x]
    BY <1>3, <1>4 DEF Announces, Ended
  <2>2. \A x \in Workers : work'[x].at \in Entitled =>
          work'[x].item = i \/ (work[x].at \in Entitled /\ work'[x].item = work[x].item)
    BY <1>3, <1>4
  <2>3. \A x \in Workers : Announces(work[x]) => work[x].item # i
    BY <1>7 DEF Announces
  <2>4. \A j \in Items : told'[j] <= 1
    BY DEF RunInv, OneTells
  <2>5. ASSUME NEW j \in Items, told'[j] # 0
        PROVE  Rests(j, attempt') /\ \A x \in Workers : work'[x].at \in Entitled => work'[x].item # j
    <3>1. j # i /\ told[j] # 0
      BY <1>6, <2>5
    <3>2. Rests(j, attempt) /\ \A x \in Workers : work[x].at \in Entitled => work[x].item # j
      BY <3>1, Zenon DEF RunInv, OneTells
    <3>3. QED BY <2>2, <3>1, <3>2
  <2>6. ASSUME NEW v \in Workers, Announces(work'[v])
        PROVE  /\ told'[work'[v].item] = 0 /\ Rests(work'[v].item, attempt')
               /\ \A x \in Workers : work'[x].at \in Entitled => work'[x].item # work'[v].item
               /\ \A x \in Workers : x # v /\ Announces(work'[x]) => work'[x].item # work'[v].item
    <3>1. Announces(work[v]) /\ work'[v] = work[v]
      BY <2>1, <2>6
    <3>2. /\ told[work[v].item] = 0 /\ Rests(work[v].item, attempt)
          /\ \A x \in Workers : work[x].at \in Entitled => work[x].item # work[v].item
          /\ \A x \in Workers : x # v /\ Announces(work[x]) => work[x].item # work[v].item
      BY <3>1, Zenon DEF RunInv, OneTells
    <3>3. QED BY <2>1, <2>2, <2>3, <3>1, <3>2
  <2>7. QED BY <2>4, <2>5, <2>6, Zenon DEF OneTells
<1>13. ItemsAgree'
  <2>1. \A j \in Items \ {i} : item'[j] = item[j] /\ attempt'[j] = attempt[j] /\ told'[j] = told[j]
    BY <1>5
  <2>2. item'[i].by = 0 /\ item'[i].status = "pending" /\ Len(attempt'[i]) \in Nat
    BY <1>1, <1>5
  <2>3. QED BY <2>1, <2>2 DEF RunInv, ItemsAgree
<1>14. VerdictsStand
  BY <1>5, <1>6 DEF VerdictsStand
<1>15. QED BY <1>9, <1>10, <1>11, <1>12, <1>13, <1>14 DEF RunInv, Moved

(* Whoever is entitled to an item, or announces it, has it to itself.        *)
LEMMA NobodyElse ==
  ASSUME RunInv, NEW i \in Items,
         ~Rests(i, attempt) \/ \E w \in Workers : work[w].at \in Entitled /\ work[w].item = i
  PROVE  /\ told[i] = 0
         /\ \A x \in Workers : Announces(work[x]) => work[x].item # i
         /\ ~Rests(i, attempt) => \A x \in Workers : work[x].at \in Entitled => work[x].item # i
<1>1. told[i] = 0
  BY Zenon DEF RunInv, OneTells
<1>2. \A x \in Workers : Announces(work[x]) => work[x].item # i
  BY Zenon DEF RunInv, OneTells
<1>3. ~Rests(i, attempt) => \A x \in Workers : work[x].at \in Entitled => work[x].item # i
  BY Zenon DEF RunInv, AttemptsFollow
<1>4. QED BY <1>1, <1>2, <1>3

LEMMA AttemptOpens ==
  ASSUME RunInv, NEW w \in Workers, Runs!OpenAttempt(w)
  PROVE  Moved
<1> DEFINE i == work[w].item
           n == Len(attempt[i]) + 1
           row == [status |-> "running", lapsed |-> FALSE]
           c == [work[w] EXCEPT !.at = "collect", !.no = n]
<1>1. /\ item \in [Items -> ItemRows] /\ attempt \in [Items -> Seq(AttemptRows)]
      /\ work \in [Workers -> Works] /\ told \in [Items -> Nat]
  BY DEF RunInv, RunType
<1>2. /\ work[w].at = "reserved" /\ attempt' = [attempt EXCEPT ![i] = Append(@, row)]
      /\ UNCHANGED <<item, told>>
  BY DEF Runs!OpenAttempt
<1>3. work' = [work EXCEPT ![w] = c]
  BY <1>1 DEF Runs!OpenAttempt
<1>4. /\ work[w] \in Works /\ Fit(work[w], item, attempt) /\ i \in Items
      /\ item[i].status # "absent" /\ ~work[w].told
  BY <1>1, <1>2 DEF RunInv, Fits, Fit, Entitled, Ended
<1>5. n \in Nat /\ n = Len(attempt[i]) + 1 /\ Len(attempt[i]) \in Nat
  BY <1>1, <1>4
<1>6. row \in AttemptRows /\ row.status = "running"
  BY DEF AttemptRows
<1>7. Rests(i, attempt)
  BY <1>2 DEF RunInv, AttemptsFollow, Entitled
<1>8. /\ told[i] = 0 /\ \A x \in Workers : Announces(work[x]) => work[x].item # i
  BY <1>2, <1>4, NobodyElse DEF Entitled
<1>9. \A x \in Workers \ {w} : work[x].at \in Entitled => work[x].item # i
  BY <1>2 DEF RunInv, AttemptsFollow, Entitled
<1> HIDE DEF row, n
<1>10. /\ c \in Works /\ c.at = "collect" /\ c.item = i /\ c.no = n
       /\ c.told = work[w].told /\ c.stale = work[w].stale
  BY <1>4, <1>5 DEF Works, Attempting
<1> HIDE DEF c, i
<1>11. /\ work' \in [Workers -> Works] /\ work'[w] = c
       /\ \A x \in Workers \ {w} : work'[x] = work[x]
  BY <1>3, <1>10, WorkMoves
<1>12. /\ attempt' \in [Items -> Seq(AttemptRows)]
       /\ \A j \in Items \ {i} : attempt'[j] = attempt[j]
       /\ attempt'[i] = Append(attempt[i], row)
  <2>1. Append(attempt[i], row) \in Seq(AttemptRows)
    BY <1>1, <1>4, <1>6
  <2>2. QED BY <1>1, <1>2, <1>4, <2>1
<1>13. /\ Len(attempt'[i]) = n /\ attempt'[i][n].status = "running" /\ DOMAIN attempt'[i] = 1 .. n
       /\ DOMAIN attempt[i] = 1 .. n - 1 /\ \A k \in DOMAIN attempt[i] : attempt'[i][k] = attempt[i][k]
  BY <1>1, <1>4, <1>5, <1>6, <1>12
<1>14. Kept(item, item', attempt, attempt')
  <2>1. ASSUME NEW j \in Items, NEW k \in DOMAIN attempt[j]
        PROVE  k \in DOMAIN attempt'[j] /\ attempt'[j][k].status = attempt[j][k].status
    <3>1. CASE j = i
      <4>1. k \in 1 .. n - 1
        BY <1>13, <3>1
      <4>2. k \in DOMAIN attempt'[i]
        BY <1>5, <1>13, <4>1
      <4>3. QED BY <1>13, <3>1, <4>2
    <3>2. CASE j # i
      BY <1>12, <3>2
    <3>3. QED BY <3>1, <3>2
  <2>2. QED BY <1>2, <2>1 DEF Kept
<1>15. RunType'
  BY <1>1, <1>2, <1>11, <1>12 DEF RunType
<1>16. Fits'
  <2>1. ASSUME NEW x \in Workers \ {w} PROVE Fit(work'[x], item', attempt')
    <3>1. work[x] \in Works /\ Fit(work[x], item, attempt)
      BY <1>1 DEF RunInv, Fits
    <3>2. work[x].at \in Attempting =>
            /\ attempt[work[x].item][work[x].no].status \in {"running", "failed"}
            /\ work[x].item \in Items /\ work[x].no \in DOMAIN attempt[work[x].item]
      BY <3>1 DEF Fit
    <3>3. work[x].at \in Attempting => attempt'[work[x].item][work[x].no].status \in {"running", "failed"}
      BY <1>12, <1>13, <3>2
    <3>4. Fit(work[x], item', attempt')
      BY <1>14, <3>1, <3>3, StillFits
    <3>5. QED BY <1>11, <3>4
  <2>2. Fit(c, item', attempt')
    <3>1. \A t \in c.stale : t[1] \in Items /\ t[2] \in DOMAIN attempt'[t[1]]
      BY <1>4, <1>10, <1>14 DEF Fit, Kept
    <3>2. n \in DOMAIN attempt'[i]
      BY <1>5, <1>13
    <3>3. QED BY <1>2, <1>4, <1>10, <1>13, <3>1, <3>2 DEF Fit, Entitled, Attempting, Ended
  <2>3. QED BY <1>11, <2>1, <2>2 DEF Fits
<1>17. \A x \in Workers : work'[x].at \in Entitled =>
         x # w /\ work[x].at \in Entitled /\ work'[x] = work[x] /\ work[x].item # i
  BY <1>9, <1>10, <1>11 DEF Entitled
<1>18. \A j \in Items \ {i} : Rests(j, attempt) => Rests(j, attempt')
  BY <1>12 DEF Rests
<1>19. AttemptsFollow'
  <2>1. ASSUME NEW j \in Items, NEW k \in DOMAIN attempt'[j], attempt'[j][k].status = "running"
        PROVE  k = Len(attempt'[j])
    <3>1. CASE j = i
      BY <1>5, <1>7, <1>13, <2>1, <3>1 DEF Rests
    <3>2. CASE j # i
      BY <1>12, <2>1, <3>2 DEF RunInv, AttemptsFollow
    <3>3. QED BY <3>1, <3>2
  <2>2. ASSUME NEW x \in Workers, work'[x].at \in Entitled PROVE Rests(work'[x].item, attempt')
    <3>1. work[x].at \in Entitled /\ work'[x] = work[x] /\ work[x].item # i /\ work[x].item \in Items
      BY <1>17, <2>2 DEF RunInv, Fits, Fit
    <3>2. QED BY <1>18, <3>1 DEF RunInv, AttemptsFollow
  <2>3. \A v, x \in Workers : v # x /\ work'[v].at \in Entitled /\ work'[x].at \in Entitled =>
          work'[v].item # work'[x].item
    BY <1>17 DEF RunInv, AttemptsFollow
  <2>4. ASSUME NEW x \in Workers \ {w}, work[x].at \in Attempting
        PROVE  work[x].item # i \/ work[x].no # n
    <3>1. work[x].no \in DOMAIN attempt[work[x].item]
      BY <2>4 DEF RunInv, Fits, Fit
    <3>2. QED BY <1>5, <1>13, <3>1
  <2>5. \A v, x \in Workers : v # x /\ work'[v].at \in Attempting /\ work'[x].at \in Attempting =>
          work'[v].item # work'[x].item \/ work'[v].no # work'[x].no
    BY <1>10, <1>11, <2>4 DEF RunInv, AttemptsFollow
  <2>6. QED BY <2>1, <2>2, <2>3, <2>5, Zenon DEF AttemptsFollow
<1>20. OneTells'
  <2>1. \A x \in Workers : Announces(work'[x]) => Announces(work[x]) /\ work'[x] = work[x]
    BY <1>10, <1>11 DEF Announces, Ended
  <2>2. \A j \in Items : told'[j] <= 1
    BY <1>2 DEF RunInv, OneTells
  <2>3. ASSUME NEW j \in Items, told'[j] # 0
        PROVE  Rests(j, attempt') /\ \A x \in Workers : work'[x].at \in Entitled => work'[x].item # j
    <3>1. j # i /\ told[j] # 0
      BY <1>2, <1>8, <2>3
    <3>2. Rests(j, attempt) /\ \A x \in Workers : work[x].at \in Entitled => work[x].item # j
      BY <3>1, Zenon DEF RunInv, OneTells
    <3>3. QED BY <1>17, <1>18, <3>1, <3>2
  <2>4. ASSUME NEW v \in Workers, Announces(work'[v])
        PROVE  /\ told'[work'[v].item] = 0 /\ Rests(work'[v].item, attempt')
               /\ \A x \in Workers : work'[x].at \in Entitled => work'[x].item # work'[v].item
               /\ \A x \in Workers : x # v /\ Announces(work'[x]) => work'[x].item # work'[v].item
    <3>1. Announces(work[v]) /\ work'[v] = work[v] /\ work[v].item # i /\ work[v].item \in Items
      BY <1>8, <2>1, <2>4 DEF RunInv, Fits, Fit, Announces
    <3>2. /\ told[work[v].item] = 0 /\ Rests(work[v].item, attempt)
          /\ \A x \in Workers : work[x].at \in Entitled => work[x].item # work[v].item
          /\ \A x \in Workers : x # v /\ Announces(work[x]) => work[x].item # work[v].item
      BY <3>1, Zenon DEF RunInv, OneTells
    <3>3. QED BY <1>2, <1>17, <1>18, <2>1, <3>1, <3>2
  <2>5. QED BY <2>2, <2>3, <2>4, Zenon DEF OneTells
<1>21. ItemsAgree'
  <2>1. ASSUME NEW j \in Items
        PROVE  /\ item'[j].by \in 0 .. Len(attempt'[j])
               /\ item'[j].by > 0 =>
                    LET last == attempt'[j][item'[j].by].status
                    IN last # "running" /\ (last # "failed" => item'[j].status = last)
               /\ item'[j].status = "absent" =>
                    item'[j].by = 0 /\ attempt'[j] = << >> /\ told'[j] = 0
    <3>1. CASE j = i
      <4>1. item[i].by \in 0 .. Len(attempt[i])
        BY <1>4 DEF RunInv, ItemsAgree
      <4>2. item[i].by > 0 => item[i].by \in DOMAIN attempt[i]
        BY <1>5, <1>13, <4>1
      <4>3. item[i].by \in 0 .. n
        BY <1>5, <4>1
      <4>4. item[i].by > 0 =>
              LET last == attempt[i][item[i].by].status
              IN last # "running" /\ (last # "failed" => item[i].status = last)
        BY <1>4 DEF RunInv, ItemsAgree
      <4>5. QED BY <1>2, <1>4, <1>13, <3>1, <4>2, <4>3, <4>4
    <3>2. CASE j # i
      BY <1>2, <1>12, <3>2 DEF RunInv, ItemsAgree
    <3>3. QED BY <3>1, <3>2
  <2>2. QED BY <2>1 DEF ItemsAgree
<1>22. VerdictsStand
  BY <1>2, <1>12, <1>13 DEF VerdictsStand
<1>23. QED BY <1>15, <1>16, <1>19, <1>20, <1>21, <1>22 DEF RunInv, Moved

LEMMA StatusWritten ==
  ASSUME attempt \in [Items -> Seq(AttemptRows)], NEW i \in Items, NEW n \in DOMAIN attempt[i],
         NEW status \in Outcomes, attempt' = [attempt EXCEPT ![i][n].status = status]
  PROVE  /\ attempt' \in [Items -> Seq(AttemptRows)]
         /\ \A j \in Items \ {i} : attempt'[j] = attempt[j]
         /\ DOMAIN attempt'[i] = DOMAIN attempt[i] /\ Len(attempt'[i]) = Len(attempt[i])
         /\ attempt'[i][n].status = status
         /\ \A k \in DOMAIN attempt[i] : k # n => attempt'[i][k] = attempt[i][k]
<1> DEFINE row == [attempt[i][n] EXCEPT !.status = status]
<1>1. attempt[i] \in Seq(AttemptRows) /\ attempt[i][n] \in AttemptRows
  OBVIOUS
<1>2. row \in AttemptRows /\ row.status = status
  BY <1>1 DEF AttemptRows
<1>3. attempt' = [attempt EXCEPT ![i] = [attempt[i] EXCEPT ![n] = row]]
  OBVIOUS
<1> HIDE DEF row
<1> DEFINE rows == [attempt[i] EXCEPT ![n] = row]
<1>4. /\ rows \in Seq(AttemptRows) /\ DOMAIN rows = DOMAIN attempt[i] /\ Len(rows) = Len(attempt[i])
      /\ rows[n] = row /\ \A k \in DOMAIN attempt[i] : k # n => rows[k] = attempt[i][k]
  BY <1>1, <1>2
<1>5. attempt' = [attempt EXCEPT ![i] = rows]
  BY <1>3
<1> HIDE DEF rows
<1>6. /\ attempt' \in [Items -> Seq(AttemptRows)] /\ attempt'[i] = rows
      /\ \A j \in Items \ {i} : attempt'[j] = attempt[j]
  BY <1>4, <1>5
<1>7. QED BY <1>2, <1>4, <1>6

(* An attempt ends: its own run closes it and will announce it, or a         *)
(* recovery does and is entitled to open the next one.                       *)
LEMMA AttemptEnds ==
  ASSUME RunInv, NEW w \in Workers, NEW c \in Works, work' = [work EXCEPT ![w] = c],
         NEW i \in Items, NEW n \in DOMAIN attempt[i], attempt[i][n].status = "running",
         NEW status \in Outcomes, attempt' = [attempt EXCEPT ![i][n].status = status],
         UNCHANGED <<item, told>>,
         status = "failed" \/ (work[w].at \in Attempting /\ work[w].item = i /\ work[w].no = n),
         Fit(c, item, attempt'), c.item = i,
         (c.at = "judge" /\ ~c.told) \/ (c.at = "finish" /\ c.told)
  PROVE  Moved
<1>1. /\ item \in [Items -> ItemRows] /\ attempt \in [Items -> Seq(AttemptRows)]
      /\ work \in [Workers -> Works] /\ told \in [Items -> Nat]
  BY DEF RunInv, RunType
<1>2. n \in 1 .. Len(attempt[i]) /\ Len(attempt[i]) \in Nat
  BY <1>1
<1>3. /\ attempt' \in [Items -> Seq(AttemptRows)]
      /\ \A j \in Items \ {i} : attempt'[j] = attempt[j]
      /\ DOMAIN attempt'[i] = DOMAIN attempt[i] /\ Len(attempt'[i]) = Len(attempt[i])
      /\ attempt'[i][n].status = status
      /\ \A k \in DOMAIN attempt[i] : k # n => attempt'[i][k] = attempt[i][k]
  BY <1>1, StatusWritten, ZenonT(40)
<1>4. /\ work' \in [Workers -> Works] /\ work'[w] = c
      /\ \A x \in Workers \ {w} : work'[x] = work[x]
  BY WorkMoves
<1>5. status # "running"
  BY DEF Outcomes
<1>6. ~Rests(i, attempt)
  BY DEF Rests
<1>7. /\ told[i] = 0 /\ \A x \in Workers : Announces(work[x]) => work[x].item # i
      /\ \A x \in Workers : work[x].at \in Entitled => work[x].item # i
  BY <1>6, NobodyElse, Zenon
<1>8. Rests(i, attempt')
  <2>1. \A k \in DOMAIN attempt[i] : k # n => attempt[i][k].status # "running"
    BY DEF RunInv, AttemptsFollow
  <2>2. QED BY <1>3, <1>5, <2>1 DEF Rests
<1>9. \A j \in Items : Rests(j, attempt) => Rests(j, attempt')
  BY <1>3, <1>8 DEF Rests
<1>10. Kept(item, item', attempt, attempt')
  <2>1. ASSUME NEW j \in Items, NEW k \in DOMAIN attempt[j]
        PROVE  /\ k \in DOMAIN attempt'[j]
               /\ attempt'[j][k].status = attempt[j][k].status
                    \/ (attempt[j][k].status = "running" /\ attempt'[j][k].status \in Outcomes)
    <3>1. CASE j = i
      BY <1>3, <3>1
    <3>2. CASE j # i
      BY <1>3, <3>2
    <3>3. QED BY <3>1, <3>2
  <2>2. QED BY <2>1 DEF Kept
<1>11. RunType'
  BY <1>1, <1>3, <1>4 DEF RunType
<1>12. Fits'
  <2>1. ASSUME NEW x \in Workers \ {w} PROVE Fit(work'[x], item', attempt')
    <3>1. work[x] \in Works /\ Fit(work[x], item, attempt)
      BY <1>1 DEF RunInv, Fits
    <3>2. work[x].at \in Attempting =>
            /\ attempt[work[x].item][work[x].no].status \in {"running", "failed"}
            /\ work[x].item \in Items /\ work[x].no \in DOMAIN attempt[work[x].item]
      BY <3>1 DEF Fit
    <3>3. ASSUME work[x].at \in Attempting
          PROVE  attempt'[work[x].item][work[x].no].status \in {"running", "failed"}
      <4>1. CASE work[x].item = i /\ work[x].no = n
        <5>1. status = "failed"
          BY <3>3, <4>1 DEF RunInv, AttemptsFollow
        <5>2. QED BY <1>3, <4>1, <5>1
      <4>2. CASE work[x].item = i /\ work[x].no # n
        BY <1>3, <3>2, <3>3, <4>2
      <4>3. CASE work[x].item # i
        BY <1>3, <3>2, <3>3, <4>3
      <4>4. QED BY <4>1, <4>2, <4>3
    <3>4. work[x].at \in Attempting =>
            attempt'[work[x].item][work[x].no].status \in {"running", "failed"}
      BY <3>3
    <3>5. Fit(work[x], item', attempt')
      <4> DEFINE it == item'
                 at == attempt'
      <4>1. Kept(item, it, attempt, at)
        BY <1>10
      <4>2. work[x].at \in Attempting => at[work[x].item][work[x].no].status \in {"running", "failed"}
        BY <3>4
      <4> HIDE DEF it, at
      <4>3. Fit(work[x], it, at)
        BY <3>1, <4>1, <4>2, StillFits
      <4>4. QED BY <4>3 DEF it, at
    <3>6. QED BY <1>4, <3>5
  <2>2. QED BY <1>4, <2>1 DEF Fits
<1>13. \A x \in Workers \ {w} : work'[x].at \in Entitled => work[x].at \in Entitled /\ work[x].item # i
  BY <1>4, <1>7
<1>14. AttemptsFollow'
  <2>1. ASSUME NEW j \in Items, NEW k \in DOMAIN attempt'[j], attempt'[j][k].status = "running"
        PROVE  k = Len(attempt'[j])
    <3>1. CASE j = i
      BY <1>8, <2>1, <3>1 DEF Rests
    <3>2. CASE j # i
      BY <1>3, <2>1, <3>2 DEF RunInv, AttemptsFollow
    <3>3. QED BY <3>1, <3>2
  <2>2. ASSUME NEW x \in Workers, work'[x].at \in Entitled PROVE Rests(work'[x].item, attempt')
    <3>1. CASE x = w
      BY <1>4, <1>8, <3>1
    <3>2. CASE x # w
      <4>1. work[x].at \in Entitled /\ work'[x] = work[x] /\ work[x].item \in Items
        BY <1>4, <2>2, <3>2 DEF RunInv, Fits, Fit
      <4>2. QED BY <1>9, <4>1 DEF RunInv, AttemptsFollow
    <3>3. QED BY <3>1, <3>2
  <2>3. \A v, x \in Workers : v # x /\ work'[v].at \in Entitled /\ work'[x].at \in Entitled =>
          work'[v].item # work'[x].item
    BY <1>4, <1>13 DEF RunInv, AttemptsFollow
  <2>4. \A v, x \in Workers : v # x /\ work'[v].at \in Attempting /\ work'[x].at \in Attempting =>
          work'[v].item # work'[x].item \/ work'[v].no # work'[x].no
    BY <1>4 DEF RunInv, AttemptsFollow, Attempting
  <2>5. QED BY <2>1, <2>2, <2>3, <2>4, Zenon DEF AttemptsFollow
<1>15. OneTells'
  <2>1. \A x \in Workers \ {w} : Announces(work'[x]) => Announces(work[x]) /\ work[x].item # i
    BY <1>4, <1>7
  <2>2. \A j \in Items : told'[j] <= 1
    BY DEF RunInv, OneTells
  <2>3. ASSUME NEW j \in Items, told'[j] # 0
        PROVE  Rests(j, attempt') /\ \A x \in Workers : work'[x].at \in Entitled => work'[x].item # j
    <3>1. j # i /\ told[j] # 0
      BY <1>7, <2>3
    <3>2. Rests(j, attempt) /\ \A x \in Workers : work[x].at \in Entitled => work[x].item # j
      BY <3>1, Zenon DEF RunInv, OneTells
    <3>3. QED BY <1>4, <1>9, <3>1, <3>2
  <2>4. ASSUME NEW v \in Workers, Announces(work'[v])
        PROVE  /\ told'[work'[v].item] = 0 /\ Rests(work'[v].item, attempt')
               /\ \A x \in Workers : work'[x].at \in Entitled => work'[x].item # work'[v].item
               /\ \A x \in Workers : x # v /\ Announces(work'[x]) => work'[x].item # work'[v].item
    <3>1. CASE v = w
      <4>1. c.at = "finish"
        BY <1>4, <2>4, <3>1 DEF Announces, Ended
      <4>2. \A x \in Workers : work'[x].at \in Entitled => work'[x].item # i
        BY <1>4, <1>13, <4>1 DEF Entitled
      <4>3. QED BY <1>4, <1>7, <1>8, <2>1, <3>1, <4>2
    <3>2. CASE v # w
      <4>1. Announces(work[v]) /\ work'[v] = work[v] /\ work[v].item # i /\ work[v].item \in Items
        BY <1>4, <2>1, <2>4, <3>2 DEF RunInv, Fits, Fit, Announces
      <4>2. /\ told[work[v].item] = 0 /\ Rests(work[v].item, attempt)
            /\ \A x \in Workers : work[x].at \in Entitled => work[x].item # work[v].item
            /\ \A x \in Workers : x # v /\ Announces(work[x]) => work[x].item # work[v].item
        BY <4>1, Zenon DEF RunInv, OneTells
      <4>3. QED BY <1>4, <1>9, <2>1, <4>1, <4>2
    <3>3. QED BY <3>1, <3>2
  <2>5. QED BY <2>2, <2>3, <2>4, Zenon DEF OneTells
<1>16. ItemsAgree'
  <2>1. ASSUME NEW j \in Items
        PROVE  /\ item'[j].by \in 0 .. Len(attempt'[j])
               /\ item'[j].by > 0 =>
                    LET last == attempt'[j][item'[j].by].status
                    IN last # "running" /\ (last # "failed" => item'[j].status = last)
               /\ item'[j].status = "absent" =>
                    item'[j].by = 0 /\ attempt'[j] = << >> /\ told'[j] = 0
    <3>1. CASE j = i
      <4>1. /\ item[i].by \in 0 .. Len(attempt[i])
            /\ item[i].by > 0 =>
                 LET last == attempt[i][item[i].by].status
                 IN last # "running" /\ (last # "failed" => item[i].status = last)
            /\ item[i].status # "absent"
        BY DEF RunInv, ItemsAgree
      <4>2. item[i].by > 0 => item[i].by \in DOMAIN attempt[i] /\ item[i].by # n
        BY <1>2, <4>1
      <4>3. QED BY <1>3, <3>1, <4>1, <4>2
    <3>2. CASE j # i
      BY <1>3, <3>2 DEF RunInv, ItemsAgree
    <3>3. QED BY <3>1, <3>2
  <2>2. QED BY <2>1 DEF ItemsAgree
<1>17. VerdictsStand
  BY <1>3 DEF VerdictsStand, Runs!Running
<1>18. QED BY <1>11, <1>12, <1>14, <1>15, <1>16, <1>17 DEF RunInv, Moved

LEMMA AttemptLapses ==
  ASSUME RunInv, NEW i \in Items, Runs!Lapse(i)
  PROVE  Moved
<1> DEFINE n == Len(attempt[i])
           row == [attempt[i][n] EXCEPT !.lapsed = TRUE]
<1>1. /\ item \in [Items -> ItemRows] /\ attempt \in [Items -> Seq(AttemptRows)]
      /\ work \in [Workers -> Works] /\ told \in [Items -> Nat]
  BY DEF RunInv, RunType
<1>2. /\ attempt[i] # << >> /\ attempt[i][n].status = "running"
      /\ attempt' = [attempt EXCEPT ![i][n].lapsed = TRUE] /\ UNCHANGED <<item, work, told>>
  BY DEF Runs!Lapse, Runs!Latest
<1>3. attempt[i] \in Seq(AttemptRows) /\ n \in DOMAIN attempt[i] /\ attempt[i][n] \in AttemptRows
  BY <1>1, <1>2
<1> HIDE DEF n
<1>4. row \in AttemptRows /\ row.status = "running"
  BY <1>2, <1>3 DEF AttemptRows
<1>5. attempt' = [attempt EXCEPT ![i] = [attempt[i] EXCEPT ![n] = row]]
  BY <1>1, <1>2, <1>3
<1> HIDE DEF row
<1>6. /\ attempt' \in [Items -> Seq(AttemptRows)]
      /\ \A j \in Items \ {i} : attempt'[j] = attempt[j]
      /\ attempt'[i] = [attempt[i] EXCEPT ![n] = row]
  <2>1. [attempt[i] EXCEPT ![n] = row] \in Seq(AttemptRows)
    BY <1>3, <1>4
  <2>2. QED BY <1>1, <1>5, <2>1
<1>7. \A j \in Items :
        /\ DOMAIN attempt'[j] = DOMAIN attempt[j] /\ Len(attempt'[j]) = Len(attempt[j])
        /\ \A k \in DOMAIN attempt[j] : attempt'[j][k].status = attempt[j][k].status
  <2>1. /\ DOMAIN attempt'[i] = DOMAIN attempt[i] /\ Len(attempt'[i]) = Len(attempt[i])
        /\ \A k \in DOMAIN attempt[i] : attempt'[i][k].status = attempt[i][k].status
    BY <1>2, <1>3, <1>4, <1>6
  <2>2. QED BY <1>6, <2>1
<1>8. Kept(item, item', attempt, attempt') /\ \A j \in Items : Rests(j, attempt) <=> Rests(j, attempt')
  BY <1>2, <1>7 DEF Kept, Rests
<1>9. RunType'
  BY <1>1, <1>2, <1>6 DEF RunType
<1>10. Fits'
  <2>1. ASSUME NEW x \in Workers PROVE Fit(work[x], item', attempt')
    <3>1. work[x] \in Works /\ Fit(work[x], item, attempt)
      BY <1>1 DEF RunInv, Fits
    <3>2. work[x].at \in Attempting => attempt'[work[x].item][work[x].no].status \in {"running", "failed"}
      BY <1>7, <3>1 DEF Fit
    <3>3. QED BY <1>8, <3>1, <3>2, StillFits
  <2>2. QED BY <1>2, <2>1 DEF Fits
<1>11. \A x \in Workers : work[x].at \in Entitled \cup Ended => work[x].item \in Items
  BY DEF RunInv, Fits, Fit
<1>12. AttemptsFollow'
  <2>1. \A j \in Items : \A k \in DOMAIN attempt'[j] :
          attempt'[j][k].status = "running" => k = Len(attempt'[j])
    BY <1>7 DEF RunInv, AttemptsFollow
  <2>2. QED BY <1>2, <1>8, <1>11, <2>1 DEF RunInv, AttemptsFollow
<1>13. OneTells'
  BY <1>2, <1>8, <1>11 DEF RunInv, OneTells, Announces
<1>14. ItemsAgree'
  <2>1. ASSUME NEW j \in Items
        PROVE  /\ item'[j].by \in 0 .. Len(attempt'[j])
               /\ item'[j].by > 0 =>
                    LET last == attempt'[j][item'[j].by].status
                    IN last # "running" /\ (last # "failed" => item'[j].status = last)
               /\ item'[j].status = "absent" =>
                    item'[j].by = 0 /\ attempt'[j] = << >> /\ told'[j] = 0
    <3>1. /\ item[j].by \in 0 .. Len(attempt[j])
          /\ item[j].by > 0 =>
               LET last == attempt[j][item[j].by].status
               IN last # "running" /\ (last # "failed" => item[j].status = last)
          /\ item[j].status = "absent" => item[j].by = 0 /\ attempt[j] = << >> /\ told[j] = 0
      BY DEF RunInv, ItemsAgree
    <3>2. item[j].by > 0 => item[j].by \in DOMAIN attempt[j]
      BY <1>1, <3>1
    <3>3. item[j].status = "absent" => attempt'[j] = << >>
      BY <1>2, <1>6, <3>1
    <3>4. QED BY <1>2, <1>7, <3>1, <3>2, <3>3
  <2>2. QED BY <2>1 DEF ItemsAgree
<1>15. VerdictsStand
  BY <1>2, <1>3, <1>6 DEF VerdictsStand, Runs!Running
<1>16. QED BY <1>9, <1>10, <1>12, <1>13, <1>14, <1>15 DEF RunInv, Moved

LEMMA NothingLeft == << >> \in Seq(Candidates)
OBVIOUS

LEMMA GoesOn ==
  ASSUME RunInv, NEW w \in Workers, NEW c \in Works, work' = [work EXCEPT ![w] = c],
         UNCHANGED <<item, attempt, told>>, work[w].at \in Attempting,
         c.at = "persist" \/ c.at = "close", c.outcome \in Outcomes,
         c.item = work[w].item, c.no = work[w].no, c.told = work[w].told, c.stale = work[w].stale
  PROVE  Moved
<1>1. Fit(work[w], item, attempt)
  BY DEF RunInv, Fits
<1>2. c.at \in Attempting /\ c.at \notin Entitled /\ c.at \notin Ended /\ c.at # "judge"
  BY DEF Attempting, Entitled, Ended
<1>3. work[w].at \notin Ended
  BY DEF Attempting, Ended
<1>4. Fit(c, item, attempt)
  BY <1>1, <1>2, <1>3 DEF Fit
<1>5. ~Announces(c)
  BY <1>2 DEF Announces
<1>6. QED BY <1>2, <1>4, <1>5, MovesOn

LEMMA RunCollects ==
  ASSUME RunHypotheses, RunInv, NEW w \in Workers, Runs!Collect(w)
  PROVE  Moved
<1>1. work \in [Workers -> Works] /\ work[w] \in Works
  BY DEF RunInv, RunType
<1>2. work[w].at = "collect" /\ UNCHANGED <<item, attempt, told>>
  BY DEF Runs!Collect
<1>3. work[w].item \in Items
  BY <1>2 DEF RunInv, Fits, Fit, Attempting
<1>4. Yields[work[w].item] \in Seq(Candidates)
  BY <1>3 DEF RunHypotheses
<1>5. CASE \E left \in {<< >>, Yields[work[w].item]}, outcome \in {"succeeded", "partial"} :
             work' = [work EXCEPT ![w].at = "persist", ![w].left = left, ![w].outcome = outcome]
  <2>1. PICK left \in {<< >>, Yields[work[w].item]}, outcome \in {"succeeded", "partial"} :
          work' = [work EXCEPT ![w].at = "persist", ![w].left = left, ![w].outcome = outcome]
    BY <1>5
  <2> DEFINE c == [work[w] EXCEPT !.at = "persist", !.left = left, !.outcome = outcome]
  <2>2. left \in Seq(Candidates) /\ outcome \in Outcomes
    BY <1>4, NothingLeft DEF Outcomes
  <2>3. work' = [work EXCEPT ![w] = c]
    BY <1>1, <2>1
  <2>4. /\ c \in Works /\ c.at = "persist" /\ c.outcome \in Outcomes
        /\ c.item = work[w].item /\ c.no = work[w].no /\ c.told = work[w].told
        /\ c.stale = work[w].stale
    BY <1>1, <2>2 DEF Works, Attempting
  <2> HIDE DEF c
  <2>5. QED BY <1>2, <2>3, <2>4, GoesOn DEF Attempting
<1>6. CASE work' = [work EXCEPT ![w].at = "close", ![w].outcome = "failed"]
  <2> DEFINE c == [work[w] EXCEPT !.at = "close", !.outcome = "failed"]
  <2>1. work' = [work EXCEPT ![w] = c]
    BY <1>1, <1>6
  <2>2. /\ c \in Works /\ c.at = "close" /\ c.outcome \in Outcomes
        /\ c.item = work[w].item /\ c.no = work[w].no /\ c.told = work[w].told
        /\ c.stale = work[w].stale
    BY <1>1 DEF Works, Attempting, Outcomes
  <2> HIDE DEF c
  <2>3. QED BY <1>2, <2>1, <2>2, GoesOn DEF Attempting
<1>7. QED BY <1>5, <1>6, Zenon DEF Runs!Collect

LEMMA RunPersists ==
  ASSUME RunInv, NEW w \in Workers, Runs!Persist(w) \/ Runs!Persisted(w)
  PROVE  Moved
<1>1. work \in [Workers -> Works] /\ work[w] \in Works
  BY DEF RunInv, RunType
<1>2. work[w].at = "persist" /\ UNCHANGED <<item, attempt, told>>
  BY Zenon DEF Runs!Persist, Runs!Persisted
<1>3. work[w].outcome \in Outcomes /\ work[w].left \in Seq(Candidates)
  BY <1>1, <1>2 DEF RunInv, Fits, Fit, Works
<1>4. CASE work[w].left # << >> /\ work' = [work EXCEPT ![w].left = Tail(@)]
  <2> DEFINE left == Tail(work[w].left)
             c == [work[w] EXCEPT !.left = left]
  <2>1. left \in Seq(Candidates)
    BY <1>3, <1>4
  <2>2. work' = [work EXCEPT ![w] = c]
    BY <1>1, <1>4
  <2> HIDE DEF left
  <2>3. /\ c \in Works /\ c.at = "persist" /\ c.outcome \in Outcomes
        /\ c.item = work[w].item /\ c.no = work[w].no /\ c.told = work[w].told
        /\ c.stale = work[w].stale
    BY <1>1, <1>2, <1>3, <2>1 DEF Works
  <2> HIDE DEF c
  <2>4. QED BY <1>2, <2>2, <2>3, GoesOn DEF Attempting
<1>5. CASE work' = [work EXCEPT ![w].at = "close", ![w].outcome = "failed", ![w].left = << >>]
  <2> DEFINE c == [work[w] EXCEPT !.at = "close", !.outcome = "failed", !.left = << >>]
  <2>1. work' = [work EXCEPT ![w] = c]
    BY <1>1, <1>5
  <2>2. /\ c \in Works /\ c.at = "close" /\ c.outcome \in Outcomes
        /\ c.item = work[w].item /\ c.no = work[w].no /\ c.told = work[w].told
        /\ c.stale = work[w].stale
    BY <1>1, NothingLeft DEF Works, Attempting, Outcomes
  <2> HIDE DEF c
  <2>3. QED BY <1>2, <2>1, <2>2, GoesOn DEF Attempting
<1>6. CASE work' = [work EXCEPT ![w].at = "close"]
  <2> DEFINE c == [work[w] EXCEPT !.at = "close"]
  <2>1. work' = [work EXCEPT ![w] = c]
    BY <1>1, <1>6
  <2>2. /\ c \in Works /\ c.at = "close" /\ c.outcome \in Outcomes
        /\ c.item = work[w].item /\ c.no = work[w].no /\ c.told = work[w].told
        /\ c.stale = work[w].stale
    BY <1>1, <1>3 DEF Works, Attempting
  <2> HIDE DEF c
  <2>3. QED BY <1>2, <2>1, <2>2, GoesOn DEF Attempting
<1>7. QED BY <1>4, <1>5, <1>6, Zenon DEF Runs!Persist, Runs!Persisted

LEMMA RunCloses ==
  ASSUME RunInv, NEW w \in Workers, Runs!Close(w)
  PROVE  Moved
<1> DEFINE i == work[w].item
           n == work[w].no
<1>1. work \in [Workers -> Works] /\ work[w] \in Works
  BY DEF RunInv, RunType
<1>2. work[w].at = "close" /\ UNCHANGED <<item, told>>
  BY DEF Runs!Close
<1>3. Fit(work[w], item, attempt)
  BY DEF RunInv, Fits
<1>4. /\ i \in Items /\ item[i].status # "absent" /\ n \in DOMAIN attempt[i]
      /\ attempt[i][n].status \in {"running", "failed"} /\ work[w].outcome \in Outcomes
      /\ work[w].told = FALSE
  BY <1>1, <1>2, <1>3 DEF Fit, Attempting, Ended, Works
<1>5. \A s \in work[w].stale : s[1] \in Items /\ s[2] \in DOMAIN attempt[s[1]]
  BY <1>3 DEF Fit
<1>6. CASE Runs!Running(i, n)
  <2> DEFINE c == [work[w] EXCEPT !.at = "finish", !.told = TRUE]
             status == work[w].outcome
  <2>1. /\ attempt' = [attempt EXCEPT ![i][n].status = status]
        /\ work' = [work EXCEPT ![w].at = "finish", ![w].told = TRUE]
    BY <1>6 DEF Runs!Close
  <2>2. work' = [work EXCEPT ![w] = c]
    BY <1>1, <2>1
  <2>3. /\ c \in Works /\ c.at = "finish" /\ c.told /\ c.outcome = status /\ c.item = i
        /\ c.no = n /\ c.stale = work[w].stale
    BY <1>1 DEF Works, Ended
  <2> HIDE DEF c
  <2>4. attempt[i][n].status = "running"
    BY <1>6 DEF Runs!Running
  <2>5. /\ \A j \in Items : DOMAIN attempt'[j] = DOMAIN attempt[j]
        /\ attempt'[i][n].status = status
    <3>1. attempt \in [Items -> Seq(AttemptRows)]
      BY DEF RunInv, RunType
    <3> HIDE DEF i, n, status
    <3>2. status \in Outcomes
      BY <1>4 DEF status
    <3>3. /\ \A j \in Items \ {i} : attempt'[j] = attempt[j]
          /\ DOMAIN attempt'[i] = DOMAIN attempt[i] /\ attempt'[i][n].status = status
      BY <1>4, <2>1, <3>1, <3>2, StatusWritten
    <3>4. QED BY <3>3
  <2>6. Fit(c, item, attempt')
    BY <1>4, <1>5, <2>3, <2>5 DEF Fit, Attempting, Ended, Entitled
  <2>7. work[w].at \in Attempting
    BY <1>2 DEF Attempting
  <2> HIDE DEF i, n, status
  <2>8. status \in Outcomes /\ work[w].item = i /\ work[w].no = n
    BY <1>4 DEF status, i, n
  <2>9. QED BY <1>2, <1>4, <2>1, <2>2, <2>3, <2>4, <2>6, <2>7, <2>8, AttemptEnds
<1>7. CASE ~Runs!Running(i, n)
  <2>1. /\ UNCHANGED attempt
        /\ work' = [work EXCEPT ![w] =
             IF work[w].outcome = "failed" THEN [@ EXCEPT !.at = "finish"] ELSE Runs!After(w)]
    BY <1>7 DEF Runs!Close
  <2>2. CASE work[w].outcome = "failed"
    <3> DEFINE c == [work[w] EXCEPT !.at = "finish"]
    <3>1. work' = [work EXCEPT ![w] = c]
      BY <2>1, <2>2
    <3>2. /\ c \in Works /\ c.at = "finish" /\ c.told = FALSE /\ c.outcome = "failed"
          /\ c.item = i /\ c.no = n /\ c.stale = work[w].stale
      BY <1>1, <1>4, <2>2 DEF Works, Ended
    <3> HIDE DEF c
    <3>3. attempt[i][n].status = "failed"
      BY <1>4, <1>7 DEF Runs!Running
    <3>4. Fit(c, item, attempt)
      BY <1>4, <1>5, <3>2, <3>3 DEF Fit, Attempting, Ended, Entitled, Outcomes
    <3>5. c.at \notin Entitled /\ c.at \notin Attempting /\ ~Announces(c)
      BY <3>2 DEF Entitled, Attempting, Announces
    <3>6. QED BY <1>2, <2>1, <3>1, <3>2, <3>4, <3>5, MovesOn
  <2>3. CASE work[w].outcome # "failed"
    BY <1>2, <2>1, <2>3, RunGoesBack
  <2>4. QED BY <2>2, <2>3
<1>8. QED BY <1>6, <1>7

LEMMA RunFinishes ==
  ASSUME RunInv, NEW w \in Workers, Runs!Finish(w)
  PROVE  Moved
<1> DEFINE i == work[w].item
           n == work[w].no
           status == work[w].outcome
           c == [work[w] EXCEPT !.at = "tell"]
<1>1. work \in [Workers -> Works] /\ work[w] \in Works
  BY DEF RunInv, RunType
<1>2. /\ work[w].at = "finish" /\ item' = Runs!Completed(i, n, status)
      /\ work' = [work EXCEPT ![w].at = "tell"] /\ UNCHANGED <<attempt, told>>
  BY DEF Runs!Finish
<1>3. Fit(work[w], item, attempt)
  BY DEF RunInv, Fits
<1>4. /\ i \in Items /\ item[i].status # "absent" /\ n \in DOMAIN attempt[i]
      /\ status \in Outcomes /\ attempt[i][n].status = status
  BY <1>2, <1>3 DEF Fit, Ended
<1>5. work' = [work EXCEPT ![w] = c]
  BY <1>1, <1>2
<1>6. /\ c \in Works /\ c.at = "tell" /\ c.told = work[w].told /\ c.outcome = status
      /\ c.item = i /\ c.no = n /\ c.stale = work[w].stale
  BY <1>1 DEF Works, Ended
<1> HIDE DEF c, i, n, status
<1>7. /\ item' \in [Items -> ItemRows] /\ Kept(item, item', attempt, attempt) /\ ItemsAgree'
      /\ \A j \in Items : item[j].by > 0 => item'[j] = item[j]
  <2>1. attempt[i][n].status # "running"
    BY <1>4 DEF Outcomes
  <2>2. QED BY <1>2, <1>4, <2>1, ItemCompletes
<1>8. item'[i].status # "absent"
  BY <1>4, <1>7 DEF Kept
<1>9. \A s \in work[w].stale : s[1] \in Items /\ s[2] \in DOMAIN attempt[s[1]]
  BY <1>3 DEF Fit
<1>10. Fit(c, item', attempt)
  BY <1>4, <1>6, <1>8, <1>9 DEF Fit, Attempting, Ended, Entitled
<1>11. c.at \notin Entitled /\ c.at \notin Attempting
  BY <1>6 DEF Entitled, Attempting
<1>12. Announces(c) => Announces(work[w]) /\ c.item = work[w].item
  BY <1>2, <1>6 DEF Announces, Ended, i
<1>13. work' \in [Workers -> Works] /\ Fits' /\ AttemptsFollow' /\ OneTells'
  BY <1>2, <1>5, <1>6, <1>7, <1>10, <1>11, <1>12, RunMoves
<1>14. RunType'
  BY <1>2, <1>7, <1>13 DEF RunInv, RunType
<1>15. QED BY <1>2, <1>7, <1>13, <1>14 DEF RunInv, Moved, VerdictsStand

LEMMA RunTells ==
  ASSUME RunInv, NEW w \in Workers, Runs!Tell(w)
  PROVE  Moved
<1> DEFINE i == work[w].item
<1>1. /\ work[w] \in Works /\ work[w].at = "tell" /\ UNCHANGED <<item, attempt>>
      /\ work' = [work EXCEPT ![w] = Runs!After(w)]
      /\ told' = IF work[w].told THEN [told EXCEPT ![i] = @ + 1] ELSE told
  BY DEF RunInv, RunType, Runs!Tell
<1>2. CASE ~work[w].told
  BY <1>1, <1>2, RunGoesBack
<1>3. CASE work[w].told
  <2>1. i \in Items /\ item[i].status # "absent" /\ Announces(work[w])
    BY <1>1, <1>3 DEF RunInv, Fits, Fit, Announces, Ended
  <2>2. /\ told[i] = 0 /\ Rests(i, attempt)
        /\ \A x \in Workers : work[x].at \in Entitled => work[x].item # i
        /\ \A x \in Workers : x # w /\ Announces(work[x]) => work[x].item # i
    BY <2>1, Zenon DEF RunInv, OneTells
  <2> DEFINE c == Runs!After(w)
  <2>3. /\ c \in Works /\ c.at \in {"idle", "recover"} /\ c.told = FALSE
        /\ c.stale \subseteq work[w].stale
    BY AfterWorks
  <2>4. work' = [work EXCEPT ![w] = c]
    BY <1>1
  <2>5. Fit(c, item, attempt)
    BY <2>3, FitAtRest
  <2> HIDE DEF c, i
  <2>6. /\ work' \in [Workers -> Works] /\ work'[w] = c
        /\ \A x \in Workers \ {w} : work'[x] = work[x]
    BY <2>3, <2>4, WorkMoves
  <2>7. c.at \notin Entitled /\ c.at \notin Attempting /\ ~Announces(c)
    BY <2>3 DEF Entitled, Attempting, Announces
  <2>8. \A x \in Workers : work'[x].at \in Entitled \/ work'[x].at \in Attempting \/ Announces(work'[x]) =>
          work'[x] = work[x] /\ x # w
    BY <2>6, <2>7
  <2>9. told \in [Items -> Nat] /\ told' = [told EXCEPT ![i] = told[i] + 1]
    BY <1>1, <1>3 DEF RunInv, RunType, i
  <2>10. told' \in [Items -> Nat] /\ told'[i] = 1 /\ \A j \in Items \ {i} : told'[j] = told[j]
    BY <2>1, <2>2, <2>9
  <2>11. RunType'
    BY <1>1, <2>6, <2>10 DEF RunInv, RunType
  <2>12. Fits'
    BY <1>1, <2>5, <2>6 DEF RunInv, Fits
  <2>13. AttemptsFollow'
    BY <1>1, <2>8 DEF RunInv, AttemptsFollow
  <2>14. OneTells'
    <3>1. \A j \in Items : told'[j] <= 1
      BY <2>10 DEF RunInv, OneTells
    <3>2. ASSUME NEW j \in Items, told'[j] # 0
          PROVE  Rests(j, attempt') /\ \A x \in Workers : work'[x].at \in Entitled => work'[x].item # j
      <4>1. CASE j = i
        BY <1>1, <2>2, <2>8, <4>1
      <4>2. CASE j # i
        <5>1. Rests(j, attempt) /\ \A x \in Workers : work[x].at \in Entitled => work[x].item # j
          BY <2>10, <3>2, <4>2 DEF RunInv, OneTells
        <5>2. QED BY <1>1, <2>8, <5>1
      <4>3. QED BY <4>1, <4>2
    <3>3. ASSUME NEW v \in Workers, Announces(work'[v])
          PROVE  /\ told'[work'[v].item] = 0 /\ Rests(work'[v].item, attempt')
                 /\ \A x \in Workers : work'[x].at \in Entitled => work'[x].item # work'[v].item
                 /\ \A x \in Workers : x # v /\ Announces(work'[x]) => work'[x].item # work'[v].item
      <4>1. /\ v # w /\ work'[v] = work[v] /\ Announces(work[v]) /\ work[v].item # i
            /\ work[v].item \in Items
        BY <2>2, <2>8, <3>3 DEF RunInv, Fits, Fit, Announces
      <4>2. /\ told[work[v].item] = 0 /\ Rests(work[v].item, attempt)
            /\ \A x \in Workers : work[x].at \in Entitled => work[x].item # work[v].item
            /\ \A x \in Workers : x # v /\ Announces(work[x]) => work[x].item # work[v].item
        BY <4>1, Zenon DEF RunInv, OneTells
      <4>3. QED BY <1>1, <2>8, <2>10, <4>1, <4>2
    <3>4. QED BY <3>1, <3>2, <3>3, Zenon DEF OneTells
  <2>15. ItemsAgree'
    <3>1. ASSUME NEW j \in Items
          PROVE  /\ item'[j].by \in 0 .. Len(attempt'[j])
                 /\ item'[j].by > 0 =>
                      LET last == attempt'[j][item'[j].by].status
                      IN last # "running" /\ (last # "failed" => item'[j].status = last)
                 /\ item'[j].status = "absent" =>
                      item'[j].by = 0 /\ attempt'[j] = << >> /\ told'[j] = 0
      <4>1. item[j].status = "absent" => j # i
        BY <2>1
      <4>2. QED BY <1>1, <2>10, <4>1 DEF RunInv, ItemsAgree
    <3>2. QED BY <3>1 DEF ItemsAgree
  <2>16. QED BY <1>1, <2>11, <2>12, <2>13, <2>14, <2>15 DEF RunInv, Moved, VerdictsStand
<1>4. QED BY <1>2, <1>3

LEMMA StaleFits ==
  ASSUME RunInv
  PROVE  /\ Runs!Stale \subseteq Items \X Nat
         /\ \A s \in Runs!Stale : s[1] \in Items /\ s[2] \in DOMAIN attempt[s[1]]
<1>1. attempt \in [Items -> Seq(AttemptRows)]
  BY DEF RunInv, RunType
<1>2. ASSUME NEW s \in Runs!Stale
      PROVE  s \in Items \X Nat /\ s[1] \in Items /\ s[2] \in DOMAIN attempt[s[1]]
  <2>1. PICK i \in Items : s \in {<<i, n>> : n \in {m \in DOMAIN attempt[i] :
                                      Runs!Running(i, m) /\ attempt[i][m].lapsed}}
    BY Zenon DEF Runs!Stale
  <2>2. PICK n \in DOMAIN attempt[i] : s = <<i, n>>
    BY <2>1, Zenon
  <2>3. n \in Nat
    BY <1>1, <2>1
  <2>4. QED BY <2>2, <2>3
<1>3. QED BY <1>2

LEMMA RunBoots ==
  ASSUME RunInv, NEW w \in Workers, Runs!Boot(w)
  PROVE  Moved
<1> DEFINE stale == Runs!Stale
           c == [work[w] EXCEPT !.at = "recover", !.boot = TRUE, !.stale = stale]
<1>1. /\ work \in [Workers -> Works] /\ work[w] \in Works /\ work[w] = Runs!Idle
      /\ UNCHANGED <<item, attempt, told>>
  BY DEF RunInv, RunType, Runs!Boot
<1>2. work' = [work EXCEPT ![w] = c]
  BY <1>1 DEF Runs!Boot
<1>3. /\ stale \subseteq Items \X Nat
      /\ \A s \in stale : s[1] \in Items /\ s[2] \in DOMAIN attempt[s[1]]
  BY StaleFits
<1> HIDE DEF stale
<1>4. c \in Works /\ c.at = "recover" /\ c.told = FALSE /\ c.stale = stale
  BY <1>1, <1>3, IdleWorks DEF Works
<1> HIDE DEF c
<1>5. c.at \notin Entitled /\ c.at \notin Attempting /\ c.at \notin Ended
  BY <1>4 DEF Entitled, Attempting, Ended
<1>6. Fit(c, item, attempt)
  BY <1>3, <1>4, <1>5 DEF Fit
<1>7. ~Announces(c)
  BY <1>5 DEF Announces
<1>8. QED BY <1>1, <1>2, <1>4, <1>5, <1>6, <1>7, MovesOn

LEMMA StaleIsMarked ==
  ASSUME RunInv, NEW w \in Workers, Runs!MarkStale(w)
  PROVE  Moved
<1>1. PICK s \in work[w].stale :
        /\ work[w].at = "recover"
        /\ attempt' = IF Runs!Running(s[1], s[2]) THEN [attempt EXCEPT ![s[1]][s[2]].status = "failed"]
                      ELSE attempt
        /\ work' = [work EXCEPT ![w].stale = @ \ {s}, ![w].item = s[1], ![w].no = s[2],
                                ![w].at = IF Runs!Running(s[1], s[2]) THEN "judge" ELSE "recover"]
        /\ UNCHANGED <<item, found, told, overruns, deaths>>
  BY Zenon DEF Runs!MarkStale
<1> DEFINE i == s[1]
           n == s[2]
           left == work[w].stale \ {s}
           next == IF Runs!Running(i, n) THEN "judge" ELSE "recover"
           c == [work[w] EXCEPT !.stale = left, !.item = i, !.no = n, !.at = next]
<1>2. /\ work \in [Workers -> Works] /\ work[w] \in Works /\ item \in [Items -> ItemRows]
      /\ attempt \in [Items -> Seq(AttemptRows)]
  BY DEF RunInv, RunType
<1>3. Fit(work[w], item, attempt)
  BY DEF RunInv, Fits
<1>4. i \in Items /\ n \in DOMAIN attempt[i] /\ n \in Nat
  BY <1>2, <1>3 DEF Fit
<1>5. \A t \in left : t[1] \in Items /\ t[2] \in DOMAIN attempt[t[1]]
  BY <1>3 DEF Fit
<1>6. left \in SUBSET (Items \X Nat) /\ work[w].told = FALSE
  BY <1>1, <1>2, <1>3 DEF Works, Fit, Ended
<1>7. item[i].status # "absent"
  <2>1. attempt[i] # << >>
    BY <1>4
  <2>2. QED BY <1>4, <2>1 DEF RunInv, ItemsAgree
<1>8. work' = [work EXCEPT ![w] = c]
  BY <1>1, <1>2
<1>9. next \in {"judge", "recover"}
  OBVIOUS
<1> HIDE DEF left, next
<1>10. /\ c \in Works /\ c.at = next /\ c.told = FALSE /\ c.item = i /\ c.no = n /\ c.stale = left
  BY <1>2, <1>4, <1>6, <1>9 DEF Works, Entitled
<1> HIDE DEF c, i, n
<1>11. CASE Runs!Running(i, n)
  <2>1. next = "judge" /\ attempt' = [attempt EXCEPT ![i][n].status = "failed"]
        /\ UNCHANGED <<item, told>>
    BY <1>1, <1>11 DEF next, i, n
  <2>2. attempt[i][n].status = "running" /\ "failed" \in Outcomes
    BY <1>11 DEF Runs!Running, Outcomes
  <2>3. /\ \A j \in Items \ {i} : attempt'[j] = attempt[j]
        /\ DOMAIN attempt'[i] = DOMAIN attempt[i] /\ attempt'[i][n].status = "failed"
    BY <1>2, <1>4, <2>1, <2>2, StatusWritten
  <2>4. \A j \in Items : DOMAIN attempt'[j] = DOMAIN attempt[j]
    BY <2>3
  <2>5. Fit(c, item, attempt')
    BY <1>4, <1>5, <1>7, <1>10, <2>1, <2>3, <2>4 DEF Fit, Attempting, Ended, Entitled
  <2>6. QED BY <1>4, <1>8, <1>10, <2>1, <2>2, <2>5, AttemptEnds
<1>12. CASE ~Runs!Running(i, n)
  <2>1. next = "recover" /\ UNCHANGED <<item, attempt, told>>
    BY <1>1, <1>12 DEF next, i, n
  <2>2. c.at \notin Entitled /\ c.at \notin Attempting /\ c.at \notin Ended
    BY <1>10, <2>1 DEF Entitled, Attempting, Ended
  <2>3. Fit(c, item, attempt)
    BY <1>5, <1>10, <2>1, <2>2 DEF Fit
  <2>4. ~Announces(c)
    BY <2>2 DEF Announces
  <2>5. QED BY <1>8, <1>10, <2>1, <2>2, <2>3, <2>4, MovesOn
<1>13. QED BY <1>11, <1>12

(* A process goes on at rest, with an item that may have been completed.     *)
LEMMA ItemJudged ==
  ASSUME RunInv, NEW w \in Workers, NEW c \in Works, work' = [work EXCEPT ![w] = c],
         UNCHANGED <<attempt, told>>, c.at \in {"idle", "recover", "sweep"}, c.told = FALSE,
         c.stale \subseteq work[w].stale,
         item' \in [Items -> ItemRows], Kept(item, item', attempt, attempt), ItemsAgree',
         \A j \in Items : item[j].by > 0 => item'[j] = item[j]
  PROVE  Moved
<1>1. c.at \notin Entitled /\ c.at \notin Attempting /\ ~Announces(c)
  BY DEF Entitled, Attempting, Ended, Announces
<1>2. Fit(c, item', attempt)
  <2> DEFINE it == item'
  <2>1. Fit(c, item, attempt)
    BY FitAtRest
  <2>2. Kept(item, it, attempt, attempt)
    OBVIOUS
  <2> HIDE DEF it
  <2>3. Fit(c, it, attempt)
    BY <1>1, <2>1, <2>2, StillFits
  <2>4. QED BY <2>3 DEF it
<1>3. work' \in [Workers -> Works] /\ Fits' /\ AttemptsFollow' /\ OneTells'
  BY <1>1, <1>2, RunMoves
<1>4. RunType'
  BY <1>3 DEF RunInv, RunType
<1>5. QED BY <1>3, <1>4 DEF RunInv, Moved, VerdictsStand

LEMMA AttemptJudged ==
  ASSUME RunInv, NEW w \in Workers, Runs!Judge(w)
  PROVE  Moved
<1> DEFINE i == work[w].item
           n == work[w].no
<1>1. work \in [Workers -> Works] /\ work[w] \in Works
  BY DEF RunInv, RunType
<1>2. work[w].at = "judge" /\ UNCHANGED <<attempt, told>>
  BY DEF Runs!Judge
<1>3. Fit(work[w], item, attempt)
  BY DEF RunInv, Fits
<1>4. /\ i \in Items /\ n \in DOMAIN attempt[i] /\ attempt[i][n].status = "failed"
      /\ item[i].status # "absent"
  BY <1>2, <1>3 DEF Fit, Entitled
<1>5. /\ Runs!After(w) \in Works /\ Runs!After(w).at \in {"idle", "recover"}
      /\ Runs!After(w).told = FALSE /\ Runs!After(w).stale \subseteq work[w].stale
  BY AfterWorks
<1>6. CASE item' = Runs!Completed(i, n, "succeeded") /\ work' = [work EXCEPT ![w] = Runs!After(w)]
  <2> HIDE DEF i, n
  <2>1. /\ item' \in [Items -> ItemRows] /\ Kept(item, item', attempt, attempt) /\ ItemsAgree'
        /\ \A j \in Items : item[j].by > 0 => item'[j] = item[j]
    <3>1. "succeeded" \in Outcomes /\ attempt[i][n].status # "running"
      BY <1>4 DEF Outcomes
    <3>2. QED BY <1>2, <1>4, <1>6, <3>1, ItemCompletes
  <2> DEFINE c == Runs!After(w)
  <2>2. /\ c \in Works /\ c.at \in {"idle", "recover"} /\ c.told = FALSE
        /\ c.stale \subseteq work[w].stale /\ work' = [work EXCEPT ![w] = c]
    BY <1>5, <1>6
  <2> HIDE DEF c
  <2>3. QED BY <1>2, <2>1, <2>2, ItemJudged
<1>7. CASE UNCHANGED item /\ work' = [work EXCEPT ![w] = Runs!After(w)]
  BY <1>2, <1>7, RunGoesBack
<1>8. CASE UNCHANGED item /\ work' = [work EXCEPT ![w] = [Runs!After(w) EXCEPT !.at = "reserved", !.item = i]]
  <2> DEFINE after == Runs!After(w)
             c == [after EXCEPT !.at = "reserved", !.item = i]
  <2>1. after \in Works /\ after.told = FALSE /\ after.stale \subseteq work[w].stale
    BY <1>5
  <2>2. work' = [work EXCEPT ![w] = c]
    BY <1>8
  <2> HIDE DEF after
  <2>3. c \in Works /\ c.at = "reserved" /\ c.item = i /\ c.told = FALSE /\ c.stale \subseteq work[w].stale
    BY <1>4, <2>1 DEF Works, Entitled
  <2> HIDE DEF c
  <2>4. \A s \in work[w].stale : s[1] \in Items /\ s[2] \in DOMAIN attempt[s[1]]
    BY <1>3 DEF Fit
  <2>5. Fit(c, item, attempt)
    BY <1>4, <2>3, <2>4 DEF Fit, Attempting, Ended
  <2>6. c.at \notin Attempting /\ ~Announces(c) /\ work[w].at \in Entitled /\ c.item = work[w].item
    BY <1>2, <2>3 DEF Attempting, Announces, Entitled
  <2>7. QED BY <1>2, <1>8, <2>2, <2>3, <2>5, <2>6, MovesOn
<1>9. QED BY <1>6, <1>7, <1>8, Zenon DEF Runs!Judge

LEMMA SweepBegins ==
  ASSUME RunInv, NEW w \in Workers, Runs!BeginSweep(w)
  PROVE  Moved
<1> DEFINE sweep == {i \in Items : item[i].status = "pending"}
           c == [work[w] EXCEPT !.at = "sweep", !.sweep = sweep]
<1>1. /\ work \in [Workers -> Works] /\ work[w] \in Works /\ work[w].at = "recover"
      /\ UNCHANGED <<item, attempt, told>>
  BY DEF RunInv, RunType, Runs!BeginSweep
<1>2. work' = [work EXCEPT ![w] = c]
  BY <1>1 DEF Runs!BeginSweep
<1>3. work[w].told = FALSE
  BY <1>1 DEF RunInv, Fits, Fit, Ended, Works
<1>4. sweep \in SUBSET Items
  OBVIOUS
<1> HIDE DEF sweep
<1>5. c \in Works /\ c.at = "sweep" /\ c.told = FALSE /\ c.stale = work[w].stale
  BY <1>1, <1>3, <1>4 DEF Works
<1> HIDE DEF c
<1>6. Fit(c, item, attempt)
  BY <1>5, FitAtRest
<1>7. c.at \notin Entitled /\ c.at \notin Attempting /\ ~Announces(c)
  BY <1>5 DEF Entitled, Attempting, Ended, Announces
<1>8. QED BY <1>1, <1>2, <1>5, <1>6, <1>7, MovesOn

LEMMA ItemSwept ==
  ASSUME RunInv, NEW i \in Items, item' = Runs!Swept(i), UNCHANGED <<attempt, told>>
  PROVE  /\ item' \in [Items -> ItemRows] /\ Kept(item, item', attempt, attempt) /\ ItemsAgree'
         /\ \A j \in Items : item[j].by > 0 => item'[j] = item[j]
<1> DEFINE n == Len(attempt[i])
           last == attempt[i][n].status
           status == IF last # "failed" THEN last ELSE IF Runs!Committed(i, n) THEN "partial" ELSE "failed"
<1>1. attempt[i] \in Seq(AttemptRows) /\ n \in Nat
  BY DEF RunInv, RunType
<1>2. CASE n = 0 \/ last = "running"
  <2>1. item' = item
    BY <1>2 DEF Runs!Swept, Runs!Latest
  <2>2. QED BY <2>1, SameItems, SameItemsAgree
<1>3. CASE n # 0 /\ last # "running"
  <2>1. item' = Runs!Completed(i, n, status)
    BY <1>3, Zenon DEF Runs!Swept, Runs!Latest
  <2>2. n \in DOMAIN attempt[i]
    BY <1>1, <1>3
  <2>3. last \in {"running"} \cup Outcomes
    <3>1. attempt[i][n] \in AttemptRows
      BY <1>1, <2>2
    <3> HIDE DEF n
    <3>2. QED BY <3>1 DEF AttemptRows
  <2>4. status \in Outcomes /\ (last # "failed" => status = last)
    BY <1>3, <2>3 DEF Outcomes
  <2> HIDE DEF status, n
  <2>5. QED BY <1>3, <2>1, <2>2, <2>4, ItemCompletes
<1>4. QED BY <1>2, <1>3

LEMMA RunSweeps ==
  ASSUME RunInv, NEW w \in Workers, Runs!Sweep(w)
  PROVE  Moved
<1>1. /\ work \in [Workers -> Works] /\ work[w] \in Works /\ work[w].at = "sweep"
      /\ UNCHANGED <<attempt, told>>
  BY DEF RunInv, RunType, Runs!Sweep
<1>2. work[w].told = FALSE
  BY <1>1 DEF RunInv, Fits, Fit, Ended, Works
<1>3. CASE \E i \in work[w].sweep : item' = Runs!Swept(i) /\ work' = [work EXCEPT ![w].sweep = @ \ {i}]
  <2>1. PICK i \in work[w].sweep : item' = Runs!Swept(i) /\ work' = [work EXCEPT ![w].sweep = @ \ {i}]
    BY <1>3
  <2> DEFINE sweep == work[w].sweep \ {i}
             c == [work[w] EXCEPT !.sweep = sweep]
  <2>2. sweep \in SUBSET Items /\ i \in Items
    BY <1>1 DEF Works
  <2>3. work' = [work EXCEPT ![w] = c]
    BY <1>1, <2>1
  <2> HIDE DEF sweep
  <2>4. c \in Works /\ c.at = "sweep" /\ c.told = FALSE /\ c.stale = work[w].stale
    BY <1>1, <1>2, <2>2 DEF Works
  <2> HIDE DEF c
  <2>5. /\ item' \in [Items -> ItemRows] /\ Kept(item, item', attempt, attempt) /\ ItemsAgree'
        /\ \A j \in Items : item[j].by > 0 => item'[j] = item[j]
    BY <1>1, <2>1, <2>2, ItemSwept
  <2>6. QED BY <1>1, <2>3, <2>4, <2>5, ItemJudged
<1>4. CASE work' = [work EXCEPT ![w] = Runs!Idle] /\ UNCHANGED item
  BY <1>1, <1>4, RunGoesBack
<1>5. QED BY <1>3, <1>4, Zenon DEF Runs!Sweep

LEMMA ItemReserved ==
  ASSUME RunInv, NEW w \in Workers, NEW i \in Items, Runs!Reserve(w, i) \/ Runs!Rerun(w, i)
  PROVE  Moved
<1>1. item \in [Items -> ItemRows] /\ item[i] \in ItemRows /\ item[i].by = 0
  BY DEF RunInv, RunType, ItemsAgree, Runs!Reserve, Runs!Rerun
<1>2. /\ work[w] = Runs!Idle /\ item[i].status = "absent" /\ UNCHANGED <<attempt, told>>
      /\ work' = [work EXCEPT ![w].at = "reserved", ![w].item = i]
  BY Zenon DEF Runs!Reserve, Runs!Rerun
<1>3. CASE Runs!Reserve(w, i)
  <2> DEFINE row == [item[i] EXCEPT !.status = "pending"]
  <2>1. row \in ItemRows /\ row.status = "pending" /\ row.by = 0
    BY <1>1 DEF ItemRows
  <2>2. item' = [item EXCEPT ![i] = row]
    BY <1>1, <1>3 DEF Runs!Reserve
  <2> HIDE DEF row
  <2>3. QED BY <1>2, <2>1, <2>2, ItemBegins
<1>4. CASE Runs!Rerun(w, i)
  <2>1. PICK prior \in IF Runs!Present = {} THEN {Runs!None} ELSE Runs!Newest :
          item' = [item EXCEPT ![i] =
            [Runs!NoItem EXCEPT !.status = "pending", !.prior = prior,
                                !.gen = 1 + IF prior = Runs!None THEN 0 ELSE item[prior].gen]]
    BY <1>4, Zenon DEF Runs!Rerun
  <2>2. prior \in Items \cup {"none"}
    BY <2>1 DEF Runs!Newest, Runs!Present
  <2> DEFINE gen == 1 + IF prior = Runs!None THEN 0 ELSE item[prior].gen
             row == [Runs!NoItem EXCEPT !.status = "pending", !.prior = prior, !.gen = gen]
  <2>3. gen \in Nat
    <3>1. CASE prior = "none"
      BY <3>1
    <3>2. CASE prior # "none"
      <4>1. item[prior].gen \in Nat
        BY <1>1, <2>2, <3>2 DEF ItemRows
      <4>2. QED BY <3>2, <4>1
    <3>3. QED BY <3>1, <3>2
  <2>4. item' = [item EXCEPT ![i] = row]
    BY <2>1
  <2> HIDE DEF gen
  <2>5. row \in ItemRows /\ row.status = "pending" /\ row.by = 0
    BY <2>2, <2>3 DEF ItemRows, Runs!NoItem
  <2> HIDE DEF row
  <2>6. QED BY <1>2, <2>4, <2>5, ItemBegins
<1>5. QED BY <1>3, <1>4

LEMMA RunCrashes ==
  ASSUME RunInv, NEW w \in Workers, Runs!Crash(w)
  PROVE  Moved
BY RunGoesBack DEF Runs!Crash

LEMMA RunStays ==
  ASSUME RunInv, UNCHANGED <<item, attempt, work, told>>
  PROVE  Moved
<1>1. RunType' /\ Fits'
  BY DEF RunInv, RunType, Fits
<1>2. AttemptsFollow'
  BY DEF RunInv, AttemptsFollow
<1>3. OneTells' /\ ItemsAgree'
  BY DEF RunInv, OneTells, ItemsAgree
<1>4. QED BY <1>1, <1>2, <1>3 DEF RunInv, Moved, VerdictsStand

LEMMA RunNext ==
  ASSUME RunHypotheses, RunInv, [Runs!Next]_(Runs!vars)
  PROVE  Moved
<1>1. ASSUME NEW w \in Workers, Runs!Step(w)
      PROVE  Moved
  BY <1>1, AttemptOpens, RunCollects, RunPersists, RunCloses, RunFinishes, RunTells, StaleIsMarked,
     AttemptJudged, SweepBegins, RunSweeps, Zenon DEF Runs!Step
<1>2. CASE UNCHANGED Runs!vars
  BY <1>2, RunStays DEF Runs!vars
<1>3. QED
  BY <1>1, <1>2, RunBoots, RunCrashes, ItemReserved, AttemptLapses, Zenon DEF Runs!Next

LEMMA RunInit == Runs!Init => RunInv
<1> SUFFICES ASSUME Runs!Init PROVE RunInv
  OBVIOUS
<1>1. /\ item = [i \in Items |-> Runs!NoItem] /\ attempt = [i \in Items |-> << >>]
      /\ work = [w \in Workers |-> Runs!Idle] /\ told = [i \in Items |-> 0]
  BY DEF Runs!Init
<1>2. Runs!NoItem \in ItemRows /\ Runs!NoItem.status = "absent" /\ Runs!NoItem.by = 0
  BY DEF Runs!NoItem, ItemRows
<1>3. << >> \in Seq(AttemptRows)
  OBVIOUS
<1>4. /\ \A i \in Items : item[i].status = "absent" /\ item[i].by = 0 /\ attempt[i] = << >> /\ told[i] = 0
      /\ \A w \in Workers : work[w].at = "idle" /\ work[w].told = FALSE /\ work[w].stale = {}
  BY <1>1, <1>2, IdleWorks
<1>5. RunType
  BY <1>1, <1>2, <1>3, IdleWorks DEF RunType
<1>6. Fits
  BY <1>4 DEF Fits, Fit, Entitled, Attempting, Ended
<1>7. AttemptsFollow
  BY <1>4 DEF AttemptsFollow, Entitled, Attempting
<1>8. OneTells
  BY <1>4 DEF OneTells, Announces, Ended
<1>9. ItemsAgree
  BY <1>4 DEF ItemsAgree
<1>10. QED BY <1>5, <1>6, <1>7, <1>8, <1>9 DEF RunInv

(* The Findings of a claim have different revisions, one of them is newest,  *)
(* and every one but the first names the one before it.                      *)
KnownIn(f) == {c \in Candidates : f[c].count > 0}
Line(f) ==
  /\ f \in [Candidates -> FindingRows]
  /\ \A c \in KnownIn(f) : f[c].revision # 0
  /\ \A c, d \in KnownIn(f) : c # d /\ Family[c] = Family[d] => f[c].revision # f[d].revision
  /\ \A c \in KnownIn(f) : \E d \in KnownIn(f) :
       Family[d] = Family[c] /\
         \A e \in KnownIn(f) : Family[e] = Family[c] => f[e].revision <= f[d].revision
  /\ \A c \in KnownIn(f) :
       IF f[c].prior = "none" THEN f[c].revision = 1
       ELSE /\ f[c].prior \in KnownIn(f) /\ Family[f[c].prior] = Family[c]
            /\ f[f[c].prior].revision + 1 = f[c].revision

Follows(row, c, f) ==
  \/ /\ row.prior = "none" /\ row.revision = 1
     /\ \A e \in KnownIn(f) : Family[e] # Family[c]
  \/ /\ row.prior \in KnownIn(f) /\ Family[row.prior] = Family[c]
     /\ row.revision = f[row.prior].revision + 1
     /\ \A e \in KnownIn(f) : Family[e] = Family[c] => f[e].revision <= f[row.prior].revision

LEMMA LineRows ==
  ASSUME NEW f, Line(f), NEW c \in KnownIn(f)
  PROVE  c \in Candidates /\ f[c] \in FindingRows /\ f[c].revision \in Nat /\ f[c].revision # 0
BY DEF Line, KnownIn, FindingRows

LEMMA LineRecurs ==
  ASSUME RunHypotheses, NEW f, Line(f), NEW c \in KnownIn(f), NEW row \in FindingRows, row.count > 0,
         row.revision = f[c].revision, row.prior = f[c].prior, NEW g, g = [f EXCEPT ![c] = row]
  PROVE  Line(g)
<1>1. f \in [Candidates -> FindingRows] /\ c \in Candidates
  BY DEF Line, KnownIn
<1>2. /\ g \in [Candidates -> FindingRows] /\ g[c] = row
      /\ \A d \in Candidates \ {c} : g[d] = f[d]
  BY <1>1
<1>3. /\ KnownIn(g) = KnownIn(f)
      /\ \A d \in KnownIn(f) : g[d].revision = f[d].revision /\ g[d].prior = f[d].prior
  BY <1>1, <1>2 DEF KnownIn
<1>4. \A d \in KnownIn(g) : g[d].revision # 0
  BY <1>3 DEF Line
<1>5. \A d, e \in KnownIn(g) : d # e /\ Family[d] = Family[e] => g[d].revision # g[e].revision
  BY <1>3 DEF Line
<1>6. ASSUME NEW d \in KnownIn(g)
      PROVE  \E e \in KnownIn(g) :
               Family[e] = Family[d] /\
                 \A h \in KnownIn(g) : Family[h] = Family[d] => g[h].revision <= g[e].revision
  <2>1. PICK e \in KnownIn(f) :
          Family[e] = Family[d] /\
            \A h \in KnownIn(f) : Family[h] = Family[d] => f[h].revision <= f[e].revision
    BY <1>3, Zenon DEF Line
  <2>2. QED BY <1>3, <2>1
<1>7. ASSUME NEW d \in KnownIn(g)
      PROVE  IF g[d].prior = "none" THEN g[d].revision = 1
             ELSE /\ g[d].prior \in KnownIn(g) /\ Family[g[d].prior] = Family[d]
                  /\ g[g[d].prior].revision + 1 = g[d].revision
  BY <1>3 DEF Line
<1>8. QED BY <1>2, <1>4, <1>5, <1>6, <1>7, Zenon DEF Line

LEMMA LineGrows ==
  ASSUME RunHypotheses, NEW f, Line(f), NEW c \in Candidates \ KnownIn(f), NEW row \in FindingRows,
         row.count > 0, Follows(row, c, f), NEW g, g = [f EXCEPT ![c] = row]
  PROVE  Line(g)
<1>1. f \in [Candidates -> FindingRows] /\ c \in Candidates
  BY DEF Line
<1>2. /\ g \in [Candidates -> FindingRows] /\ g[c] = row
      /\ \A d \in Candidates \ {c} : g[d] = f[d]
  BY <1>1
<1>3. KnownIn(g) = KnownIn(f) \cup {c} /\ \A d \in KnownIn(f) : g[d] = f[d] /\ d # c
  BY <1>1, <1>2 DEF KnownIn
<1>4. /\ row.revision \in Nat /\ row.revision # 0
      /\ \A e \in KnownIn(f) : Family[e] = Family[c] => f[e].revision < row.revision
  <2>1. \A e \in KnownIn(f) : f[e].revision \in Nat /\ f[e].revision # 0
    BY LineRows
  <2>2. row.revision \in Nat
    BY DEF FindingRows
  <2>3. QED BY <2>1, <2>2 DEF Follows
<1>5. \A d \in KnownIn(f) : f[d].revision \in Nat
  BY LineRows
<1>6. \A d \in KnownIn(g) : g[d].revision # 0
  BY <1>2, <1>3, <1>4 DEF Line
<1>7. /\ \A d \in KnownIn(g) : d = c \/ d \in KnownIn(f)
      /\ g[c].revision = row.revision
      /\ \A d \in KnownIn(f) : g[d].revision = f[d].revision
  BY <1>2, <1>3
<1>8. ASSUME NEW d \in KnownIn(g), NEW e \in KnownIn(g), d # e, Family[d] = Family[e]
      PROVE  g[d].revision # g[e].revision
  <2>1. CASE d = c
    <3>1. e \in KnownIn(f) /\ Family[e] = Family[c]
      BY <1>7, <1>8, <2>1
    <3>2. QED BY <1>4, <1>5, <1>7, <2>1, <3>1
  <2>2. CASE e = c
    <3>1. d \in KnownIn(f) /\ Family[d] = Family[c]
      BY <1>7, <1>8, <2>2
    <3>2. QED BY <1>4, <1>5, <1>7, <2>2, <3>1
  <2>3. CASE d # c /\ e # c
    <3>1. d \in KnownIn(f) /\ e \in KnownIn(f)
      BY <1>7, <2>3
    <3>2. f[d].revision # f[e].revision
      BY <1>8, <3>1, Zenon DEF Line
    <3>3. QED BY <1>7, <3>1, <3>2
  <2>4. QED BY <2>1, <2>2, <2>3
<1>9. ASSUME NEW d \in KnownIn(g)
      PROVE  \E e \in KnownIn(g) :
               Family[e] = Family[d] /\
                 \A h \in KnownIn(g) : Family[h] = Family[d] => g[h].revision <= g[e].revision
  <2>1. CASE Family[d] = Family[c]
    <3>1. ASSUME NEW h \in KnownIn(g), Family[h] = Family[d] PROVE g[h].revision <= g[c].revision
      <4>1. CASE h = c
        BY <1>4, <1>7, <4>1
      <4>2. CASE h # c
        <5>1. h \in KnownIn(f) /\ Family[h] = Family[c]
          BY <1>7, <2>1, <3>1, <4>2
        <5>2. QED BY <1>4, <1>5, <1>7, <5>1
      <4>3. QED BY <4>1, <4>2
    <3>2. c \in KnownIn(g)
      BY <1>3
    <3>3. QED BY <2>1, <3>1, <3>2
  <2>2. CASE Family[d] # Family[c]
    <3>1. d \in KnownIn(f)
      BY <1>3, <2>2
    <3>2. PICK e \in KnownIn(f) :
            Family[e] = Family[d] /\
              \A h \in KnownIn(f) : Family[h] = Family[d] => f[h].revision <= f[e].revision
      BY <3>1, Zenon DEF Line
    <3>3. e \in KnownIn(g) /\ g[e] = f[e]
      BY <1>3
    <3>4. ASSUME NEW h \in KnownIn(g), Family[h] = Family[d] PROVE g[h].revision <= g[e].revision
      BY <1>3, <2>2, <3>2, <3>3, <3>4
    <3>5. QED BY <3>2, <3>3, <3>4
  <2>3. QED BY <2>1, <2>2
<1>10. ASSUME NEW d \in KnownIn(g)
      PROVE  IF g[d].prior = "none" THEN g[d].revision = 1
             ELSE /\ g[d].prior \in KnownIn(g) /\ Family[g[d].prior] = Family[d]
                  /\ g[g[d].prior].revision + 1 = g[d].revision
  <2>1. CASE d = c
    <3>1. "none" \notin KnownIn(f)
      BY DEF RunHypotheses, KnownIn
    <3>2. QED BY <1>2, <1>3, <2>1, <3>1 DEF Follows
  <2>2. CASE d # c
    <3>1. d \in KnownIn(f) /\ g[d] = f[d]
      BY <1>3, <2>2
    <3>2. IF f[d].prior = "none" THEN f[d].revision = 1
          ELSE /\ f[d].prior \in KnownIn(f) /\ Family[f[d].prior] = Family[d]
               /\ f[f[d].prior].revision + 1 = f[d].revision
      BY <3>1, Zenon DEF Line
    <3>3. QED BY <1>3, <3>1, <3>2
  <2>3. QED BY <2>1, <2>2
<1>11. \A d, e \in KnownIn(g) : d # e /\ Family[d] = Family[e] => g[d].revision # g[e].revision
  BY <1>8
<1>12. QED BY <1>2, <1>6, <1>9, <1>10, <1>11, Zenon DEF Line

(* What is kept of a candidate.                                              *)
LEMMA CandidateKept ==
  ASSUME RunHypotheses, Line(found), NEW c \in Candidates, NEW at \in (Items \cup {"none"}) \X Nat,
         found' = [found EXCEPT ![c] = Runs!Kept(c, at)]
  PROVE  /\ Line(found') /\ \A d \in Candidates \ {c} : found'[d] = found[d]
         /\ found'[c].last = at /\ found'[c].first \in {found[c].first, at}
<1> DEFINE row == Runs!Kept(c, at)
<1>1. found \in [Candidates -> FindingRows] /\ found[c] \in FindingRows
  BY DEF Line
<1>2. Runs!Known = KnownIn(found)
  BY DEF Runs!Known, KnownIn
<1>3. CASE c \in KnownIn(found)
  <2> DEFINE count == found[c].count + 1
  <2>1. count \in Nat /\ count > 0
    BY <1>1 DEF FindingRows
  <2>2. row = [found[c] EXCEPT !.last = at, !.count = count]
    BY <1>2, <1>3 DEF Runs!Kept
  <2> HIDE DEF row, count
  <2>3. /\ row \in FindingRows /\ row.count > 0 /\ row.revision = found[c].revision
        /\ row.prior = found[c].prior /\ row.last = at /\ row.first = found[c].first
    BY <1>1, <2>1, <2>2 DEF FindingRows
  <2>4. found' = [found EXCEPT ![c] = row]
    BY DEF row
  <2>5. Line(found')
    <3> DEFINE g == found'
    <3>1. g = [found EXCEPT ![c] = row]
      BY <2>4
    <3> HIDE DEF g
    <3>2. Line(g)
      BY <1>3, <2>3, <3>1, LineRecurs
    <3>3. QED BY <3>2 DEF g
  <2>6. found'[c] = row /\ \A d \in Candidates \ {c} : found'[d] = found[d]
    BY <1>1, <2>4
  <2>7. QED BY <2>3, <2>5, <2>6
<1>4. CASE c \notin KnownIn(found)
  <2> DEFINE kin == {d \in Runs!Known : Family[d] = Family[c]}
             prior == CHOOSE d \in kin : \A e \in kin : found[e].revision <= found[d].revision
             number == 1 + IF kin = {} THEN 0 ELSE found[prior].revision
             before == IF kin = {} THEN "none" ELSE prior
  <2>1. row = [first |-> at, last |-> at, count |-> 1, revision |-> number, prior |-> before]
    BY <1>2, <1>4 DEF Runs!Kept
  <2>2. /\ number \in Nat /\ before \in Candidates \cup {"none"}
        /\ \/ /\ before = "none" /\ number = 1 /\ \A e \in KnownIn(found) : Family[e] # Family[c]
           \/ /\ before \in KnownIn(found) /\ Family[before] = Family[c]
              /\ number = found[before].revision + 1
              /\ \A e \in KnownIn(found) :
                   Family[e] = Family[c] => found[e].revision <= found[before].revision
    <3>1. CASE kin = {}
      BY <1>2, <3>1
    <3>2. CASE kin # {}
      <4>1. PICK e \in kin : TRUE
        BY <3>2
      <4>2. e \in KnownIn(found) /\ Family[e] = Family[c]
        BY <1>2
      <4>3. PICK d \in KnownIn(found) :
              Family[d] = Family[e] /\
                \A h \in KnownIn(found) : Family[h] = Family[e] => found[h].revision <= found[d].revision
        BY <4>2, Zenon DEF Line
      <4>4. d \in kin /\ \A h \in kin : found[h].revision <= found[d].revision
        BY <1>2, <4>2, <4>3
      <4>5. prior \in kin /\ \A h \in kin : found[h].revision <= found[prior].revision
        BY <4>4, Zenon
      <4> HIDE DEF prior
      <4>6. prior \in KnownIn(found) /\ Family[prior] = Family[c]
        BY <1>2, <4>5
      <4>7. number = 1 + found[prior].revision /\ before = prior
        BY <3>2
      <4>8. found[prior].revision \in Nat /\ prior \in Candidates
        BY <4>6, LineRows
      <4>9. \A h \in KnownIn(found) : Family[h] = Family[c] => found[h].revision <= found[prior].revision
        BY <1>2, <4>5
      <4> HIDE DEF number, before, kin
      <4>10. QED BY <4>6, <4>7, <4>8, <4>9
    <3>3. QED BY <3>1, <3>2
  <2> HIDE DEF row, number, before
  <2>3. /\ row \in FindingRows /\ row.count > 0 /\ row.revision = number /\ row.prior = before
        /\ row.last = at /\ row.first = at
    BY <2>1, <2>2 DEF FindingRows
  <2>4. Follows(row, c, found)
    BY <2>2, <2>3 DEF Follows
  <2>5. found' = [found EXCEPT ![c] = row]
    BY DEF row
  <2>6. Line(found')
    <3> DEFINE g == found'
    <3>1. g = [found EXCEPT ![c] = row]
      BY <2>5
    <3> HIDE DEF g
    <3>2. Line(g)
      BY <1>4, <2>3, <2>4, <3>1, LineGrows
    <3>3. QED BY <3>2 DEF g
  <2>7. found'[c] = row /\ \A d \in Candidates \ {c} : found'[d] = found[d]
    BY <1>1, <2>5
  <2>8. QED BY <2>3, <2>6, <2>7
<1>5. QED BY <1>3, <1>4

(* Only the transaction of a running attempt changes the Findings.           *)
FindingsFenced ==
  \A c \in Candidates : found'[c] # found[c] =>
    LET at == found'[c].last
    IN Runs!Running(at[1], at[2]) /\ found'[c].first \in {found[c].first, at}

LEMMA FindingsGrow ==
  ASSUME RunHypotheses, RunInv, Line(found), [Runs!Next]_(Runs!vars)
  PROVE  Line(found') /\ FindingsFenced
<1>1. CASE UNCHANGED found
  BY <1>1 DEF FindingsFenced
<1>2. ASSUME NEW w \in Workers, Runs!Persist(w), found' # found
      PROVE  Line(found') /\ FindingsFenced
  <2> DEFINE i == work[w].item
             n == work[w].no
             c == Head(work[w].left)
  <2>1. /\ work[w].at = "persist" /\ work[w].left # << >> /\ Runs!Running(i, n)
        /\ found' = [found EXCEPT ![c] = Runs!Kept(c, <<i, n>>)]
    BY <1>2, Zenon DEF Runs!Persist
  <2>2. work[w] \in Works /\ Fit(work[w], item, attempt)
    BY DEF RunInv, RunType, Fits
  <2>3. work[w].left \in Seq(Candidates) /\ n \in Nat /\ i \in Items
    BY <2>1, <2>2 DEF Works, Fit, Attempting
  <2>4. c \in Candidates /\ <<i, n>> \in (Items \cup {"none"}) \X Nat
    BY <2>1, <2>3
  <2> HIDE DEF i, n, c
  <2>5. /\ Line(found') /\ \A d \in Candidates \ {c} : found'[d] = found[d]
        /\ found'[c].last = <<i, n>> /\ found'[c].first \in {found[c].first, <<i, n>>}
    BY <2>1, <2>4, CandidateKept
  <2>6. QED BY <2>1, <2>5 DEF FindingsFenced
<1>3. ASSUME NEW w \in Workers, Runs!Step(w), found' # found
      PROVE  Line(found') /\ FindingsFenced
  BY <1>2, <1>3, Zenon
  DEF Runs!Step, Runs!OpenAttempt, Runs!Collect, Runs!Persisted, Runs!Close, Runs!Finish,
      Runs!Tell, Runs!MarkStale, Runs!Judge, Runs!BeginSweep, Runs!Sweep
<1>4. QED
  BY <1>1, <1>3, Zenon
  DEF Runs!Next, Runs!vars, Runs!Boot, Runs!Crash, Runs!Reserve, Runs!Rerun, Runs!Lapse

LEMMA RunInvAgrees ==
  ASSUME RunHypotheses, RunInv, Line(found)
  PROVE  Runs!RunsAgree
<1>1. Runs!TypeOK
  <2>1. item \in [Items -> ItemRows] /\ told \in [Items -> Nat] /\ attempt \in [Items -> Seq(AttemptRows)]
    BY DEF RunInv, RunType
  <2>2. \A i \in Items : item[i].by \in 0 .. Len(attempt[i])
    BY DEF RunInv, ItemsAgree
  <2>3. ASSUME NEW i \in Items, NEW n \in DOMAIN attempt[i]
        PROVE  attempt[i][n].status \in {"running"} \cup Runs!Done
    <3>1. attempt[i][n] \in AttemptRows
      BY <2>1
    <3>2. QED BY <3>1 DEF AttemptRows, Runs!Done, Outcomes
  <2>4. QED BY <2>1, <2>2, <2>3 DEF Runs!TypeOK, ItemRows, Runs!Done, Outcomes
<1>2. Runs!VerdictAgrees
  BY DEF RunInv, ItemsAgree, Runs!VerdictAgrees
<1>3. Runs!AnnouncedOnce
  BY DEF RunInv, OneTells, Runs!AnnouncedOnce
<1>4. Runs!RevisionsAreALine
  <2>1. Runs!Known = KnownIn(found)
    BY DEF Runs!Known, KnownIn
  <2>2. ASSUME NEW c \in KnownIn(found)
        PROVE  IF found[c].revision = 1 THEN found[c].prior = "none"
               ELSE /\ found[c].prior \in KnownIn(found) /\ Family[found[c].prior] = Family[c]
                    /\ found[found[c].prior].revision = found[c].revision - 1
                    /\ \A d \in KnownIn(found) \ {c} : found[d].prior # found[c].prior
    <3>1. IF found[c].prior = "none" THEN found[c].revision = 1
          ELSE /\ found[c].prior \in KnownIn(found) /\ Family[found[c].prior] = Family[c]
               /\ found[found[c].prior].revision + 1 = found[c].revision
      BY Zenon DEF Line
    <3>2. CASE found[c].prior = "none"
      BY <3>1, <3>2
    <3>3. CASE found[c].prior # "none"
      <4> DEFINE p == found[c].prior
      <4>1. /\ p \in KnownIn(found) /\ Family[p] = Family[c] /\ found[p].revision + 1 = found[c].revision
            /\ found[p].revision \in Nat /\ found[p].revision # 0 /\ found[c].revision \in Nat
        BY <3>1, <3>3, LineRows
      <4>2. ASSUME NEW d \in KnownIn(found) \ {c}, found[d].prior = p PROVE FALSE
        <5>1. Family[p] = Family[d] /\ found[p].revision + 1 = found[d].revision
          BY <3>3, <4>2 DEF Line
        <5>2. found[d].revision = found[c].revision /\ Family[d] = Family[c] /\ d # c
          BY <4>1, <4>2, <5>1
        <5>3. QED BY <5>2, Zenon DEF Line
      <4>3. QED BY <4>1, <4>2
    <3>4. QED BY <3>2, <3>3
  <2>3. QED BY <2>1, <2>2 DEF Runs!RevisionsAreALine
<1>5. QED BY <1>1, <1>2, <1>3, <1>4 DEF Runs!RunsAgree

LEMMA LineInit == Runs!Init => Line(found)
<1> SUFFICES ASSUME Runs!Init PROVE Line(found)
  OBVIOUS
<1>1. found = [c \in Candidates |-> Runs!NoFinding]
  BY DEF Runs!Init
<1>2. Runs!NoFinding \in FindingRows /\ Runs!NoFinding.count = 0
  BY DEF Runs!NoFinding, FindingRows
<1>3. found \in [Candidates -> FindingRows] /\ KnownIn(found) = {}
  BY <1>1, <1>2 DEF KnownIn
<1>4. QED BY <1>3 DEF Line

(* The Findings of a claim are one line of revisions, the verdicts of items  *)
(* and attempts agree and no completion is announced twice, however many     *)
(* processes run, lapse, die and recover.                                    *)
THEOREM RunsTheorem ==
  ASSUME RunHypotheses
  PROVE  Runs!Spec => []Runs!RunsAgree
<1>1. ASSUME RunInv, Line(found), [Runs!Next]_(Runs!vars)
      PROVE  RunInv' /\ Line(found)'
  BY <1>1, RunNext, FindingsGrow, Zenon DEF Moved
<1>2. QED BY RunInit, LineInit, <1>1, RunInvAgrees, PTL DEF Runs!Spec

(* A Finding is changed only by an attempt that is running, a completed item *)
(* keeps its verdict and an attempt that was closed stays closed, whichever  *)
(* processes believe they still run it.                                      *)
THEOREM FenceTheorem ==
  ASSUME RunHypotheses
  PROVE  Runs!Spec => Runs!RunsAreFenced
<1>1. ASSUME RunInv, Line(found), [Runs!Next]_(Runs!vars)
      PROVE  RunInv' /\ Line(found)'
  BY <1>1, RunNext, FindingsGrow, Zenon DEF Moved
<1>2. ASSUME RunInv, Line(found), [Runs!Next]_(Runs!vars)
      PROVE  [/\ \A c \in Candidates : found'[c] # found[c] =>
                   LET at == found'[c].last
                   IN Runs!Running(at[1], at[2]) /\ found'[c].first \in {found[c].first, at}
              /\ \A i \in Items :
                   /\ item[i].by > 0 => item'[i] = item[i]
                   /\ \A n \in DOMAIN attempt[i] :
                        ~Runs!Running(i, n) => attempt'[i][n] = attempt[i][n]]_(Runs!vars)
  BY <1>2, RunNext, FindingsGrow, Zenon DEF Moved, VerdictsStand, FindingsFenced
<1>3. QED BY RunInit, LineInit, <1>1, <1>2, PTL DEF Runs!Spec, Runs!RunsAreFenced

=============================================================================

--------------------------- MODULE PageFetch_proofs ---------------------------
(***************************************************************************)
(* What holds of PageFetch for any number of fetches, domains and attempts *)
(* and for any delays: the types, the spacing of a domain's slots, and     *)
(* that the guard's count of checked requests is not lost.                 *)
(***************************************************************************)
EXTENDS PageFetch, TLAPS

\* Where the throttle stands: the slot after the last reserved one is far enough
\* from that and from the one that began last, and only a sleeping fetch waits.
Throttled ==
  /\ \A d \in Domains : since[d] + free[d] >= MinDelay
  /\ \A f \in Fetches : pc[f] = "queue" /\ wait[f] > 0 =>
       free[DomainOf[f]] >= wait[f] + MinDelay
  /\ \A f \in Fetches : pc[f] \in {"vet", "throttle"} => wait[f] = 0

\* The count of the guard and that of the blocks, and what room they leave: no
\* pause after the last attempt, and another block only while it may be retried.
Counted ==
  \A f \in Fetches :
    /\ total[f] = checked[f]
    /\ hits[f] = blocks[f]
    /\ blocks[f] <= MaxBotBlocks
    /\ pc[f] # "done" => blocks[f] < MaxBotBlocks
    /\ pc[f] = "pause" => attempt[f] < MaxAttempts

IInv == TypeOK /\ Throttled /\ SlotsSpaced /\ Counted /\ GuardWorkKept /\ HonestResult

-----------------------------------------------------------------------------
\* What each verdict says of the visit.
LEMMA VerdictMeaning ==
  ASSUME NEW v \in Visits
  PROVE  /\ Verdict(v) \in Categories
         /\ Verdict(v) = "not_found" => v.load = "gone"
         /\ Verdict(v) = "blocked_ssrf" => v.landed = "private"
         /\ Verdict(v) = "captcha_blocked" => Document(v) = "captcha"
         /\ Verdict(v) = "ok" => /\ v.load \in {"fine", "throttled", "denied", "error"}
                                 /\ v.landed = "public"
                                 /\ Document(v) \in {"page", "hard_block"}
                                 /\ v.load # "fine" => Interstitial(v)
  <1>1. v \in VisitRecords
    BY FetchAssumption
  <1>2. Document(v) \in Bodies
    BY <1>1 DEF Document, VisitRecords
  <1>3. Verdict(v) = "ok" => ~Denied(v) /\ Document(v) \notin {"captcha", "challenge"}
    BY DEF Verdict
  <1> QED
    BY <1>1, <1>2, <1>3
    DEF Verdict, Categories, Retryable, VisitRecords, Bodies, Loads, Addresses, Denied

\* A block, as the code sees it, is a block.
LEMMA BlockedIsRefused ==
  ASSUME NEW v \in Visits
  PROVE  Verdict(v) = "bot_blocked" <=> Refused(v)
  <1>1. v \in VisitRecords
    BY FetchAssumption
  <1> QED
    BY <1>1 DEF Verdict, Refused, Denied, Document, Interstitial, Unsettled, VisitRecords, Bodies

-----------------------------------------------------------------------------
LEMMA BackoffType ==
  ASSUME NEW a \in 1..MaxAttempts
  PROVE  Backoff(a) \in Nat
  <1> DEFINE p == 2^(a - 1)
  <1>1. p \in Nat
    BY FetchAssumption
  <1> HIDE DEF p
  <1>2. Base * p \in Nat
    BY <1>1, FetchAssumption
  <1> QED
    BY <1>2 DEF Backoff, p

LEMMA CappedPauseType ==
  ASSUME NEW a \in 1..MaxAttempts, NEW asks \in Nat \cup {NoDelay}
  PROVE  CappedPause(asks, a) \in Nat
  BY BackoffType, FetchAssumption DEF CappedPause

LEMMA InitInv == Init => IInv
  <1> SUFFICES ASSUME Init PROVE IInv
    OBVIOUS
  <1> USE FetchAssumption DEF Init
  <1>1. TypeOK
    BY DEF TypeOK, NoResult, NoVisit, Addresses, Categories
  <1>2. Throttled /\ SlotsSpaced /\ Counted
    BY DEF Throttled, SlotsSpaced, Counted
  <1>3. GuardWorkKept /\ HonestResult
    BY DEF GuardWorkKept, HonestResult
  <1> QED
    BY <1>1, <1>2, <1>3 DEF IInv

\* How a step of a fetch, other than the reservation of a slot, leaves the
\* throttle alone: the fetch is not in the queue afterwards.
OutOfQueue(f) ==
  /\ UNCHANGED <<free, since>>
  /\ \A g \in Fetches \ {f} : pc'[g] = pc[g] /\ wait'[g] = wait[g]
  /\ pc'[f] # "queue"
  /\ pc'[f] \in {"vet", "throttle"} => wait'[f] = 0

LEMMA OutOfQueueKeeps ==
  ASSUME NEW f \in Fetches, Throttled, SlotsSpaced, OutOfQueue(f)
  PROVE  Throttled' /\ SlotsSpaced'
  <1>1. Throttled'
    BY DEF Throttled, OutOfQueue
  <1>2. SlotsSpaced'
    BY DEF SlotsSpaced, OutOfQueue
  <1> QED
    BY <1>1, <1>2

\* A step of one fetch does nothing to the counts and results of the others.
Local(f) ==
  \A g \in Fetches \ {f} :
    /\ pc'[g] = pc[g] /\ attempt'[g] = attempt[g] /\ hits'[g] = hits[g]
    /\ total'[g] = total[g] /\ result'[g] = result[g] /\ last'[g] = last[g]
    /\ blocks'[g] = blocks[g] /\ checked'[g] = checked[g]

CountedAt(f) ==
  /\ total[f] = checked[f]
  /\ hits[f] = blocks[f]
  /\ blocks[f] <= MaxBotBlocks
  /\ pc[f] # "done" => blocks[f] < MaxBotBlocks
  /\ pc[f] = "pause" => attempt[f] < MaxAttempts

GuardWorkKeptAt(f) ==
  pc[f] = "done" =>
    \/ result[f].validated = checked[f]
    \/ result[f].verdict = "blocked_ssrf" /\ last[f].address = "private"

HonestResultAt(f) == pc[f] = "done" => Honest(f)

LEMMA LocalKeeps ==
  ASSUME NEW f \in Fetches, Local(f), Counted, GuardWorkKept, HonestResult,
         CountedAt(f)', GuardWorkKeptAt(f)', HonestResultAt(f)'
  PROVE  Counted' /\ GuardWorkKept' /\ HonestResult'
  <1>1. Counted'
    BY DEF Local, Counted, CountedAt
  <1>2. GuardWorkKept'
    BY DEF Local, GuardWorkKept, GuardWorkKeptAt
  <1>3. ASSUME NEW g \in Fetches
        PROVE  HonestResultAt(g)'
    <2>1. CASE g = f
      BY <2>1
    <2>2. CASE g # f
      <3>1. HonestResultAt(g)
        BY DEF HonestResult, HonestResultAt
      <3> QED
        BY <2>2, <3>1 DEF Local, HonestResultAt, Honest
    <2> QED
      BY <2>1, <2>2
  <1>4. HonestResult'
    BY <1>3 DEF HonestResult, HonestResultAt
  <1> QED
    BY <1>1, <1>2, <1>4

-----------------------------------------------------------------------------
\* Vet: a refusal and the end of the attempts are the only ways to a result.
LEMMA VetInv == ASSUME IInv, NEW f \in Fetches, Vet(f) PROVE IInv'
  <1> USE FetchAssumption
  <1>1. PICK address \in Resolutions :
          LET about == [address |-> address, met |-> NoVisit] IN
          \/ /\ address = "public"
             /\ pc' = [pc EXCEPT ![f] = "throttle"]
             /\ UNCHANGED <<wait, result, last>>
          \/ /\ address = "private"
             /\ Return(f, "blocked_ssrf", 0, about)
          \/ /\ address = "unresolved"
             /\ Pause(f, Backoff(attempt[f]), "network_error", total[f], about)
    BY DEF Vet, VetAs
  <1>2. /\ pc[f] = "vet" /\ wait[f] = 0
        /\ UNCHANGED <<attempt, hits, total, free, since, blocks, checked>>
    BY DEF Vet, IInv, Throttled
  <1>3. Backoff(attempt[f]) \in Nat
    BY BackoffType DEF IInv, TypeOK
  <1>4. address \in {"public", "private", "unresolved"}
    BY <1>1
  <1> DEFINE pause == Backoff(attempt[f])
             about == [address |-> address, met |-> NoVisit]
  <1>4a. about \in [address : Addresses, met : Visits \cup {NoVisit}]
    BY <1>4 DEF Addresses
  <1>5. TypeOK'
    <2> HIDE DEF pause, about
    <2>1. /\ pc' \in [Fetches -> {"vet", "throttle", "queue", "visit", "pause", "done", "raised"}]
          /\ wait' \in [Fetches -> Nat]
      <3>1. CASE address = "unresolved"
        <4>1. /\ pc' \in {[pc EXCEPT ![f] = "pause"], [pc EXCEPT ![f] = "done"]}
              /\ wait' \in {wait, [wait EXCEPT ![f] = pause]}
          BY <1>1, <3>1 DEF Return, Pause, pause
        <4> QED
          BY <1>3, <4>1 DEF IInv, TypeOK, pause
      <3>2. CASE address # "unresolved"
        BY <1>1, <3>2 DEF IInv, TypeOK, Return
      <3> QED
        BY <3>1, <3>2
    <2>2. result' \in [Fetches -> [verdict : Categories \cup {"none"}, validated : Nat]]
      BY <1>1, <1>2 DEF IInv, TypeOK, Return, Pause, Categories, Retryable
    <2>3. last' \in [Fetches -> [address : Addresses, met : Visits \cup {NoVisit}]]
      BY <1>1, <1>4a DEF IInv, TypeOK, Return, Pause, about
    <2> QED
      BY <1>2, <2>1, <2>2, <2>3 DEF IInv, TypeOK
  <1>6. OutOfQueue(f) /\ Local(f)
    BY <1>1, <1>2 DEF OutOfQueue, Local, IInv, TypeOK, Return, Pause
  <1>7. CountedAt(f)'
    BY <1>1, <1>2 DEF IInv, TypeOK, Counted, CountedAt, Return, Pause
  <1>8. GuardWorkKeptAt(f)'
    BY <1>1, <1>2 DEF IInv, TypeOK, Counted, GuardWorkKeptAt, Return, Pause
  <1>9. HonestResultAt(f)'
    BY <1>1, <1>2 DEF IInv, TypeOK, HonestResultAt, Honest, Return, Pause
  <1> QED
    BY <1>5, <1>6, <1>7, <1>8, <1>9, OutOfQueueKeeps, LocalKeeps DEF IInv

LEMMA VisitInv == ASSUME IInv, NEW f \in Fetches, Visit(f) PROVE IInv'
  <1> USE FetchAssumption
  <1> DEFINE verdict(v) == VerdictOn[v]
             blocked(v) == IF verdict(v) = "bot_blocked" THEN hits[f] + 1 ELSE hits[f]
             count(v) == CountAll(f, v)
             asks(v) == IF verdict(v) = "rate_limited" THEN v.asks ELSE NoDelay
             about(v) == [address |-> "public", met |-> v]
  <1>1. PICK v \in Visits :
          /\ checked' = [checked EXCEPT ![f] = @ + v.requests]
          /\ total' = [total EXCEPT ![f] = count(v)]
          /\ hits' = [hits EXCEPT ![f] = blocked(v)]
          /\ blocks' = [blocks EXCEPT ![f] = IF Refused(v) THEN @ + 1 ELSE @]
          /\ IF verdict(v) \notin Retryable \/ Stop(verdict(v), blocked(v))
             THEN Return(f, verdict(v), count(v), about(v))
             ELSE Pause(f, CappedPause(asks(v), attempt[f]), verdict(v), count(v), about(v))
    BY DEF Visit
  <1>2. /\ pc[f] = "visit"
        /\ UNCHANGED <<attempt, free, since>>
    BY DEF Visit
  <1>3. v \in VisitRecords /\ v.requests \in Nat
    BY DEF VisitRecords
  <1>4. verdict(v) = Verdict(v) /\ verdict(v) \in Categories
    BY VerdictMeaning DEF VerdictOn
  <1> DEFINE pause == CappedPause(asks(v), attempt[f])
  <1>5. pause \in Nat
    BY <1>3, CappedPauseType DEF IInv, TypeOK, VisitRecords
  <1>6. count(v) = total[f] + v.requests /\ count(v) \in Nat
    BY <1>3 DEF CountAll, IInv, TypeOK
  <1>6a. /\ hits[f] = blocks[f] /\ total[f] = checked[f] /\ blocks[f] < MaxBotBlocks
         /\ blocks[f] \in Nat /\ MaxBotBlocks \in Nat
    BY <1>2 DEF IInv, TypeOK, Counted
  <1>7. blocked(v) = blocks'[f] /\ blocked(v) \in Nat /\ blocked(v) <= MaxBotBlocks
    <2>1. verdict(v) = "bot_blocked" <=> Refused(v)
      BY <1>4, BlockedIsRefused
    <2>2. blocks'[f] = IF Refused(v) THEN blocks[f] + 1 ELSE blocks[f]
      BY <1>1 DEF IInv, TypeOK
    <2> QED
      BY <1>6a, <2>1, <2>2
  <1> HIDE DEF pause, count, blocked
  <1>8. TypeOK'
    <2>1. /\ hits' \in [Fetches -> 0..MaxBotBlocks]
          /\ total' \in [Fetches -> Nat]
          /\ checked' \in [Fetches -> Nat]
          /\ blocks' \in [Fetches -> Nat]
      BY <1>1, <1>3, <1>6, <1>7 DEF IInv, TypeOK
    <2>2. /\ pc' \in [Fetches -> {"vet", "throttle", "queue", "visit", "pause", "done", "raised"}]
          /\ wait' \in [Fetches -> Nat]
      BY <1>1, <1>5 DEF IInv, TypeOK, Return, Pause, pause
    <2>3. result' \in [Fetches -> [verdict : Categories \cup {"none"}, validated : Nat]]
      BY <1>1, <1>4, <1>6 DEF IInv, TypeOK, Return, Pause
    <2>4. last' \in [Fetches -> [address : Addresses, met : Visits \cup {NoVisit}]]
      BY <1>1 DEF IInv, TypeOK, Return, Pause, Addresses
    <2> QED
      BY <1>2, <2>1, <2>2, <2>3, <2>4 DEF IInv, TypeOK
  <1>9. OutOfQueue(f) /\ Local(f)
    BY <1>1, <1>2 DEF OutOfQueue, Local, IInv, TypeOK, Return, Pause
  <1>10. CountedAt(f)'
    <2>1. total'[f] = checked'[f] /\ hits'[f] = blocks'[f] /\ blocks'[f] <= MaxBotBlocks
      BY <1>1, <1>6, <1>6a, <1>7 DEF IInv, TypeOK
    <2>2. pc'[f] # "done" => /\ ~Stop(verdict(v), blocked(v))
                             /\ attempt'[f] < MaxAttempts
      BY <1>1, <1>2 DEF IInv, TypeOK, Return, Pause
    <2>3. ~Stop(verdict(v), blocked(v)) => blocks'[f] < MaxBotBlocks
      <3>1. CASE verdict(v) = "bot_blocked"
        BY <1>6a, <1>7, <3>1 DEF Stop
      <3>2. CASE verdict(v) # "bot_blocked"
        BY <1>6a, <1>7, <3>2 DEF blocked
      <3> QED
        BY <3>1, <3>2
    <2> HIDE DEF verdict
    <2> QED
      BY <2>1, <2>2, <2>3 DEF CountedAt
  <1>11. GuardWorkKeptAt(f)'
    <2>1. pc'[f] = "done" => result'[f].validated = count(v)
      BY <1>1 DEF Return, Pause, IInv, TypeOK
    <2> QED
      BY <1>1, <1>6, <2>1 DEF IInv, TypeOK, Counted, GuardWorkKeptAt
  <1>12. HonestResultAt(f)'
    <2>1. SUFFICES ASSUME pc'[f] = "done" PROVE Honest(f)'
      BY DEF HonestResultAt
    <2>2. /\ result'[f].verdict = verdict(v)
          /\ last'[f] = about(v)
          /\ \/ verdict(v) \notin Retryable
             \/ Stop(verdict(v), blocked(v))
             \/ attempt[f] = MaxAttempts
      BY <1>1, <2>1 DEF Return, Pause, IInv, TypeOK
    <2>3. attempt'[f] = attempt[f] /\ blocks'[f] = blocked(v)
      BY <1>2, <1>7
    <2>4. Stop(verdict(v), blocked(v)) => verdict(v) = "captcha_blocked" \/ blocked(v) = MaxBotBlocks
      BY <1>7 DEF Stop
    <2>5. verdict(v) \in Retryable \/ verdict(v) \in {"ok", "not_found", "blocked_ssrf"}
      BY <1>4 DEF Categories
    <2>6. last'[f].met = v
      BY <2>2
    <2> HIDE DEF verdict, about
    <2>7. CASE verdict(v) \in Retryable
      BY <1>4, <2>2, <2>3, <2>4, <2>6, <2>7, VerdictMeaning DEF Honest, Retryable
    <2>8. CASE verdict(v) \in {"ok", "not_found", "blocked_ssrf"}
      BY <1>4, <2>2, <2>6, <2>8, VerdictMeaning DEF Honest
    <2> QED
      BY <2>5, <2>7, <2>8
  <1> QED
    BY <1>8, <1>9, <1>10, <1>11, <1>12, OutOfQueueKeeps, LocalKeeps DEF IInv

-----------------------------------------------------------------------------
LEMMA OpenInv == ASSUME IInv, NEW f \in Fetches, Open(f) PROVE IInv'
  <1>1. /\ pc[f] = "queue"
        /\ pc' \in {[pc EXCEPT ![f] = "visit"], [pc EXCEPT ![f] = "raised"]}
        /\ UNCHANGED <<progress, wait, free, since>>
    BY DEF Open
  <1>2. TypeOK'
    BY <1>1 DEF IInv, TypeOK, progress
  <1>3. OutOfQueue(f) /\ Local(f)
    BY <1>1 DEF IInv, TypeOK, OutOfQueue, Local, progress
  <1>4. CountedAt(f)' /\ GuardWorkKeptAt(f)' /\ HonestResultAt(f)'
    BY <1>1 DEF IInv, TypeOK, Counted, CountedAt, GuardWorkKeptAt, HonestResultAt, progress
  <1> QED
    BY <1>2, <1>3, <1>4, OutOfQueueKeeps, LocalKeeps DEF IInv

LEMMA ResumeInv == ASSUME IInv, NEW f \in Fetches, Resume(f) PROVE IInv'
  <1>1. /\ pc[f] = "pause" /\ wait[f] = 0
        /\ pc' = [pc EXCEPT ![f] = "vet"]
        /\ attempt' = [attempt EXCEPT ![f] = @ + 1]
        /\ UNCHANGED <<hits, wait, total, result, free, since, last, blocks, checked>>
    BY DEF Resume, NextAttempt, IInv, TypeOK
  <1>1a. attempt[f] < MaxAttempts
    BY <1>1 DEF IInv, Counted
  <1>2. TypeOK'
    BY <1>1, <1>1a, FetchAssumption DEF IInv, TypeOK
  <1>3. OutOfQueue(f) /\ Local(f)
    BY <1>1 DEF IInv, TypeOK, OutOfQueue, Local
  <1>4. CountedAt(f)' /\ GuardWorkKeptAt(f)' /\ HonestResultAt(f)'
    BY <1>1 DEF IInv, TypeOK, Counted, CountedAt, GuardWorkKeptAt, HonestResultAt
  <1> QED
    BY <1>2, <1>3, <1>4, OutOfQueueKeeps, LocalKeeps DEF IInv

LEMMA ReserveInv == ASSUME IInv, NEW f \in Fetches, Reserve(f) PROVE IInv'
  <1> DEFINE d == DomainOf[f]
  <1> USE FetchAssumption
  <1>1. /\ pc[f] = "throttle" /\ wait[f] = 0
        /\ pc' = [pc EXCEPT ![f] = "queue"]
        /\ UNCHANGED progress
        /\ d \in Domains /\ free[d] \in Nat /\ MinDelay \in Nat
    BY DEF Reserve, IInv, TypeOK, Throttled
  <1>2. Counted' /\ GuardWorkKept' /\ HonestResult'
    BY <1>1 DEF IInv, TypeOK, Counted, GuardWorkKept, HonestResult, Honest, progress
  <1>3. CASE MinDelay = 0
    <2>1. UNCHANGED <<wait, free, since>>
      BY <1>3 DEF Reserve
    <2>2. TypeOK' /\ Throttled' /\ SlotsSpaced'
      BY <1>1, <1>3, <2>1 DEF IInv, TypeOK, Throttled, SlotsSpaced, progress
    <2> QED
      BY <1>2, <2>2 DEF IInv
  <1>4. CASE MinDelay > 0
    <2>1. /\ wait' = [wait EXCEPT ![f] = free[d]]
          /\ free' = [free EXCEPT ![d] = free[d] + MinDelay]
          /\ since' = IF free[d] = 0 THEN [since EXCEPT ![d] = 0] ELSE since
      BY <1>4 DEF Reserve, NextFree
    <2>2. TypeOK'
      BY <1>1, <2>1 DEF IInv, TypeOK, progress
    <2>3. Throttled'
      BY <1>1, <1>4, <2>1 DEF IInv, TypeOK, Throttled
    <2>4. ASSUME NEW g \in Fetches, pc'[g] = "queue", wait'[g] > 0,
                 NEW h \in Fetches \ {g}, DomainOf[h] = DomainOf[g],
                 pc'[h] = "queue", wait'[h] >= wait'[g]
          PROVE  wait'[h] >= wait'[g] + MinDelay
      <3>1. CASE g = f
        BY <1>1, <1>4, <2>1, <2>4, <3>1 DEF IInv, TypeOK, Throttled
      <3>2. CASE h = f
        BY <1>1, <1>4, <2>1, <2>4, <3>2 DEF IInv, TypeOK, Throttled
      <3>3. CASE g # f /\ h # f
        BY <1>1, <2>1, <2>4, <3>3 DEF IInv, TypeOK, SlotsSpaced
      <3> QED
        BY <3>1, <3>2, <3>3
    <2>5. ASSUME NEW g \in Fetches, pc'[g] = "queue", wait'[g] > 0
          PROVE  since'[DomainOf[g]] + wait'[g] >= MinDelay
      <3>1. CASE g = f
        BY <1>1, <2>1, <2>5, <3>1 DEF IInv, TypeOK, Throttled
      <3>2. CASE g # f
        BY <1>1, <1>4, <2>1, <2>5, <3>2 DEF IInv, TypeOK, Throttled, SlotsSpaced
      <3> QED
        BY <3>1, <3>2
    <2>6. SlotsSpaced'
      BY <2>4, <2>5 DEF SlotsSpaced
    <2> QED
      BY <1>2, <2>2, <2>3, <2>6 DEF IInv
  <1> QED
    BY <1>1, <1>3, <1>4

LEMMA TickInv == ASSUME IInv, Tick PROVE IInv'
  <1> USE FetchAssumption
  <1>1. /\ wait' = [f \in Fetches |-> IF wait[f] > 0 THEN wait[f] - 1 ELSE 0]
        /\ free' = [d \in Domains |-> IF free[d] > 0 THEN free[d] - 1 ELSE 0]
        /\ since' = [d \in Domains |->
             IF \E f \in Fetches : DomainOf[f] = d /\ pc[f] = "queue" /\ wait[f] = 1 THEN 0
             ELSE IF since[d] < MinDelay THEN since[d] + 1 ELSE MinDelay]
        /\ UNCHANGED <<pc, progress>>
    BY DEF Tick
  <1>2. TypeOK'
    BY <1>1 DEF IInv, TypeOK, progress
  <1>3. Counted' /\ GuardWorkKept' /\ HonestResult'
    BY <1>1 DEF IInv, Counted, GuardWorkKept, HonestResult, Honest, progress
  <1>4. Throttled'
    <2>1. ASSUME NEW d \in Domains
          PROVE  since'[d] + free'[d] >= MinDelay
      <3>1. CASE \E f \in Fetches : DomainOf[f] = d /\ pc[f] = "queue" /\ wait[f] = 1
        BY <1>1, <3>1 DEF IInv, TypeOK, Throttled
      <3>2. CASE ~\E f \in Fetches : DomainOf[f] = d /\ pc[f] = "queue" /\ wait[f] = 1
        BY <1>1, <3>2 DEF IInv, TypeOK, Throttled
      <3> QED
        BY <3>1, <3>2
    <2>2. \A f \in Fetches : /\ pc'[f] = "queue" /\ wait'[f] > 0 =>
                                free'[DomainOf[f]] >= wait'[f] + MinDelay
                             /\ pc'[f] \in {"vet", "throttle"} => wait'[f] = 0
      BY <1>1 DEF IInv, TypeOK, Throttled
    <2> QED
      BY <2>1, <2>2 DEF Throttled
  <1>5. ASSUME NEW f \in Fetches, pc'[f] = "queue", wait'[f] > 0
        PROVE  /\ since'[DomainOf[f]] + wait'[f] >= MinDelay
               /\ \A g \in Fetches \ {f} :
                    DomainOf[g] = DomainOf[f] /\ pc'[g] = "queue" /\ wait'[g] >= wait'[f] =>
                      wait'[g] >= wait'[f] + MinDelay
    <2>1. /\ pc[f] = "queue" /\ wait[f] > 1 /\ wait'[f] = wait[f] - 1
          /\ DomainOf[f] \in Domains
      BY <1>1, <1>5 DEF IInv, TypeOK
    <2>2. since'[DomainOf[f]] + wait'[f] >= MinDelay
      <3>1. CASE \E g \in Fetches : DomainOf[g] = DomainOf[f] /\ pc[g] = "queue" /\ wait[g] = 1
        BY <1>1, <2>1, <3>1 DEF IInv, TypeOK, SlotsSpaced
      <3>2. CASE ~\E g \in Fetches : DomainOf[g] = DomainOf[f] /\ pc[g] = "queue" /\ wait[g] = 1
        BY <1>1, <2>1, <3>2 DEF IInv, TypeOK, SlotsSpaced
      <3> QED
        BY <3>1, <3>2
    <2>3. ASSUME NEW g \in Fetches \ {f}, DomainOf[g] = DomainOf[f], pc'[g] = "queue",
                 wait'[g] >= wait'[f]
          PROVE  wait'[g] >= wait'[f] + MinDelay
      <3>1. /\ pc[g] = "queue" /\ wait[g] > 0 /\ wait'[g] = wait[g] - 1
            /\ wait[f] \in Nat /\ wait[g] \in Nat /\ MinDelay \in Nat
        BY <1>1, <1>5, <2>3 DEF IInv, TypeOK
      <3>2. wait[g] >= wait[f] + MinDelay
        BY <1>1, <2>1, <2>3, <3>1 DEF IInv, SlotsSpaced
      <3> QED
        BY <2>1, <3>1, <3>2
    <2> QED
      BY <2>2, <2>3
  <1>6. SlotsSpaced'
    BY <1>5 DEF SlotsSpaced
  <1> QED
    BY <1>2, <1>3, <1>4, <1>6 DEF IInv

-----------------------------------------------------------------------------
THEOREM Invariance == SafeSpec => []IInv
  <1>1. ASSUME IInv, [Next]_vars PROVE IInv'
    <2>1. ASSUME NEW f \in Fetches, Step(f) PROVE IInv'
      BY <1>1, <2>1, VetInv, ReserveInv, OpenInv, VisitInv, ResumeInv DEF Step
    <2>2. CASE UNCHANGED vars
      <3>1. UNCHANGED <<pc, attempt, hits, total, result, last, blocks, checked, wait, free, since>>
        BY <2>2 DEF vars, progress
      <3>2. TypeOK' /\ Throttled' /\ SlotsSpaced'
        BY <1>1, <3>1 DEF IInv, TypeOK, Throttled, SlotsSpaced
      <3>3. Counted' /\ GuardWorkKept' /\ HonestResult'
        BY <1>1, <3>1 DEF IInv, Counted, GuardWorkKept, HonestResult, Honest
      <3> QED
        BY <3>2, <3>3 DEF IInv
    <2> QED
      BY <1>1, <2>1, <2>2, TickInv DEF Next, Rest
  <1> QED
    BY <1>1, InitInv, PTL DEF SafeSpec

\* The types, for any number of fetches, domains and attempts.
THEOREM TypeOKHolds == SafeSpec => []TypeOK
  BY Invariance, PTL DEF IInv

\* The throttle keeps the slots of a domain apart, for any delay and however
\* many fetches share the domain and retry.
THEOREM SlotsSpacedHolds == SafeSpec => []SlotsSpaced
  BY Invariance, PTL DEF IInv

\* A result claims no more than the attempts showed, whatever pages, statuses
\* and addresses they met.
THEOREM HonestResultHolds == SafeSpec => []HonestResult
  BY Invariance, PTL DEF IInv

\* No store is asked again after MaxBotBlocks blocks.
THEOREM BlocksRespectedHolds == SafeSpec => []BlocksRespected
  <1>1. IInv => BlocksRespected
    BY DEF IInv, Counted, BlocksRespected
  <1> QED
    BY <1>1, Invariance, PTL

\* The guard's count survives the retries.
THEOREM GuardWorkKeptHolds == SafeSpec => []GuardWorkKept
  BY Invariance, PTL DEF IInv
=============================================================================

------------------------------ MODULE PageFetch ------------------------------
(***************************************************************************)
(* Page fetches of one PageFetcher (app/fetch.py, app/security/            *)
(* ssrf_guard.py).  A fetch makes up to MaxAttempts attempts: it checks    *)
(* the address, waits for the domain's next slot, opens a browser context, *)
(* visits the page, and judges what came back; a failure that may pass is  *)
(* retried after a pause.  The fetches of a wave run concurrently and      *)
(* share the throttle of a domain.                                         *)
(*                                                                         *)
(* Time is relative: a timer says how long is still to wait, and Tick lets *)
(* one unit pass.  Steps take time, so a tick may fall between any two.    *)
(***************************************************************************)
EXTENDS Integers, Sequences, FiniteSets

CONSTANTS
  Fetches,      \* the concurrent calls of fetch
  Domains,      \* host names
  DomainOf,     \* the host a fetch goes to
  Visits,       \* what a visit of a page may meet, a set of records
  MaxAttempts,  \* max_attempts
  MaxBotBlocks, \* max_bot_block_attempts
  MinDelay,     \* domain_min_delay_seconds
  Base,         \* base_backoff_seconds
  MaxBackoff,   \* max_backoff_seconds
  DnsTries,     \* _DNS_RETRY_ATTEMPTS
  NoDelay       \* no Retry-After header

\* What a visit meets: how the load ended, what the document looks like at
\* first and once an interstitial had its time, where the browser landed,
\* Retry-After, and the requests that the guard checked and let through.
Loads == {"failed", "gone", "throttled", "denied", "error", "fine"}
Bodies == {"page", "hard_block", "challenge", "captcha", "bodyless", "broken"}
Addresses == {"public", "private", "unresolved"}
VisitRecords ==
  [load : Loads, first : Bodies, settled : Bodies, landed : Addresses,
   asks : Nat \cup {NoDelay}, requests : Nat]

ASSUME FetchAssumption ==
  /\ MaxAttempts \in Nat \ {0}
  /\ MaxBotBlocks \in Nat \ {0}
  /\ {MinDelay, Base, MaxBackoff} \subseteq Nat
  /\ DnsTries \in Nat \ {0}
  /\ DomainOf \in [Fetches -> Domains]
  /\ Visits \subseteq VisitRecords
  /\ NoDelay \notin Nat
  /\ \A a \in 1..MaxAttempts : 2^(a - 1) \in Nat

VARIABLES
  pc,      \* "vet", "throttle", "queue", "visit", "pause", "done", "raised"
  attempt, \* number of the attempt under way
  hits,    \* bot_block_hits
  wait,    \* time until the fetch's slot, or until its next attempt
  total,   \* total_ssrf_validated
  result,  \* the FetchResult: its verdict and its count of checked requests
  free,    \* per domain, time until the slot after the last reserved one
  since,   \* history: time since the domain's last slot began, up to MinDelay
  last,    \* history: the address and the visit that a result is about
  blocks,  \* history: visits of this fetch that met a block
  checked  \* history: requests that the guard let through for this fetch

progress == <<attempt, hits, total, result, last, blocks, checked>>
vars == <<pc, progress, wait, free, since>>

Retryable == {"network_error", "bot_blocked", "captcha_blocked", "rate_limited", "http_error"}
Categories == Retryable \cup {"ok", "not_found", "blocked_ssrf"}
\* The visit that was not made.
NoVisit == [load |-> "none", first |-> "page", settled |-> "page", landed |-> "public",
            asks |-> NoDelay, requests |-> 0]
NoResult == [verdict |-> "none", validated |-> 0]

TypeOK ==
  /\ pc \in [Fetches -> {"vet", "throttle", "queue", "visit", "pause", "done", "raised"}]
  /\ attempt \in [Fetches -> 1..MaxAttempts]
  /\ hits \in [Fetches -> 0..MaxBotBlocks]
  /\ wait \in [Fetches -> Nat]
  /\ total \in [Fetches -> Nat]
  /\ result \in [Fetches -> [verdict : Categories \cup {"none"}, validated : Nat]]
  /\ free \in [Domains -> Nat]
  /\ since \in [Domains -> 0..MinDelay]
  /\ last \in [Fetches -> [address : Addresses, met : Visits \cup {NoVisit}]]
  /\ blocks \in [Fetches -> Nat]
  /\ checked \in [Fetches -> Nat]

Init ==
  /\ pc = [f \in Fetches |-> "vet"]
  /\ attempt = [f \in Fetches |-> 1]
  /\ hits = [f \in Fetches |-> 0]
  /\ wait = [f \in Fetches |-> 0]
  /\ total = [f \in Fetches |-> 0]
  /\ result = [f \in Fetches |-> NoResult]
  /\ free = [d \in Domains |-> 0]
  /\ since = [d \in Domains |-> MinDelay]
  /\ last = [f \in Fetches |-> [address |-> "public", met |-> NoVisit]]
  /\ blocks = [f \in Fetches |-> 0]
  /\ checked = [f \in Fetches |-> 0]

-----------------------------------------------------------------------------
(* Pauses and results.                                                     *)

Backoff(a) == Base * 2^(a - 1)

\* The pause after a visit: Retry-After if there was one, with a cap.
CappedPause(asks, a) ==
  IF (IF asks # NoDelay THEN asks ELSE Backoff(a)) < MaxBackoff
  THEN IF asks # NoDelay THEN asks ELSE Backoff(a)
  ELSE MaxBackoff

Return(f, verdict, validated, about) ==
  /\ pc' = [pc EXCEPT ![f] = "done"]
  /\ last' = [last EXCEPT ![f] = about]
  /\ result' = [result EXCEPT ![f] = [verdict |-> verdict, validated |-> validated]]
  /\ UNCHANGED wait

\* Sleep before the next attempt; after the last one the loop ends.
Pause(f, delay, verdict, validated, about) ==
  \/ /\ attempt[f] < MaxAttempts
     /\ pc' = [pc EXCEPT ![f] = "pause"]
     /\ wait' = [wait EXCEPT ![f] = delay]
     /\ UNCHANGED <<result, last>>
  \/ /\ attempt[f] = MaxAttempts
     /\ Return(f, verdict, validated, about)

\* Mutant: an attempt that met nothing new is made again.
SameAttempt(f) == IF hits[f] = 0 THEN attempt[f] ELSE attempt[f] + 1

NextAttempt(f) == attempt[f] + 1

Resume(f) ==
  /\ pc[f] = "pause"
  /\ wait[f] = 0
  /\ pc' = [pc EXCEPT ![f] = "vet"]
  /\ attempt' = [attempt EXCEPT ![f] = NextAttempt(f)]
  /\ UNCHANGED <<hits, wait, total, result, free, since, last, blocks, checked>>

-----------------------------------------------------------------------------
(* The address check, before every attempt.                                *)

\* resolve_all_ips and assert_public_url: the first answer of the resolver
\* counts, after at most DnsTries questions; an answer is "private" as soon as
\* one of the addresses is.
Resolved(answers) ==
  IF \A i \in 1..DnsTries : answers[i] = "unresolved" THEN "unresolved"
  ELSE answers[CHOOSE i \in 1..DnsTries :
                 /\ answers[i] # "unresolved"
                 /\ \A j \in 1..(i - 1) : answers[j] = "unresolved"]

Resolutions == {Resolved(answers) : answers \in [1..DnsTries -> Addresses]}

\* Mutant: a resolver that fails is taken for a refused address.
VetAsRefusal(address) == IF address = "public" THEN "public" ELSE "private"

\* DNSResolutionError is told from the SSRFBlockedError it derives from.
VetAs(address) == address

\* A resolver failure is retried, with a pause that has no cap, and without a
\* look at the bot blocks so far; a refusal ends the fetch, and its result does
\* not count the requests of earlier attempts.
Vet(f) ==
  /\ pc[f] = "vet"
  /\ \E address \in Resolutions :
       LET about == [address |-> address, met |-> NoVisit] IN
       \/ /\ VetAs(address) = "public"
          /\ pc' = [pc EXCEPT ![f] = "throttle"]
          /\ UNCHANGED <<wait, result, last>>
       \/ /\ VetAs(address) = "private"
          /\ Return(f, "blocked_ssrf", 0, about)
       \/ /\ VetAs(address) = "unresolved"
          /\ Pause(f, Backoff(attempt[f]), "network_error", total[f], about)
  /\ UNCHANGED <<attempt, hits, total, free, since, blocks, checked>>

-----------------------------------------------------------------------------
(* The throttle of a domain.                                               *)

\* Mutant: the next slot is reckoned from now, not from the slot just taken.
NextFreeFromNow(d) == MinDelay

\* What _next_available_at[d] becomes, as time from now: start_at + min_delay.
NextFree(d) == free[d] + MinDelay

\* _DomainThrottle.wait under its lock; the sleep is outside of it.
Reserve(f) ==
  LET d == DomainOf[f] IN
  /\ pc[f] = "throttle"
  /\ pc' = [pc EXCEPT ![f] = "queue"]
  /\ IF MinDelay = 0
     THEN UNCHANGED <<wait, free, since>>
     ELSE /\ wait' = [wait EXCEPT ![f] = free[d]]
          /\ free' = [free EXCEPT ![d] = NextFree(d)]
          /\ since' = IF free[d] = 0 THEN [since EXCEPT ![d] = 0] ELSE since
  /\ UNCHANGED progress

\* Time passes for everyone.  A slot begins when the wait for it is over.
Tick ==
  /\ \/ \E f \in Fetches : wait[f] > 0
     \/ \E d \in Domains : free[d] > 0 \/ since[d] < MinDelay
  /\ wait' = [f \in Fetches |-> IF wait[f] > 0 THEN wait[f] - 1 ELSE 0]
  /\ free' = [d \in Domains |-> IF free[d] > 0 THEN free[d] - 1 ELSE 0]
  /\ since' = [d \in Domains |->
       IF \E f \in Fetches : DomainOf[f] = d /\ pc[f] = "queue" /\ wait[f] = 1 THEN 0
       ELSE IF since[d] < MinDelay THEN since[d] + 1 ELSE MinDelay]
  /\ UNCHANGED <<pc, progress>>

\* A new context with the guard installed; fetch does not catch what the
\* browser raises here.
Open(f) ==
  /\ pc[f] = "queue"
  /\ wait[f] = 0
  /\ \/ pc' = [pc EXCEPT ![f] = "visit"]
     \/ pc' = [pc EXCEPT ![f] = "raised"]
  /\ UNCHANGED <<progress, wait, free, since>>

-----------------------------------------------------------------------------
(* The verdict on a visit.                                                 *)

Interstitial(v) == v.first \in {"challenge", "captcha"}
Document(v) == IF Interstitial(v) THEN v.settled ELSE v.first
Unsettled(v) == Document(v) \in {"challenge", "captcha"}

\* The status does not count once an interstitial gave way to another document.
Denied(v) == v.load # "fine" /\ (Interstitial(v) => Unsettled(v))

\* What the code holds against a visit, in the order in which it looks; only
\* the first document is looked at for a hard block.
Verdict(v) ==
  IF v.load = "failed" THEN "network_error"
  ELSE IF v.load = "gone" THEN "not_found"
  ELSE IF v.first = "broken" THEN "network_error"
  ELSE IF v.first = "hard_block" THEN "bot_blocked"
  ELSE IF Document(v) = "captcha" THEN "captcha_blocked"
  ELSE IF Document(v) = "challenge" THEN "bot_blocked"
  ELSE IF Denied(v) /\ v.load = "throttled" THEN "rate_limited"
  ELSE IF Denied(v) /\ v.load = "denied" THEN "bot_blocked"
  ELSE IF Denied(v) THEN "http_error"
  ELSE IF Document(v) \in {"bodyless", "broken"} THEN "network_error"
  ELSE IF v.landed = "unresolved" THEN "network_error"
  ELSE IF v.landed = "private" THEN "blocked_ssrf"
  ELSE "ok"

VerdictOn == [v \in Visits |-> Verdict(v)]

\* Mutant: bot blocks are retried as often as anything else.
StopWhenCaptcha(verdict, blocked) == verdict = "captcha_blocked"

\* No retry of a CAPTCHA, and only so many of a block.
Stop(verdict, blocked) ==
  \/ verdict = "captcha_blocked"
  \/ verdict = "bot_blocked" /\ blocked >= MaxBotBlocks

\* What a block is, whatever the code makes of it: an interstitial that stays,
\* a block page, or 401 and 403 without an interstitial.
Refused(v) ==
  /\ v.load \notin {"failed", "gone"}
  /\ \/ v.first = "hard_block"
     \/ v.first # "broken" /\ Document(v) = "challenge"
     \/ v.load = "denied" /\ v.first \in {"page", "bodyless"}

\* Mutant: the result counts the requests of the last attempt.
CountLast(f, v) == v.requests

\* The guard's count of an attempt is added to those before, however it ended.
CountAll(f, v) == total[f] + v.requests

\* A visit up to the close of its context.
Visit(f) ==
  /\ pc[f] = "visit"
  /\ \E v \in Visits :
       LET verdict == VerdictOn[v]
           blocked == IF verdict = "bot_blocked" THEN hits[f] + 1 ELSE hits[f]
           count == CountAll(f, v)
           asks == IF verdict = "rate_limited" THEN v.asks ELSE NoDelay
           about == [address |-> "public", met |-> v]
       IN
       /\ checked' = [checked EXCEPT ![f] = @ + v.requests]
       /\ total' = [total EXCEPT ![f] = count]
       /\ hits' = [hits EXCEPT ![f] = blocked]
       /\ blocks' = [blocks EXCEPT ![f] = IF Refused(v) THEN @ + 1 ELSE @]
       /\ IF verdict \notin Retryable \/ Stop(verdict, blocked)
          THEN Return(f, verdict, count, about)
          ELSE Pause(f, CappedPause(asks, attempt[f]), verdict, count, about)
  /\ UNCHANGED <<attempt, free, since>>

-----------------------------------------------------------------------------
Step(f) == Vet(f) \/ Reserve(f) \/ Open(f) \/ Visit(f) \/ Resume(f)

Returned == \A f \in Fetches : pc[f] \in {"done", "raised"}

\* All fetches have returned and the throttle is at rest.
Rest == Returned /\ UNCHANGED vars

Next == Tick \/ Rest \/ \E f \in Fetches : Step(f)

SafeSpec == Init /\ [][Next]_vars
\* Time passes, and the event loop gets back to a fetch whose await is over:
\* navigation, settling and the guard's requests have timeouts of their own.
Fairness == WF_vars(Tick) /\ \A f \in Fetches : WF_vars(Step(f))
Spec == SafeSpec /\ Fairness

-----------------------------------------------------------------------------
(* Properties.                                                             *)

\* The slots of a domain are MinDelay apart, those of different fetches and
\* of their retries included: a slot still to come is that far from every
\* other one to come and from the one that began last.  This is the promise of
\* _DomainThrottle, which sleeps outside of its lock.
SlotsSpaced ==
  \A f \in Fetches : pc[f] = "queue" /\ wait[f] > 0 =>
    /\ since[DomainOf[f]] + wait[f] >= MinDelay
    /\ \A g \in Fetches \ {f} :
         DomainOf[g] = DomainOf[f] /\ pc[g] = "queue" /\ wait[g] >= wait[f] =>
           wait[g] >= wait[f] + MinDelay

\* The verdict of a result, and what the address and the visit must have been.
Honest(f) ==
  LET met == last[f].met IN
  CASE result[f].verdict = "not_found" -> met.load = "gone"
    [] result[f].verdict = "blocked_ssrf" -> "private" \in {last[f].address, met.landed}
    [] result[f].verdict = "ok" ->
         /\ met.load \in {"fine", "throttled", "denied", "error"}
         /\ met.landed = "public"
         /\ Document(met) \in {"page", "hard_block"}
         /\ met.load # "fine" => Interstitial(met)
    [] OTHER -> \/ attempt[f] = MaxAttempts
                \/ Document(met) = "captcha"
                \/ blocks[f] = MaxBotBlocks

\* A result says what the attempts met, whatever way they took.  "Not found" and
\* "refused" are claims about the store: the first needs a 404 or 410, the
\* second a private address; a resolver that failed shows neither.  Content
\* needs a page that loaded, from a public address.  Any other end needs
\* all attempts to be used, a CAPTCHA, or MaxBotBlocks blocks.
HonestResult == \A f \in Fetches : pc[f] = "done" => Honest(f)

\* A store that blocks the crawler is not asked again and again: a fetch meets
\* at most MaxBotBlocks blocks, between other failures too.
BlocksRespected == \A f \in Fetches : blocks[f] <= MaxBotBlocks

\* The requests that the guard checked in failed attempts are not lost from the
\* result, unless the address itself is refused before a visit.
GuardWorkKept ==
  \A f \in Fetches : pc[f] = "done" =>
    \/ result[f].validated = checked[f]
    \/ result[f].verdict = "blocked_ssrf" /\ last[f].address = "private"

\* Every fetch returns, or raises: neither the throttle nor the retries keep it.
EveryFetchEnds == \A f \in Fetches : <>(pc[f] \in {"done", "raised"})

\* The comment on the hard block check: a block page is "never handed downstream
\* as if its block-page body were real content".
BlockPageNotContent ==
  \A f \in Fetches : pc[f] = "done" /\ result[f].verdict = "ok" =>
    Document(last[f].met) # "hard_block"
=============================================================================

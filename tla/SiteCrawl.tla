------------------------------ MODULE SiteCrawl ------------------------------
(***************************************************************************)
(* Breadth-first crawls of stores (app/site_mapper.py).  A crawl fetches a *)
(* wave of pages at once, awaits all of them and queues what they link to; *)
(* it runs until no page is left or the page budget is used up.  The       *)
(* budget is read from a Settings object each time, and First Audits all   *)
(* pass the application's own object, which a crawl overwrites with a      *)
(* budget fit for its store; ad-hoc and scheduled audits pass a copy.      *)
(*                                                                         *)
(* Between two awaits a crawl is atomic: a step is the end of one wave and *)
(* the start of the next.  The single fetches of a wave are PageFetch.     *)
(***************************************************************************)
EXTENDS Integers, Sequences, FiniteSets, FiniteSetsExt

CONSTANTS
  Crawls,        \* the crawls of this process
  Names,         \* URLs as pages and sitemaps spell them
  Urls,          \* URLs in normal form
  Norm,          \* _normalize: what a name stands for
  Home,          \* the homepage, in normal form
  External,      \* URLs of other sites
  Robots,        \* what robots.txt may keep the crawler from; nothing if unreadable
  OverviewLike,  \* URLs that look like policy or contact pages
  ProductLike,   \* URLs that look like product pages
  Listings,      \* pages that are classified as COLLECTION
  PathKey,       \* parent path of a URL, its category for want of a better one
  Links,         \* per URL, what the page may turn out to link to
  Sitemaps,      \* what a sitemap may hold, as sequences of names
  Counts,        \* what WooCommerce may report as its number of products
  Default,       \* crawl_max_pages as configured
  Requested,     \* max_pages of a request that names one
  HardMax,       \* HARD_MAX_PAGES
  MaxDepth,      \* crawl_max_depth
  CategoryCap,   \* crawl_max_product_pages_per_category
  BudgetFloor, Overhead, PriorityFloor, \* 60, 40 and 10 in the code
  NoKey, NoCount

ASSUME BudgetAssumption ==
  /\ HardMax \in Nat \ {0}
  /\ {Default, Requested, BudgetFloor, Overhead} \subseteq 1..HardMax
  /\ {MaxDepth, CategoryCap, PriorityFloor} \subseteq Nat
  /\ Counts \subseteq Nat
  /\ NoCount \notin Nat

ASSUME StoreAssumption ==
  /\ Norm \in [Names -> Urls]
  /\ Home \in Urls
  /\ Robots \subseteq SUBSET Urls
  /\ Links \in [Urls -> SUBSET Seq(Names)]
  /\ Sitemaps \subseteq Seq(Names)

VARIABLES
  app,     \* crawl_max_pages of the application's Settings
  own,     \* crawl_max_pages of the copy a crawl was given
  mode,    \* whose settings a crawl uses: "app", a "copy", or "explicit"
  pc,      \* where a crawl is: "idle", "new", "fetch", "probe", "done", "raised"
  wave,    \* the entries being fetched, as [url, depth, key]
  seen,    \* URLs that were queued, or refused
  pages,   \* pages fetched so far, as [url, depth, links]
  count,   \* products queued per category
  barred,  \* URLs that robots.txt disallows
  listed,  \* the sitemap as it was read
  later,   \* sitemap URLs held back until the first wave is fetched
  cut      \* history: URLs dropped when a wave was cut to the budget

vars == <<app, own, mode, pc, wave, seen, pages, count, barred, listed, later, cut>>

Modes == {"app", "copy", "explicit"}
Keys == {PathKey[u] : u \in Urls} \cup Listings
Entries == [url : Urls, depth : Nat, key : Keys \cup {NoKey}]
Pages == [url : Urls, depth : Nat, links : Seq(Names)]

TypeOK ==
  /\ app \in 1..HardMax
  /\ own \in [Crawls -> 1..HardMax]
  /\ mode \in [Crawls -> Modes]
  /\ pc \in [Crawls -> {"idle", "new", "fetch", "probe", "done", "raised"}]
  /\ wave \in [Crawls -> Seq(Entries)]
  /\ seen \in [Crawls -> SUBSET Urls]
  /\ pages \in [Crawls -> Seq(Pages)]
  /\ count \in [Crawls -> [Keys -> Nat]]
  /\ barred \in [Crawls -> SUBSET Urls]
  /\ listed \in [Crawls -> Seq(Names)]
  /\ later \in [Crawls -> Seq(Urls)]
  /\ cut \in [Crawls -> SUBSET Urls]

Init ==
  /\ app = Default
  /\ mode \in [Crawls -> Modes]
  /\ own = [c \in Crawls |-> Default]
  /\ pc = [c \in Crawls |-> "idle"]
  /\ wave = [c \in Crawls |-> <<>>]
  /\ seen = [c \in Crawls |-> {}]
  /\ pages = [c \in Crawls |-> <<>>]
  /\ count = [c \in Crawls |-> [k \in Keys |-> 0]]
  /\ barred = [c \in Crawls |-> {}]
  /\ listed = [c \in Crawls |-> <<>>]
  /\ later = [c \in Crawls |-> <<>>]
  /\ cut = [c \in Crawls |-> {}]

-----------------------------------------------------------------------------
(* Budgets.                                                                *)

Clamp(n) == Max({1, Min({n, HardMax})})

AdaptiveBudget(products, total, configured) ==
  IF products > 0 THEN Max({BudgetFloor, 2 * products + Overhead})
  ELSE IF total > 0 THEN Max({BudgetFloor, total})
  ELSE configured

\* Mutant: nobody was given a copy.
SharedBudget(c) == app

\* The budget a crawl finds in its settings when it looks.
Budget(c) == IF mode[c] = "app" THEN app ELSE own[c]

-----------------------------------------------------------------------------
(* The queue.  A state of it is [barred, seen, count, wave].               *)

\* A product that no listing led to is filed under its path.
KeyOf(e) == IF e.key = NoKey THEN PathKey[e.url] ELSE e.key

\* Mutant: a URL is remembered only when it is refused.
RememberRefused(q, e) == [q EXCEPT !.seen = @ \cup ({e.url} \cap q.barred)]

Remember(q, e) == [q EXCEPT !.seen = @ \cup {e.url}]

Enqueue(q, e) ==
  LET looked == Remember(q, e)
      queued == [looked EXCEPT !.wave = Append(@, e)] IN
  IF e.url \in q.seen THEN q
  ELSE IF e.url \in q.barred THEN looked
  ELSE IF e.url \notin ProductLike THEN queued
  ELSE IF q.count[KeyOf(e)] >= CategoryCap THEN looked
  ELSE [queued EXCEPT !.count[KeyOf(e)] = @ + 1]

\* One entry after the other.
EnqueueAll(q, es) ==
  LET after[i \in 0..Len(es)] == IF i = 0 THEN q ELSE Enqueue(after[i - 1], es[i])
  IN after[Len(es)]

AtDepth(us, d) == [i \in DOMAIN us |-> [url |-> us[i], depth |-> d, key |-> NoKey]]

\* The children of one page.  What a listing links to belongs to its
\* category; other pages pass on the category they came from.
Children(e, links) ==
  IF e.depth >= MaxDepth THEN <<>>
  ELSE [i \in DOMAIN links |->
         [url |-> Norm[links[i]], depth |-> e.depth + 1,
          key |-> IF e.url \in Listings THEN e.url ELSE e.key]]

\* The elements of s that are in T, in their order.
Among(s, T) ==
  LET upTo[i \in 0..Len(s)] ==
        IF i = 0 THEN <<>>
        ELSE IF s[i] \in T THEN Append(upTo[i - 1], s[i]) ELSE upTo[i - 1]
  IN upTo[Len(s)]

\* The n-th child of every page that has as many.
Round(lists, n) ==
  LET having == Among([i \in DOMAIN lists |-> i], {i \in DOMAIN lists : n <= Len(lists[i])})
  IN [k \in DOMAIN having |-> lists[having[k]][n]]

\* The first n children of every page, round by round.
Rounds(lists, n) ==
  LET upTo[i \in 0..n] == IF i = 0 THEN <<>> ELSE upTo[i - 1] \o Round(lists, i)
  IN upTo[n]

\* Mutant: zip instead of zip_longest, so that the page with the fewest
\* children ends the round for all.
RoundRobinShortest(lists) == Rounds(lists, Min({Len(lists[i]) : i \in DOMAIN lists}))

\* zip_longest: first children first, until no page has another one.
RoundRobin(lists) == Rounds(lists, Max({0} \cup {Len(lists[i]) : i \in DOMAIN lists}))

Prefix(s, n) == SubSeq(s, 1, Min({n, Len(s)}))
Rest(s, n) == SubSeq(s, n + 1, Len(s))

UrlsOf(entries) == {entries[i].url : i \in DOMAIN entries}

-----------------------------------------------------------------------------
(* Actions.                                                                *)

\* A request or a schedule creates the audit, with settings to go by.
Launch(c) ==
  /\ pc[c] = "idle"
  /\ pc' = [pc EXCEPT ![c] = "new"]
  /\ own' = [own EXCEPT ![c] = IF mode[c] = "explicit" THEN Requested ELSE app]
  /\ UNCHANGED <<app, mode, wave, seen, pages, count, barred, listed, later, cut>>

\* Mutant: the budget only decides whether there is another wave.
RoomForAll(got, budget) == IF budget > Len(got) THEN Cardinality(Urls) ELSE 0

Room(got, budget) == Max({0, budget - Len(got)})

\* The end of a turn: as much of the queue as the budget has room for is
\* fetched next, and the rest of it is dropped.
Turn(c, q, got, budget) ==
  LET next == Prefix(q.wave, Room(got, budget)) IN
  /\ pages' = [pages EXCEPT ![c] = got]
  /\ seen' = [seen EXCEPT ![c] = q.seen]
  /\ count' = [count EXCEPT ![c] = q.count]
  /\ wave' = [wave EXCEPT ![c] = next]
  /\ cut' = [cut EXCEPT ![c] = @ \cup UrlsOf(Rest(q.wave, Len(next)))]
  /\ pc' = [pc EXCEPT ![c] = IF next = <<>> THEN "probe" ELSE "fetch"]

\* robots.txt, the sitemap and the number of products are in: settle the
\* budget and seed the first wave, policy pages before products.
Start(c) ==
  /\ pc[c] = "new"
  /\ \E rules \in Robots, list \in Sitemaps, reported \in Counts \cup {NoCount} :
       LET us == Among([i \in DOMAIN list |-> Norm[list[i]]], Urls \ External)
           overview == Among(us, OverviewLike)
           catalog == Among(us, ProductLike \ OverviewLike)
           others == Among(us, Urls \ (ProductLike \cup OverviewLike))
           products == IF reported = NoCount THEN Len(catalog) ELSE reported
           budget == IF mode[c] = "explicit" THEN own[c]
                     ELSE Clamp(AdaptiveBudget(products, Len(list), Budget(c)))
           priority == Max({PriorityFloor, budget \div 3})
           spare == Max({0, priority - Len(overview)})
           home == [url |-> Home, depth |-> 0, key |-> NoKey]
           seeds == AtDepth(Prefix(overview, priority) \o Prefix(catalog, spare), 1)
           queue == [barred |-> rules, seen |-> {Home}, count |-> count[c], wave |-> <<home>>]
       IN /\ Home \notin rules
          /\ barred' = [barred EXCEPT ![c] = rules]
          /\ listed' = [listed EXCEPT ![c] = list]
          /\ later' = [later EXCEPT ![c] =
                         Rest(overview, priority) \o Rest(catalog, spare) \o others]
          /\ app' = IF mode[c] = "app" THEN budget ELSE app
          /\ own' = IF mode[c] = "app" THEN own ELSE [own EXCEPT ![c] = budget]
          /\ Turn(c, EnqueueAll(queue, seeds), <<>>, budget)
  /\ UNCHANGED mode

\* robots.txt keeps the crawler out altogether.
Barred(c) ==
  /\ pc[c] = "new"
  /\ \E rules \in Robots :
       /\ Home \in rules
       /\ barred' = [barred EXCEPT ![c] = rules]
  /\ pc' = [pc EXCEPT ![c] = "done"]
  /\ UNCHANGED <<app, own, mode, wave, seen, pages, count, listed, later, cut>>

\* Every page of the wave was fetched, or failed and links to nothing.
Gather(c) ==
  /\ pc[c] = "fetch"
  /\ \E found \in [DOMAIN wave[c] -> UNION {Links[u] : u \in Urls}] :
       /\ \A i \in DOMAIN wave[c] : found[i] \in Links[wave[c][i].url]
       /\ LET kids == RoundRobin([i \in DOMAIN wave[c] |-> Children(wave[c][i], found[i])])
              rest == AtDepth(later[c], wave[c][1].depth + 1)
              got == [i \in DOMAIN wave[c] |->
                       [url |-> wave[c][i].url, depth |-> wave[c][i].depth, links |-> found[i]]]
              queue == [barred |-> barred[c], seen |-> seen[c], count |-> count[c], wave |-> <<>>]
          IN Turn(c, EnqueueAll(queue, kids \o rest), pages[c] \o got, Budget(c))
  /\ later' = [later EXCEPT ![c] = <<>>]
  /\ UNCHANGED <<app, own, mode, barred, listed>>

\* One page that cannot exist is fetched to see what the store answers.
Probe(c) ==
  /\ pc[c] = "probe"
  /\ pc' = [pc EXCEPT ![c] = "done"]
  /\ UNCHANGED <<app, own, mode, wave, seen, pages, count, barred, listed, later, cut>>

\* A fetch of the wave raises (PageFetch!Open), and with it the crawl: what it
\* had gathered is gone, what it did to the settings stays.
Raise(c) ==
  /\ pc[c] \in {"fetch", "probe"}
  /\ pc' = [pc EXCEPT ![c] = "raised"]
  /\ wave' = [wave EXCEPT ![c] = <<>>]
  /\ seen' = [seen EXCEPT ![c] = {}]
  /\ pages' = [pages EXCEPT ![c] = <<>>]
  /\ count' = [count EXCEPT ![c] = [k \in Keys |-> 0]]
  /\ barred' = [barred EXCEPT ![c] = {}]
  /\ listed' = [listed EXCEPT ![c] = <<>>]
  /\ later' = [later EXCEPT ![c] = <<>>]
  /\ cut' = [cut EXCEPT ![c] = {}]
  /\ UNCHANGED <<app, own, mode>>

Over == (\A c \in Crawls : pc[c] \in {"done", "raised"}) /\ UNCHANGED vars

CrawlStep(c) == Launch(c) \/ Start(c) \/ Barred(c) \/ Gather(c) \/ Probe(c) \/ Raise(c)

Next == (\E c \in Crawls : CrawlStep(c)) \/ Over

Spec == Init /\ [][Next]_vars

-----------------------------------------------------------------------------
(* Properties.                                                             *)

Fetched(c) == UrlsOf(pages[c])

\* However often and in whatever spelling a page is linked to, from pages of
\* one wave or of several and from the sitemap, a crawl fetches it once.
FetchedOnce ==
  \A c \in Crawls :
    LET all == pages[c] \o [i \in DOMAIN wave[c] |-> [url |-> wave[c][i].url]]
    IN \A i, j \in DOMAIN all : all[i].url = all[j].url => i = j

\* What a crawl knows of: the sitemap, and the links of every page that is
\* not too deep to be followed.
Known(c) ==
  ({Norm[listed[c][i]] : i \in DOMAIN listed[c]}
     \cup UNION {{Norm[pages[c][i].links[j]] : j \in DOMAIN pages[c][i].links} :
                   i \in {k \in DOMAIN pages[c] : pages[c][k].depth < MaxDepth}}) \ External

\* The categories a product may have been counted for.
Categories(c, u) == {PathKey[u]} \cup (Listings \cap Fetched(c))

\* Every page a finished crawl knew of is accounted for: it was fetched, or
\* robots.txt forbids it, or it is a product of a category that is full, or
\* it was cut from a wave.  No child of a page is lost in the interleaving
\* of the pages of a wave, nor a sitemap URL when it is held back.
NothingForgotten ==
  \A c \in Crawls : pc[c] = "done" /\ pages[c] # <<>> =>
    \A u \in Known(c) \ (Fetched(c) \cup barred[c] \cup cut[c]) :
      /\ u \in ProductLike
      /\ \E k \in Categories(c, u) : count[c][k] = CategoryCap

\* A crawl on settings of its own drops a page only to fill its budget to
\* the last page: what it dropped, and counted for a category, could not
\* have been fetched later.
CutWhenFull ==
  \A c \in Crawls : cut[c] # {} /\ mode[c] # "app" =>
    Len(pages[c]) + Len(wave[c]) = own[c]

\* Whoever changes the shared budget while a wave is in flight, no crawl
\* fetches more than HARD_MAX_PAGES pages.
PageCap == \A c \in Crawls : Len(pages[c]) + Len(wave[c]) <= HardMax

\* "left at the configured default when no signal is available at all (no
\* sitemap)": a crawl that nobody gave a budget and that read no sitemap
\* stays within the configured one.
DefaultKept ==
  \A c \in Crawls : mode[c] # "explicit" /\ listed[c] = <<>> =>
    Len(pages[c]) + Len(wave[c]) <= Default
=============================================================================

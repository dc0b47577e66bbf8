------------------------------- MODULE Listing -------------------------------
(***************************************************************************)
(* The pages a reader browses: the links and forms of each view, what a    *)
(* request's query comes to as the filters of a page, the filtered, sorted *)
(* and cut list of traces, the live feed and the statistics of the rolling *)
(* window (frontend/view/page.go, filter.go, sort.go, the templates that   *)
(* draw links and rows, model/stats.go and the page handlers of            *)
(* frontend/handler.go).                                                   *)
(*                                                                         *)
(* Hosts and trace names are numbers in their string order, 0 is the empty *)
(* one. A query is a record of its parameters with the empty string, or 0, *)
(* for one that is absent. A trace is a record of what the pages tell      *)
(* apart, with a number for its identifier; it runs through Begin,         *)
(* Unregister and Store in any order while the reader browses.             *)
(*                                                                         *)
(* A page is drawn from a Snapshot, which has two halves: what is in       *)
(* flight and the requests of each host, read under the tracer's lock, and *)
(* the log, read from the storage afterwards. Asking for a page takes the  *)
(* first half; the second may be read at any later moment, so what a page  *)
(* shows is said of every state, with the log as it is in it.              *)
(***************************************************************************)
EXTENDS Integers, Sequences, FiniteSets, SequencesExt, Retention

CONSTANTS
  Loads,         \* sequences of traces the program records, in starting order
  Internal,      \* BackgroundHost
  LimitOptions,  \* row counts offered on the list
  ListKinds,     \* kinds offered in the filter
  Words,         \* texts the reader searches for
  Typed,         \* queries a reader enters by hand
  FeedRows, TopLimit,
  Retained,      \* traces the storage holds, 0 for any number
  Restored,      \* how many traces an earlier process may have left
  Rejected,      \* hosts whose requests the sampler may reject
  MaxSkipped,    \* bound: requests of a host, for one to be rejected
  MaxFilters     \* bound: filters a page has at a time

(* A host and a route of 0 are empty; a start is a time from some moment on. *)
Traces ==
  [id : Nat, http : BOOLEAN, host : Nat, name : Nat, route : Nat,
   failed : {"no", "state", "text"}, started : Int, duration : Nat,
   spans : Nat, alloc : Nat, kinds : SUBSET ListKinds, words : SUBSET Words]

(* No two traces of a run have the same identifier.                        *)
ASSUME ListingAssumption ==
  /\ \A l \in Loads :
       l \in Seq(Traces) /\ \A i, j \in DOMAIN l : i # j => l[i].id # l[j].id
  /\ Internal \in Nat \ {0}
  /\ Rejected \in SUBSET (Nat \ {0}) /\ IsFiniteSet(Rejected)
  /\ LimitOptions \in Seq(Nat \ {0}) /\ LimitOptions # <<>>
  /\ FeedRows \in Nat /\ TopLimit \in Nat
  /\ Retained \in Nat /\ Restored \in SUBSET Nat

VARIABLES
  load,     \* the traces of this run
  begun,    \* how many of them have started
  live,     \* in flight
  leaving,  \* finished, and not saved yet
  log,      \* retained, newest first
  requests, \* requests per host since the tracer was made or reset
  zeroing,  \* whether a Reset has emptied the log and not yet the counters
  page,     \* the page the reader is on
  early,    \* the first half of its snapshot, and the host it is drawn for
  wanted    \* ghost: the filters the reader asked for

recordedVars == <<load, begun, live, leaving, log, requests, zeroing>>
listingVars == <<recordedVars, page, early, wanted>>

SortKeys == {"age", "duration", "spans", "allocated"}

(* TraceHost: a trace without a request, or whose request had no host. *)
TraceHost(t) == IF ~t.http \/ t.host = 0 THEN Internal ELSE t.host

HasFailed(t) == t.failed # "no"

-----------------------------------------------------------------------------
(* The query of a link and the page it leads to.                           *)

EmptyQuery == [host |-> 0, limit |-> 0, q |-> "", kind |-> "", status |-> "",
               sort |-> "", order |-> ""]

RequestedLimit(n) == IF n \in Range(LimitOptions) THEN n ELSE LimitOptions[1]

RequestedSort(key) == IF key \in SortKeys THEN key ELSE "age"

RequestedStatus(status) == IF status = "error" THEN status ELSE "all"

NewPage(view, query) ==
  [view |-> view, host |-> query.host, limit |-> RequestedLimit(query.limit),
   q |-> query.q, kind |-> query.kind, status |-> RequestedStatus(query.status),
   sort |-> RequestedSort(query.sort), asc |-> query.order = "asc"]

(* Page.URL: the host follows between list and feed, the other filters     *)
(* belong to the list, and a default is left out.                          *)
URL(p, view) ==
  IF view = "list"
  THEN [host |-> p.host,
        limit |-> IF p.limit > 0 /\ p.limit # LimitOptions[1] THEN p.limit ELSE 0,
        q |-> p.q, kind |-> p.kind,
        status |-> IF p.status # "all" THEN p.status ELSE "",
        sort |-> IF p.sort # "age" THEN p.sort ELSE "",
        order |-> IF p.asc THEN "asc" ELSE ""]
  ELSE [EmptyQuery EXCEPT !.host = IF view = "live" THEN p.host ELSE 0]

HostURL(p, host) == URL([p EXCEPT !.host = host], "list")

(* The active column flips its direction, another starts largest first. *)
SortURL(p, key) ==
  URL([p EXCEPT !.sort = key, !.asc = p.sort = key /\ ~p.asc], "list")

SwitchView(p) == IF p.view = "live" THEN "live" ELSE "list"

SwitchHostURL(p, host) == URL([p EXCEPT !.host = host], SwitchView(p))

(* What the filter form submits: its own fields and the host. *)
FormQuery(p, q, kind, status, limit) ==
  [EmptyQuery EXCEPT !.host = p.host, !.q = q, !.kind = kind,
                     !.status = status, !.limit = limit]

(* The views the tabs of a page lead to. *)
Tabs(p) ==
  IF p.view = "detail" THEN {"list"}
  ELSE {"list", "live", "stats"} \cup (IF p.host = 0 THEN {"hosts"} ELSE {})

-----------------------------------------------------------------------------
(* Lists of traces.                                                        *)

Matches(t, q) == q = "" \/ q \in t.words

Passes(t, p) ==
  /\ Matches(t, p.q)
  /\ p.kind # "" => p.kind \in t.kinds
  /\ p.host # 0 => TraceHost(t) = p.host
  /\ p.status = "error" => HasFailed(t)

Filter(traces, p) == Sifted(traces, {t \in Range(traces) : Passes(t, p)})

KeyOf(t, key) ==
  CASE key = "duration" -> t.duration
    [] key = "spans" -> t.spans
    [] key = "allocated" -> t.alloc
    [] OTHER -> t.started

Sort(traces, key, ascending) ==
  StableSort(traces, LAMBDA a, b : IF ascending THEN KeyOf(a, key) < KeyOf(b, key)
                                   ELSE KeyOf(b, key) < KeyOf(a, key))

Cut(s, n) == SubSeq(s, 1, IF n > 0 /\ Len(s) > n THEN n ELSE Len(s))

(* serveList. Mutant: the rows are cut before they are filtered. *)
ListCutFirst(p) == Filter(Cut(Sort(log, p.sort, p.asc), p.limit), p)

List(p) == Cut(Sort(Filter(log, p), p.sort, p.asc), p.limit)

(* NewLivePage: in flight and completed in one feed, of the host alone.    *)
Feed ==
  Cut(StableSort(Filter(early.live \o log,
                        [NewPage("live", EmptyQuery) EXCEPT !.host = early.host]),
                 LAMBDA a, b : a.started > b.started), FeedRows)

Slowest(traces) ==
  IF \A i \in DOMAIN traces : traces[i].duration <= 0 THEN 0
  ELSE CHOOSE d \in {traces[i].duration : i \in DOMAIN traces} :
         \A i \in DOMAIN traces : traces[i].duration <= d

-----------------------------------------------------------------------------
(* The statistics of the window. Which is the log.                         *)

GroupKey(t) ==
  [name |-> IF t.http /\ t.route # 0 THEN t.route ELSE t.name,
   host |-> IF t.http THEN t.host ELSE 0]

Group(key) ==
  LET In == {i \in DOMAIN log : GroupKey(log[i]) = key}
      Count == Cardinality(In)
      Time  == SumFunction([i \in In |-> log[i].duration])
  IN [name |-> key.name, host |-> key.host, count |-> Count,
      errors |-> Cardinality({i \in In : HasFailed(log[i])}),
      total |-> Time, average |-> Time \div Count,
      longest |-> Slowest([i \in In |-> log[i]]),
      allocated |-> SumFunction([i \in In |-> log[i].alloc]) \div Count]

GroupLess(a, b) ==
  CASE a.count # b.count -> a.count > b.count
    [] a.count = b.count /\ a.total # b.total -> a.total > b.total
    [] a.count = b.count /\ a.total = b.total /\ a.name # b.name -> a.name < b.name
    [] OTHER -> a.host < b.host

(* In the order the groups first occur. *)
GroupKeys ==
  LET keys == [i \in DOMAIN log |-> GroupKey(log[i])]
      First(i) == \A j \in 1..(i - 1) : keys[j] # keys[i]
  IN [n \in 1..Cardinality(Range(keys)) |->
        keys[CHOOSE i \in DOMAIN keys :
               First(i) /\ Cardinality({j \in 1..i : First(j)}) = n]]

Top == Cut(StableSort([n \in DOMAIN GroupKeys |-> Group(GroupKeys[n])], GroupLess), TopLimit)

SeenHosts ==
  {h \in DOMAIN early.requests : early.requests[h] > 0}
    \cup {TraceHost(log[i]) : i \in DOMAIN log}

HostStat(h) ==
  LET Of == {i \in DOMAIN log : TraceHost(log[i]) = h} IN
  [host |-> h, requests |-> early.requests[h], traces |-> Cardinality(Of),
   errors |-> Cardinality({i \in Of : HasFailed(log[i])}),
   routes |-> Cardinality({GroupKey(log[i]).name : i \in Of}),
   spans |-> SumFunction([i \in Of |-> log[i].spans])]

HostLess(a, b) ==
  CASE a.requests # b.requests -> a.requests > b.requests
    [] a.requests = b.requests /\ a.traces # b.traces -> a.traces > b.traces
    [] OTHER -> a.host < b.host

(* The map of hosts is walked in any order. *)
HostStats(order) == StableSort([n \in DOMAIN order |-> HostStat(order[n])], HostLess)

-----------------------------------------------------------------------------
(* What is recorded meanwhile.                                             *)

(* What the page of a view takes of the first half: the rest is not drawn. *)
FirstHalf(view, host) ==
  [host |-> host,
   live |-> IF view = "live" THEN live ELSE <<>>,
   begun |-> IF view = "live" THEN begun ELSE 0,
   requests |-> IF view \in {"hosts", "stats"} THEN requests
                ELSE [h \in DOMAIN requests |-> 0]]

(* A log that was restored holds what began first, and counts for nothing. *)
ListingInit ==
  /\ load \in Loads
  /\ begun \in Restored \cap (0..Len(load))
  /\ live = <<>> /\ leaving = {}
  /\ log = Cut([i \in 1..begun |-> load[begun + 1 - i]], Retained)
  /\ requests = [h \in {TraceHost(load[i]) : i \in DOMAIN load} \cup Rejected |-> 0]
  /\ zeroing = FALSE
  /\ page = NewPage("hosts", EmptyQuery)
  /\ early = FirstHalf("hosts", 0)
  /\ wanted = NewPage("hosts", EmptyQuery)

Begin ==
  /\ begun < Len(load)
  /\ begun' = begun + 1
  /\ live' = Append(live, load[begun + 1])
  /\ requests' = [requests EXCEPT ![TraceHost(load[begun + 1])] = @ + 1]
  /\ UNCHANGED <<load, leaving, log, zeroing, page, early, wanted>>

(* Finish takes a trace from those in flight under the lock. *)
Unregister(i) ==
  /\ live' = Sifted(live, {t \in Range(live) : t.id # live[i].id})
  /\ leaving' = leaving \cup {live[i]}
  /\ UNCHANGED <<load, begun, log, requests, zeroing, page, early, wanted>>

(* Then it saves it, which may fail. *)
Store(t, ok) ==
  /\ leaving' = leaving \ {t}
  /\ log' = IF ok THEN Cut(<<t>> \o log, Retained) ELSE log
  /\ UNCHANGED <<load, begun, live, requests, zeroing, page, early, wanted>>

(* countUnsampled: a request that becomes no trace. *)
Skip(h) ==
  /\ requests[h] < MaxSkipped
  /\ requests' = [requests EXCEPT ![h] = @ + 1]
  /\ UNCHANGED <<load, begun, live, leaving, log, zeroing, page, early, wanted>>

(* Reset empties the storage, unless that fails, and then the counters.    *)
Reset(ok) ==
  /\ ~zeroing
  /\ zeroing' = TRUE
  /\ log' = IF ok THEN <<>> ELSE log
  /\ UNCHANGED <<load, begun, live, leaving, requests, page, early, wanted>>

ZeroCounters ==
  /\ zeroing
  /\ zeroing' = FALSE
  /\ requests' = [h \in DOMAIN requests |-> 0]
  /\ UNCHANGED <<load, begun, live, leaving, log, page, early, wanted>>

-----------------------------------------------------------------------------
(* The reader.                                                             *)

Unfiltered(view) == NewPage(view, EmptyQuery)

Filters(p) == {f \in DOMAIN p : p[f] # Unfiltered(p.view)[f]}

Follow(view, query, asked) ==
  /\ Cardinality(Filters(NewPage(view, query))) <= MaxFilters
  /\ page' = NewPage(view, query)
  /\ early' = FirstHalf(view, query.host)
  /\ wanted' = asked
  /\ UNCHANGED recordedVars

(* The same address again, by hand or by the page's meta refresh.          *)
Reload ==
  /\ early' = FirstHalf(page.view, page.host)
  /\ UNCHANGED <<recordedVars, page, wanted>>

(* An event of the stream redraws the section of a live page. The address  *)
(* of the stream, EventsURL, has no query.                                 *)
Stream ==
  /\ page.view = "live"
  /\ early' = FirstHalf("live", EmptyQuery.host)
  /\ UNCHANGED <<recordedVars, page, wanted>>

(* The tabs keep the filters between list pages and the host on the feed.  *)
FollowTab(view) ==
  /\ view \in Tabs(page)
  /\ Follow(view, URL(page, view),
            IF view = "list" THEN [wanted EXCEPT !.view = view]
            ELSE IF view = "live" THEN [Unfiltered(view) EXCEPT !.host = wanted.host]
            ELSE Unfiltered(view))

SwitchHost(h) ==
  Follow(SwitchView(page), SwitchHostURL(page, h),
         IF page.view = "live" THEN [Unfiltered("live") EXCEPT !.host = h]
         ELSE [wanted EXCEPT !.view = "list", !.host = h])

(* A row of the host table. *)
ChooseHost(h) ==
  /\ page.view = "hosts"
  /\ Follow("list", HostURL(page, h), [wanted EXCEPT !.view = "list", !.host = h])

ChooseSort(key) ==
  /\ page.view = "list"
  /\ Follow("list", SortURL(page, key),
            [wanted EXCEPT !.sort = key, !.asc = wanted.sort = key /\ ~wanted.asc])

(* The filter form starts over with the default order. *)
Submit(q, kind, status, limit) ==
  /\ page.view = "list"
  /\ Follow("list", FormQuery(page, q, kind, status, limit),
            [wanted EXCEPT !.q = q, !.kind = kind, !.status = status,
                           !.limit = limit, !.sort = "age", !.asc = FALSE])

(* Without scripting the old value of every dropdown goes ahead of the new *)
(* one and is the one that counts: only the words change.                  *)
SubmitUnscripted(q) == Submit(q, page.kind, page.status, page.limit)

(* The empty list's link, and the wordmark. *)
Clear ==
  /\ page.view = "list" /\ List(page) = <<>>
  /\ page.q # "" \/ page.kind # "" \/ page.status = "error"
  /\ Follow("list", EmptyQuery, Unfiltered("list"))

GoHome == Follow("hosts", EmptyQuery, Unfiltered("hosts"))

(* serveDetail: the page of a trace takes its host. *)
DetailPage(t) == [NewPage("detail", EmptyQuery) EXCEPT !.host = TraceHost(t)]

(* A link of a row, old or new, to a trace that is still found. *)
OpenTrace(t) ==
  /\ page' = DetailPage(t)
  /\ early' = FirstHalf("detail", TraceHost(t))
  /\ wanted' = [Unfiltered("detail") EXCEPT !.host = TraceHost(t)]
  /\ UNCHANGED recordedVars

Type(query) == Follow("list", query, NewPage("list", query))

(* A menu of hosts may be older than what it is drawn with now. *)
Browse ==
  \/ \E view \in {"hosts", "list", "live", "stats"} : FollowTab(view)
  \/ \E h \in DOMAIN requests : SwitchHost(h) \/ ChooseHost(h)
  \/ SwitchHost(0)
  \/ \E key \in SortKeys : ChooseSort(key)
  \/ \E q \in Words \cup {""}, kind \in ListKinds \cup {""}, status \in {"all", "error"},
        limit \in Range(LimitOptions) : Submit(q, kind, status, limit)
  \/ \E q \in Words \cup {""} : SubmitUnscripted(q)
  \/ Clear
  \/ GoHome
  \/ \E t \in Range(live \o log) : OpenTrace(t)
  \/ \E query \in Typed : Type(query)
  \/ Reload
  \/ Stream

ListingNext ==
  \/ Begin
  \/ \E i \in DOMAIN live : Unregister(i)
  \/ \E t \in leaving, ok \in BOOLEAN : Store(t, ok)
  \/ \E h \in Rejected : Skip(h)
  \/ \E ok \in BOOLEAN : Reset(ok)
  \/ ZeroCounters
  \/ Browse

ListingSpec == ListingInit /\ [][ListingNext]_listingVars

-----------------------------------------------------------------------------
(* A list shows the traces that pass, as many as fit: in order of the      *)
(* column, those that tie newest first, and none left out belongs before   *)
(* one that is shown.                                                      *)
Ranked(s, key, ascending) ==
  \A i, j \in DOMAIN s : i < j =>
    /\ IF ascending THEN KeyOf(s[i], key) <= KeyOf(s[j], key)
       ELSE KeyOf(s[j], key) <= KeyOf(s[i], key)
    /\ KeyOf(s[i], key) = KeyOf(s[j], key) =>
         \E m, n \in DOMAIN log : m < n /\ log[m].id = s[i].id /\ log[n].id = s[j].id

ListIsTop ==
  page.view = "list" =>
    LET shown == List(page)
        passing == {t \in Range(log) : Passes(t, wanted)}
    IN /\ Range(shown) \subseteq passing
       /\ Len(shown) = IF Cardinality(passing) < wanted.limit
                       THEN Cardinality(passing) ELSE wanted.limit
       /\ Ranked(shown, wanted.sort, wanted.asc)
       /\ \A t \in passing \ Range(shown) :
            Ranked(Append(shown, t), wanted.sort, wanted.asc)

(* The feed is the newest of what its snapshot read, newest first: one is  *)
(* left out only behind FeedRows rows that started no earlier. The two     *)
(* halves are read at different moments, so a trace that finishes between  *)
(* them has two rows, and never a third (events_test.go:128 has it that a  *)
(* trace is not listed twice). One that had begun is missed only while it  *)
(* is finished and not saved, or when it is no longer retained.            *)
FeedIsNewest ==
  page.view = "live" =>
    LET read == Range(early.live) \cup Range(log)
        of == {t \in read : early.host = 0 \/ TraceHost(t) = early.host}
    IN /\ Range(Feed) \subseteq of
       /\ \A i, j \in DOMAIN Feed : i < j => Feed[i].started >= Feed[j].started
       /\ \A i, j \in DOMAIN Feed : i < j /\ Feed[i] = Feed[j] =>
            /\ Feed[i] \in Range(early.live) \cap Range(log)
            /\ \A k \in DOMAIN Feed : j < k => Feed[k] # Feed[i]
       /\ \A t \in of \ Range(Feed) :
            Len(Feed) = FeedRows /\ \A i \in DOMAIN Feed : Feed[i].started >= t.started
       /\ \A i \in 1..early.begun :
            load[i] \in Range(live) \cup Range(log) => load[i] \in read

(* The host table, the groups and the list agree: choosing a host leads to *)
(* as many traces, and failures, as its row says, each trace is in one     *)
(* group, and no order depends on how a map was walked.                    *)
StatisticsAgree ==
  page.view \in {"hosts", "stats"} =>
  LET orders == SetToSeqs(SeenHosts)
      stats == HostStats(CHOOSE order \in orders : TRUE)
      OnList(h, status) ==
        Len(Filter(log, [Unfiltered("list") EXCEPT !.host = h, !.status = status]))
  IN /\ \A order \in orders : HostStats(order) = stats
     /\ \A i \in DOMAIN stats :
          /\ stats[i].traces = OnList(stats[i].host, "all")
          /\ stats[i].errors = OnList(stats[i].host, "error")
          /\ stats[i].routes <= stats[i].traces
     /\ SumFunction([i \in DOMAIN stats |-> stats[i].traces]) = Len(log)
     /\ LET counted == SumFunction([i \in DOMAIN Top |-> Top[i].count]) IN
        /\ counted <= Len(log)
        /\ Len(Top) < TopLimit => counted = Len(log)
        /\ \A i \in DOMAIN Top : Top[i].average <= Top[i].longest
        /\ \A n \in DOMAIN GroupKeys, i \in DOMAIN Top :
             Group(GroupKeys[n]).count > Top[i].count =>
               \E j \in 1..i : Top[j] = Group(GroupKeys[n])

(* The filters of a page's address are the ones the reader asked for, over *)
(* any path of links, forms and typed addresses (page.go:158-341). What is *)
(* picked in a dropdown without scripting is not sent, whatever            *)
(* select.templ:8-9 says, and is not counted as asked for.                 *)
FiltersKept == page = wanted

(* The feed on screen is of the host the reader asked for: page.go:171 has *)
(* it that it should not silently widen to all of them.                    *)
HostKept == page.view = "live" => early.host = wanted.host

(* The address, and what the pages of it then show.                        *)
ListHolds ==
  /\ FiltersKept
  /\ ListIsTop
  /\ FeedIsNewest
  /\ StatisticsAgree
=============================================================================

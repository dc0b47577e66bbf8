----------------------------- MODULE MCFrontEnd -----------------------------
(***************************************************************************)
(* The parts of the request side that keep no state of the tracer's,       *)
(* checked side by side: a behaviour exercises the one that "part" names   *)
(* and leaves the others where they start.                                 *)
(***************************************************************************)
EXTENDS Settings, Access, Requests, Listing, Timeline, Numbers

CONSTANT Parts   \* those of "settings", "access", "requests", "listing",
                 \* "timeline" and "numbers" that are run

VARIABLE part

frontVars == <<part, settingsVars, accessVars, requestVars, listingVars,
               timelineVars, numbersVars>>

-----------------------------------------------------------------------------
(* Settings: one variable at a time, and every setting of the storage.     *)
NoEnv ==
  [path |-> Unset, ints |-> [f \in Ints |-> Unset],
   bools |-> [f \in Bools |-> Unset], rate |-> Unset, ignore |-> Unset,
   networks |-> Unset, auth |-> Unset, texts |-> [f \in Texts |-> Unset],
   driver |-> Unset, memorySize |-> Unset,
   disk |-> [s \in DiskSettings |-> Unset]]

MCEnvs ==
  {[NoEnv EXCEPT !.ints[f] = v] : f \in Ints, v \in {-1, 0, 7, Garbage}}
  \cup {[NoEnv EXCEPT !.bools[f] = v] : f \in Bools, v \in {TRUE, FALSE, Garbage}}
  \cup {[NoEnv EXCEPT !.rate = v] : v \in {-5, 0, 50, 120, Garbage}}
  \cup {[NoEnv EXCEPT !.path = v] :
          v \in {<<"x">>, <<"/">>, <<"/", "x", "/">>, <<"/", "x", "/", "/">>}}
  \cup {[NoEnv EXCEPT !.ignore = {"v"}, !.networks = n, !.auth = a] :
          n \in {"lan", Garbage}, a \in {"one", Garbage}}
  \cup {[NoEnv EXCEPT !.auth = a, !.texts["usersFile"] = f, !.texts["secret"] = k] :
          a \in {Unset, "one", Garbage}, f \in {Unset, "file"}, k \in {Unset, "key"}}
  \cup {[NoEnv EXCEPT !.driver = d, !.memorySize = m, !.ints["ring"] = r,
           !.disk = [path |-> p, limit |-> l, list |-> i, expire |-> x]] :
          d \in {Unset, "memory", "disk", Garbage}, m \in {Unset, 3},
          r \in {Unset, 5}, p \in {Unset, "dir", Garbage}, l \in {Unset, 3, Garbage},
          i \in {Unset, TRUE}, x \in {Unset, 0, 9}}

Bases == {NewOptions, [NewOptions EXCEPT !.readEnv = FALSE],
          Literal, [Literal EXCEPT !.readEnv = TRUE]}

MCCodes ==
  Bases \cup {[NewOptions EXCEPT !.ignore = Nil]}
  \cup {[b EXCEPT !.ints["ring"] = v] : b \in Bases, v \in {-1, 0, 3}}
  \cup {[b EXCEPT !.bools["stream"] = FALSE, !.bools["enabled"] = TRUE, !.rate = v] :
          b \in Bases, v \in {0, 50, 101}}
  \cup {[b EXCEPT !.path = v, !.sampler = TRUE] :
          b \in Bases, v \in {<<"x">>, <<"/">>, <<"/", "a", "/">>, <<"/", "a", "/", "/">>}}
  \cup {[b EXCEPT !.storage = Memory(4), !.ignore = {"c"}, !.networks = "own",
           !.users = "set", !.texts["secret"] = "own"] : b \in Bases}
  \cup {[b EXCEPT !.users = u, !.texts["usersFile"] = f, !.authorize = c] :
          b \in Bases, u \in {Nil, "set"}, f \in {Nil, "mine"}, c \in BOOLEAN}

SettingsParked ==
  code = NewOptions /\ env = NoEnv /\ built = [NoTracer EXCEPT !.done = FALSE]

-----------------------------------------------------------------------------
(* Access: without authentication, by user with and without a shared       *)
(* secret, and by callback; with and without the event stream.             *)
NoUsers == [u \in Users |-> "none"]
OneUser == [u \in Users |-> IF u = "ann" THEN "bcrypt" ELSE "other"]

Config(networks, users, callback, preshared, gate, stream) ==
  [networks |-> networks, users |-> users, callback |-> callback,
   preshared |-> preshared, gate |-> gate, stream |-> stream]

Open == Config({}, NoUsers, FALSE, FALSE, FALSE, TRUE)

MCConfigs ==
  {Open, Config({"lan"}, OneUser, FALSE, FALSE, FALSE, TRUE),
   Config({"lan"}, OneUser, FALSE, TRUE, TRUE, FALSE),
   Config({}, NoUsers, TRUE, FALSE, TRUE, TRUE)}

AccessParked ==
  /\ config = Open /\ now = 1 /\ process = 1
  /\ tokens = {} /\ logins = {} /\ minted = {} /\ streams = {} /\ answer = Silence

-----------------------------------------------------------------------------
(* Requests: two networks, a header of the client's own, paths around the  *)
(* mount and the ignored ones.                                             *)
MCHeaders == {<<>>, <<"u">>, <<"p1">>, <<"l1", "p2">>, <<"p2", "u", "l1">>}
MCPaths == {<<"/">>, <<"/", "d">>, <<"/", "d", "/">>, <<"/", "d", "d">>,
            <<"/", "d", "/", "a">>, <<"/", "a", "/", "d">>}
MCMounts == {<<"/", "d">>}
MCIgnored == {[path |-> <<"/", "a">>, tree |-> TRUE], [path |-> <<"/", "p">>, tree |-> FALSE]}

RequestParked ==
  /\ client = "l1" /\ header = <<>> /\ field = "Forwarded" /\ peer = "l1" /\ hops = 0
  /\ path = <<"/">> /\ mount = <<"/", "d">> /\ record = Pending

-----------------------------------------------------------------------------
(* Listing: ties in every column, a failure of each kind, more groups than *)
(* are shown, and a job in one group with a request that has no host.      *)
OneTrace(id, http, host, name, route, failed, started, duration, count, alloc, kinds, words) ==
  [id |-> id, http |-> http, host |-> host, name |-> name, route |-> route,
   failed |-> failed, started |-> started, duration |-> duration,
   spans |-> count, alloc |-> alloc, kinds |-> kinds, words |-> words]

MCLoads ==
  {<<OneTrace(1, TRUE, 1, 1, 3, "no", 1, 5, 2, 7, {"database"}, {"users"}),
     OneTrace(2, TRUE, 2, 2, 0, "state", 1, 3, 2, 9, {}, {"users"}),
     OneTrace(3, TRUE, 1, 5, 0, "text", 2, 5, 1, 7, {"database"}, {})>>,
   <<OneTrace(1, FALSE, 0, 4, 0, "no", 1, 2, 0, 0, {}, {}),
     OneTrace(2, TRUE, 0, 4, 0, "text", 2, 2, 1, 4, {"database"}, {"users"})>>}

MCLimitOptions == <<2, 3>>
MCTyped == {[EmptyQuery EXCEPT !.limit = 7, !.sort = "bogus", !.status = "odd",
                               !.order = "asc", !.kind = "database"]}

ListingParked ==
  /\ load = <<>> /\ begun = 0 /\ live = <<>> /\ leaving = {} /\ log = <<>>
  /\ requests = [h \in {6} |-> 0] /\ zeroing = FALSE
  /\ page = NewPage("hosts", EmptyQuery) /\ wanted = NewPage("hosts", EmptyQuery)
  /\ early = FirstHalf("hosts", 0)

-----------------------------------------------------------------------------
(* Timeline: spans that overlap, start before and end after the trace, and *)
(* readings in another order than their starts.                            *)
Shape(start, duration, memory) ==
  [start |-> start, duration |-> duration, memory |-> memory]

MCShapes == {Shape(-1, 2, -1), Shape(0, 4, 3), Shape(1, 2, 7), Shape(1, 9, -1),
             Shape(2, 1, 5), Shape(3, 0, 0)}
MCLimits == {-1, 9}

TimelineParked ==
  /\ spans = <<>> /\ limit = -1 /\ shown = FALSE
  /\ segments = <<>> /\ rows = <<>> /\ points = <<>>

-----------------------------------------------------------------------------
(* Numbers: five bits for sixty-four, every value on both sides.           *)
MCQuestions ==
  {[what |-> "attribute", type |-> "signed", n |-> v] : v \in MinInt..MaxInt}
  \cup {[what |-> "attribute", type |-> "narrow", n |-> v] : v \in 0..(2^Narrow - 1)}
  \cup {[what |-> "attribute", type |-> "unsigned", n |-> v] : v \in 0..MaxUint}
  \cup {[what |-> "attribute", type |-> t, n |-> v] :
          t \in {"float", "decimal", "other"}, v \in -40..40}
  \cup {[what |-> "attribute", type |-> "float", n |-> NaN]}
  \cup {[what |-> "delta", after |-> a, before |-> b] : a \in 0..MaxUint, b \in 0..MaxUint}
  \cup {[what |-> "size", n |-> v] : v \in MinInt..MaxInt}
  \cup {[what |-> "pool", samples |-> s, allocated |-> a, from |-> f, to |-> t] :
          s \in 0..3, a \in {0, 5, 16, 31}, f \in {0, 9, 31}, t \in {0, 9, 20, 31}}
  \cup {[what |-> "limit", runtime |-> r, groups |-> g, machine |-> m] :
          r \in {0, 7, MaxInt}, g \in SUBSET {0, 5, 12}, m \in {{}, {1}, {4}}}

NumbersParked ==
  question = [what |-> "none"] /\ rate = 100 /\ counter = 0 /\ gap = 0 /\ wrapped = FALSE

-----------------------------------------------------------------------------
FrontInit ==
  /\ part \in Parts
  /\ IF part = "settings" THEN SettingsInit ELSE SettingsParked
  /\ IF part = "access" THEN AccessInit ELSE AccessParked
  /\ IF part = "requests" THEN RequestInit ELSE RequestParked
  /\ IF part = "listing" THEN ListingInit ELSE ListingParked
  /\ IF part = "timeline" THEN TimelineInit ELSE TimelineParked
  /\ IF part = "numbers" THEN NumbersInit ELSE NumbersParked

FrontNext ==
  /\ \/ part = "settings" /\ SettingsNext
        /\ UNCHANGED <<accessVars, requestVars, listingVars, timelineVars, numbersVars>>
     \/ part = "access" /\ AccessNext
        /\ UNCHANGED <<settingsVars, requestVars, listingVars, timelineVars, numbersVars>>
     \/ part = "requests" /\ RequestNext
        /\ UNCHANGED <<settingsVars, accessVars, listingVars, timelineVars, numbersVars>>
     \/ part = "listing" /\ ListingNext
        /\ UNCHANGED <<settingsVars, accessVars, requestVars, timelineVars, numbersVars>>
     \/ part = "timeline" /\ TimelineNext
        /\ UNCHANGED <<settingsVars, accessVars, requestVars, listingVars, numbersVars>>
     \/ part = "numbers" /\ NumbersNext
        /\ UNCHANGED <<settingsVars, accessVars, requestVars, listingVars, timelineVars>>
  /\ UNCHANGED part

FrontSpec == FrontInit /\ [][FrontNext]_frontVars
=============================================================================

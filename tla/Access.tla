------------------------------- MODULE Access -------------------------------
(***************************************************************************)
(* Who the debug front end serves: the Authorize function, the network     *)
(* allow list, the sign in screen with its session tokens, bearer tokens   *)
(* of a deployment, and restarts of the process, which lose a generated    *)
(* signing secret (model/auth.go, frontend/login.go, negotiate.go and the  *)
(* routing of frontend/handler.go:81-140), and the event streams, which    *)
(* are served from one request on (handler.go:282-345).                    *)
(*                                                                         *)
(* A token is what its claims and its signing key say: the key is 0 for    *)
(* the pre-shared secret and the number of the process for a generated     *)
(* one, and an expiry of 0 is a token without one. Routes are names, with  *)
(* the mount path already stripped.                                        *)
(***************************************************************************)
EXTENDS Integers, FiniteSets

CONSTANTS
  Users,
  Peers,          \* networks a request may come from
  Configs,        \* authentication options, see ConfigType
  TTL,            \* model.SessionTTL, in ticks
  MaxNow, MaxProcess, MaxStreams,  \* bounds: ticks, processes, open streams
  NoToken, NoUser

ConfigType ==
  [networks : SUBSET Peers,   \* empty: every network
   users    : [Users -> {"none", "bcrypt", "other"}],
   callback : BOOLEAN,        \* Options.AuthorizeUser
   preshared : BOOLEAN,       \* Options.SigningSecret
   gate     : BOOLEAN,        \* Options.Authorize
   stream   : BOOLEAN]        \* Options.LiveStream

ASSUME AccessAssumption ==
  /\ Configs \subseteq ConfigType
  /\ TTL \in Nat \ {0} /\ MaxNow \in Nat /\ MaxProcess \in Nat
  /\ NoUser \notin Users /\ NoToken \notin [sub : Users, exp : Nat, key : Nat]

VARIABLES
  config,
  now,
  process,   \* number of the running process
  tokens,    \* what clients and jobs hold
  logins,    \* ghost: who proved a password, when and to which process
  minted,    \* ghost: who the deployment minted a bearer token for
  streams,   \* the requests whose event streams are open
  answer     \* the last answer and the request it went to

accessVars == <<config, now, process, tokens, logins, minted, streams, answer>>

(* The pages differ in their contents only, the event stream has no page   *)
(* around its own.                                                         *)
Pages  == {"page", "events"}

Routes == Pages \cup {"asset", "login", "elsewhere"}

(* What login may be asked to return to: a page under the mount, or a      *)
(* location backTarget takes for the overview.                             *)
Uris == {"page", "overview", "foreign"}

(* Who sends a request: as the process that it reaches sees it now.        *)
Asked(user, peer, passes) ==
  [user |-> user, peer |-> peer, passes |-> passes, at |-> now, process |-> process]

Nobody == [user |-> NoUser, peer |-> "none", passes |-> TRUE, at |-> 0, process |-> 1]

Silence == [what |-> "none", shows |-> {}, asked |-> Nobody]

AccessInit ==
  /\ config \in Configs
  /\ now = 1 /\ process = 1
  /\ tokens = {} /\ logins = {} /\ minted = {} /\ streams = {}
  /\ answer = Silence

-----------------------------------------------------------------------------
(* Auth. An Auth without any option is nil, which allows and requires the  *)
(* same as one with none.                                                  *)

LoginRequired ==
  config.preshared \/ config.callback \/ \E u \in Users : config.users[u] # "none"

NetworkAllowed(peer) == config.networks = {} \/ peer \in config.networks

(* The callback accepts whoever knows the password. *)
Authenticate(user, knows) ==
  knows /\ (config.users[user] = "bcrypt" \/ config.callback)

Secret == IF config.preshared THEN 0 ELSE process

Session(user) == [sub |-> user, exp |-> now + TTL, key |-> Secret]

(* Mutant: the expiry claim is not looked at. *)
VerifyStale(t) == t # NoToken /\ t.key = Secret

Verify(t) == t # NoToken /\ t.key = Secret /\ (t.exp = 0 \/ now < t.exp)

RequestUser(cookie, bearer) ==
  IF Verify(cookie) THEN cookie.sub
  ELSE IF Verify(bearer) THEN bearer.sub ELSE NoUser

Negotiate(query, accept, curl) ==
  CASE query # "none" -> query
    [] query = "none" /\ accept # "none" -> accept
    [] OTHER -> IF curl THEN "text" ELSE "html"

BackTarget(uri) == IF uri = "page" THEN uri ELSE "overview"

-----------------------------------------------------------------------------
(* The request handler.                                                    *)

Recorded == {"facts", "hosts", "counters", "records"}

(* The chrome of a page around its contents. The sign in screen has none.  *)
Layout(view, contents) ==
  IF view = "login" THEN contents ELSE contents \cup {"facts", "hosts", "counters"}

LoginScreen == Layout("login", {"form"})

(* What a page comes to: JSON and the event stream have the records of the *)
(* page alone - its traces, its hosts or its statistics - and text has the *)
(* facts of the process and its counters before them.                      *)
Render(route, format) ==
  CASE route = "events" \/ format = "json" -> {"records"}
    [] route # "events" /\ format = "text" -> {"facts", "counters", "records"}
    [] OTHER -> Layout("page", {"records"})

Answer(what, shows, asked) ==
  answer' = [what |-> what, shows |-> shows, asked |-> asked]

Answers == UNCHANGED <<config, now, process, tokens, logins, minted>>

OnlyAnswers == Answers /\ UNCHANGED streams

Reaches(peer, passes) == (config.gate => passes) /\ NetworkAllowed(peer)

Hide(peer, passes) ==
  /\ ~Reaches(peer, passes)
  /\ Answer("not found", {}, Asked(NoUser, peer, passes))
  /\ OnlyAnswers

ShowLogin(peer, passes) ==
  /\ Reaches(peer, passes) /\ LoginRequired
  /\ Answer("form", LoginScreen, Asked(NoUser, peer, passes))
  /\ OnlyAnswers

MayEnter(route, user) == ~LoginRequired \/ user # NoUser \/ route = "asset"

(* A browser is sent to sign in and told where to return to, an API client *)
(* gets a 401.                                                             *)
TurnAway(peer, passes, route, user, uri, format) ==
  /\ Reaches(peer, passes)
  /\ LoginRequired => route # "login"
  /\ ~MayEnter(route, user)
  /\ Answer(IF format # "html" THEN "unauthorized"
            ELSE IF BackTarget(uri) = "page" THEN "sign in for page"
            ELSE "sign in", {}, Asked(NoUser, peer, passes))
  /\ OnlyAnswers

Exists(route) == route \in Pages /\ (route = "events" => config.stream)

(* A page is answered once. The event stream has its first section, and is *)
(* left open.                                                              *)
Serve(peer, passes, route, user, format) ==
  /\ Reaches(peer, passes)
  /\ LoginRequired => route # "login"
  /\ MayEnter(route, user)
  /\ Answer(IF Exists(route) THEN "data" ELSE IF route = "asset" THEN "asset"
            ELSE "not found",
            IF Exists(route) THEN Render(route, format) ELSE {},
            Asked(user, peer, passes))
  /\ IF Exists(route) /\ route = "events"
     THEN /\ Cardinality(streams) < MaxStreams
          /\ streams' = streams \cup {Asked(user, peer, passes)}
     ELSE UNCHANGED streams
  /\ Answers

(* Something happened in the tracer: the section is drawn again and written*)
(* to an open stream. Neither Authorize nor the token is asked again.      *)
Push(stream) ==
  /\ stream \in streams
  /\ Answer("data", Render("events", "html"), stream)
  /\ OnlyAnswers

(* The client is gone, or nothing can be written to it.                    *)
HangUp(stream) ==
  /\ stream \in streams
  /\ streams' = streams \ {stream}
  /\ Answers /\ UNCHANGED answer

(* A submitted sign in form: a session, or the form again with a 401. *)
Login(peer, passes, user, knows, uri) ==
  /\ Reaches(peer, passes) /\ LoginRequired
  /\ IF Authenticate(user, knows)
     THEN /\ tokens' = tokens \cup {Session(user)}
          /\ logins' = logins \cup {[user |-> user, at |-> now, process |-> process]}
          /\ Answer(IF BackTarget(uri) = "page" THEN "to page" ELSE "to overview",
                 {}, Asked(user, peer, passes))
     ELSE /\ Answer("rejected", LoginScreen, Asked(NoUser, peer, passes))
          /\ UNCHANGED <<tokens, logins>>
  /\ UNCHANGED <<config, now, process, minted, streams>>

(* A deployment mints a token from the pre-shared secret, with no expiry.  *)
Mint(user) ==
  /\ config.preshared
  /\ tokens' = tokens \cup {[sub |-> user, exp |-> 0, key |-> 0]}
  /\ minted' = minted \cup {user}
  /\ UNCHANGED <<config, now, process, logins, streams, answer>>

Tick ==
  /\ now < MaxNow
  /\ now' = now + 1
  /\ UNCHANGED <<config, process, tokens, logins, minted, streams, answer>>

(* The next process has the same options and, unless a secret is shared, a *)
(* new one. The streams of the last one end with it.                       *)
Restart ==
  /\ process < MaxProcess
  /\ process' = process + 1
  /\ streams' = {}
  /\ UNCHANGED <<config, now, tokens, logins, minted, answer>>

(* What Authorize may answer; without it nothing is asked. *)
Verdicts == IF config.gate THEN BOOLEAN ELSE {TRUE}

Held == tokens \cup {NoToken}

(* Who a request may be from and the formats it may ask for.               *)
Askers == {RequestUser(cookie, bearer) : cookie \in Held, bearer \in Held}

Formats == {Negotiate(query, accept, curl) :
              query \in {"none", "json", "html"}, accept \in {"none", "text"},
              curl \in BOOLEAN}

Visit(peer, passes) ==
  \/ Hide(peer, passes)
  \/ ShowLogin(peer, passes)
  \/ \E route \in Routes, user \in Askers, format \in Formats :
       \/ Serve(peer, passes, route, user, format)
       \/ \E uri \in Uris : TurnAway(peer, passes, route, user, uri, format)
  \/ \E user \in Users, knows \in BOOLEAN, uri \in Uris :
       Login(peer, passes, user, knows, uri)

AccessNext ==
  \/ \E peer \in Peers, passes \in Verdicts : Visit(peer, passes)
  \/ \E stream \in streams : Push(stream) \/ HangUp(stream)
  \/ \E user \in Users : Mint(user)
  \/ Tick
  \/ Restart

AccessSpec == AccessInit /\ [][AccessNext]_accessVars

-----------------------------------------------------------------------------
(* Whoever is shown anything recorded, be it in the chrome around a page   *)
(* or in a stream opened long before, passed Authorize, came from an       *)
(* allowed network and, where a login is required, is a user who proved    *)
(* the password less than a TTL before they asked, to the process they     *)
(* asked unless the secret is shared, or one the deployment minted a token *)
(* for (handler.go:83-107, 282-345, auth.go:178-246, login.go:44):         *)
(* whatever tokens are kept over an expiry or a restart. When they asked,  *)
(* not when they are shown it: a stream that was opened with a valid       *)
(* session goes on past its expiry for as long as the connection lasts.    *)
AccessNeedsCredentials ==
  answer.shows \cap Recorded # {} =>
    LET by == answer.asked IN
    /\ config.gate => by.passes
    /\ NetworkAllowed(by.peer)
    /\ LoginRequired =>
         \/ config.preshared /\ by.user \in minted
         \/ \E l \in logins :
              /\ l.user = by.user
              /\ by.at < l.at + TTL
              /\ config.preshared \/ l.process = by.process
=============================================================================

------------------------------ MODULE Requests ------------------------------
(***************************************************************************)
(* What the middleware reads off a request: the client behind a chain of   *)
(* proxies, whether the path is traced at all, the route pattern and the   *)
(* identifier to record under (internal/remote_addr.go, ignored_path.go,   *)
(* route_pattern.go, request_id.go, model/id.go).                          *)
(*                                                                         *)
(* A request travels from a client through proxies of the local network,   *)
(* each of which appends the address it was called from to the forwarding  *)
(* header; the client may have sent one of its own. Paths are sequences of *)
(* characters.                                                             *)
(***************************************************************************)
EXTENDS Integers, Sequences, SequencesExt

CONSTANTS
  Lan,        \* addresses of trustedNetworks
  Public,     \* addresses outside them
  Unknown,    \* a token that holds no address: "unknown", an obfuscated one
  Headers,    \* forwarding headers a client may send
  MaxHops,    \* bound: proxies on the way
  Paths,      \* paths a request may be for
  Mounts,     \* paths the front end may be mounted on
  Ignored     \* entries of IgnorePaths: a path, and whether "/*" follows it

Addresses == Lan \cup Public

ASSUME RequestsAssumption ==
  /\ Lan \cap Public = {} /\ Unknown \notin Addresses
  /\ Headers \subseteq Seq(Addresses \cup {Unknown})
  /\ MaxHops \in Nat
  /\ Paths \cup Mounts \subseteq Seq(STRING)
  /\ \A entry \in Ignored : entry.path \in Seq(STRING)

VARIABLES
  client,   \* address the request set out from
  header,   \* the forwarding header so far
  field,    \* which of the two headers the client and the proxies use
  peer,     \* RemoteAddr of the connection it is on
  hops,     \* proxies passed
  path, mount,
  record    \* what the middleware made of it

requestVars == <<client, header, field, peer, hops, path, mount, record>>

Pending == [traced |-> FALSE, client |-> Unknown, name |-> "none", id |-> "none",
            done |-> FALSE]

RequestInit ==
  /\ client \in Addresses
  /\ header \in Headers
  /\ field \in {"Forwarded", "X-Forwarded-For"}
  /\ peer = client
  /\ hops = 0
  /\ path \in Paths /\ mount \in Mounts
  /\ record = Pending

(* External: a proxy appends its peer and calls the next from its own      *)
(* address.                                                                *)
Forward ==
  /\ hops < MaxHops /\ ~record.done
  /\ header' = Append(header, peer)
  /\ peer' \in Lan
  /\ hops' = hops + 1
  /\ UNCHANGED <<client, field, path, mount, record>>

-----------------------------------------------------------------------------
TrustedAddr(a) == a \in Lan

IsAddress(token) == token # Unknown

(* The places of the tokens that hold an address; the others are skipped.  *)
Named(list) == {n \in DOMAIN list : IsAddress(list[n])}

(* Forwarded wins when it names any address, X-Forwarded-For is read else. *)
ForwardedChain(forwarded, xff) == IF Named(forwarded) # {} THEN forwarded ELSE xff

Callers(chain) == {n \in Named(chain) : ~TrustedAddr(chain[n])}

(* Mutant: taken for Rightmost. *)
Leftmost(S) == CHOOSE n \in S : \A m \in S : n <= m

Rightmost(S) == CHOOSE n \in S : \A m \in S : m <= n

RemoteAddr(forwarded, xff, remote) ==
  LET chain == ForwardedChain(forwarded, xff) IN
  IF Callers(chain) # {} THEN chain[Rightmost(Callers(chain))]
  ELSE IF Named(chain) # {} THEN chain[Leftmost(Named(chain))]
  ELSE remote

-----------------------------------------------------------------------------
(* The path itself, or one below it. *)
Below(p, base) == IsPrefix(Append(base, "/"), p)
Within(p, base) == p = base \/ Below(p, base)

EntryMatches(p, entry) ==
  IF entry.tree THEN Within(p, entry.path) ELSE p = entry.path

IgnoredPath(base, entries, p) ==
  Within(p, base) \/ \E entry \in entries : EntryMatches(p, entry)

(* The patterns Mount registers: the path, the path with a slash, which is *)
(* the subtree of a ServeMux, and the wildcard, which is that of chi.      *)
MountServes(base, p) == p = base \/ IsPrefix(Append(base, "/"), p)

(* A RouteFunc decides on its own, also for no route; without one it is    *)
(* the pattern of the router, without a method in front.                   *)
RoutePattern(hasFunc, routed, pattern) == IF hasFunc THEN routed ELSE pattern

(* The request's own identifier, when trusted and a ULID, or a new one.    *)
RequestID(trust, given, valid, fresh) ==
  IF trust /\ valid THEN given ELSE fresh

(* The middleware: an ignored path passes through, the others are recorded *)
(* and end up named after their route where they have one.                 *)
Receive ==
  /\ ~record.done
  /\ IF IgnoredPath(mount, Ignored, path)
     THEN record' = [Pending EXCEPT !.done = TRUE]
     ELSE \E trust \in BOOLEAN, valid \in BOOLEAN, hasFunc \in BOOLEAN,
             routed \in {"none", "route"}, pattern \in {"none", "pattern"} :
            record' =
              [traced |-> TRUE, done |-> TRUE,
               client |-> IF field = "Forwarded" THEN RemoteAddr(header, <<>>, peer)
                          ELSE RemoteAddr(<<>>, header, peer),
               name |-> RoutePattern(hasFunc, routed, pattern),
               id |-> RequestID(trust, "given", valid, "fresh")]
  /\ UNCHANGED <<client, header, field, peer, hops, path, mount>>

RequestNext == Forward \/ Receive

RequestSpec == RequestInit /\ [][RequestNext]_requestVars

-----------------------------------------------------------------------------
(* What the client sent itself. *)
Sent == SubSeq(header, 1, Len(header) - hops)

(* Behind at least one proxy a client outside the local network is found   *)
(* whatever it sent in that header, and any client that sent no address is *)
(* found, proxy or not (remote_addr.go:23-28). A client of the local       *)
(* network that sends addresses is taken for the one it names, and one     *)
(* that sends Forwarded through proxies that append X-Forwarded-For is     *)
(* believed: neither is claimed. No path Mount serves is traced            *)
(* (ignored_path.go:10, mount.go:33-38), and one is passed over only where *)
(* an entry ends or goes on with a slash.                                  *)
ClientFound ==
  /\ record.traced =>
       /\ hops > 0 /\ client \in Public => record.client = client
       /\ Named(Sent) = {} => record.client = client
       /\ ~MountServes(mount, path)
  /\ record.done /\ ~record.traced =>
       \E base \in {mount} \cup {entry.path : entry \in Ignored} :
         /\ IsPrefix(base, path)
         /\ Len(path) > Len(base) => path[Len(base) + 1] = "/"
=============================================================================

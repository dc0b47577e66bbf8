------------------------------ MODULE Settings ------------------------------
(***************************************************************************)
(* How a tracer comes by its configuration: the options set in code, the   *)
(* OIDA_ variables applied where the code left a default, the defaults of  *)
(* an Options literal, the validation, and the storage driver and sampler  *)
(* built from the result (model/options.go, internal/options_from_env.go,  *)
(* internal/rate_sampler.go, tracer.go:65-107). Everything here is a       *)
(* function of the code's options and the environment.                     *)
(***************************************************************************)
EXTENDS Integers, Sequences

CONSTANTS
  Unset,    \* a variable that is not set, or set to blanks only
  Garbage,  \* a variable that does not parse
  Nil,      \* a nil interface, slice, map or function
  Codes,    \* options a caller may hand to New
  Envs      \* environments of the process

VARIABLES code, env, built

settingsVars == <<code, env, built>>

Ints  == {"ring", "top", "spans", "debug", "refresh"}
Bools == {"enabled", "memory", "trust", "stream", "logs"}
Texts == {"service", "usersFile", "secret"}

DefaultInts  == [ring |-> 200, top |-> 20, spans |-> 1000, debug |-> 1, refresh |-> 5]
DefaultBools == [enabled |-> FALSE, memory |-> TRUE, trust |-> FALSE,
                 stream |-> TRUE, logs |-> TRUE]
DefaultPath  == <<"/", "d">>
DefaultRate  == 100
DefaultIgnore == {"probes"}

NewOptions ==
  [path |-> DefaultPath, ints |-> DefaultInts, bools |-> DefaultBools,
   rate |-> DefaultRate, ignore |-> DefaultIgnore, networks |-> Nil,
   texts |-> [f \in Texts |-> Nil], users |-> Nil, authorize |-> FALSE,
   storage |-> Nil, sampler |-> FALSE,
   readEnv |-> TRUE, initialized |-> TRUE]

(* Options{}: a literal has every field at its zero. *)
Literal ==
  [path |-> <<>>, ints |-> [f \in Ints |-> 0], bools |-> [f \in Bools |-> FALSE],
   rate |-> 0, ignore |-> Nil, networks |-> Nil,
   texts |-> [f \in Texts |-> Nil], users |-> Nil, authorize |-> FALSE,
   storage |-> Nil, sampler |-> FALSE,
   readEnv |-> FALSE, initialized |-> FALSE]

(* What a caller may hand to New, and what the variables may hold: a list  *)
(* read from a variable has a member (options_from_env.go:86).             *)
StorageType ==
  [driver : {"memory", "disk", "other"}, limit : Int, pruned : BOOLEAN, restored : BOOLEAN]

OptionsType ==
  [path : Seq(STRING), ints : [Ints -> Int], bools : [Bools -> BOOLEAN], rate : Int,
   ignore : {Nil} \cup SUBSET STRING, networks : STRING \cup {Nil, Garbage},
   texts : [Texts -> STRING \cup {Nil}], users : STRING \cup {Nil}, authorize : BOOLEAN,
   storage : StorageType \cup {Nil},
   sampler : BOOLEAN, readEnv : BOOLEAN, initialized : BOOLEAN]

Variable(S) == S \cup {Unset, Garbage}

EnvType ==
  [path : Seq(STRING) \cup {Unset}, ints : [Ints -> Variable(Int)],
   bools : [Bools -> Variable(BOOLEAN)], rate : Variable(Int),
   ignore : {Unset} \cup SUBSET STRING, networks : Variable(STRING),
   texts : [Texts -> STRING \cup {Unset}], auth : Variable(STRING),
   driver : Variable({"memory", "disk"}),
   memorySize : Variable(Int),
   disk : [path : Variable(STRING), limit : Variable(Int), list : Variable(BOOLEAN),
           expire : Variable(Int)]]

ASSUME SettingsAssumption ==
  /\ Codes \subseteq OptionsType /\ Envs \subseteq EnvType
  /\ Unset \notin Int \cup BOOLEAN \cup {"memory", "disk"}
  /\ Garbage \notin Int \cup BOOLEAN
  /\ Nil \notin StorageType /\ Nil # DefaultIgnore
  /\ \A e \in Envs : e.ignore \notin {Nil, {}}

-----------------------------------------------------------------------------
(* The environment.                                                        *)

Bounded(n, lo, hi) == IF n < lo THEN lo ELSE IF n > hi THEN hi ELSE n

Applies(v, field, default) == v # Unset /\ field = default

(* The value a variable leaves in a field: envInt, envBool,                *)
(* envDurationField.                                                       *)
EnvField(v, field, default) == IF Applies(v, field, default) THEN v ELSE field

IntsFrom(e, o) ==
  [f \in Ints |-> EnvField(e.ints[f], o.ints[f], DefaultInts[f])]

BoolsFrom(e, o) ==
  [f \in Bools |-> EnvField(e.bools[f], o.bools[f], DefaultBools[f])]

(* A rate out of bounds clamps instead of failing. *)
RateFrom(e, o) ==
  LET r == EnvField(e.rate, o.rate, DefaultRate) IN
  IF r \in Int /\ r # o.rate THEN Bounded(r, 0, 100) ELSE r

(* A duration may not be negative; a negative number is left to Validate.  *)
ReadFails(e, o) ==
  \/ \E f \in Ints : IntsFrom(e, o)[f] = Garbage
  \/ \E f \in Bools : BoolsFrom(e, o)[f] = Garbage
  \/ Applies(e.ints["debug"], o.ints["debug"], DefaultInts["debug"]) /\ e.ints["debug"] < 0
  \/ RateFrom(e, o) = Garbage

Memory(n)    == [driver |-> "memory", limit |-> n, pruned |-> FALSE, restored |-> FALSE]
Disk(n, p, r) == [driver |-> "disk", limit |-> n, pruned |-> p, restored |-> r]
Failed       == [driver |-> "fails", limit |-> 0, pruned |-> FALSE, restored |-> FALSE]

DiskSettings == {"path", "limit", "list", "expire"}

DiskSet(e) == \E s \in DiskSettings : e.disk[s] # Unset

(* The driver the variables ask for, or have settings for. *)
Driver(e) ==
  IF e.driver = Unset THEN (IF DiskSet(e) THEN "disk" ELSE "memory")
  ELSE e.driver

DiskFails(e) ==
  \/ Garbage \in {e.disk[s] : s \in DiskSettings}
  \/ e.disk["expire"] # Unset /\ e.disk["expire"] <= 0

(* storageFromEnv, given the ring size read so far. The folder is opened,  *)
(* aged out and read back in this order.                                   *)
StorageFrom(e, o, ring) ==
  CASE o.storage # Nil -> o.storage
    [] o.storage = Nil /\ Driver(e) = "memory" ->
         IF DiskSet(e) \/ e.memorySize = Garbage THEN Failed
         ELSE IF e.memorySize \in {Unset, ring} THEN Nil
         ELSE Memory(e.memorySize)
    [] o.storage = Nil /\ Driver(e) = "disk" ->
         IF DiskFails(e) THEN Failed
         ELSE Disk(IF e.disk["limit"] = Unset THEN ring ELSE e.disk["limit"],
                   e.disk["expire"] # Unset, e.disk["list"] = TRUE)
    [] OTHER -> Failed

TextsFrom(e, o) == [f \in Texts |-> EnvField(e.texts[f], o.texts[f], Nil)]

(* authFromEnv: the one user of OIDA_AUTH is for a tracer nobody signs in  *)
(* to otherwise, be it by a file a variable named just before. Mutant: it  *)
(* is added to a file or a callback.                                       *)
UsersAdded(e, o) == EnvField(e.auth, o.users, Nil)

UsersFrom(e, o) ==
  IF TextsFrom(e, o)["usersFile"] # Nil \/ o.authorize THEN o.users
  ELSE EnvField(e.auth, o.users, Nil)

NetworksFrom(e, o) == EnvField(e.networks, o.networks, Nil)

(* The ignored paths: an Options literal has nil, which is no default yet. *)
IgnoreFrom(e, o) == EnvField(e.ignore, o.ignore, DefaultIgnore)

PathFrom(e, o) == EnvField(e.path, o.path, DefaultPath)

OptionsFromEnv(e, o) ==
  [o EXCEPT !.path = PathFrom(e, o), !.ints = IntsFrom(e, o),
            !.bools = BoolsFrom(e, o), !.rate = RateFrom(e, o),
            !.ignore = IgnoreFrom(e, o), !.networks = NetworksFrom(e, o),
            !.users = UsersFrom(e, o), !.texts = TextsFrom(e, o),
            !.storage = StorageFrom(e, o, IntsFrom(e, o)["ring"])]

-----------------------------------------------------------------------------
(* WithDefaults, Validate and New.                                         *)

(* TrimSuffix removes one slash, not all of them. *)
TrimSlash(p) ==
  IF p # <<>> /\ p[Len(p)] = "/" THEN SubSeq(p, 1, Len(p) - 1) ELSE p

OrDefault(o, field, default) ==
  IF ~o.initialized /\ field = 0 THEN default ELSE field

WithDefaults(o) ==
  [o EXCEPT
     !.path = TrimSlash(IF o.path = <<>> THEN DefaultPath ELSE o.path),
     !.ints = [f \in Ints |-> OrDefault(o, o.ints[f], DefaultInts[f])],
     !.rate = IF o.sampler THEN o.rate ELSE OrDefault(o, o.rate, DefaultRate),
     !.ignore = IF o.ignore = Nil THEN DefaultIgnore ELSE o.ignore,
     !.initialized = TRUE]

Valid(o) ==
  /\ o.path # <<>> /\ o.path[1] = "/"
  /\ o.rate \in 0..100
  /\ \A f \in Ints : o.ints[f] >= 0
  /\ o.networks # Garbage

(* New fails, or returns the options it runs on with its storage. *)
NoTracer == [ok |-> FALSE, done |-> TRUE, opts |-> NewOptions]

Built(o) ==
  IF ~Valid(o) THEN NoTracer
  ELSE [ok |-> TRUE, done |-> TRUE,
        opts |-> [o EXCEPT !.storage =
                    IF o.storage = Nil THEN Memory(o.ints["ring"]) ELSE o.storage]]

New(e, o) ==
  IF ~o.readEnv THEN Built(WithDefaults(o))
  ELSE IF \/ ReadFails(e, o)
          \/ OptionsFromEnv(e, o).storage = Failed
          \/ UsersFrom(e, o) = Garbage
       THEN NoTracer
       ELSE Built(WithDefaults(OptionsFromEnv(e, o)))

(* A path with two slashes at its end, of which one is left. *)
IsDoubled(p) == Len(p) > 1 /\ p[Len(p)] = "/" /\ p[Len(p) - 1] = "/"

(* The options the front end of a tracer runs on: a copy without storage,  *)
(* defaulted once more (tracer.go:98, frontend/handler.go:46-53).          *)
FrontEndOptions(o) == WithDefaults([o EXCEPT !.storage = Nil])

-----------------------------------------------------------------------------
SettingsInit ==
  /\ code \in Codes /\ env \in Envs
  /\ built = [NoTracer EXCEPT !.done = FALSE]

Build == ~built.done /\ built' = New(env, code) /\ UNCHANGED <<code, env>>

SettingsNext == Build

SettingsSpec == SettingsInit /\ [][SettingsNext]_settingsVars

-----------------------------------------------------------------------------
(* What a setting made in code, a variable and a default come to.          *)
Settled(result, set, v, default) ==
  /\ set # default => result = set
  /\ set = default /\ code.readEnv /\ v # Unset => result = v
  /\ set = default /\ (~code.readEnv \/ v = Unset) => result = default

(* "Options set in code win over the environment, and a variable set to    *)
(* nothing leaves the default alone" (tracer.go:60-64), for every option   *)
(* of a caller that starts from NewOptions; the storage is the driver the  *)
(* variables name, or the one they have settings for, "sized by            *)
(* RingBufferSize until one says otherwise" (options_from_env.go:110-115); *)
(* what New accepts is in range, whatever fixed or clamped it on the way;  *)
(* and the front end, which defaults its copy again, runs on the same      *)
(* options (handler.go:46-53), up to a second trailing slash of the path.  *)
(* A nil list of ignored paths is none of the caller's: it stands for the  *)
(* default, which no variable replaces (options.go:204-206), and OIDA_AUTH *)
(* signs nobody in where a file of users or a callback of the caller's     *)
(* does (options_from_env.go:202-206).                                     *)
(* A literal Options{} takes the defaults in the place of zeroes only      *)
(* after the environment was read, so nothing is claimed of a variable     *)
(* there.                                                                  *)
SettingsHold ==
  LET o == built.opts IN
  built.ok =>
    /\ o.path # <<>> /\ o.path[1] = "/" /\ o.rate \in 0..100
    /\ \A f \in Ints : o.ints[f] >= 0
    /\ code.initialized =>
         /\ \A f \in Ints :
              Settled(o.ints[f], code.ints[f], env.ints[f], DefaultInts[f])
         /\ \A f \in Bools :
              Settled(o.bools[f], code.bools[f], env.bools[f], DefaultBools[f])
         /\ env.rate = Unset \/ env.rate \in 0..100 =>
              Settled(o.rate, code.rate, env.rate, DefaultRate)
         /\ IF code.ignore = Nil THEN o.ignore = DefaultIgnore
            ELSE Settled(o.ignore, code.ignore, env.ignore, DefaultIgnore)
         /\ Settled(o.networks, code.networks, env.networks, Nil)
         /\ \A f \in Texts : Settled(o.texts[f], code.texts[f], env.texts[f], Nil)
         /\ IF o.texts["usersFile"] # Nil \/ code.authorize THEN o.users = code.users
            ELSE Settled(o.users, code.users, env.auth, Nil)
         /\ o.authorize = code.authorize
    /\ code.storage # Nil => o.storage = code.storage
    /\ code.storage = Nil /\ code.initialized =>
         LET Limit == IF ~code.readEnv THEN Unset
                      ELSE IF o.storage.driver = "disk" THEN env.disk["limit"]
                      ELSE env.memorySize
         IN
         /\ o.storage.limit = (IF Limit = Unset THEN o.ints["ring"] ELSE Limit)
         /\ code.readEnv /\ env.driver # Unset => o.storage.driver = env.driver
         /\ o.storage.driver = "disk" <=>
              code.readEnv /\ \E s \in DiskSettings \cup {"driver"} :
                IF s = "driver" THEN env.driver = "disk" ELSE env.disk[s] # Unset
    /\ ~IsDoubled(code.path) /\ (env.path # Unset => ~IsDoubled(env.path)) =>
         FrontEndOptions(o) = [o EXCEPT !.storage = Nil]
=============================================================================

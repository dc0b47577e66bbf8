-------------------------- MODULE FrontEndProofs ---------------------------
(***************************************************************************)
(* Proofs about the request side and the pages: who is shown what, whom a  *)
(* request is recorded for, what the options of a tracer come to, what the *)
(* lists, the statistics and the page of one trace show, and how numbers   *)
(* are read and sampled.                                                   *)
(***************************************************************************)
EXTENDS Settings, Access, Requests, Listing, Timeline, Numbers, DataProofs

-----------------------------------------------------------------------------
(* Two records with the same fields and the same values in them.           *)
LEMMA SameRecord ==
  ASSUME NEW x, NEW y, x = [f \in DOMAIN x |-> x[f]], y = [f \in DOMAIN y |-> y[f]],
         DOMAIN x = DOMAIN y, \A f \in DOMAIN y : x[f] = y[f]
  PROVE  x = y
OBVIOUS

-----------------------------------------------------------------------------
(* Settings. The record of options, field by field. *)
OptionFields == {"path", "ints", "bools", "rate", "ignore", "networks", "users",
                 "texts", "authorize", "storage", "sampler", "readEnv",
                 "initialized"}

LEMMA OptionsAreRecords ==
  ASSUME NEW o \in OptionsType
  PROVE  DOMAIN o = OptionFields /\ o = [f \in DOMAIN o |-> o[f]]
BY DEF OptionsType, OptionFields

LEMMA ReadOptions ==
  ASSUME NEW o, DOMAIN o = OptionFields, NEW e
  PROVE  /\ DOMAIN OptionsFromEnv(e, o) = OptionFields
         /\ OptionsFromEnv(e, o).path = PathFrom(e, o)
         /\ OptionsFromEnv(e, o).ints = IntsFrom(e, o)
         /\ OptionsFromEnv(e, o).bools = BoolsFrom(e, o)
         /\ OptionsFromEnv(e, o).rate = RateFrom(e, o)
         /\ OptionsFromEnv(e, o).ignore = IgnoreFrom(e, o)
         /\ OptionsFromEnv(e, o).networks = NetworksFrom(e, o)
         /\ OptionsFromEnv(e, o).users = UsersFrom(e, o)
         /\ OptionsFromEnv(e, o).texts = TextsFrom(e, o)
         /\ OptionsFromEnv(e, o).authorize = o.authorize
         /\ OptionsFromEnv(e, o).storage = StorageFrom(e, o, IntsFrom(e, o)["ring"])
         /\ OptionsFromEnv(e, o).sampler = o.sampler
         /\ OptionsFromEnv(e, o).initialized = o.initialized
<1>1. DOMAIN OptionsFromEnv(e, o) = OptionFields
  BY Zenon DEF OptionsFromEnv
<1>2. /\ OptionsFromEnv(e, o).path = PathFrom(e, o)
      /\ OptionsFromEnv(e, o).ints = IntsFrom(e, o)
  BY DEF OptionsFromEnv, OptionFields
<1>5. /\ OptionsFromEnv(e, o).bools = BoolsFrom(e, o)
      /\ OptionsFromEnv(e, o).rate = RateFrom(e, o)
  BY DEF OptionsFromEnv, OptionFields
<1>3. /\ OptionsFromEnv(e, o).ignore = IgnoreFrom(e, o)
      /\ OptionsFromEnv(e, o).networks = NetworksFrom(e, o)
      /\ OptionsFromEnv(e, o).users = UsersFrom(e, o)
      /\ OptionsFromEnv(e, o).texts = TextsFrom(e, o)
  BY DEF OptionsFromEnv, OptionFields
<1>4. /\ OptionsFromEnv(e, o).storage = StorageFrom(e, o, IntsFrom(e, o)["ring"])
      /\ OptionsFromEnv(e, o).authorize = o.authorize
      /\ OptionsFromEnv(e, o).sampler = o.sampler
      /\ OptionsFromEnv(e, o).initialized = o.initialized
  BY DEF OptionsFromEnv, OptionFields
<1> QED
  BY <1>1, <1>2, <1>3, <1>4, <1>5

LEMMA DefaultedOptions ==
  ASSUME NEW o, DOMAIN o = OptionFields
  PROVE  /\ DOMAIN WithDefaults(o) = OptionFields
         /\ WithDefaults(o) = [f \in OptionFields |-> WithDefaults(o)[f]]
         /\ WithDefaults(o).path = TrimSlash(IF o.path = <<>> THEN DefaultPath ELSE o.path)
         /\ WithDefaults(o).ints = [f \in Ints |-> OrDefault(o, o.ints[f], DefaultInts[f])]
         /\ WithDefaults(o).rate = IF o.sampler THEN o.rate
                                   ELSE OrDefault(o, o.rate, DefaultRate)
         /\ WithDefaults(o).ignore = IF o.ignore = Nil THEN DefaultIgnore ELSE o.ignore
         /\ WithDefaults(o).initialized = TRUE
         /\ \A f \in OptionFields \ {"path", "ints", "rate", "ignore", "initialized"} :
              WithDefaults(o)[f] = o[f]
<1>1. DOMAIN WithDefaults(o) = OptionFields
  BY DEF WithDefaults
<1>5. WithDefaults(o) = [f \in DOMAIN WithDefaults(o) |-> WithDefaults(o)[f]]
  BY Zenon DEF WithDefaults
<1>2. /\ WithDefaults(o).path = TrimSlash(IF o.path = <<>> THEN DefaultPath ELSE o.path)
      /\ WithDefaults(o).ints = [f \in Ints |-> OrDefault(o, o.ints[f], DefaultInts[f])]
      /\ WithDefaults(o).rate = IF o.sampler THEN o.rate
                                ELSE OrDefault(o, o.rate, DefaultRate)
  BY DEF WithDefaults, OptionFields
<1>3. /\ WithDefaults(o).ignore = IF o.ignore = Nil THEN DefaultIgnore ELSE o.ignore
      /\ WithDefaults(o).initialized = TRUE
  BY DEF WithDefaults, OptionFields
<1>4. ASSUME NEW f \in OptionFields \ {"path", "ints", "rate", "ignore", "initialized"}
      PROVE  WithDefaults(o)[f] = o[f]
  BY DEF WithDefaults
<1> QED
  BY <1>1, <1>2, <1>3, <1>4, <1>5

LEMMA StoredOptions ==
  ASSUME NEW o, DOMAIN o = OptionFields, NEW s
  PROVE  /\ DOMAIN [o EXCEPT !.storage = s] = OptionFields
         /\ [o EXCEPT !.storage = s] = [f \in OptionFields |-> [o EXCEPT !.storage = s][f]]
         /\ [o EXCEPT !.storage = s].storage = s
         /\ \A f \in OptionFields \ {"storage"} : [o EXCEPT !.storage = s][f] = o[f]
BY DEF OptionFields

LEMMA Shortened ==
  ASSUME NEW S, NEW p \in Seq(S), NEW n \in 0..Len(p)
  PROVE  /\ Len(SubSeq(p, 1, n)) = n
         /\ \A i \in 1..n : SubSeq(p, 1, n)[i] = p[i]
OBVIOUS

LEMMA TrimmedOnce ==
  ASSUME NEW S, NEW p \in Seq(S), ~IsDoubled(p), TrimSlash(p) # <<>>
  PROVE  TrimSlash(TrimSlash(p)) = TrimSlash(p)
<1>1. CASE p # <<>> /\ p[Len(p)] = "/"
  <2> DEFINE len == Len(p)
             n == len - 1
             t == SubSeq(p, 1, n)
  <2>1. TrimSlash(p) = t
    BY <1>1 DEF TrimSlash
  <2>2. len \in Nat /\ n \in 0..len
    BY <1>1
  <2>3. Len(t) = n /\ \A i \in 1..n : t[i] = p[i]
    BY <2>2, Shortened
  <2>4. n # 0
    BY <2>1, <2>2, <2>3
  <2>5. len > 1 /\ n \in 1..n
    <3> HIDE DEF len, t
    <3> QED
      BY <2>2, <2>4
  <2>6. p[n] # "/"
    BY <1>1, <2>5 DEF IsDoubled
  <2>7. t[Len(t)] # "/"
    BY <2>3, <2>5, <2>6
  <2> QED
    BY <2>1, <2>7 DEF TrimSlash
<1>2. CASE ~(p # <<>> /\ p[Len(p)] = "/")
  BY <1>2 DEF TrimSlash
<1> QED
  BY <1>1, <1>2

(* What code and environment come to before the defaults. *)
Source == IF code.readEnv THEN OptionsFromEnv(env, code) ELSE code

SettingsInv ==
  /\ code \in Codes /\ env \in Envs
  /\ built.ok => built = New(env, code)

LEMMA SourceFields ==
  ASSUME SettingsInv
  PROVE  /\ DOMAIN Source = OptionFields
         /\ Source.path = IF code.readEnv THEN PathFrom(env, code) ELSE code.path
         /\ Source.ints = IF code.readEnv THEN IntsFrom(env, code) ELSE code.ints
         /\ Source.bools = IF code.readEnv THEN BoolsFrom(env, code) ELSE code.bools
         /\ Source.rate = IF code.readEnv THEN RateFrom(env, code) ELSE code.rate
         /\ Source.ignore = IF code.readEnv THEN IgnoreFrom(env, code) ELSE code.ignore
         /\ Source.networks = IF code.readEnv THEN NetworksFrom(env, code) ELSE code.networks
         /\ Source.users = IF code.readEnv THEN UsersFrom(env, code) ELSE code.users
         /\ Source.texts = IF code.readEnv THEN TextsFrom(env, code) ELSE code.texts
         /\ Source.authorize = code.authorize
         /\ Source.storage = IF code.readEnv
                             THEN StorageFrom(env, code, IntsFrom(env, code)["ring"])
                             ELSE code.storage
         /\ Source.initialized = code.initialized
<1>1. DOMAIN code = OptionFields
  BY SettingsAssumption, OptionsAreRecords DEF SettingsInv
<1>2. CASE code.readEnv
  BY <1>1, <1>2, ReadOptions DEF Source
<1>3. CASE ~code.readEnv
  BY <1>1, <1>3 DEF Source
<1> QED
  BY <1>2, <1>3

(* A tracer runs on the defaulted options, which are valid. *)
LEMMA BuiltFields ==
  ASSUME SettingsInv, built.ok
  PROVE  LET d == WithDefaults(Source)
             o == built.opts
         IN /\ Valid(d)
            /\ o = [d EXCEPT !.storage = IF d.storage = Nil THEN Memory(d.ints["ring"])
                                         ELSE d.storage]
            /\ code.readEnv => /\ ~ReadFails(env, code)
                               /\ Source.storage # Failed
                               /\ UsersFrom(env, code) # Garbage
<1> DEFINE d == WithDefaults(Source)
<1>1. built = New(env, code)
  BY DEF SettingsInv
<1>2. ~NoTracer.ok
  BY DEF NoTracer
<1>3. New(env, code) = Built(d)
  BY <1>1, <1>2 DEF New, Source
<1>4. code.readEnv => /\ ~ReadFails(env, code)
                      /\ Source.storage # Failed
                      /\ UsersFrom(env, code) # Garbage
  BY <1>1, <1>2 DEF New, Source
<1> HIDE DEF d
<1>5. Valid(d)
  BY <1>1, <1>2, <1>3 DEF Built
<1>6. built.opts = [d EXCEPT !.storage = IF d.storage = Nil THEN Memory(d.ints["ring"])
                                         ELSE d.storage]
  BY <1>1, <1>3, <1>5 DEF Built
<1> QED
  BY <1>4, <1>5, <1>6 DEF d

(* What the front end makes of it once more. *)
LEMMA FrontEndAgrees ==
  ASSUME SettingsInv, built.ok,
         ~IsDoubled(code.path), env.path # Unset => ~IsDoubled(env.path)
  PROVE  FrontEndOptions(built.opts) = [built.opts EXCEPT !.storage = Nil]
<1> DEFINE s == Source
           d == WithDefaults(s)
           o == built.opts
           x == [o EXCEPT !.storage = Nil]
           y == WithDefaults(x)
           from == IF s.path = <<>> THEN DefaultPath ELSE s.path
<1>1. ~IsDoubled(from) /\ \E S : from \in Seq(S)
  <2>1. /\ code.path \in Seq(STRING)
        /\ env.path # Unset => env.path \in Seq(STRING)
    BY SettingsAssumption DEF SettingsInv, OptionsType, EnvType
  <2>2. s.path = code.path \/ (env.path # Unset /\ s.path = env.path)
    BY SourceFields DEF PathFrom, EnvField, Applies
  <2>3. DefaultPath \in Seq({"/", "d"})
    BY DEF DefaultPath
  <2>4. Len(DefaultPath) = 2 /\ DefaultPath[2] # "/"
    BY DEF DefaultPath
  <2>5. ~IsDoubled(DefaultPath)
    BY <2>4 DEF IsDoubled
  <2> QED
    BY <2>1, <2>2, <2>3, <2>5
<1>2. DOMAIN d = OptionFields /\ d.path = TrimSlash(from)
      /\ d.ints = [f \in Ints |-> d.ints[f]]
      /\ (d.ignore = Nil => DefaultIgnore = Nil) /\ d.initialized = TRUE
  <2>1. DOMAIN s = OptionFields
    BY SourceFields
  <2> HIDE DEF s
  <2>2. d.ints = [f \in Ints |-> OrDefault(s, s.ints[f], DefaultInts[f])]
    BY <2>1, DefaultedOptions
  <2>3. d.ints = [f \in Ints |-> d.ints[f]]
    BY <2>2
  <2>4. DOMAIN d = OptionFields /\ d.path = TrimSlash(from) /\ d.initialized = TRUE
    BY <2>1, DefaultedOptions
  <2>5. d.ignore = IF s.ignore = Nil THEN DefaultIgnore ELSE s.ignore
    BY <2>1, DefaultedOptions
  <2> HIDE DEF d
  <2> QED
    BY <2>3, <2>4, <2>5
<1>3. Valid(d) /\ o = [d EXCEPT !.storage = IF d.storage = Nil THEN Memory(d.ints["ring"])
                                            ELSE d.storage]
  BY BuiltFields
<1> HIDE DEF d, s, from
<1>4. DOMAIN o = OptionFields /\ \A f \in OptionFields \ {"storage"} : o[f] = d[f]
  BY <1>2, <1>3, StoredOptions
<1> HIDE DEF o
<1>5. /\ DOMAIN x = OptionFields /\ x = [f \in OptionFields |-> x[f]]
      /\ \A f \in OptionFields \ {"storage"} : x[f] = d[f]
  BY <1>4, StoredOptions
<1> HIDE DEF x
<1>6. x.path = TrimSlash(from) /\ x.path # <<>>
  BY <1>2, <1>3, <1>5 DEF Valid, OptionFields
<1>7. x.initialized = TRUE /\ x.ints = d.ints /\ x.ignore = d.ignore
  BY <1>2, <1>5 DEF OptionFields
<1>8. DOMAIN y = OptionFields /\ y = [f \in OptionFields |-> y[f]]
  BY <1>5, DefaultedOptions
<1>9. y.path = x.path
  <2>1. y.path = TrimSlash(x.path)
    BY <1>5, <1>6, DefaultedOptions
  <2> QED
    BY <1>1, <1>6, <2>1, TrimmedOnce
<1>10. y.ints = x.ints
  <2>1. y.ints = [f \in Ints |-> OrDefault(x, x.ints[f], DefaultInts[f])]
    BY <1>5, DefaultedOptions
  <2>2. \A f \in Ints : OrDefault(x, x.ints[f], DefaultInts[f]) = x.ints[f]
    BY <1>7 DEF OrDefault
  <2>3. x.ints = [f \in Ints |-> x.ints[f]]
    BY <1>2, <1>7
  <2> QED
    BY <2>1, <2>2, <2>3
<1>11. y.rate = x.rate
  BY <1>5, <1>7, DefaultedOptions DEF OrDefault
<1>12. y.ignore = x.ignore
  <2>1. y.ignore = IF x.ignore = Nil THEN DefaultIgnore ELSE x.ignore
    BY <1>5, DefaultedOptions
  <2> HIDE DEF y
  <2> QED
    BY <1>2, <1>7, <2>1
<1>13. y.initialized = x.initialized
  BY <1>5, <1>7, DefaultedOptions
<1>14. \A f \in OptionFields : y[f] = x[f]
  <2>1. \A f \in OptionFields \ {"path", "ints", "rate", "ignore", "initialized"} : y[f] = x[f]
    BY <1>5, DefaultedOptions
  <2> HIDE DEF y
  <2> QED
    BY <2>1, <1>9, <1>10, <1>11, <1>12, <1>13
<1>15. y = x
  BY <1>5, <1>8, <1>14, SameRecord
<1> QED
  BY <1>15 DEF FrontEndOptions, x, o

(* The storage is the caller's, the one asked for or the default. *)
LEMMA StorageAgrees ==
  ASSUME SettingsInv, built.ok, code.storage = Nil, code.initialized
  PROVE  LET o == built.opts
             Limit == IF ~code.readEnv THEN Unset
                      ELSE IF o.storage.driver = "disk" THEN env.disk["limit"]
                      ELSE env.memorySize
         IN /\ o.storage.limit = (IF Limit = Unset THEN o.ints["ring"] ELSE Limit)
            /\ code.readEnv /\ env.driver # Unset => o.storage.driver = env.driver
            /\ o.storage.driver = "disk" <=>
                 code.readEnv /\ \E s \in DiskSettings \cup {"driver"} :
                   IF s = "driver" THEN env.driver = "disk" ELSE env.disk[s] # Unset
<1> DEFINE o == built.opts
           d == WithDefaults(Source)
           ring == o.ints["ring"]
           disk == \E s \in DiskSettings \cup {"driver"} :
                     IF s = "driver" THEN env.driver = "disk" ELSE env.disk[s] # Unset
<1>1. /\ DOMAIN d = OptionFields /\ d.storage = Source.storage
      /\ d.ints = [f \in Ints |-> Source.ints[f]]
  <2>1. DOMAIN Source = OptionFields /\ Source.initialized
    BY SourceFields
  <2>2. \A f \in Ints : OrDefault(Source, Source.ints[f], DefaultInts[f]) = Source.ints[f]
    BY <2>1 DEF OrDefault
  <2>3. d.ints = [f \in Ints |-> OrDefault(Source, Source.ints[f], DefaultInts[f])]
    BY <2>1, DefaultedOptions
  <2>4. DOMAIN d = OptionFields /\ d.storage = Source.storage
    <3>1. "storage" \in OptionFields \ {"path", "ints", "rate", "ignore", "initialized"}
      BY DEF OptionFields
    <3> QED
      BY <2>1, <3>1, DefaultedOptions
  <2> QED
    BY <2>2, <2>3, <2>4
<1>2. /\ o = [d EXCEPT !.storage = IF d.storage = Nil THEN Memory(d.ints["ring"])
                                   ELSE d.storage]
      /\ code.readEnv => Source.storage # Failed
  BY BuiltFields
<1> HIDE DEF d
<1>3. o.storage = (IF d.storage = Nil THEN Memory(d.ints["ring"]) ELSE d.storage)
      /\ o.ints = d.ints
  BY <1>1, <1>2, StoredOptions DEF OptionFields
<1>4. "ring" \in Ints /\ ring = Source.ints["ring"]
  BY <1>1, <1>3 DEF Ints
<1>5. code.readEnv => ring \in Int
  <2>1. code.ints["ring"] \in Int /\ env.ints["ring"] \in Variable(Int)
    BY <1>4, SettingsAssumption DEF SettingsInv, OptionsType, EnvType
  <2>2. code.readEnv => ring = EnvField(env.ints["ring"], code.ints["ring"], DefaultInts["ring"])
    BY <1>4, SourceFields DEF IntsFrom
  <2>3. code.readEnv => ring # Garbage
    BY <1>4, BuiltFields, SourceFields DEF ReadFails
  <2> QED
    BY <2>1, <2>2, <2>3 DEF EnvField, Applies, Variable
<1>6. env.memorySize \in Variable(Int) /\ env.disk["limit"] \in Variable(Int)
  BY SettingsAssumption DEF SettingsInv, EnvType
<1>7. \A n \in Int, p, r \in BOOLEAN : Memory(n) # Nil /\ Disk(n, p, r) # Nil
  <2>1. \A n \in Int, p, r \in BOOLEAN :
          Memory(n) \in StorageType /\ Disk(n, p, r) \in StorageType
    BY DEF Memory, Disk, StorageType
  <2> QED
    BY <2>1, SettingsAssumption
<1>8. disk <=> env.driver = "disk" \/ DiskSet(env)
  BY DEF DiskSet, DiskSettings
<1>9. CASE ~code.readEnv
  <2>1. o.storage = Memory(ring)
    BY <1>1, <1>3, <1>9, SourceFields
  <2> QED
    BY <1>9, <2>1 DEF Memory
<1>10. CASE code.readEnv /\ Driver(env) = "memory"
  <2>1. /\ ~DiskSet(env)
        /\ Source.storage = IF env.memorySize \in {Unset, ring} THEN Nil
                            ELSE Memory(env.memorySize)
        /\ env.memorySize # Garbage
    BY <1>2, <1>4, <1>10, SourceFields DEF StorageFrom
  <2>2. env.memorySize \notin {Unset, ring} => Memory(env.memorySize) # Nil
    BY <1>6, <1>7, <2>1 DEF Variable
  <2>3. o.storage = Memory(IF env.memorySize = Unset THEN ring ELSE env.memorySize)
    BY <1>1, <1>3, <1>4, <2>1, <2>2
  <2>4. env.driver # Unset => env.driver = "memory"
    BY <1>10 DEF Driver
  <2>5. ~disk
    <3>1. env.driver # "disk"
      BY <1>10, SettingsAssumption DEF Driver
    <3> QED
      BY <1>8, <2>1, <3>1
  <2> QED
    BY <1>10, <2>3, <2>4, <2>5 DEF Memory
<1>11. CASE code.readEnv /\ Driver(env) = "disk"
  <2> DEFINE most == IF env.disk["limit"] = Unset THEN ring ELSE env.disk["limit"]
  <2>1. Source.storage = Disk(most, env.disk["expire"] # Unset, env.disk["list"] = TRUE)
    BY <1>2, <1>4, <1>11, SourceFields DEF StorageFrom
  <2>2. o.storage = Source.storage
    <3>1. env.disk["limit"] # Garbage
      BY <1>2, <1>11, SourceFields DEF StorageFrom, DiskFails, DiskSettings
    <3>2. most \in Int
      BY <1>11, <1>5, <1>6, <3>1 DEF Variable
    <3>3. Source.storage # Nil
      BY <1>7, <2>1, <3>2
    <3> QED
      BY <1>1, <1>3, <3>3
  <2>3. env.driver # Unset => env.driver = "disk"
    BY <1>11 DEF Driver
  <2>4. disk
    BY <1>8, <1>11 DEF Driver
  <2> QED
    BY <1>11, <2>1, <2>2, <2>3, <2>4 DEF Disk
<1>12. CASE code.readEnv /\ Driver(env) \notin {"memory", "disk"}
  BY <1>2, <1>12, SourceFields DEF StorageFrom
<1> QED
  BY <1>9, <1>10, <1>11, <1>12

LEMMA SettingsInvHolds ==
  ASSUME SettingsInv
  PROVE  SettingsHold
<1> SUFFICES ASSUME built.ok PROVE SettingsHold
  BY DEF SettingsHold
<1> DEFINE o == built.opts
           d == WithDefaults(Source)
<1>1. /\ Valid(d)
      /\ o = [d EXCEPT !.storage = IF d.storage = Nil THEN Memory(d.ints["ring"])
                                   ELSE d.storage]
      /\ code.readEnv => ~ReadFails(env, code) /\ Source.storage # Failed
  BY BuiltFields
<1>2. DOMAIN Source = OptionFields /\ Source.initialized = code.initialized
  BY SourceFields
<1>3. /\ DOMAIN d = OptionFields /\ d.bools = Source.bools /\ d.networks = Source.networks
      /\ d.users = Source.users /\ d.texts = Source.texts /\ d.authorize = Source.authorize
      /\ d.storage = Source.storage
      /\ d.ignore = IF Source.ignore = Nil THEN DefaultIgnore ELSE Source.ignore
  <2>1. {"bools", "networks", "users", "texts", "authorize", "storage"}
          \subseteq OptionFields \ {"path", "ints", "rate", "ignore", "initialized"}
    BY DEF OptionFields
  <2> QED
    BY <1>2, <2>1, DefaultedOptions
<1>4. code.initialized =>
        /\ \A f \in Ints : d.ints[f] = Source.ints[f]
        /\ d.rate = Source.rate
  <2> SUFFICES ASSUME code.initialized
               PROVE  (\A f \in Ints : d.ints[f] = Source.ints[f]) /\ d.rate = Source.rate
    OBVIOUS
  <2>1. d.ints = [f \in Ints |-> OrDefault(Source, Source.ints[f], DefaultInts[f])]
    BY <1>2, DefaultedOptions
  <2>2. d.rate = IF Source.sampler THEN Source.rate
                 ELSE OrDefault(Source, Source.rate, DefaultRate)
    BY <1>2, DefaultedOptions
  <2>3. \A v, default : OrDefault(Source, v, default) = v
    BY <1>2 DEF OrDefault
  <2> HIDE DEF d
  <2> QED
    BY <2>1, <2>2, <2>3
<1> HIDE DEF d
<1>5. /\ \A f \in OptionFields \ {"storage"} : o[f] = d[f]
      /\ o.storage = IF d.storage = Nil THEN Memory(d.ints["ring"]) ELSE d.storage
  BY <1>1, <1>3, StoredOptions
<1> HIDE DEF o
<1>6. /\ o.path = d.path /\ o.ints = d.ints /\ o.bools = d.bools /\ o.rate = d.rate
      /\ o.ignore = d.ignore /\ o.networks = d.networks /\ o.users = d.users
      /\ o.texts = d.texts /\ o.authorize = d.authorize
  BY <1>5 DEF OptionFields
<1>7. o.path # <<>> /\ o.path[1] = "/" /\ o.rate \in 0..100
      /\ \A f \in Ints : o.ints[f] >= 0
  BY <1>1, <1>6 DEF Valid
<1>8. /\ code \in OptionsType /\ env \in EnvType
      /\ env.ignore # Nil /\ Nil # DefaultIgnore
  BY SettingsAssumption DEF SettingsInv
<1>9. ASSUME code.initialized, NEW f \in Ints
      PROVE  Settled(o.ints[f], code.ints[f], env.ints[f], DefaultInts[f])
  <2>1. o.ints[f] = Source.ints[f]
    BY <1>4, <1>6, <1>9
  <2>2. Source.ints[f] = IF code.readEnv
                         THEN EnvField(env.ints[f], code.ints[f], DefaultInts[f])
                         ELSE code.ints[f]
    BY SourceFields DEF IntsFrom
  <2> QED
    BY <2>1, <2>2 DEF Settled, EnvField, Applies
<1>10. ASSUME NEW f \in Bools
       PROVE  Settled(o.bools[f], code.bools[f], env.bools[f], DefaultBools[f])
  <2>1. Source.bools[f] = IF code.readEnv
                          THEN EnvField(env.bools[f], code.bools[f], DefaultBools[f])
                          ELSE code.bools[f]
    BY SourceFields DEF BoolsFrom
  <2> QED
    BY <1>3, <1>6, <2>1 DEF Settled, EnvField, Applies
<1>11. ASSUME code.initialized, env.rate = Unset \/ env.rate \in 0..100
       PROVE  Settled(o.rate, code.rate, env.rate, DefaultRate)
  <2>1. o.rate = IF code.readEnv THEN RateFrom(env, code) ELSE code.rate
    BY <1>4, <1>6, <1>11, SourceFields
  <2>2. RateFrom(env, code) = EnvField(env.rate, code.rate, DefaultRate)
    BY <1>11 DEF RateFrom, EnvField, Applies, Bounded
  <2> QED
    BY <2>1, <2>2 DEF Settled, EnvField, Applies
<1>12. IF code.ignore = Nil THEN o.ignore = DefaultIgnore
       ELSE Settled(o.ignore, code.ignore, env.ignore, DefaultIgnore)
  <2>1. Source.ignore = IF code.readEnv
                        THEN EnvField(env.ignore, code.ignore, DefaultIgnore)
                        ELSE code.ignore
    BY SourceFields DEF IgnoreFrom
  <2>2. o.ignore = IF Source.ignore = Nil THEN DefaultIgnore ELSE Source.ignore
    BY <1>3, <1>6
  <2> QED
    BY <1>8, <2>1, <2>2 DEF Settled, EnvField, Applies
<1>13. Settled(o.networks, code.networks, env.networks, Nil)
  <2>1. o.networks = IF code.readEnv THEN EnvField(env.networks, code.networks, Nil)
                     ELSE code.networks
    BY <1>3, <1>6, SourceFields DEF NetworksFrom
  <2> QED
    BY <2>1 DEF Settled, EnvField, Applies
<1>14. ASSUME NEW f \in Texts
       PROVE  Settled(o.texts[f], code.texts[f], env.texts[f], Nil)
  <2>1. Source.texts[f] = IF code.readEnv THEN EnvField(env.texts[f], code.texts[f], Nil)
                          ELSE code.texts[f]
    BY SourceFields DEF TextsFrom
  <2> QED
    BY <1>3, <1>6, <2>1 DEF Settled, EnvField, Applies
<1>16. /\ o.authorize = code.authorize
       /\ IF o.texts["usersFile"] # Nil \/ code.authorize THEN o.users = code.users
          ELSE Settled(o.users, code.users, env.auth, Nil)
  <2>1. o.users = IF code.readEnv THEN UsersFrom(env, code) ELSE code.users
    BY <1>3, <1>6, SourceFields
  <2>2. code.readEnv => o.texts = TextsFrom(env, code)
    BY <1>3, <1>6, SourceFields
  <2>3. o.authorize = code.authorize
    BY <1>3, <1>6, SourceFields
  <2> QED
    BY <2>1, <2>2, <2>3 DEF UsersFrom, Settled, EnvField, Applies
<1>15. code.storage # Nil => o.storage = code.storage
  <2>1. code.storage # Nil => Source.storage = code.storage
    BY SourceFields DEF StorageFrom
  <2> QED
    BY <1>3, <1>5, <2>1
<1> QED
  BY <1>7, <1>9, <1>10, <1>11, <1>12, <1>13, <1>14, <1>15, <1>16, StorageAgrees,
     FrontEndAgrees
     DEF SettingsHold, o

(* Whatever a caller sets and whatever the environment holds, a tracer     *)
(* runs on what the code set, else the variables, else the defaults, and   *)
(* on the storage they ask for, or there is no tracer (options.go:180-260, *)
(* options_from_env.go, tracer.go:60-107).                                 *)
THEOREM SettingsFollow == SettingsSpec => []SettingsHold
<1>1. SettingsInit => SettingsInv
  BY DEF SettingsInit, SettingsInv, NoTracer
<1>2. SettingsInv /\ [SettingsNext]_settingsVars => SettingsInv'
  <2>1. SettingsInv /\ Build => SettingsInv'
    BY DEF SettingsInv, Build, New
  <2>2. SettingsInv /\ UNCHANGED settingsVars => SettingsInv'
    BY DEF SettingsInv, settingsVars
  <2> QED
    BY <2>1, <2>2 DEF SettingsNext
<1>3. SettingsInv => SettingsHold
  BY SettingsInvHolds
<1> QED
  BY <1>1, <1>2, <1>3, PTL DEF SettingsSpec
-----------------------------------------------------------------------------
(* Access. Whatever networks, users, secrets, lifetimes and restarts there *)
(* are, no answer shows anything recorded to someone without credentials.  *)

(* A minted token, of the shared secret and without an expiry. *)
IsMinted(t) == config.preshared /\ t.sub \in minted

(* A session: someone signed in a TTL before it ends, and unless the       *)
(* secret is shared it is signed with that of the process they signed in   *)
(* to.                                                                     *)
IsSession(t) ==
  /\ t.exp # 0
  /\ \E l \in logins :
       /\ l.user = t.sub
       /\ t.exp = l.at + TTL
       /\ config.preshared \/ l.process = t.key

TokensBacked == \A t \in tokens : IsMinted(t) \/ IsSession(t)

(* A request that may be shown what is recorded. *)
Entitled(by) ==
  /\ config.gate => by.passes
  /\ NetworkAllowed(by.peer)
  /\ LoginRequired =>
       \/ config.preshared /\ by.user \in minted
       \/ \E l \in logins :
            /\ l.user = by.user
            /\ by.at < l.at + TTL
            /\ config.preshared \/ l.process = by.process

(* What an open stream is written rests on the request that opened it.     *)
StreamsEntitled == \A stream \in streams : Entitled(stream)

AccessInv ==
  now \in Nat /\ TokensBacked /\ StreamsEntitled /\ AccessNeedsCredentials

-----------------------------------------------------------------------------
(* The tokens of a step that adds to what is known are backed after it.    *)
LEMMA KnownStaysKnown ==
  ASSUME TokensBacked, config' = config,
         logins \subseteq logins', minted \subseteq minted', tokens' = tokens
  PROVE  TokensBacked'
BY DEF TokensBacked, IsMinted, IsSession

(* What a request was based on is not forgotten: nothing is signed out.    *)
LEMMA EntitledStays ==
  ASSUME config' = config, logins \subseteq logins', minted \subseteq minted',
         NEW by, Entitled(by)
  PROVE  /\ config'.gate => by.passes
         /\ NetworkAllowed(by.peer)'
         /\ LoginRequired' =>
              \/ config'.preshared /\ by.user \in minted'
              \/ \E l \in logins' :
                   /\ l.user = by.user
                   /\ by.at < l.at + TTL
                   /\ config'.preshared \/ l.process = by.process
BY DEF Entitled, NetworkAllowed, LoginRequired

LEMMA AnswerStands ==
  ASSUME AccessNeedsCredentials, config' = config, answer' = answer,
         logins \subseteq logins', minted \subseteq minted'
  PROVE  AccessNeedsCredentials'
BY DEF AccessNeedsCredentials, NetworkAllowed, LoginRequired

LEMMA StreamsStay ==
  ASSUME StreamsEntitled, config' = config, streams' \subseteq streams,
         logins \subseteq logins', minted \subseteq minted'
  PROVE  StreamsEntitled'
BY EntitledStays DEF StreamsEntitled, Entitled

(* An answer that shows nothing recorded needs no credentials. *)
LEMMA NothingShown ==
  ASSUME answer'.shows \cap Recorded = {}
  PROVE  AccessNeedsCredentials'
BY DEF AccessNeedsCredentials

(* The sign in screen is served without the chrome of a page. *)
LEMMA LoginScreenIsBare == LoginScreen \cap Recorded = {}
BY DEF LoginScreen, Layout, Recorded

-----------------------------------------------------------------------------
(* A token that verifies is one of a user who may be served right now.     *)
LEMMA VerifiedIsKnown ==
  ASSUME AccessInv, NEW t \in Held, Verify(t)
  PROVE  \/ config.preshared /\ t.sub \in minted
         \/ \E l \in logins :
              /\ l.user = t.sub
              /\ now < l.at + TTL
              /\ config.preshared \/ l.process = process
<1>1. t \in tokens
  BY DEF Held, Verify
<1>2. IsMinted(t) \/ IsSession(t)
  BY <1>1 DEF AccessInv, TokensBacked
<1>3. CASE IsMinted(t)
  BY <1>3 DEF IsMinted
<1>4. CASE IsSession(t)
  <2>1. PICK l \in logins : /\ l.user = t.sub
                            /\ t.exp = l.at + TTL
                            /\ config.preshared \/ l.process = t.key
    BY <1>4 DEF IsSession
  <2>2. now < t.exp
    BY <1>4 DEF IsSession, Verify
  <2>3. config.preshared \/ t.key = process
    BY DEF Verify, Secret
  <2> QED
    BY <2>1, <2>2, <2>3
<1> QED
  BY <1>2, <1>3, <1>4

(* Who a request comes from is nobody, or a user who may be served.        *)
LEMMA AskerIsKnown ==
  ASSUME AccessInv, NEW user \in Askers, user # NoUser
  PROVE  \/ config.preshared /\ user \in minted
         \/ \E l \in logins :
              /\ l.user = user
              /\ now < l.at + TTL
              /\ config.preshared \/ l.process = process
<1>1. PICK cookie \in Held, bearer \in Held : user = RequestUser(cookie, bearer)
  BY DEF Askers
<1>2. CASE Verify(cookie)
  BY <1>1, <1>2, VerifiedIsKnown DEF RequestUser
<1>3. CASE ~Verify(cookie)
  <2>1. Verify(bearer) /\ user = bearer.sub
    BY <1>1, <1>3 DEF RequestUser
  <2> QED
    BY <2>1, VerifiedIsKnown
<1> QED
  BY <1>2, <1>3

-----------------------------------------------------------------------------
LEMMA AccessInitHolds == AccessInit => AccessInv
BY DEF AccessInit, AccessInv, TokensBacked, StreamsEntitled, AccessNeedsCredentials, Silence

(* Every answer but that to a login only answers. *)
LEMMA AnswerHolds ==
  ASSUME AccessInv, OnlyAnswers, AccessNeedsCredentials'
  PROVE  AccessInv'
<1>1. TokensBacked' /\ StreamsEntitled'
  BY KnownStaysKnown, StreamsStay DEF AccessInv, OnlyAnswers, Answers
<1> QED
  BY <1>1 DEF AccessInv, OnlyAnswers, Answers

LEMMA HideHolds ==
  ASSUME AccessInv, NEW caller, NEW passes, Hide(caller, passes)
  PROVE  AccessInv'
<1>1. answer'.shows = {}
  BY DEF Hide, Answer
<1> QED
  BY <1>1, NothingShown, AnswerHolds DEF Hide

LEMMA ShowLoginHolds ==
  ASSUME AccessInv, NEW caller, NEW passes, ShowLogin(caller, passes)
  PROVE  AccessInv'
<1>1. answer'.shows = LoginScreen
  BY DEF ShowLogin, Answer
<1> QED
  BY <1>1, LoginScreenIsBare, NothingShown, AnswerHolds DEF ShowLogin

LEMMA TurnAwayHolds ==
  ASSUME AccessInv, NEW caller, NEW passes, NEW route, NEW user, NEW uri, NEW format,
         TurnAway(caller, passes, route, user, uri, format)
  PROVE  AccessInv'
<1>1. answer'.shows = {}
  BY DEF TurnAway, Answer
<1> QED
  BY <1>1, NothingShown, AnswerHolds DEF TurnAway

(* A page is served, and a stream opened, to those who reach the front end *)
(* and are known to it; an asset shows nothing.                            *)
LEMMA ServeHolds ==
  ASSUME AccessInv, NEW caller, NEW passes, NEW route, NEW user \in Askers, NEW format,
         Serve(caller, passes, route, user, format)
  PROVE  AccessInv'
<1> DEFINE by == Asked(user, caller, passes)
<1>1. UNCHANGED <<config, now, tokens, minted, logins>>
  BY DEF Serve, Answers
<1>2. /\ answer'.asked = by
      /\ ~Exists(route) => answer'.shows = {}
      /\ streams' \subseteq streams \cup {by}
      /\ ~Exists(route) => streams' = streams
  BY DEF Serve, Answer
<1>3. TokensBacked'
  BY <1>1, KnownStaysKnown DEF AccessInv
<1>4. CASE ~Exists(route)
  BY <1>1, <1>2, <1>3, <1>4, NothingShown, StreamsStay DEF AccessInv
<1>5. CASE Exists(route)
  <2>1. Reaches(caller, passes)
    BY DEF Serve
  <2>2. LoginRequired => user # NoUser
    BY <1>5 DEF Serve, MayEnter, Exists, Pages
  <2>3. LoginRequired =>
          \/ config.preshared /\ user \in minted
          \/ \E l \in logins : /\ l.user = user
                               /\ now < l.at + TTL
                               /\ config.preshared \/ l.process = process
    BY <2>2, AskerIsKnown
  <2>4. /\ by.user = user /\ by.peer = caller /\ by.passes = passes
        /\ by.at = now /\ by.process = process
    BY DEF Asked
  <2>5. Entitled(by)
    BY <2>1, <2>3, <2>4 DEF Entitled, Reaches
  <2>6. \A stream \in streams' : Entitled(stream)
    BY <1>2, <2>5 DEF AccessInv, StreamsEntitled
  <2>7. StreamsEntitled'
    BY <1>1, <2>6, EntitledStays DEF StreamsEntitled, Entitled
  <2>8. AccessNeedsCredentials'
    BY <1>1, <1>2, <2>5, EntitledStays DEF AccessNeedsCredentials
  <2> QED
    BY <1>1, <1>3, <2>7, <2>8 DEF AccessInv
<1> QED
  BY <1>4, <1>5

(* A redraw goes to a request that was entitled to the first one. *)
LEMMA PushHolds ==
  ASSUME AccessInv, NEW stream, Push(stream)
  PROVE  AccessInv'
<1>1. /\ answer'.asked = stream /\ Entitled(stream)
      /\ UNCHANGED <<config, minted, logins>>
  BY DEF Push, Answer, OnlyAnswers, Answers, AccessInv, StreamsEntitled
<1>2. AccessNeedsCredentials'
  BY <1>1, EntitledStays DEF AccessNeedsCredentials
<1> QED
  BY <1>2, AnswerHolds DEF Push

(* A session is backed by the login that made it. *)
LEMMA LoginHolds ==
  ASSUME AccessInv, NEW caller, NEW passes, NEW user, NEW knows, NEW uri,
         Login(caller, passes, user, knows, uri)
  PROVE  AccessInv'
<1>1. UNCHANGED <<config, now, process, minted, streams>>
  BY DEF Login
<1>2. CASE ~Authenticate(user, knows)
  <2>1. answer'.shows = LoginScreen /\ UNCHANGED <<tokens, logins>>
    BY <1>2 DEF Login, Answer
  <2>2. TokensBacked' /\ StreamsEntitled'
    BY <1>1, <2>1, KnownStaysKnown, StreamsStay DEF AccessInv
  <2> QED
    BY <1>1, <2>1, <2>2, LoginScreenIsBare, NothingShown DEF AccessInv
<1>3. CASE Authenticate(user, knows)
  <2> DEFINE login == [user |-> user, at |-> now, process |-> process]
  <2>1. /\ answer'.shows = {}
        /\ tokens' = tokens \cup {Session(user)}
        /\ logins' = logins \cup {login}
    <3>1. /\ tokens' = tokens \cup {Session(user)}
          /\ logins' = logins \cup {login}
          /\ \E what : Answer(what, {}, Asked(user, caller, passes))
      BY <1>3 DEF Login
    <3>2. answer'.shows = {}
      BY <3>1 DEF Answer
    <3> QED
      BY <3>1, <3>2
  <2>2. ASSUME NEW t \in tokens PROVE IsMinted(t)' \/ IsSession(t)'
    <3>1. IsMinted(t) \/ IsSession(t)
      BY <2>2 DEF AccessInv, TokensBacked
    <3> QED
      BY <3>1, <1>1, <2>1 DEF IsMinted, IsSession
  <2>3. IsSession(Session(user))'
    <3>1. now + TTL # 0
      BY AccessAssumption DEF AccessInv
    <3>2. login \in logins' /\ login.user = user /\ login.at = now /\ login.process = process
      BY <2>1
    <3>3. /\ Session(user)'.sub = user /\ Session(user)'.exp = now + TTL
          /\ config'.preshared \/ login.process = Session(user)'.key
      BY <1>1, <3>2 DEF Session, Secret
    <3> QED
      BY <3>1, <3>2, <3>3 DEF IsSession
  <2>4. Session(user)' = Session(user)
    BY <1>1 DEF Session, Secret
  <2>5. TokensBacked'
    BY <2>1, <2>2, <2>3, <2>4 DEF TokensBacked
  <2>6. StreamsEntitled'
    BY <1>1, <2>1, StreamsStay DEF AccessInv
  <2> QED
    BY <1>1, <2>1, <2>5, <2>6, NothingShown DEF AccessInv
<1> QED
  BY <1>2, <1>3

LEMMA MintHolds ==
  ASSUME AccessInv, NEW user, Mint(user)
  PROVE  AccessInv'
<1>1. UNCHANGED <<config, now, logins, streams, answer>> /\ minted' = minted \cup {user}
  BY DEF Mint
<1>2. ASSUME NEW t \in tokens' PROVE IsMinted(t)' \/ IsSession(t)'
  <2>1. CASE t \in tokens
    <3>1. IsMinted(t) \/ IsSession(t)
      BY <2>1 DEF AccessInv, TokensBacked
    <3> QED
      BY <3>1, <1>1 DEF IsMinted, IsSession
  <2>2. CASE t \notin tokens
    <3>1. t.sub = user /\ config.preshared
      BY <2>2, <1>2 DEF Mint
    <3> QED
      BY <3>1, <1>1 DEF IsMinted
  <2> QED
    BY <2>1, <2>2
<1>3. TokensBacked'
  BY <1>2 DEF TokensBacked
<1> QED
  BY <1>1, <1>3, AnswerStands, StreamsStay DEF AccessInv

LEMMA AccessStep == AccessInv /\ [AccessNext]_accessVars => AccessInv'
<1> SUFFICES ASSUME AccessInv, [AccessNext]_accessVars PROVE AccessInv'
  OBVIOUS
<1>1. ASSUME NEW caller \in Peers, NEW passes \in Verdicts, Visit(caller, passes)
      PROVE  AccessInv'
  BY <1>1, HideHolds, ShowLoginHolds, TurnAwayHolds, ServeHolds, LoginHolds DEF Visit
<1>2. ASSUME NEW user \in Users, Mint(user)
      PROVE  AccessInv'
  BY <1>2, MintHolds
<1>3. CASE Tick
  <2>1. now' \in Nat /\ UNCHANGED <<config, tokens, logins, minted, streams, answer>>
    BY <1>3 DEF Tick, AccessInv
  <2> QED
    BY <2>1, KnownStaysKnown, AnswerStands, StreamsStay DEF AccessInv
<1>4. ASSUME Restart \/ \E stream \in streams : HangUp(stream)
      PROVE  AccessInv'
  <2>1. /\ UNCHANGED <<now, config, tokens, logins, minted, answer>>
        /\ streams' \subseteq streams
    BY <1>4 DEF Restart, HangUp, Answers
  <2> QED
    BY <2>1, KnownStaysKnown, AnswerStands, StreamsStay DEF AccessInv
<1>5. CASE UNCHANGED accessVars
  <2>1. UNCHANGED <<now, config, tokens, logins, minted, streams, answer>>
    BY <1>5 DEF accessVars
  <2> QED
    BY <2>1, KnownStaysKnown, AnswerStands, StreamsStay DEF AccessInv
<1>6. ASSUME NEW stream \in streams, Push(stream)
      PROVE  AccessInv'
  BY <1>6, PushHolds
<1> QED
  BY <1>1, <1>2, <1>3, <1>4, <1>5, <1>6 DEF AccessNext

(* Only those who asked with credentials are shown what was recorded, at   *)
(* once or for as long as the stream lasts that they opened: for any       *)
(* number of users, networks, processes, ticks and streams, and any options*)
(* of the front end (auth.go:123-246, handler.go:82-130, 282-345,          *)
(* login.go:16-80).                                                        *)
THEOREM NeedsCredentials == AccessSpec => []AccessNeedsCredentials
<1>1. AccessInv => AccessNeedsCredentials
  BY DEF AccessInv
<1> QED
  BY <1>1, AccessInitHolds, AccessStep, PTL DEF AccessSpec

-----------------------------------------------------------------------------
(* Requests. Behind the tokens the client sent stand its own address and   *)
(* those of the proxies it went through, but for the last.                 *)
First == Len(header) - hops + 1

Travelled ==
  /\ client \in Addresses
  /\ header \in Seq(Addresses \cup {Unknown})
  /\ hops \in 0..Len(header)
  /\ field \in {"Forwarded", "X-Forwarded-For"}
  /\ path \in Seq(STRING) /\ mount \in Seq(STRING)
  /\ IF hops = 0 THEN peer = client
     ELSE /\ peer \in Lan /\ header[First] = client
          /\ \A n \in (First + 1)..Len(header) : header[n] \in Lan

RequestInv == Travelled /\ (record.done \/ record = Pending) /\ ClientFound

LEMMA RightmostIs ==
  ASSUME NEW S \in SUBSET Int, NEW k \in S, \A m \in S : m <= k
  PROVE  Rightmost(S) = k
<1>1. \A n \in S : (\A m \in S : m <= n) => n = k
  OBVIOUS
<1>2. \A m \in S : m <= k
  OBVIOUS
<1> QED
  BY <1>1, <1>2, Zenon DEF Rightmost

LEMMA LeftmostIs ==
  ASSUME NEW S \in SUBSET Int, NEW k \in S, \A m \in S : k <= m
  PROVE  Leftmost(S) = k
<1>1. \A n \in S : (\A m \in S : n <= m) => n = k
  OBVIOUS
<1>2. \A m \in S : k <= m
  OBVIOUS
<1> QED
  BY <1>1, <1>2, Zenon DEF Leftmost

(* The client as the middleware reads it, from either header.              *)
Found == IF field = "Forwarded" THEN RemoteAddr(header, <<>>, peer)
         ELSE RemoteAddr(<<>>, header, peer)

LEMMA FoundIs ==
  ASSUME Travelled
  PROVE  Found = IF Callers(header) # {} THEN header[Rightmost(Callers(header))]
                 ELSE IF Named(header) # {} THEN header[Leftmost(Named(header))]
                 ELSE peer
<1>1. Named(<< >>) = {} /\ Callers(<< >>) = {}
  BY DEF Named, Callers
<1>2. Named(header) = {} => Callers(header) = {}
  BY DEF Callers
<1> QED
  BY <1>1, <1>2 DEF Found, RemoteAddr, ForwardedChain, Travelled

(* An address outside the local network is the last of its kind.           *)
LEMMA CallerFound ==
  ASSUME Travelled, hops > 0, client \in Public
  PROVE  Found = client
<1>1. First \in DOMAIN header /\ header[First] = client
  BY DEF Travelled, First
<1>2. First \in Callers(header)
  BY <1>1, RequestsAssumption DEF Callers, Named, IsAddress, TrustedAddr, Addresses
<1>3. \A m \in Callers(header) : m \in Int /\ m <= First
  BY DEF Callers, Named, TrustedAddr, Travelled, First
<1>4. Rightmost(Callers(header)) = First
  BY <1>2, <1>3, RightmostIs
<1> QED
  BY <1>1, <1>2, <1>4, FoundIs

(* What a client sent that names nobody is passed over.                    *)
LEMMA SilentFound ==
  ASSUME Travelled, Named(Sent) = {}
  PROVE  Found = client
<1>1. \A n \in 1..(First - 1) : n \notin Named(header)
  <2>1. /\ Sent = SubSeq(header, 1, First - 1)
        /\ First - 1 \in 0..Len(header)
        /\ header \in Seq(Addresses \cup {Unknown})
    BY DEF Sent, First, Travelled
  <2>2. /\ DOMAIN Sent = 1..(First - 1)
        /\ \A n \in 1..(First - 1) : Sent[n] = header[n]
    BY <2>1
  <2> QED
    BY <2>2 DEF Named
<1>2. CASE hops = 0
  <2>1. DOMAIN header = 1..(First - 1)
    BY <1>2 DEF First, Travelled
  <2>2. Named(header) = {}
    BY <1>1, <2>1 DEF Named
  <2>3. Callers(header) = {}
    BY <2>2 DEF Callers
  <2> QED
    BY <1>2, <2>2, <2>3, FoundIs DEF Travelled
<1>3. CASE hops > 0 /\ client \in Lan
  <2>1. First \in Named(header) /\ header[First] = client
    BY <1>3, RequestsAssumption DEF Named, IsAddress, Addresses, Travelled, First
  <2>2. \A n \in Named(header) : n \in Int /\ First <= n
    BY <1>1 DEF Named, First, Travelled
  <2>3. Callers(header) = {}
    BY <1>3, <2>2 DEF Callers, Named, TrustedAddr, Travelled, First
  <2>4. Leftmost(Named(header)) = First
    BY <2>1, <2>2, LeftmostIs
  <2> QED
    BY <2>1, <2>3, <2>4, FoundIs
<1> QED
  BY <1>2, <1>3, CallerFound DEF Travelled, Addresses

(* What passes through lies on the mount or an entry, or below one.        *)
LEMMA WithinEnds ==
  ASSUME NEW p \in Seq(STRING), NEW base \in Seq(STRING), Within(p, base)
  PROVE  IsPrefix(base, p) /\ (Len(p) > Len(base) => p[Len(base) + 1] = "/")
<1>1. CASE p = base
  BY <1>1 DEF IsPrefix
<1>2. CASE Below(p, base)
  <2> DEFINE q == Append(base, "/")
  <2>1. /\ q \in Seq(STRING \cup {"/"}) /\ Len(q) = Len(base) + 1
        /\ \A n \in 1..Len(base) : q[n] = base[n]
        /\ q[Len(base) + 1] = "/"
    <3>1. base \in Seq(STRING \cup {"/"})
      OBVIOUS
    <3> QED
      BY <3>1
  <2>2. Len(q) <= Len(p) /\ SubSeq(q, 1, Len(q)) = SubSeq(p, 1, Len(q))
    BY <1>2 DEF Below, IsPrefix
  <2> HIDE DEF q
  <2>3. \A n \in 1..Len(q) : q[n] = p[n]
    BY <2>1, <2>2
  <2>4. SubSeq(base, 1, Len(base)) = SubSeq(p, 1, Len(base))
    BY <2>1, <2>2, <2>3
  <2> QED
    BY <2>1, <2>2, <2>3, <2>4 DEF IsPrefix
<1> QED
  BY <1>1, <1>2 DEF Within

LEMMA ReceiveHolds ==
  ASSUME RequestInv, Receive
  PROVE  RequestInv'
<1>1. Travelled' /\ Sent' = Sent
  BY DEF RequestInv, Receive, Travelled, First, Sent
<1>2. CASE IgnoredPath(mount, Ignored, path)
  <2>1. record' = [Pending EXCEPT !.done = TRUE]
    BY <1>2 DEF Receive
  <2>2. record'.done /\ ~record'.traced
    BY <2>1 DEF Pending
  <2>3. PICK base \in {mount} \cup {entry.path : entry \in Ignored} : Within(path, base)
    BY <1>2 DEF IgnoredPath, EntryMatches, Within
  <2>4. base \in Seq(STRING) /\ path \in Seq(STRING)
    BY RequestsAssumption DEF RequestInv, Travelled
  <2>5. IsPrefix(base, path) /\ (Len(path) > Len(base) => path[Len(base) + 1] = "/")
    BY <2>3, <2>4, WithinEnds
  <2>6. path' = path /\ mount' = mount
    BY DEF Receive
  <2> QED
    BY <1>1, <2>2, <2>5, <2>6 DEF RequestInv, ClientFound
<1>3. CASE ~IgnoredPath(mount, Ignored, path)
  <2>1. record'.traced /\ record'.done /\ record'.client = Found
    BY <1>3 DEF Receive, Found
  <2>2. ~MountServes(mount, path)
    BY <1>3 DEF IgnoredPath, Within, Below, MountServes
  <2>3. UNCHANGED <<client, hops, path, mount>>
    BY DEF Receive
  <2>4. /\ hops > 0 /\ client \in Public => Found = client
        /\ Named(Sent) = {} => Found = client
    BY CallerFound, SilentFound DEF RequestInv
  <2>5. MountServes(mount, path)' = MountServes(mount, path) /\ Named(Sent)' = Named(Sent)
    BY <1>1, <2>3 DEF MountServes, Named
  <2> QED
    BY <1>1, <2>1, <2>2, <2>3, <2>4, <2>5 DEF RequestInv, ClientFound
<1> QED
  BY <1>2, <1>3

(* A proxy appends the address it was called from.                         *)
LEMMA ForwardHolds ==
  ASSUME RequestInv, Forward
  PROVE  RequestInv'
<1>1. record' = Pending
  BY DEF RequestInv, Forward
<1>2. Travelled'
  BY DEF RequestInv, Forward, Travelled, First, Addresses
<1>3. ClientFound'
  BY <1>1 DEF ClientFound, Pending
<1> QED
  BY <1>1, <1>2, <1>3 DEF RequestInv

(* Behind a proxy a client outside the local network is found whatever it  *)
(* sent, and every client that sent no address; the front end is not       *)
(* traced, and what else is not lies on an ignored entry or below it       *)
(* (remote_addr.go:23-56, ignored_path.go:11-27).                          *)
THEOREM ClientsFound == RequestSpec => []ClientFound
<1>1. RequestInit => RequestInv
  BY RequestsAssumption DEF RequestInit, RequestInv, Travelled, ClientFound, Pending
<1>2. RequestInv /\ [RequestNext]_requestVars => RequestInv'
  <2>1. RequestInv /\ UNCHANGED requestVars => RequestInv'
    BY DEF RequestInv, requestVars, Travelled, First, ClientFound, Pending, Sent, Named,
           MountServes
  <2> QED
    BY <2>1, ReceiveHolds, ForwardHolds DEF RequestNext
<1>3. RequestInv => ClientFound
  BY DEF RequestInv
<1> QED
  BY <1>1, <1>2, <1>3, PTL DEF RequestSpec
-----------------------------------------------------------------------------
(* Pages. A page has a value for each filter, one of those on offer, and   *)
(* its link to the list says what they are.                                *)
IsPage(p) ==
  p \in [view : {p.view}, host : {p.host}, limit : Range(LimitOptions), q : {p.q},
         kind : {p.kind}, status : {"all", "error"}, sort : SortKeys, asc : BOOLEAN]

PageInv == FiltersKept /\ IsPage(page)

LEMMA LimitsOffered ==
  /\ LimitOptions[1] \in Range(LimitOptions)
  /\ \A n \in Range(LimitOptions) : n \in Nat /\ n > 0
BY ListingAssumption DEF Range

(* What a reader who fills in the form asks for. *)
Resubmitted(p, q, kind, status, most) ==
  [p EXCEPT !.q = q, !.kind = kind, !.status = status,
            !.limit = most, !.sort = "age", !.asc = FALSE]

LEMMA FormStartsOver ==
  ASSUME NEW p, IsPage(p), p.view = "list", NEW q, NEW kind, NEW status, NEW most
  PROVE  Resubmitted(p, q, kind, status, most)
           = [view |-> "list", host |-> p.host, limit |-> most, q |-> q, kind |-> kind,
              status |-> status, sort |-> "age", asc |-> FALSE]
<1> DEFINE new == Resubmitted(p, q, kind, status, most)
           all == [view |-> "list", host |-> p.host, limit |-> most, q |-> q, kind |-> kind,
                   status |-> status, sort |-> "age", asc |-> FALSE]
<1>1. DOMAIN all = {"view", "host", "limit", "q", "kind", "status", "sort", "asc"}
  OBVIOUS
<1>2. DOMAIN new = DOMAIN p
  BY DEF Resubmitted
<1>3. DOMAIN p = DOMAIN all
  BY DEF IsPage
<1>4. new = [f \in DOMAIN new |-> new[f]]
  BY DEF Resubmitted
<1>5. all = [f \in DOMAIN all |-> all[f]]
  OBVIOUS
<1>6. /\ all["view"] = "list" /\ all["host"] = p.host /\ all["limit"] = most
      /\ all["q"] = q /\ all["kind"] = kind /\ all["status"] = status
      /\ all["sort"] = "age" /\ all["asc"] = FALSE
  OBVIOUS
<1>7. /\ new["view"] = "list" /\ new["host"] = p.host /\ new["limit"] = most
      /\ new["q"] = q /\ new["kind"] = kind /\ new["status"] = status
      /\ new["sort"] = "age" /\ new["asc"] = FALSE
  <2> HIDE DEF all
  <2> QED
    BY <1>1, <1>3 DEF Resubmitted
<1> HIDE DEF new, all
<1>8. \A f \in DOMAIN all : new[f] = all[f]
  BY <1>1, <1>6, <1>7
<1>9. new = all
  BY <1>2, <1>3, <1>4, <1>5, <1>8, SameRecord, Zenon
<1> QED
  BY <1>9 DEF new, all

LEMMA NewPageIsPage ==
  ASSUME NEW view, NEW query
  PROVE  IsPage(NewPage(view, query))
BY LimitsOffered
   DEF IsPage, NewPage, RequestedLimit, RequestedStatus, RequestedSort, SortKeys

LEMMA LinkIsPage ==
  ASSUME NEW p, IsPage(p)
  PROVE  NewPage("list", URL(p, "list")) = [p EXCEPT !.view = "list"]
<1> DEFINE link == URL(p, "list")
<1>1. /\ link.host = p.host /\ link.q = p.q /\ link.kind = p.kind
      /\ link.status = IF p.status # "all" THEN p.status ELSE ""
      /\ link.sort = IF p.sort # "age" THEN p.sort ELSE ""
      /\ link.order = IF p.asc THEN "asc" ELSE ""
  BY DEF URL
<1>7. link.limit = IF p.limit > 0 /\ p.limit # LimitOptions[1] THEN p.limit ELSE 0
  BY DEF URL
<1> HIDE DEF link
<1>2. RequestedLimit(link.limit) = p.limit
  <2>1. link.limit \in {0, p.limit} /\ (link.limit = 0 => p.limit = LimitOptions[1])
    <3>1. p.limit \in Nat /\ p.limit > 0
      BY LimitsOffered DEF IsPage
    <3> QED
      BY <1>7, <3>1
  <2>2. p.limit \in Range(LimitOptions) /\ 0 \notin Range(LimitOptions)
    BY LimitsOffered DEF IsPage
  <2> QED
    BY <2>1, <2>2 DEF RequestedLimit
<1>3. RequestedStatus(link.status) = p.status
  BY <1>1 DEF IsPage, RequestedStatus
<1>4. RequestedSort(link.sort) = p.sort
  BY <1>1 DEF IsPage, RequestedSort, SortKeys
<1>5. (link.order = "asc") = p.asc
  BY <1>1 DEF IsPage
<1>6. NewPage("list", link) =
        [view |-> "list", host |-> p.host, limit |-> p.limit, q |-> p.q,
         kind |-> p.kind, status |-> p.status, sort |-> p.sort, asc |-> p.asc]
  BY <1>1, <1>2, <1>3, <1>4, <1>5 DEF NewPage
<1> QED
  BY <1>6 DEF IsPage, link

LEMMA HostLink ==
  ASSUME NEW view, NEW host
  PROVE  NewPage(view, [EmptyQuery EXCEPT !.host = host])
           = [Unfiltered(view) EXCEPT !.host = host]
<1> DEFINE link == [EmptyQuery EXCEPT !.host = host]
<1>1. /\ link.host = host
      /\ \A f \in {"limit", "q", "kind", "status", "sort", "order"} :
           link[f] = EmptyQuery[f]
  BY DEF EmptyQuery
<1> HIDE DEF link
<1>2. NewPage(view, link) =
        [view |-> view, host |-> host, limit |-> RequestedLimit(EmptyQuery.limit),
         q |-> EmptyQuery.q, kind |-> EmptyQuery.kind,
         status |-> RequestedStatus(EmptyQuery.status),
         sort |-> RequestedSort(EmptyQuery.sort), asc |-> EmptyQuery.order = "asc"]
  BY <1>1 DEF NewPage
<1> QED
  BY <1>2 DEF NewPage, Unfiltered, link

LEMMA NoFilterLink ==
  ASSUME NEW view, NEW p, view \notin {"list", "live"}
  PROVE  NewPage(view, URL(p, view)) = Unfiltered(view)
BY DEF NewPage, EmptyQuery, Unfiltered, URL

LEMMA FollowHolds ==
  ASSUME NEW view, NEW query, NEW asked, Follow(view, query, asked),
         NewPage(view, query) = asked
  PROVE  PageInv'
BY NewPageIsPage DEF Follow, PageInv, FiltersKept

LEMMA BrowseHolds ==
  ASSUME PageInv, Browse
  PROVE  PageInv'
<1> DEFINE OnList(p) == [p EXCEPT !.view = "list"]
<1>0. page = wanted /\ IsPage(page)
  BY DEF PageInv, FiltersKept
<1>1. ASSUME NEW view \in {"hosts", "list", "live", "stats"}, FollowTab(view)
      PROVE  PageInv'
  <2>1. CASE view = "list"
    BY <1>0, <1>1, <2>1, LinkIsPage, FollowHolds DEF FollowTab
  <2>2. CASE view = "live"
    <3>1. URL(page, "live") = [EmptyQuery EXCEPT !.host = page.host]
      BY DEF URL
    <3> QED
      BY <1>0, <1>1, <2>2, <3>1, HostLink, FollowHolds DEF FollowTab
  <2>3. CASE view \notin {"list", "live"}
    BY <1>0, <1>1, <2>3, NoFilterLink, FollowHolds DEF FollowTab
  <2> QED
    BY <2>1, <2>2, <2>3
<1>2. ASSUME NEW h PROVE NewPage("list", URL([page EXCEPT !.host = h], "list"))
                           = [wanted EXCEPT !.view = "list", !.host = h]
  <2> DEFINE p == [page EXCEPT !.host = h]
  <2>1. IsPage(p) /\ [p EXCEPT !.view = "list"] = [page EXCEPT !.view = "list", !.host = h]
    BY <1>0 DEF IsPage
  <2> QED
    BY <1>0, <2>1, LinkIsPage
<1>3. ASSUME NEW h, SwitchHost(h) PROVE PageInv'
  <2>1. CASE page.view = "live"
    <3>1. SwitchHostURL(page, h) = [EmptyQuery EXCEPT !.host = h] /\ SwitchView(page) = "live"
      BY <1>0, <2>1 DEF SwitchHostURL, SwitchView, URL, IsPage
    <3> QED
      BY <1>3, <2>1, <3>1, HostLink, FollowHolds DEF SwitchHost
  <2>2. CASE page.view # "live"
    BY <1>2, <1>3, <2>2, FollowHolds DEF SwitchHost, SwitchHostURL, SwitchView
  <2> QED
    BY <2>1, <2>2
<1>4. ASSUME NEW h, ChooseHost(h) PROVE PageInv'
  BY <1>2, <1>4, FollowHolds DEF ChooseHost, HostURL
<1>5. ASSUME NEW key \in SortKeys, ChooseSort(key) PROVE PageInv'
  <2> DEFINE p == [page EXCEPT !.sort = key, !.asc = page.sort = key /\ ~page.asc]
  <2>1. IsPage(p)
    BY <1>0 DEF IsPage
  <2>2. [p EXCEPT !.view = "list"]
          = [wanted EXCEPT !.sort = key, !.asc = wanted.sort = key /\ ~wanted.asc]
    BY <1>0, <1>5 DEF IsPage, ChooseSort
  <2> QED
    BY <1>5, <2>1, <2>2, LinkIsPage, FollowHolds DEF ChooseSort, SortURL
<1>6. ASSUME NEW q, NEW kind, NEW status \in {"all", "error"},
             NEW most \in Range(LimitOptions), Submit(q, kind, status, most)
      PROVE  PageInv'
  <2>1. NewPage("list", FormQuery(page, q, kind, status, most))
          = [view |-> "list", host |-> page.host, limit |-> most, q |-> q, kind |-> kind,
             status |-> status, sort |-> "age", asc |-> FALSE]
    BY DEF NewPage, FormQuery, EmptyQuery, RequestedLimit, RequestedStatus,
           RequestedSort, SortKeys
  <2>2. page.view = "list"
    BY <1>6 DEF Submit
  <2>3. NewPage("list", FormQuery(page, q, kind, status, most))
          = Resubmitted(wanted, q, kind, status, most)
    BY <1>0, <2>1, <2>2, FormStartsOver
  <2> QED
    BY <1>6, <2>3, FollowHolds DEF Submit, Resubmitted
<1>7. CASE Clear
  BY <1>7, FollowHolds DEF Clear, Unfiltered
<1>8. CASE GoHome
  BY <1>8, FollowHolds DEF GoHome, Unfiltered
<1>9. ASSUME NEW t, OpenTrace(t) PROVE PageInv'
  <2>1. IsPage([NewPage("detail", EmptyQuery) EXCEPT !.host = TraceHost(t)])
    BY NewPageIsPage DEF IsPage, NewPage
  <2> QED
    BY <1>9, <2>1 DEF OpenTrace, DetailPage, Unfiltered, PageInv, FiltersKept
<1>10. ASSUME NEW query \in Typed, Type(query) PROVE PageInv'
  BY <1>10, FollowHolds DEF Type
<1>16. ASSUME NEW q, SubmitUnscripted(q) PROVE PageInv'
  <2>1. page.status \in {"all", "error"} /\ page.limit \in Range(LimitOptions)
    BY <1>0 DEF IsPage
  <2> QED
    BY <1>6, <1>16, <2>1 DEF SubmitUnscripted
<1>17. CASE Reload \/ Stream
  BY <1>0, <1>17 DEF Reload, Stream, PageInv, FiltersKept, IsPage
<1>11. CASE \E view \in {"hosts", "list", "live", "stats"} : FollowTab(view)
  BY <1>1, <1>11
<1>12. CASE (\E h \in DOMAIN requests : SwitchHost(h) \/ ChooseHost(h)) \/ SwitchHost(0)
  BY <1>3, <1>4, <1>12
<1>13. CASE \E key \in SortKeys : ChooseSort(key)
  BY <1>5, <1>13
<1>14. CASE \E q \in Words \cup {""}, kind \in ListKinds \cup {""}, status \in {"all", "error"},
              cap \in Range(LimitOptions) : Submit(q, kind, status, cap)
  <2> PICK q \in Words \cup {""}, kind \in ListKinds \cup {""}, status \in {"all", "error"},
           cap \in Range(LimitOptions) : Submit(q, kind, status, cap)
    BY <1>14
  <2> QED
    BY <1>6
<1>15. CASE (\E t \in Range(live \o log) : OpenTrace(t)) \/ \E query \in Typed : Type(query)
  BY <1>9, <1>10, <1>15
<1>18. CASE \E q \in Words \cup {""} : SubmitUnscripted(q)
  BY <1>16, <1>18
<1> QED
  BY <1>7, <1>8, <1>11, <1>12, <1>13, <1>14, <1>15, <1>17, <1>18 DEF Browse

LEMMA PageStep == PageInv /\ [ListingNext]_listingVars => PageInv'
<1>1. PageInv /\ UNCHANGED <<page, wanted>> => PageInv'
  BY DEF PageInv, FiltersKept, IsPage
<1> QED
  BY <1>1, BrowseHolds DEF ListingNext, Begin, Unregister, Store, Skip, Reset, ZeroCounters,
                           listingVars

(* Whatever links, forms and addresses a reader follows, the address of    *)
(* the page has the filters that were asked for: none is lost in a URL     *)
(* that leaves out the defaults, and none is taken along to a view that    *)
(* has no use for it (page.go:16-77, 158-341). It is about the address:    *)
(* the section of a live page that the stream redraws loses the host       *)
(* (page.go:370), and a form without scripting sends the old value of a    *)
(* dropdown, which then is what was asked for (select.templ:23).           *)
THEOREM FiltersFollow == ListingSpec => []FiltersKept
<1>1. ListingInit => PageInv
  BY NewPageIsPage DEF ListingInit, PageInv, FiltersKept
<1>2. PageInv => FiltersKept
  BY DEF PageInv
<1> QED
  BY <1>1, <1>2, PageStep, PTL DEF ListingSpec
-----------------------------------------------------------------------------
(* The fields of a trace that are compared or added up. *)
LEMMA TraceFields ==
  ASSUME NEW t \in Traces
  PROVE  /\ t.id \in Nat /\ t.http \in BOOLEAN /\ t.host \in Nat /\ t.name \in Nat
         /\ t.route \in Nat /\ t.started \in Int /\ t.duration \in Nat
         /\ t.spans \in Nat /\ t.alloc \in Nat
<1>1. t.id \in Nat
  BY DEF Traces
<1>2. t.http \in BOOLEAN
  BY DEF Traces
<1>3. t.host \in Nat
  BY DEF Traces
<1>4. t.name \in Nat
  BY DEF Traces
<1>5. t.route \in Nat
  BY DEF Traces
<1>6. t.started \in Int
  BY DEF Traces
<1>7. t.duration \in Nat
  BY DEF Traces
<1>8. t.spans \in Nat
  BY DEF Traces
<1>9. t.alloc \in Nat
  BY DEF Traces
<1> QED
  BY <1>1, <1>2, <1>3, <1>4, <1>5, <1>6, <1>7, <1>8, <1>9

(* A list sorted by a column holds each trace once, in order of the column *)
(* and of the list where that ties. p says where each was.                 *)
SortedBy(t, p, s, key, ascending) ==
  /\ t = [k \in 1..Len(s) |-> s[p[k]]]
  /\ p \in [1..Len(s) -> 1..Len(s)]
  /\ \A i \in 1..Len(s) : \E k \in 1..Len(s) : p[k] = i
  /\ \A k, l \in 1..Len(s) : k # l => p[k] # p[l]
  /\ \A k, l \in 1..Len(s) : k < l =>
       /\ IF ascending THEN KeyOf(s[p[k]], key) <= KeyOf(s[p[l]], key)
          ELSE KeyOf(s[p[l]], key) <= KeyOf(s[p[k]], key)
       /\ KeyOf(s[p[k]], key) = KeyOf(s[p[l]], key) => p[k] < p[l]

LEMMA SortIs ==
  ASSUME NEW s \in Seq(Traces), NEW key, NEW ascending \in BOOLEAN
  PROVE  \E p : SortedBy(Sort(s, key, ascending), p, s, key, ascending)
<1> DEFINE n == Len(s)
           f == [i \in 1..n |-> IF ascending THEN KeyOf(s[i], key) ELSE -KeyOf(s[i], key)]
           B == [i \in 1..n |-> {j \in 1..n : f[j] < f[i] \/ (f[j] = f[i] /\ j < i)}]
           Less(a, b) == IF ascending THEN KeyOf(a, key) < KeyOf(b, key)
                         ELSE KeyOf(b, key) < KeyOf(a, key)
           Before(i) == {j \in 1..n : Less(s[j], s[i]) \/ (~Less(s[i], s[j]) /\ j < i)}
           p == Placed(B, 1..n)
<1>0. n \in Nat /\ DOMAIN s = 1..n /\ \A i \in 1..n : s[i] \in Traces
  OBVIOUS
<1>1. \A i \in 1..n : KeyOf(s[i], key) \in Int
  <2> SUFFICES ASSUME NEW i \in 1..n PROVE KeyOf(s[i], key) \in Int
    OBVIOUS
  <2> QED
    BY <1>0, TraceFields DEF KeyOf
<1>2. \A i \in 1..n : f[i] \in Int
  BY <1>1
<1>3. IsOrder(B, 1..n)
  <2> HIDE DEF f
  <2> QED
    BY <1>0, <1>2, RankOrder
<1>4. \A i \in 1..n : Before(i) = B[i]
  BY <1>1
<1>5. Sort(s, key, ascending) =
        [k \in 1..n |-> s[CHOOSE i \in 1..n : Cardinality(Before(i)) + 1 = k]]
  BY <1>0 DEF Sort, StableSort
<1>6. IsFiniteSet(1..n) /\ Cardinality(1..n) = n
  BY <1>0, FS_Interval
<1>7. ASSUME NEW k \in 1..n
      PROVE  p[k] = CHOOSE i \in 1..n : Cardinality(Before(i)) + 1 = k
  <2> DEFINE P(i) == i \in 1..n /\ Cardinality(Before(i)) + 1 = k
             Q(i) == i \in 1..n /\ Cardinality(B[i]) + 1 = k
  <2>1. \A i : P(i) <=> Q(i)
    <3> HIDE DEF Before, B
    <3> QED
      BY <1>4
  <2>2. (CHOOSE i : P(i)) = (CHOOSE i : Q(i))
    <3> HIDE DEF P, Q
    <3> QED
      BY <2>1
  <2> HIDE DEF Before, B
  <2>3. p[k] = CHOOSE i \in 1..n : Cardinality(B[i]) + 1 = k
    BY <1>6 DEF Placed
  <2>4. (CHOOSE i : P(i)) = CHOOSE i \in 1..n : Cardinality(Before(i)) + 1 = k
    BY Zenon
  <2>5. (CHOOSE i : Q(i)) = CHOOSE i \in 1..n : Cardinality(B[i]) + 1 = k
    BY Zenon
  <2> QED
    BY <2>2, <2>3, <2>4, <2>5, Zenon
<1>8. Sort(s, key, ascending) = [k \in 1..n |-> s[p[k]]]
  <2> HIDE DEF Before, B, p
  <2> QED
    BY <1>5, <1>7
<1>9. \A i, j \in 1..n : j \in B[i] =>
        /\ IF ascending THEN KeyOf(s[j], key) <= KeyOf(s[i], key)
           ELSE KeyOf(s[i], key) <= KeyOf(s[j], key)
        /\ KeyOf(s[j], key) = KeyOf(s[i], key) => j < i
  BY <1>1
<1> HIDE DEF f, B
<1>10. /\ p \in [1..n -> 1..n]
       /\ \A i \in 1..n : \E k \in 1..n : p[k] = i
       /\ \A k, l \in 1..n : k < l => p[k] \in B[p[l]]
       /\ \A k, l \in 1..n : k # l => p[k] # p[l]
  BY <1>3, <1>6, PlacedInOrder
<1>11. \A k, l \in 1..n : k < l =>
        /\ IF ascending THEN KeyOf(s[p[k]], key) <= KeyOf(s[p[l]], key)
           ELSE KeyOf(s[p[l]], key) <= KeyOf(s[p[k]], key)
        /\ KeyOf(s[p[k]], key) = KeyOf(s[p[l]], key) => p[k] < p[l]
  <2> HIDE DEF p
  <2> QED
    BY <1>9, <1>10
<1> QED
  BY <1>8, <1>10, <1>11 DEF SortedBy

-----------------------------------------------------------------------------
(* What is in flight, on its way and retained was begun, each trace once   *)
(* and in one of the three.                                                *)
Begun == {load[i] : i \in 1..begun}
Hosts == {TraceHost(load[i]) : i \in DOMAIN load} \cup Rejected

RecordInv ==
  /\ load \in Loads /\ begun \in 0..Len(load)
  /\ live \in Seq(Begun) /\ Distinct(live)
  /\ log \in Seq(Begun) /\ Distinct(log)
  /\ leaving \in SUBSET Begun
  /\ \A i \in DOMAIN live, j \in DOMAIN log : live[i] # log[j]
  /\ \A t \in leaving : t \notin Range(live) \cup Range(log)
  /\ requests \in [Hosts -> Nat]

(* What the page took of its snapshot is from a while ago: what was in     *)
(* flight then may have finished since, and nothing has come back.         *)
EarlyInv ==
  /\ early.live \in Seq(Begun) /\ Distinct(early.live)
  /\ early.begun \in 0..begun
  /\ \A i \in 1..early.begun : load[i] \in Range(live) => load[i] \in Range(early.live)
  /\ early.requests \in [Hosts -> Nat]

LogInv == RecordInv /\ EarlyInv

LEMMA LoadIs ==
  ASSUME load \in Loads
  PROVE  /\ load \in Seq(Traces) /\ Len(load) \in Nat /\ DOMAIN load = 1..Len(load)
         /\ \A i \in 1..Len(load) : load[i] \in Traces
         /\ \A i, j \in 1..Len(load) : i # j => load[i] # load[j]
<1>1. load \in Seq(Traces) /\ \A i, j \in DOMAIN load : i # j => load[i].id # load[j].id
  BY ListingAssumption
<1> QED
  BY <1>1

LEMMA CutIs ==
  ASSUME NEW T, NEW s \in Seq(T), NEW n \in Nat
  PROVE  /\ Cut(s, n) \in Seq(T)
         /\ Len(s) \in Nat
         /\ Len(Cut(s, n)) = IF n > 0 /\ Len(s) > n THEN n ELSE Len(s)
         /\ Len(Cut(s, n)) \in 0..Len(s)
         /\ \A i \in 1..Len(Cut(s, n)) : Cut(s, n)[i] = s[i]
<1> DEFINE m == IF n > 0 /\ Len(s) > n THEN n ELSE Len(s)
<1>1. Len(s) \in Nat /\ m \in 0..Len(s)
  OBVIOUS
<1>2. Cut(s, n) = SubSeq(s, 1, m)
  BY DEF Cut
<1> HIDE DEF m
<1>3. /\ SubSeq(s, 1, m) \in Seq(T) /\ Len(SubSeq(s, 1, m)) = m
      /\ \A i \in 1..m : SubSeq(s, 1, m)[i] = s[i]
  BY <1>1
<1> QED
  BY <1>1, <1>2, <1>3 DEF m

(* One in flight finishes: it is gone from there, and the rest stays.      *)
LEMMA OneLess ==
  ASSUME RecordInv, NEW i \in DOMAIN live,
         NEW rest, rest = Sifted(live, {t \in Range(live) : t.id # live[i].id})
  PROVE  /\ rest \in Seq(Begun) /\ Distinct(rest)
         /\ \A j \in DOMAIN rest : rest[j] \in Range(live) /\ rest[j] # live[i]
<1> DEFINE S == {t \in Range(live) : t.id # live[i].id}
<1>1. live \in Seq(Begun) /\ Len(live) \in Nat /\ DOMAIN live = 1..Len(live)
  BY DEF RecordInv
<1>2. rest \in Seq(Begun) /\ \E h : Chosen(rest, h, live, S, Len(live))
  BY <1>1, KeptOrder
<1>3. PICK h : Chosen(rest, h, live, S, Len(live))
  BY <1>2
<1>4. DOMAIN rest = 1..Len(rest) /\ Len(rest) \in Nat
  BY <1>2
<1>5. \A j \in 1..Len(rest) : h[j] \in 1..Len(live) /\ rest[j] = live[h[j]] /\ rest[j] \in S
  BY <1>3 DEF Chosen
<1>6. ASSUME NEW j \in 1..Len(rest), NEW k \in 1..Len(rest), j # k
      PROVE  rest[j] # rest[k]
  <2>1. j < k \/ k < j
    BY <1>4, <1>6
  <2>2. h[j] < h[k] \/ h[k] < h[j]
    BY <1>3, <2>1 DEF Chosen
  <2>3. h[j] # h[k]
    BY <1>5, <2>2
  <2> QED
    BY <1>1, <1>5, <2>3 DEF RecordInv, Distinct
<1>7. \A j \in 1..Len(rest) : rest[j] \in Range(live) /\ rest[j] # live[i]
  BY <1>5
<1> QED
  BY <1>2, <1>4, <1>6, <1>7 DEF Distinct

LEMMA RecordInit == ListingInit => RecordInv
<1> SUFFICES ASSUME ListingInit PROVE RecordInv
  OBVIOUS
<1> DEFINE old == [i \in 1..begun |-> load[begun + 1 - i]]
<1>1. Len(load) \in Nat /\ begun \in 0..Len(load) /\ load \in Loads
  BY LoadIs DEF ListingInit
<1>2. live \in Seq(Begun) /\ DOMAIN live = {} /\ leaving = {}
  BY DEF ListingInit
<1>3. /\ old \in Seq(Begun) /\ Len(old) = begun
      /\ \A i \in 1..begun : old[i] = load[begun + 1 - i] /\ begun + 1 - i \in 1..Len(load)
  <2>1. \A i \in 1..begun : begun + 1 - i \in 1..begun /\ begun + 1 - i \in 1..Len(load)
    BY <1>1
  <2>2. \A i \in 1..begun : load[begun + 1 - i] \in Begun
    BY <2>1 DEF Begun
  <2> QED
    BY <1>1, <2>1, <2>2
<1> HIDE DEF old
<1>4. /\ log \in Seq(Begun) /\ DOMAIN log = 1..Len(log) /\ Len(log) \in 0..begun
      /\ \A i \in 1..Len(log) : log[i] = old[i]
  <2>1. log = Cut(old, Retained) /\ Retained \in Nat
    BY ListingAssumption DEF ListingInit, old
  <2>2. /\ log \in Seq(Begun) /\ Len(log) \in 0..Len(old)
        /\ \A i \in 1..Len(log) : log[i] = old[i]
    BY <1>3, <2>1, CutIs
  <2> QED
    BY <1>3, <2>2
<1>5. Distinct(log)
  <2> SUFFICES ASSUME NEW i \in 1..Len(log), NEW j \in 1..Len(log), i # j
               PROVE  log[i] # log[j]
    BY <1>4 DEF Distinct
  <2>1. i \in 1..begun /\ j \in 1..begun
    BY <1>1, <1>4
  <2>2. begun + 1 - i # begun + 1 - j
    BY <1>1, <2>1
  <2>3. /\ log[i] = load[begun + 1 - i] /\ begun + 1 - i \in 1..Len(load)
        /\ log[j] = load[begun + 1 - j] /\ begun + 1 - j \in 1..Len(load)
    BY <1>3, <1>4, <2>1
  <2>4. load[begun + 1 - i] # load[begun + 1 - j]
    <3> DEFINE m == begun + 1 - i
               n == begun + 1 - j
    <3>1. m \in 1..Len(load) /\ n \in 1..Len(load) /\ m # n
      BY <2>2, <2>3
    <3> HIDE DEF m, n
    <3>2. load[m] # load[n]
      BY <1>1, <3>1, LoadIs
    <3> QED
      BY <3>2 DEF m, n
  <2> QED
    BY <2>3, <2>4
<1>6. requests \in [Hosts -> Nat]
  BY DEF ListingInit, Hosts
<1> QED
  BY <1>1, <1>2, <1>4, <1>5, <1>6 DEF RecordInv, Distinct

LEMMA BeginRecords ==
  ASSUME RecordInv, Begin
  PROVE  RecordInv'
<1> DEFINE new == load[begun + 1]
<1>0. /\ load' = load /\ begun \in 0..Len(load) /\ begun + 1 \in 1..Len(load)
      /\ begun' = begun + 1 /\ log' = log /\ leaving' = leaving /\ load \in Loads
  BY LoadIs DEF RecordInv, Begin
<1>1. Begun' = Begun \cup {new}
  <2>1. 1..(begun + 1) = 1..begun \cup {begun + 1}
    BY <1>0
  <2> QED
    BY <1>0, <2>1 DEF Begun
<1>2. new \notin Begun
  BY <1>0, LoadIs DEF Begun
<1> HIDE DEF new
<1>3. /\ live \in Seq(Begun) /\ log \in Seq(Begun)
      /\ live \in Seq(Begun') /\ log \in Seq(Begun')
      /\ DOMAIN live = 1..Len(live) /\ Len(live) \in Nat
  BY <1>1 DEF RecordInv
<1>4. /\ live' \in Seq(Begun') /\ Len(live') = Len(live) + 1
      /\ DOMAIN live' = 1..(Len(live) + 1)
      /\ \A i \in 1..Len(live) : live'[i] = live[i]
      /\ live'[Len(live) + 1] = new
  <2>1. live' = Append(live, new)
    BY DEF Begin, new
  <2> QED
    BY <1>1, <1>3, <2>1, AppendIs
<1>5. \A i \in 1..Len(live) : live[i] \in Begun
  BY <1>3
<1>6. \A j \in DOMAIN log : log[j] \in Begun
  BY <1>3
<1>7. Distinct(live)'
  <2> SUFFICES ASSUME NEW i \in DOMAIN live', NEW j \in DOMAIN live', i # j
               PROVE  live'[i] # live'[j]
    BY DEF Distinct
  <2>1. CASE i \in 1..Len(live) /\ j \in 1..Len(live)
    BY <1>3, <1>4, <2>1 DEF RecordInv, Distinct
  <2>2. CASE i = Len(live) + 1
    <3>1. j \in 1..Len(live)
      BY <1>3, <1>4, <2>2
    <3> QED
      BY <1>2, <1>4, <1>5, <2>2, <3>1
  <2>3. CASE j = Len(live) + 1
    <3>1. i \in 1..Len(live)
      BY <1>3, <1>4, <2>3
    <3> QED
      BY <1>2, <1>4, <1>5, <2>3, <3>1
  <2> QED
    BY <1>3, <1>4, <2>1, <2>2, <2>3
<1>8. \A i \in DOMAIN live', j \in DOMAIN log' : live'[i] # log'[j]
  <2> SUFFICES ASSUME NEW i \in DOMAIN live', NEW j \in DOMAIN log
               PROVE  live'[i] # log[j]
    BY <1>0
  <2>1. CASE i \in 1..Len(live)
    BY <1>3, <1>4, <2>1 DEF RecordInv
  <2>2. CASE i = Len(live) + 1
    BY <1>2, <1>4, <1>6, <2>2
  <2> QED
    BY <1>3, <1>4, <2>1, <2>2
<1>9. Hosts' = Hosts /\ TraceHost(new) \in Hosts
  BY <1>0, LoadIs DEF Hosts, new
<1>10. requests' \in [Hosts' -> Nat]
  <2>1. requests' = [requests EXCEPT ![TraceHost(new)] = @ + 1] /\ requests \in [Hosts -> Nat]
    BY DEF Begin, new, RecordInv
  <2> QED
    BY <1>9, <2>1
<1>11. leaving' \in SUBSET (Begun') /\ \A t \in leaving' : t \notin Range(live') \cup Range(log')
  <2> SUFFICES ASSUME NEW t \in leaving
               PROVE  t \in Begun /\ t \notin Range(live') /\ t \notin Range(log)
    BY <1>0, <1>1
  <2>1. t \in Begun /\ t \notin Range(live) /\ t \notin Range(log)
    BY DEF RecordInv
  <2>2. \A i \in 1..Len(live) : live[i] # t
    BY <1>3, <2>1 DEF Range
  <2>3. \A i \in DOMAIN live' : live'[i] # t
    BY <1>2, <1>3, <1>4, <2>1, <2>2
  <2> QED
    BY <2>1, <2>3 DEF Range
<1> QED
  BY <1>0, <1>3, <1>4, <1>7, <1>8, <1>10, <1>11 DEF RecordInv

LEMMA UnregisterRecords ==
  ASSUME RecordInv, NEW i \in DOMAIN live, Unregister(i)
  PROVE  RecordInv' /\ Range(live') \subseteq Range(live)
<1>0. /\ load' = load /\ begun' = begun /\ requests' = requests /\ log' = log
      /\ leaving' = leaving \cup {live[i]}
  BY DEF Unregister
<1>1. Begun' = Begun /\ Hosts' = Hosts
  BY <1>0 DEF Begun, Hosts
<1>2. /\ live' \in Seq(Begun) /\ Distinct(live')
      /\ \A j \in DOMAIN live' : live'[j] \in Range(live) /\ live'[j] # live[i]
  BY OneLess DEF Unregister
<1>3. live[i] \in Begun
  BY DEF RecordInv
<1>4. \A j \in DOMAIN live', k \in DOMAIN log : live'[j] # log[k]
  <2> SUFFICES ASSUME NEW j \in DOMAIN live', NEW k \in DOMAIN log
               PROVE  live'[j] # log[k]
    OBVIOUS
  <2>1. PICK m \in DOMAIN live : live'[j] = live[m]
    BY <1>2 DEF Range
  <2> QED
    BY <2>1 DEF RecordInv
<1>5. Range(live') \subseteq Range(live) /\ live[i] \notin Range(live')
  BY <1>2 DEF Range
<1>6. live[i] \notin Range(log)
  BY DEF RecordInv, Range
<1>7. leaving' \in SUBSET Begun /\ \A t \in leaving' : t \notin Range(live') \cup Range(log)
  BY <1>0, <1>3, <1>5, <1>6 DEF RecordInv
<1> QED
  BY <1>0, <1>1, <1>2, <1>4, <1>5, <1>7 DEF RecordInv, Distinct

LEMMA StoreRecords ==
  ASSUME RecordInv, NEW t \in leaving, NEW ok \in BOOLEAN, Store(t, ok)
  PROVE  RecordInv'
<1> DEFINE all == <<t>> \o log
<1>0. /\ load' = load /\ begun' = begun /\ requests' = requests /\ live' = live
      /\ leaving' = leaving \ {t}
  BY DEF Store
<1>1. Begun' = Begun /\ Hosts' = Hosts
  BY <1>0 DEF Begun, Hosts
<1>2. t \in Begun /\ log \in Seq(Begun) /\ t \notin Range(live) /\ t \notin Range(log)
  BY DEF RecordInv
<1>3. /\ all \in Seq(Begun) /\ Len(all) = Len(log) + 1 /\ Len(log) \in Nat
      /\ \A k \in 1..Len(all) : all[k] = IF k = 1 THEN t ELSE log[k - 1]
  BY <1>2
<1> HIDE DEF all
<1>4. /\ log' \in Seq(Begun) /\ Distinct(log)'
      /\ \A k \in DOMAIN log' : log'[k] = t \/ log'[k] \in Range(log)
  <2>1. CASE ~ok
    <3>1. log' = log
      BY <2>1 DEF Store
    <3> QED
      BY <1>2, <3>1 DEF RecordInv, Distinct, Range
  <2>2. CASE ok
    <3>1. log' = Cut(all, Retained) /\ Retained \in Nat
      BY <2>2, ListingAssumption DEF Store, all
    <3>2. /\ log' \in Seq(Begun) /\ Len(log') \in 0..Len(all)
          /\ \A k \in 1..Len(log') : log'[k] = all[k]
      BY <1>3, <3>1, CutIs
    <3>3. DOMAIN log' = 1..Len(log') /\ DOMAIN log = 1..Len(log) /\ Len(log') \in Nat
      BY <1>2, <1>3, <3>2
    <3>4. ASSUME NEW k \in DOMAIN log'
          PROVE  /\ k = 1 => log'[k] = t
                 /\ k # 1 => k - 1 \in DOMAIN log /\ log'[k] = log[k - 1]
      BY <1>3, <3>2, <3>3
    <3>5. \A m \in DOMAIN log : log[m] # t
      BY <1>2 DEF Range
    <3>6. ASSUME NEW j \in DOMAIN log', NEW k \in DOMAIN log', j # k
          PROVE  log'[j] # log'[k]
      <4>1. CASE j = 1 \/ k = 1
        BY <3>4, <3>5, <3>6, <4>1
      <4>2. CASE j # 1 /\ k # 1
        <5>1. j - 1 # k - 1
          BY <3>3, <3>6
        <5> QED
          BY <3>4, <4>2, <5>1 DEF RecordInv, Distinct
      <4> QED
        BY <4>1, <4>2
    <3>7. \A k \in DOMAIN log' : log'[k] = t \/ log'[k] \in Range(log)
      BY <3>4 DEF Range
    <3> QED
      BY <3>2, <3>6, <3>7 DEF Distinct
  <2> QED
    BY <2>1, <2>2
<1>5. Range(log') \subseteq Range(log) \cup {t}
  BY <1>4 DEF Range
<1>6. \A i \in DOMAIN live, j \in DOMAIN log' : live[i] # log'[j]
  <2> SUFFICES ASSUME NEW i \in DOMAIN live, NEW j \in DOMAIN log'
               PROVE  live[i] # log'[j]
    OBVIOUS
  <2>1. live[i] # t
    BY <1>2 DEF Range
  <2>2. live[i] \notin Range(log)
    BY DEF RecordInv, Range
  <2> QED
    BY <1>4, <2>1, <2>2
<1>7. leaving' \in SUBSET Begun /\ \A u \in leaving' : u \notin Range(live) \cup Range(log')
  BY <1>0, <1>5 DEF RecordInv
<1>8. /\ load \in Loads /\ begun \in 0..Len(load) /\ live \in Seq(Begun) /\ Distinct(live)
      /\ requests \in [Hosts -> Nat]
  BY DEF RecordInv
<1> QED
  BY <1>0, <1>1, <1>4, <1>6, <1>7, <1>8 DEF RecordInv, Distinct

(* Requests that become no trace, and a Reset, leave what runs alone.      *)
LEMMA CountersRecord ==
  ASSUME RecordInv,
         (\E h \in Rejected : Skip(h)) \/ (\E ok \in BOOLEAN : Reset(ok)) \/ ZeroCounters
  PROVE  RecordInv'
<1>1. /\ load' = load /\ begun' = begun /\ live' = live /\ leaving' = leaving
      /\ log' = log \/ log' = <<>>
  BY DEF Skip, Reset, ZeroCounters
<1>2. Begun' = Begun /\ Hosts' = Hosts
  BY <1>1 DEF Begun, Hosts
<1>3. requests' \in [Hosts -> Nat]
  <2>1. requests \in [Hosts -> Nat]
    BY DEF RecordInv
  <2>2. ASSUME NEW h \in Rejected, Skip(h)
        PROVE  requests' \in [Hosts -> Nat]
    <3>1. h \in Hosts /\ requests' = [requests EXCEPT ![h] = @ + 1]
      BY <2>2 DEF Skip, Hosts
    <3> QED
      BY <2>1, <3>1
  <2>3. CASE (\E ok \in BOOLEAN : Reset(ok)) \/ ZeroCounters
    BY <2>1, <2>3 DEF Reset, ZeroCounters
  <2> QED
    BY <2>2, <2>3
<1>4. /\ log' \in Seq(Begun) /\ Distinct(log)' /\ Range(log') \subseteq Range(log)
      /\ \A j \in DOMAIN log' : log'[j] \in Range(log)
  <2>1. CASE log' = log
    BY <2>1 DEF RecordInv, Distinct, Range
  <2>2. CASE log' = <<>>
    BY <2>2 DEF Distinct, Range
  <2> QED
    BY <1>1, <2>1, <2>2
<1>5. \A i \in DOMAIN live, j \in DOMAIN log' : live[i] # log'[j]
  BY <1>4 DEF RecordInv, Range
<1>6. /\ load \in Loads /\ begun \in 0..Len(load) /\ live \in Seq(Begun) /\ Distinct(live)
      /\ leaving \in SUBSET Begun /\ \A t \in leaving : t \notin Range(live) \cup Range(log)
  BY DEF RecordInv
<1> QED
  BY <1>1, <1>2, <1>3, <1>4, <1>5, <1>6 DEF RecordInv, Distinct

LEMMA RecordStands ==
  ASSUME RecordInv, UNCHANGED recordedVars
  PROVE  RecordInv'
<1>1. Begun' = Begun /\ Hosts' = Hosts
  BY DEF Begun, Hosts, recordedVars
<1> QED
  BY <1>1 DEF RecordInv, Distinct, recordedVars

(* Each step of the reader takes the first half of a snapshot, or nothing. *)
LEMMA BrowseReads ==
  ASSUME Browse
  PROVE  UNCHANGED recordedVars /\ \E view, host : early' = FirstHalf(view, host)
BY DEF Browse, FollowTab, SwitchHost, ChooseHost, ChooseSort, SubmitUnscripted, Submit, Clear,
       GoHome, OpenTrace, Type, Follow, Reload, Stream

LEMMA RecordStep == RecordInv /\ [ListingNext]_listingVars => RecordInv'
<1> SUFFICES ASSUME RecordInv, [ListingNext]_listingVars PROVE RecordInv'
  OBVIOUS
<1>1. CASE Browse
  BY <1>1, BrowseReads, RecordStands
<1>2. CASE UNCHANGED listingVars
  BY <1>2, RecordStands DEF listingVars
<1> QED
  BY <1>1, <1>2, BeginRecords, UnregisterRecords, StoreRecords, CountersRecord DEF ListingNext

(* The first half at the moment it is taken. *)
LEMMA FirstHalfIs ==
  ASSUME RecordInv, NEW view, NEW host, NEW half, half = FirstHalf(view, host)
  PROVE  /\ half.live \in Seq(Begun) /\ Distinct(half.live)
         /\ half.begun \in 0..begun
         /\ \A i \in 1..half.begun : load[i] \in Range(live) => load[i] \in Range(half.live)
         /\ half.requests \in [Hosts -> Nat]
<1>1. /\ half.live = IF view = "live" THEN live ELSE <<>>
      /\ half.begun = IF view = "live" THEN begun ELSE 0
      /\ half.requests = IF view \in {"hosts", "stats"} THEN requests
                         ELSE [h \in DOMAIN requests |-> 0]
  BY DEF FirstHalf
<1>2. /\ live \in Seq(Begun) /\ Distinct(live) /\ begun \in Nat
      /\ requests \in [Hosts -> Nat]
  BY LoadIs DEF RecordInv
<1>3. half.requests \in [Hosts -> Nat]
  BY <1>1, <1>2
<1>4. CASE view = "live"
  BY <1>1, <1>2, <1>3, <1>4
<1>5. CASE view # "live"
  <2>1. half.live = <<>> /\ half.begun = 0
    BY <1>1, <1>5
  <2>2. half.live \in Seq(Begun) /\ Distinct(half.live)
    BY <2>1 DEF Distinct
  <2> QED
    BY <1>2, <1>3, <2>1, <2>2
<1> QED
  BY <1>4, <1>5

(* Traces go on starting and finishing: none that had begun is in flight   *)
(* and was not then.                                                       *)
LEMMA EarlyStands ==
  ASSUME RecordInv, EarlyInv, early' = early, load' = load, begun' \in {begun, begun + 1},
         \A i \in 1..begun : load[i] \in Range(live') => load[i] \in Range(live)
  PROVE  EarlyInv'
<1>1. begun \in Nat /\ Hosts' = Hosts
  BY LoadIs DEF RecordInv, Hosts
<1>2. Begun \subseteq Begun'
  BY <1>1 DEF Begun
<1>3. early.begun \in 0..begun /\ early.begun \in 0..begun'
  BY <1>1 DEF EarlyInv
<1>4. \A i \in 1..early.begun : load[i] \in Range(live') => load[i] \in Range(early.live)
  BY <1>1, <1>3 DEF EarlyInv
<1>5. early.live \in Seq(Begun') /\ Distinct(early.live) /\ early.requests \in [Hosts -> Nat]
  BY <1>2 DEF EarlyInv
<1> QED
  BY <1>1, <1>3, <1>4, <1>5 DEF EarlyInv, Distinct

LEMMA EarlyStep == RecordInv /\ EarlyInv /\ [ListingNext]_listingVars => EarlyInv'
<1> SUFFICES ASSUME RecordInv, EarlyInv, [ListingNext]_listingVars PROVE EarlyInv'
  OBVIOUS
<1>1. CASE Begin
  <2>1. /\ early' = early /\ load' = load /\ begun' = begun + 1
        /\ live' = Append(live, load[begun + 1])
        /\ begun \in 0..Len(load) /\ begun + 1 \in 1..Len(load) /\ load \in Loads
    BY <1>1, LoadIs DEF Begin, RecordInv
  <2>2. \A i \in 1..begun : load[i] # load[begun + 1]
    BY <2>1, LoadIs
  <2>3. \A u \in Range(live') : u \in Range(live) \/ u = load[begun + 1]
    <3>1. live \in Seq(Begun \cup {load[begun + 1]})
      BY DEF RecordInv
    <3>2. /\ DOMAIN live = 1..Len(live) /\ Len(live) \in Nat
          /\ DOMAIN live' = 1..(Len(live) + 1)
          /\ \A k \in 1..Len(live) : live'[k] = live[k]
          /\ live'[Len(live) + 1] = load[begun + 1]
      BY <2>1, <3>1, AppendIs
    <3> QED
      BY <3>2 DEF Range
  <2>4. \A i \in 1..begun : load[i] \in Range(live') => load[i] \in Range(live)
    BY <2>2, <2>3
  <2> QED
    BY <2>1, <2>4, EarlyStands
<1>2. ASSUME NEW i \in DOMAIN live, Unregister(i)
      PROVE  EarlyInv'
  <2>1. Range(live') \subseteq Range(live)
    BY <1>2, UnregisterRecords
  <2> QED
    BY <1>2, <2>1, EarlyStands DEF Unregister
<1>3. ASSUME UNCHANGED <<load, begun, live, early>>
      PROVE  EarlyInv'
  BY <1>3, EarlyStands
<1>4. CASE Browse
  <2>1. PICK view, host : early' = FirstHalf(view, host)
    BY <1>4, BrowseReads
  <2>2. UNCHANGED <<load, begun, live, requests>>
    BY <1>4, BrowseReads DEF recordedVars
  <2>3. Begun' = Begun /\ Hosts' = Hosts
    BY <2>2 DEF Begun, Hosts
  <2>4. /\ early'.live \in Seq(Begun) /\ Distinct(early'.live)
        /\ early'.begun \in 0..begun
        /\ \A i \in 1..early'.begun : load[i] \in Range(live) => load[i] \in Range(early'.live)
        /\ early'.requests \in [Hosts -> Nat]
    BY <2>1, FirstHalfIs
  <2> QED
    BY <2>2, <2>3, <2>4 DEF EarlyInv, Distinct
<1>5. CASE UNCHANGED listingVars
  BY <1>3, <1>5 DEF listingVars, recordedVars
<1>6. ASSUME NEW t \in leaving, NEW ok \in BOOLEAN, Store(t, ok)
      PROVE  EarlyInv'
  BY <1>3, <1>6 DEF Store
<1>7. ASSUME NEW h \in Rejected, Skip(h)
      PROVE  EarlyInv'
  BY <1>3, <1>7 DEF Skip
<1>8. ASSUME NEW ok \in BOOLEAN, Reset(ok)
      PROVE  EarlyInv'
  BY <1>3, <1>8 DEF Reset
<1>9. CASE ZeroCounters
  BY <1>3, <1>9 DEF ZeroCounters
<1> QED
  BY <1>1, <1>2, <1>4, <1>5, <1>6, <1>7, <1>8, <1>9 DEF ListingNext

LEMMA LogInit == ListingInit => LogInv
<1> SUFFICES ASSUME ListingInit PROVE LogInv
  OBVIOUS
<1>1. RecordInv
  BY RecordInit
<1>2. early = FirstHalf("hosts", 0)
  BY DEF ListingInit
<1> QED
  BY <1>1, <1>2, FirstHalfIs DEF LogInv, EarlyInv

LEMMA LogStep == LogInv /\ [ListingNext]_listingVars => LogInv'
BY RecordStep, EarlyStep DEF LogInv

-----------------------------------------------------------------------------
(* A filter keeps each trace that passes, once and in its order.           *)
LEMMA FilterIs ==
  ASSUME NEW T, NEW s \in Seq(T), NEW p
  PROVE  /\ Filter(s, p) \in Seq(T)
         /\ Len(Filter(s, p)) \in Nat /\ DOMAIN Filter(s, p) = 1..Len(Filter(s, p))
         /\ Range(Filter(s, p)) = {t \in Range(s) : Passes(t, p)}
         /\ Distinct(s) => Distinct(Filter(s, p))
         /\ \E h : Chosen(Filter(s, p), h, s, {t \in Range(s) : Passes(t, p)}, Len(s))
<1> DEFINE S == {t \in Range(s) : Passes(t, p)}
           f == Filter(s, p)
<1>1. f \in Seq(T) /\ \E h : Chosen(f, h, s, S, Len(s))
  BY KeptOrder DEF Filter
<1>2. PICK h : Chosen(f, h, s, S, Len(s))
  BY <1>1
<1> HIDE DEF f
<1>3. /\ Len(f) \in Nat /\ DOMAIN f = 1..Len(f)
      /\ Len(s) \in Nat /\ DOMAIN s = 1..Len(s)
  BY <1>1
<1>4. \A j \in 1..Len(f) : h[j] \in 1..Len(s) /\ f[j] = s[h[j]] /\ f[j] \in S
  BY <1>2 DEF Chosen
<1>5. Range(f) = S
  <2>1. ASSUME NEW t \in S
        PROVE  \E j \in DOMAIN f : f[j] = t
    <3>1. PICK i \in 1..Len(s) : s[i] = t
      BY <1>3 DEF Range
    <3>2. PICK j \in 1..Len(f) : h[j] = i
      BY <1>2, <2>1, <3>1 DEF Chosen
    <3> QED
      BY <1>3, <1>4, <3>1, <3>2
  <2> HIDE DEF S
  <2> QED
    BY <1>3, <1>4, <2>1 DEF Range
<1>6. ASSUME Distinct(s)
      PROVE  Distinct(f)
  <2> SUFFICES ASSUME NEW i \in 1..Len(f), NEW j \in 1..Len(f), i # j
               PROVE  f[i] # f[j]
    BY <1>3 DEF Distinct
  <2>1. i < j \/ j < i
    BY <1>3
  <2>2. h[i] < h[j] \/ h[j] < h[i]
    BY <1>2, <2>1 DEF Chosen
  <2>3. h[i] # h[j]
    BY <1>4, <2>2
  <2> QED
    BY <1>3, <1>4, <1>6, <2>3 DEF Distinct
<1> QED
  BY <1>1, <1>3, <1>5, <1>6 DEF f

(* v is entries of s, and u says where they stand in it, in their order.   *)
Along(v, u, s) ==
  /\ u \in [1..Len(v) -> 1..Len(s)]
  /\ \A i, j \in 1..Len(v) : i < j => u[i] < u[j]
  /\ \A i \in 1..Len(v) : v[i] = s[u[i]]

(* Any entries of a sorted, filtered log are ranked as they stand in it.   *)
LEMMA AlongRanked ==
  ASSUME NEW S, NEW f, NEW h, Chosen(f, h, log, S, Len(log)), log \in Seq(Traces),
         f \in Seq(Traces), NEW key, NEW ascending \in BOOLEAN,
         NEW s, NEW q, SortedBy(s, q, f, key, ascending),
         Len(s) = Len(f), NEW v \in Seq(Traces), NEW u, Along(v, u, s)
  PROVE  Ranked(v, key, ascending)
<1>0. /\ DOMAIN v = 1..Len(v) /\ Len(f) \in Nat
      /\ DOMAIN log = 1..Len(log) /\ DOMAIN f = 1..Len(f)
  OBVIOUS
<1> SUFFICES ASSUME NEW i \in DOMAIN v, NEW j \in DOMAIN v, i < j
             PROVE  /\ IF ascending THEN KeyOf(v[i], key) <= KeyOf(v[j], key)
                       ELSE KeyOf(v[j], key) <= KeyOf(v[i], key)
                    /\ KeyOf(v[i], key) = KeyOf(v[j], key) =>
                         \E m, n \in DOMAIN log : m < n /\ log[m].id = v[i].id
                                                        /\ log[n].id = v[j].id
  BY DEF Ranked
<1>1. u[i] \in 1..Len(f) /\ u[j] \in 1..Len(f) /\ u[i] < u[j] /\ v[i] = s[u[i]] /\ v[j] = s[u[j]]
  BY <1>0 DEF Along
<1>2. q[u[i]] \in 1..Len(f) /\ q[u[j]] \in 1..Len(f)
  BY <1>1 DEF SortedBy
<1>3. v[i] = f[q[u[i]]] /\ v[j] = f[q[u[j]]]
  BY <1>0, <1>1 DEF SortedBy
<1>4. /\ IF ascending THEN KeyOf(v[i], key) <= KeyOf(v[j], key)
         ELSE KeyOf(v[j], key) <= KeyOf(v[i], key)
      /\ KeyOf(v[i], key) = KeyOf(v[j], key) => q[u[i]] < q[u[j]]
  BY <1>1, <1>3 DEF SortedBy
<1>5. ASSUME KeyOf(v[i], key) = KeyOf(v[j], key)
      PROVE  \E m, n \in DOMAIN log : m < n /\ log[m].id = v[i].id /\ log[n].id = v[j].id
  <2>1. h[q[u[i]]] < h[q[u[j]]]
    BY <1>2, <1>4, <1>5 DEF Chosen
  <2>2. /\ h[q[u[i]]] \in DOMAIN log /\ log[h[q[u[i]]]] = v[i]
        /\ h[q[u[j]]] \in DOMAIN log /\ log[h[q[u[j]]]] = v[j]
    BY <1>0, <1>2, <1>3 DEF Chosen
  <2> QED
    BY <2>1, <2>2
<1> QED
  BY <1>4, <1>5

LEMMA LogsAreTraces ==
  ASSUME LogInv
  PROVE  /\ Begun \subseteq Traces
         /\ early.live \in Seq(Traces) /\ log \in Seq(Traces)
         /\ Distinct(early.live) /\ Distinct(log)
<1>1. Begun \subseteq Traces
  BY LoadIs DEF LogInv, RecordInv, Begun
<1> QED
  BY <1>1 DEF LogInv, RecordInv, EarlyInv

(* The list of a page without regard to how it was come by.                *)
LEMMA ListShows ==
  ASSUME LogInv, FiltersKept, IsPage(page)
  PROVE  ListIsTop
<1> DEFINE key == page.sort
           asc == page.asc
           f == Filter(log, page)
           n == Len(f)
           s == Sort(f, key, asc)
           listed == List(page)
           r == Len(listed)
           passing == {t \in Range(log) : Passes(t, page)}
<1>0. /\ wanted = page /\ asc \in BOOLEAN /\ page.limit \in Nat /\ page.limit > 0
      /\ log \in Seq(Traces) /\ Distinct(log)
  BY LimitsOffered, LogsAreTraces DEF FiltersKept, IsPage
<1>1. /\ f \in Seq(Traces) /\ n \in Nat /\ DOMAIN f = 1..n
      /\ Range(f) = passing /\ Distinct(f)
      /\ \E h : Chosen(f, h, log, passing, Len(log))
  BY <1>0, FilterIs
<1>2. PICK h : Chosen(f, h, log, passing, Len(log))
  BY <1>1
<1>3. PICK q : SortedBy(s, q, f, key, asc)
  <2> HIDE DEF f, key, asc
  <2> QED
    BY <1>0, <1>1, SortIs
<1>4. Cardinality(passing) = n
  <2> HIDE DEF f, passing
  <2> QED
    BY <1>1, DistinctCount
<1>5. listed = Cut(s, page.limit)
  BY DEF List
<1> HIDE DEF f, s, listed, passing, key, asc
<1>6. /\ \A k \in 1..n : q[k] \in 1..n /\ s[k] = f[q[k]]
      /\ \A i \in 1..n : \E k \in 1..n : q[k] = i
  BY <1>3 DEF SortedBy
<1>7. s \in Seq(Traces) /\ Len(s) = n
  <2>1. s = [k \in 1..n |-> f[q[k]]] /\ \A k \in 1..n : f[q[k]] \in Traces
    BY <1>1, <1>3, <1>6 DEF SortedBy
  <2> QED
    BY <1>1, <2>1
<1>8. /\ listed \in Seq(Traces) /\ r = IF n > page.limit THEN page.limit ELSE n
      /\ r \in 0..n /\ DOMAIN listed = 1..r
      /\ \A i \in 1..r : listed[i] = s[i]
  <2>1. /\ listed \in Seq(Traces) /\ r \in 0..n
        /\ r = IF page.limit > 0 /\ n > page.limit THEN page.limit ELSE n
        /\ \A i \in 1..r : listed[i] = s[i]
    BY <1>0, <1>5, <1>7, CutIs
  <2>2. DOMAIN listed = 1..r
    BY <2>1
  <2> QED
    BY <1>0, <2>1, <2>2
<1>9. Range(listed) \subseteq passing
  <2> SUFFICES ASSUME NEW i \in 1..r PROVE listed[i] \in passing
    BY <1>8 DEF Range
  <2>1. i \in 1..n
    BY <1>1, <1>8
  <2>2. s[i] \in Range(f)
    BY <1>1, <1>6, <2>1 DEF Range
  <2> QED
    BY <1>1, <1>8, <2>2
<1>10. r = IF Cardinality(passing) < page.limit THEN Cardinality(passing) ELSE page.limit
  BY <1>0, <1>1, <1>4, <1>8
<1>11. Ranked(listed, key, asc)
  <2> DEFINE u == [i \in 1..r |-> i]
  <2>1. u \in [1..r -> 1..n] /\ \A i \in 1..r : u[i] = i
    BY <1>1, <1>8
  <2>2. Along(listed, u, s)
    BY <1>7, <1>8, <2>1 DEF Along
  <2> HIDE DEF u
  <2> QED
    BY <1>0, <1>1, <1>2, <1>3, <1>7, <1>8, <2>2, AlongRanked
<1>12. ASSUME NEW t \in passing \ Range(listed)
       PROVE  Ranked(Append(listed, t), key, asc)
  <2>1. PICK i \in 1..n : f[i] = t
    BY <1>1 DEF Range
  <2>2. PICK x \in 1..n : q[x] = i
    BY <1>6
  <2>3. s[x] = t
    BY <1>6, <2>1, <2>2
  <2>4. x > r
    <3>1. x \notin 1..r
      BY <1>8, <1>12, <2>3 DEF Range
    <3> QED
      BY <1>1, <1>8, <3>1
  <2> DEFINE v == Append(listed, t)
             u == [k \in 1..(r + 1) |-> IF k = r + 1 THEN x ELSE k]
  <2>5. t \in Traces
    BY <1>1, <2>1
  <2>6. /\ v \in Seq(Traces) /\ Len(v) = r + 1 /\ v[r + 1] = t
        /\ \A k \in 1..r : v[k] = listed[k]
    BY <1>8, <2>5, AppendIs
  <2>7. /\ u \in [1..(r + 1) -> 1..n]
        /\ \A j, k \in 1..(r + 1) : j < k => u[j] < u[k]
    BY <1>1, <1>8, <2>4
  <2>8. ASSUME NEW k \in 1..(r + 1)
        PROVE  v[k] = s[u[k]]
    <3>1. CASE k = r + 1
      BY <2>3, <2>6, <3>1
    <3>2. CASE k # r + 1
      <4>1. k \in 1..r /\ u[k] = k
        BY <1>8, <3>2
      <4> QED
        BY <1>8, <2>6, <4>1
    <3> QED
      BY <3>1, <3>2
  <2> HIDE DEF u, v
  <2>9. Along(v, u, s)
    BY <1>7, <2>6, <2>7, <2>8 DEF Along
  <2>10. /\ log \in Seq(Traces) /\ f \in Seq(Traces) /\ v \in Seq(Traces)
         /\ asc \in BOOLEAN /\ Len(s) = Len(f)
    BY <1>0, <1>1, <1>7, <2>6
  <2>11. Ranked(v, key, asc)
    BY <1>2, <1>3, <2>9, <2>10, AlongRanked
  <2> QED
    BY <2>11 DEF v
<1> QED
  BY <1>0, <1>9, <1>10, <1>11, <1>12 DEF ListIsTop, listed, passing, key, asc

-----------------------------------------------------------------------------
(* The feed is sorted like the list: by age, largest first.                *)
LEMMA FeedSort ==
  ASSUME NEW s \in Seq(Traces)
  PROVE  StableSort(s, LAMBDA a, b : a.started > b.started) = Sort(s, "age", FALSE)
<1> DEFINE n == Len(s)
           B(i) == {j \in 1..n : (s[j].started > s[i].started)
                                 \/ (~(s[i].started > s[j].started) /\ j < i)}
           C(i) == {j \in 1..n : (KeyOf(s[i], "age") < KeyOf(s[j], "age"))
                                 \/ (~(KeyOf(s[j], "age") < KeyOf(s[i], "age")) /\ j < i)}
<1>0. DOMAIN s = 1..n /\ n \in Nat
  OBVIOUS
<1>1. \A i \in 1..n : s[i].started \in Int /\ KeyOf(s[i], "age") = s[i].started
  BY TraceFields DEF KeyOf
<1>2. \A i \in 1..n : B(i) = C(i)
  BY <1>1
<1>3. StableSort(s, LAMBDA a, b : a.started > b.started) =
        [k \in 1..n |-> s[CHOOSE i \in 1..n : Cardinality(B(i)) + 1 = k]]
  BY <1>0 DEF StableSort
<1>4. Sort(s, "age", FALSE) =
        [k \in 1..n |-> s[CHOOSE i \in 1..n : Cardinality(C(i)) + 1 = k]]
  BY <1>0 DEF StableSort, Sort
<1> HIDE DEF B, C
<1>5. ASSUME NEW k \in 1..n
      PROVE  (CHOOSE i \in 1..n : Cardinality(B(i)) + 1 = k)
               = (CHOOSE i \in 1..n : Cardinality(C(i)) + 1 = k)
  <2> DEFINE P(i) == i \in 1..n /\ Cardinality(B(i)) + 1 = k
             Q(i) == i \in 1..n /\ Cardinality(C(i)) + 1 = k
  <2>1. \A i : P(i) <=> Q(i)
    BY <1>2
  <2>2. (CHOOSE i : P(i)) = (CHOOSE i : Q(i))
    <3> HIDE DEF P, Q
    <3> QED
      BY <2>1
  <2>3. (CHOOSE i : P(i)) = CHOOSE i \in 1..n : Cardinality(B(i)) + 1 = k
    BY Zenon
  <2>4. (CHOOSE i : Q(i)) = CHOOSE i \in 1..n : Cardinality(C(i)) + 1 = k
    BY Zenon
  <2> QED
    BY <2>2, <2>3, <2>4, Zenon
<1> QED
  BY <1>3, <1>4, <1>5

(* What the feed reads: a trace is in each half once, so twice at most.    *)
LEMMA AllTwice ==
  ASSUME LogInv, NEW all, all = early.live \o log, NEW m, m = Len(early.live)
  PROVE  /\ all \in Seq(Traces) /\ m \in Nat /\ DOMAIN all = 1..Len(all) /\ Len(all) \in Nat
         /\ Range(all) = Range(early.live) \cup Range(log)
         /\ \A i, j \in DOMAIN all : i # j /\ all[i] = all[j] =>
              /\ (i <= m /\ m < j) \/ (j <= m /\ m < i)
              /\ all[i] \in Range(early.live) \cap Range(log)
<1>1. /\ early.live \in Seq(Traces) /\ log \in Seq(Traces)
      /\ Distinct(early.live) /\ Distinct(log)
  BY LogsAreTraces
<1>2. /\ all \in Seq(Traces) /\ DOMAIN all = 1..(m + Len(log)) /\ Len(all) = m + Len(log)
      /\ m \in Nat /\ Len(log) \in Nat
      /\ DOMAIN early.live = 1..m /\ DOMAIN log = 1..Len(log)
      /\ \A i \in 1..m : all[i] = early.live[i]
      /\ \A i \in 1..(m + Len(log)) : i \notin 1..m =>
           i - m \in 1..Len(log) /\ all[i] = log[i - m]
      /\ \A i \in 1..Len(log) : m + i \in 1..(m + Len(log)) /\ all[m + i] = log[i]
  BY <1>1
<1>3. ASSUME NEW i \in DOMAIN all, NEW j \in DOMAIN all, i # j, all[i] = all[j]
      PROVE  /\ (i <= m /\ m < j) \/ (j <= m /\ m < i)
             /\ all[i] \in Range(early.live) \cap Range(log)
  <2>1. CASE i \in 1..m /\ j \in 1..m
    BY <1>1, <1>2, <1>3, <2>1 DEF Distinct
  <2>2. CASE i \in 1..m /\ j \notin 1..m
    BY <1>2, <1>3, <2>2 DEF Range
  <2>3. CASE i \notin 1..m /\ j \in 1..m
    BY <1>2, <1>3, <2>3 DEF Range
  <2>4. CASE i \notin 1..m /\ j \notin 1..m
    <3>1. i - m \in DOMAIN log /\ all[i] = log[i - m]
      BY <1>2, <1>3, <2>4
    <3>2. j - m \in DOMAIN log /\ all[j] = log[j - m]
      BY <1>2, <1>3, <2>4
    <3>3. i \in Int /\ j \in Int /\ m \in Int
      BY <1>2, <1>3
    <3>4. i - m # j - m
      BY <1>3, <3>3, SMT
    <3> QED
      BY <1>1, <1>3, <3>1, <3>2, <3>4 DEF Distinct
  <2> QED
    BY <2>1, <2>2, <2>3, <2>4
<1>4. Range(all) = Range(early.live) \cup Range(log)
  <2>1. ASSUME NEW i \in DOMAIN all
        PROVE  all[i] \in Range(early.live) \cup Range(log)
    BY <1>2 DEF Range
  <2>2. ASSUME NEW i \in 1..m
        PROVE  early.live[i] \in Range(all)
    <3>1. i \in DOMAIN all /\ all[i] = early.live[i]
      BY <1>2
    <3> QED
      BY <3>1 DEF Range
  <2>3. ASSUME NEW i \in 1..Len(log)
        PROVE  log[i] \in Range(all)
    <3>1. m + i \in DOMAIN all /\ all[m + i] = log[i]
      BY <1>2
    <3> QED
      BY <3>1 DEF Range
  <2>4. Range(all) \subseteq Range(early.live) \cup Range(log)
    <3> SUFFICES ASSUME NEW t \in Range(all) PROVE t \in Range(early.live) \cup Range(log)
      OBVIOUS
    <3>1. PICK i \in DOMAIN all : t = all[i]
      BY DEF Range
    <3> QED
      BY <2>1, <3>1
  <2>5. \A i \in DOMAIN early.live : early.live[i] \in Range(all)
    BY <1>2, <2>2
  <2>6. \A i \in DOMAIN log : log[i] \in Range(all)
    BY <1>2, <2>3
  <2>7. Range(early.live) \subseteq Range(all) /\ Range(log) \subseteq Range(all)
    BY <2>5, <2>6 DEF Range
  <2> QED
    BY <2>4, <2>7
<1> QED
  BY <1>2, <1>3, <1>4

LEMMA FeedShows ==
  ASSUME LogInv
  PROVE  FeedIsNewest
<1> DEFINE p == [NewPage("live", EmptyQuery) EXCEPT !.host = early.host]
           all == early.live \o log
           m == Len(early.live)
           f == Filter(all, p)
           n == Len(f)
           s == Sort(f, "age", FALSE)
           listed == Feed
           r == Len(listed)
           of == {t \in Range(all) : early.host = 0 \/ TraceHost(t) = early.host}
<1>0. /\ all \in Seq(Traces) /\ m \in Nat /\ DOMAIN all = 1..Len(all) /\ Len(all) \in Nat
      /\ Range(all) = Range(early.live) \cup Range(log)
      /\ \A i, j \in DOMAIN all : i # j /\ all[i] = all[j] =>
           /\ (i <= m /\ m < j) \/ (j <= m /\ m < i)
           /\ all[i] \in Range(early.live) \cap Range(log)
      /\ FeedRows \in Nat
  BY AllTwice, ListingAssumption
<1>1. \A t : Passes(t, p) <=> (early.host = 0 \/ TraceHost(t) = early.host)
  BY DEF Passes, Matches, NewPage, EmptyQuery, RequestedStatus
<1>2. /\ f \in Seq(Traces) /\ n \in Nat /\ DOMAIN f = 1..n
      /\ Range(f) = {t \in Range(all) : Passes(t, p)}
      /\ \E h : Chosen(f, h, all, {t \in Range(all) : Passes(t, p)}, Len(all))
  <2> HIDE DEF all, p
  <2> QED
    BY <1>0, FilterIs
<1>15. PICK h : Chosen(f, h, all, {t \in Range(all) : Passes(t, p)}, Len(all))
  BY <1>2
<1>3. Range(f) = of
  <2> HIDE DEF p, all, f
  <2> QED
    BY <1>1, <1>2
<1>4. PICK q : SortedBy(s, q, f, "age", FALSE)
  <2> HIDE DEF f
  <2> QED
    BY <1>2, SortIs
<1>5. listed = Cut(s, FeedRows)
  <2> HIDE DEF p
  <2>1. listed = Cut(StableSort(f, LAMBDA a, b : a.started > b.started), FeedRows)
    BY DEF Feed, p
  <2>2. StableSort(f, LAMBDA a, b : a.started > b.started) = s
    <3> HIDE DEF f
    <3> QED
      BY <1>2, FeedSort
  <2> QED
    BY <2>1, <2>2
<1> HIDE DEF p, f, s, listed, of
<1>6. /\ \A k \in 1..n : q[k] \in 1..n /\ s[k] = f[q[k]]
      /\ \A i \in 1..n : \E k \in 1..n : q[k] = i
      /\ \A k, l \in 1..n : k # l => q[k] # q[l]
  BY <1>4 DEF SortedBy
<1>7. s \in Seq(Traces) /\ Len(s) = n
  <2>1. s = [k \in 1..n |-> f[q[k]]] /\ \A k \in 1..n : f[q[k]] \in Traces
    BY <1>2, <1>4, <1>6 DEF SortedBy
  <2> QED
    BY <1>2, <2>1
<1>8. \A k, l \in 1..n : k < l => s[k].started >= s[l].started
  <2> SUFFICES ASSUME NEW k \in 1..n, NEW l \in 1..n, k < l
               PROVE  s[k].started >= s[l].started
    OBVIOUS
  <2>1. KeyOf(s[l], "age") <= KeyOf(s[k], "age")
    BY <1>4, <1>6 DEF SortedBy
  <2>2. s[k] \in Traces /\ s[l] \in Traces
    BY <1>7
  <2>3. s[k].started \in Int /\ s[l].started \in Int
    BY <2>2, TraceFields
  <2> QED
    BY <2>1, <2>3 DEF KeyOf
<1>9. /\ listed \in Seq(Traces) /\ r \in 0..n /\ DOMAIN listed = 1..r
      /\ r < n => r = FeedRows
      /\ \A i \in 1..r : listed[i] = s[i]
  <2>1. /\ listed \in Seq(Traces) /\ r \in 0..n
        /\ r = IF FeedRows > 0 /\ n > FeedRows THEN FeedRows ELSE n
        /\ \A i \in 1..r : listed[i] = s[i]
    BY <1>0, <1>5, <1>7, CutIs
  <2>2. DOMAIN listed = 1..r
    BY <2>1
  <2>3. r < n => r = FeedRows
    BY <1>2, <2>1
  <2> QED
    BY <2>1, <2>2, <2>3
<1>10. \A i \in 1..r : /\ i \in 1..n /\ h[q[i]] \in DOMAIN all /\ listed[i] = all[h[q[i]]]
  <2> SUFFICES ASSUME NEW i \in 1..r
               PROVE  i \in 1..n /\ h[q[i]] \in DOMAIN all /\ listed[i] = all[h[q[i]]]
    OBVIOUS
  <2>1. i \in 1..n
    <3>1. r \in 0..n /\ n \in Nat
      BY <1>2, <1>9
    <3> HIDE DEF r, n
    <3> QED
      BY <3>1
  <2>3. q[i] \in 1..n /\ s[i] = f[q[i]]
    BY <1>6, <2>1
  <2>4. listed[i] = f[q[i]]
    BY <1>9, <2>3
  <2>2. h[q[i]] \in 1..Len(all) /\ f[q[i]] = all[h[q[i]]]
    BY <1>15, <2>3 DEF Chosen
  <2> QED
    BY <1>0, <2>1, <2>2, <2>4
<1>11. \A i, j \in 1..r : i # j => h[q[i]] # h[q[j]]
  <2> SUFFICES ASSUME NEW i \in 1..r, NEW j \in 1..r, i # j
               PROVE  h[q[i]] # h[q[j]]
    OBVIOUS
  <2>1. i \in 1..n /\ j \in 1..n
    BY <1>10
  <2>2. q[i] # q[j] /\ q[i] \in 1..n /\ q[j] \in 1..n
    BY <1>6, <2>1
  <2>3. q[i] < q[j] \/ q[j] < q[i]
    BY <1>2, <2>2
  <2>4. h[q[i]] \in 1..Len(all) /\ h[q[j]] \in 1..Len(all)
    BY <1>0, <1>10
  <2>5. h[q[i]] < h[q[j]] \/ h[q[j]] < h[q[i]]
    BY <1>15, <2>2, <2>3 DEF Chosen
  <2> QED
    BY <2>4, <2>5
<1>16. ASSUME NEW i \in 1..r, NEW j \in 1..r, i < j, listed[i] = listed[j]
       PROVE  /\ listed[i] \in Range(early.live) \cap Range(log)
              /\ \A k \in 1..r : j < k => listed[k] # listed[i]
  <2> DEFINE x(k) == h[q[k]]
  <2>1. i # j /\ i \in Nat /\ j \in Nat
    BY <1>16
  <2>2. /\ x(i) \in DOMAIN all /\ x(j) \in DOMAIN all /\ x(i) # x(j)
        /\ listed[i] = all[x(i)] /\ listed[j] = all[x(j)]
    BY <1>10, <1>11, <2>1
  <2> HIDE DEF all, m, x
  <2>3. /\ (x(i) <= m /\ m < x(j)) \/ (x(j) <= m /\ m < x(i))
        /\ all[x(i)] \in Range(early.live) \cap Range(log)
    BY <1>0, <1>16, <2>2
  <2>4. ASSUME NEW k \in 1..r, j < k, listed[k] = listed[i]
        PROVE  FALSE
    <3>1. k # i /\ k # j
      BY <1>16, <2>1, <2>4
    <3>2. /\ x(k) \in DOMAIN all /\ x(k) # x(i) /\ x(k) # x(j)
          /\ listed[k] = all[x(k)]
      BY <1>10, <1>11, <3>1 DEF x
    <3>3. /\ (x(i) <= m /\ m < x(k)) \/ (x(k) <= m /\ m < x(i))
          /\ (x(j) <= m /\ m < x(k)) \/ (x(k) <= m /\ m < x(j))
      BY <1>0, <1>16, <2>2, <2>4, <3>2
    <3>4. x(i) \in Nat /\ x(j) \in Nat /\ x(k) \in Nat /\ m \in Nat
      BY <1>0, <2>2, <3>2
    <3> QED
      BY <2>3, <3>3, <3>4
  <2> QED
    BY <2>2, <2>3, <2>4
<1>12. Range(listed) \subseteq of
  <2> SUFFICES ASSUME NEW i \in 1..r PROVE listed[i] \in of
    <3>1. Range(listed) = {listed[i] : i \in 1..r}
      BY <1>9 DEF Range
    <3> QED
      BY <3>1
  <2>1. i \in 1..n
    <3>1. r \in 0..n /\ n \in Nat
      BY <1>2, <1>9
    <3> HIDE DEF r, n
    <3> QED
      BY <3>1
  <2>2. s[i] = f[q[i]] /\ q[i] \in DOMAIN f
    BY <1>2, <1>6, <2>1
  <2>3. s[i] \in Range(f)
    BY <2>2 DEF Range
  <2> QED
    BY <1>3, <1>9, <2>3
<1>13. \A i, j \in 1..r : i < j => listed[i].started >= listed[j].started
  BY <1>2, <1>8, <1>9
<1>14. ASSUME NEW t \in of \ Range(listed)
       PROVE  r = FeedRows /\ \A i \in 1..r : listed[i].started >= t.started
  <2>1. PICK i \in 1..n : f[i] = t
    BY <1>2, <1>3 DEF Range
  <2>2. PICK x \in 1..n : q[x] = i
    BY <1>6
  <2>3. s[x] = t
    BY <1>6, <2>1, <2>2
  <2>4. x \notin 1..r
    BY <1>9, <1>14, <2>3 DEF Range
  <2>5. x > r /\ r < n
    BY <1>2, <1>9, <2>4
  <2> QED
    BY <1>2, <1>8, <1>9, <2>3, <2>5
<1>17. of = {t \in Range(early.live) \cup Range(log) :
               early.host = 0 \/ TraceHost(t) = early.host}
  BY <1>0 DEF of
<1>18. \A i \in 1..early.begun :
         load[i] \in Range(live) \cup Range(log) =>
           load[i] \in Range(early.live) \cup Range(log)
  BY DEF LogInv, EarlyInv
<1>19. DOMAIN listed = 1..r
  BY <1>9
<1> QED
  BY <1>12, <1>13, <1>14, <1>16, <1>17, <1>18, <1>19 DEF FeedIsNewest, listed

-----------------------------------------------------------------------------
(* The host table. Every host of the window is one requests are counted    *)
(* for, and has a name.                                                    *)
LEMMA HostNamed ==
  ASSUME NEW t \in Traces
  PROVE  TraceHost(t) \in Nat \ {0}
BY TraceFields, ListingAssumption DEF TraceHost

LEMMA HostsAre ==
  ASSUME LogInv
  PROVE  /\ SeenHosts \subseteq Hosts /\ Hosts \subseteq Nat \ {0}
         /\ IsFiniteSet(Hosts) /\ IsFiniteSet(SeenHosts)
         /\ early.requests \in [Hosts -> Nat]
         /\ \A i \in DOMAIN log : TraceHost(log[i]) \in SeenHosts
<1> DEFINE ofLoad == {TraceHost(load[i]) : i \in DOMAIN load}
           f == [i \in 1..Len(load) |-> TraceHost(load[i])]
<1>1. /\ Len(load) \in Nat /\ DOMAIN load = 1..Len(load) /\ begun \in 0..Len(load)
      /\ \A i \in 1..Len(load) : load[i] \in Traces
  BY LoadIs DEF LogInv, RecordInv
<1>2. early.requests \in [Hosts -> Nat]
  BY DEF LogInv, EarlyInv
<1>3. IsFiniteSet(ofLoad)
  <2>1. f \in Surjection(1..Len(load), ofLoad)
    BY <1>1 DEF Surjection
  <2>2. IsFiniteSet(1..Len(load))
    BY <1>1, FS_Interval
  <2> HIDE DEF f, ofLoad
  <2> QED
    BY <2>1, <2>2, FS_Surjection
<1>4. IsFiniteSet(Hosts)
  <2>1. Hosts = ofLoad \cup Rejected
    BY DEF Hosts
  <2> HIDE DEF ofLoad
  <2> QED
    BY <1>3, <2>1, FS_Union, ListingAssumption
<1>5. Hosts \subseteq Nat \ {0}
  BY <1>1, HostNamed, ListingAssumption DEF Hosts
<1>6. ASSUME NEW i \in DOMAIN log
      PROVE  TraceHost(log[i]) \in Hosts
  <2>1. log[i] \in Begun
    BY DEF LogInv, RecordInv
  <2>2. PICK j \in 1..begun : log[i] = load[j]
    BY <2>1 DEF Begun
  <2>3. j \in DOMAIN load
    BY <1>1
  <2> QED
    BY <2>2, <2>3 DEF Hosts
<1>7. SeenHosts \subseteq Hosts
  BY <1>2, <1>6 DEF SeenHosts
<1>8. IsFiniteSet(SeenHosts)
  BY <1>4, <1>7, FS_Subset
<1>9. \A i \in DOMAIN log : TraceHost(log[i]) \in SeenHosts
  BY DEF SeenHosts
<1> QED
  BY <1>2, <1>4, <1>5, <1>7, <1>8, <1>9

TracesOf(h) == {i \in DOMAIN log : TraceHost(log[i]) = h}

LEMMA LogFinite ==
  ASSUME LogInv
  PROVE  /\ Len(log) \in Nat /\ DOMAIN log = 1..Len(log)
         /\ IsFiniteSet(DOMAIN log) /\ Cardinality(DOMAIN log) = Len(log)
         /\ \A i \in DOMAIN log : log[i] \in Traces
<1>1. Len(log) \in Nat /\ DOMAIN log = 1..Len(log) /\ \A i \in DOMAIN log : log[i] \in Traces
  BY LogsAreTraces
<1> QED
  BY <1>1, FS_Interval

LEMMA HostStatIs ==
  ASSUME LogInv, NEW h \in SeenHosts
  PROVE  /\ h \in Nat \ {0}
         /\ HostStat(h).host = h
         /\ HostStat(h).requests \in Nat
         /\ HostStat(h).traces \in Nat /\ HostStat(h).traces = Cardinality(TracesOf(h))
         /\ HostStat(h).errors = Cardinality({i \in TracesOf(h) : HasFailed(log[i])})
         /\ HostStat(h).routes <= HostStat(h).traces
<1> DEFINE Of == TracesOf(h)
           routes == {GroupKey(log[i]).name : i \in Of}
           route == [i \in Of |-> GroupKey(log[i]).name]
<1>1. h \in Hosts /\ h \in Nat \ {0}
  BY HostsAre
<1>2. /\ HostStat(h).host = h /\ HostStat(h).requests = early.requests[h]
      /\ HostStat(h).traces = Cardinality(Of)
      /\ HostStat(h).errors = Cardinality({i \in Of : HasFailed(log[i])})
      /\ HostStat(h).routes = Cardinality(routes)
  BY DEF HostStat, TracesOf
<1>3. IsFiniteSet(Of)
  BY LogFinite, FS_Subset DEF TracesOf
<1>4. Cardinality(routes) <= Cardinality(Of)
  <2>1. route \in Surjection(Of, routes)
    BY DEF Surjection
  <2> HIDE DEF Of, route, routes
  <2> QED
    BY <1>3, <2>1, FS_Surjection
<1>5. early.requests[h] \in Nat /\ Cardinality(Of) \in Nat
  BY <1>1, <1>3, HostsAre, FS_CardinalityType
<1> HIDE DEF routes, route
<1> QED
  BY <1>1, <1>2, <1>4, <1>5

(* The order of the host table: it leaves no two hosts tied.               *)
HostsBefore ==
  [h \in SeenHosts |-> {g \in SeenHosts : HostLess(HostStat(g), HostStat(h))}]

LEMMA HostOrder ==
  ASSUME LogInv
  PROVE  IsOrder(HostsBefore, SeenHosts)
<1> DEFINE R(h) == HostStat(h).requests
           T(h) == HostStat(h).traces
<1>1. \A g, h \in SeenHosts :
        g \in HostsBefore[h] <=>
          \/ R(g) > R(h)
          \/ R(g) = R(h) /\ T(g) > T(h)
          \/ R(g) = R(h) /\ T(g) = T(h) /\ g < h
  <2> SUFFICES ASSUME NEW g \in SeenHosts, NEW h \in SeenHosts
               PROVE  HostLess(HostStat(g), HostStat(h)) <=>
                        \/ R(g) > R(h)
                        \/ R(g) = R(h) /\ T(g) > T(h)
                        \/ R(g) = R(h) /\ T(g) = T(h) /\ g < h
    BY DEF HostsBefore
  <2>1. /\ R(g) \in Nat /\ R(h) \in Nat /\ T(g) \in Nat /\ T(h) \in Nat
        /\ HostStat(g).host = g /\ HostStat(h).host = h
    BY HostStatIs
  <2>2. CASE R(g) # R(h)
    BY <2>1, <2>2 DEF HostLess
  <2>3. CASE R(g) = R(h) /\ T(g) # T(h)
    BY <2>1, <2>3 DEF HostLess
  <2>4. CASE R(g) = R(h) /\ T(g) = T(h)
    BY <2>1, <2>4 DEF HostLess
  <2> QED
    BY <2>2, <2>3, <2>4
<1>2. \A h \in SeenHosts : R(h) \in Nat /\ T(h) \in Nat /\ h \in Nat
  BY HostStatIs
<1>3. HostsBefore \in [SeenHosts -> SUBSET SeenHosts]
  BY DEF HostsBefore
<1> HIDE DEF R, T
<1>4. \A h \in SeenHosts : h \notin HostsBefore[h]
  BY <1>1, <1>2
<1>5. \A g, h \in SeenHosts : g # h => g \in HostsBefore[h] \/ h \in HostsBefore[g]
  BY <1>1, <1>2
<1>6. ASSUME NEW g \in SeenHosts, NEW h \in SeenHosts, g \in HostsBefore[h],
             NEW e \in HostsBefore[g]
      PROVE  e \in HostsBefore[h]
  <2>1. e \in SeenHosts
    BY <1>3
  <2> QED
    BY <1>1, <1>2, <1>6, <2>1
<1> QED
  BY <1>3, <1>4, <1>5, <1>6 DEF IsOrder

(* However the map of hosts was walked, the table comes out the same.      *)
HostAt == Placed(HostsBefore, SeenHosts)

LEMMA HostStatsIs ==
  ASSUME LogInv, NEW order \in SetToSeqs(SeenHosts)
  PROVE  HostStats(order) = [k \in 1..Cardinality(SeenHosts) |-> HostStat(HostAt[k])]
<1> DEFINE n == Cardinality(SeenHosts)
           s == [m \in 1..n |-> HostStat(order[m])]
           D(i) == {j \in 1..n : HostLess(s[j], s[i]) \/ (~HostLess(s[i], s[j]) /\ j < i)}
           at(k) == CHOOSE i \in 1..n : Cardinality(D(i)) + 1 = k
<1>0. /\ IsFiniteSet(SeenHosts) /\ n \in Nat
      /\ order \in [1..n -> SeenHosts] /\ DOMAIN order = 1..n
      /\ \A i, j \in 1..n : i # j => order[i] # order[j]
  BY HostsAre, FS_CardinalityType DEF SetToSeqs
<1>1. \A h \in SeenHosts : \E i \in 1..n : order[i] = h
  <2>1. order \in Injection(1..n, SeenHosts)
    BY <1>0 DEF Injection, IsInjective
  <2>2. IsFiniteSet(1..n) /\ Cardinality(1..n) = n
    BY <1>0, FS_Interval
  <2>3. order \in Surjection(1..n, SeenHosts)
    BY <1>0, <2>1, <2>2, FS_Injection
  <2> QED
    BY <2>3 DEF Surjection
<1>2. HostStats(order) = [k \in 1..n |-> s[at(k)]]
  BY <1>0 DEF HostStats, StableSort
<1>3. IsOrder(HostsBefore, SeenHosts)
  BY HostOrder
<1>4. \A i, j \in 1..n :
        HostLess(s[j], s[i]) <=> order[j] \in HostsBefore[order[i]]
  BY <1>0 DEF HostsBefore
<1> HIDE DEF s
<1>5. \A i, j \in 1..n : j \in D(i) <=> order[j] \in HostsBefore[order[i]]
  <2> SUFFICES ASSUME NEW i \in 1..n, NEW j \in 1..n
               PROVE  (HostLess(s[j], s[i]) \/ (~HostLess(s[i], s[j]) /\ j < i))
                        <=> order[j] \in HostsBefore[order[i]]
    OBVIOUS
  <2>1. CASE i = j
    <3>1. order[i] \notin HostsBefore[order[i]]
      BY <1>0, <1>3 DEF IsOrder
    <3>2. ~(j < i)
      BY <2>1
    <3> QED
      BY <1>4, <2>1, <3>1, <3>2
  <2>2. CASE i # j
    <3>1. order[i] # order[j] /\ order[i] \in SeenHosts /\ order[j] \in SeenHosts
      BY <1>0, <2>2
    <3>2. order[i] \in HostsBefore[order[j]] \/ order[j] \in HostsBefore[order[i]]
      BY <1>3, <3>1 DEF IsOrder
    <3> QED
      BY <1>4, <3>2
  <2> QED
    BY <2>1, <2>2
<1>6. \A i \in 1..n : D(i) \subseteq 1..n
  OBVIOUS
<1> HIDE DEF D
<1>7. ASSUME NEW i \in 1..n
      PROVE  Cardinality(D(i)) = Cardinality(HostsBefore[order[i]])
  <2> DEFINE b == [j \in D(i) |-> order[j]]
  <2>1. \A j \in D(i) : j \in 1..n /\ order[j] \in HostsBefore[order[i]]
    BY <1>5, <1>6
  <2>2. b \in [D(i) -> HostsBefore[order[i]]]
    BY <2>1
  <2>3. \A j, k \in D(i) : b[j] = b[k] => j = k
    BY <1>0, <2>1
  <2>4. ASSUME NEW h \in HostsBefore[order[i]]
        PROVE  \E j \in D(i) : b[j] = h
    <3>1. h \in SeenHosts
      BY <1>0, <1>3 DEF IsOrder
    <3>2. PICK j \in 1..n : order[j] = h
      BY <1>1, <3>1
    <3>3. j \in D(i)
      BY <1>5, <3>2
    <3> QED
      BY <3>2, <3>3
  <2> HIDE DEF b
  <2>5. b \in Bijection(D(i), HostsBefore[order[i]])
    BY <2>2, <2>3, <2>4 DEF Bijection, Injection, IsInjective, Surjection
  <2>6. IsFiniteSet(D(i))
    <3>1. IsFiniteSet(1..n)
      BY <1>0, FS_Interval
    <3> QED
      BY <1>6, <3>1, FS_Subset
  <2> QED
    BY <2>5, <2>6, FS_Bijection DEF ExistsBijection
<1>8. ASSUME NEW k \in 1..n
      PROVE  s[at(k)] = HostStat(HostAt[k])
  <2>1. PICK h \in SeenHosts : Cardinality(HostsBefore[h]) + 1 = k
    BY <1>0, <1>3, Ranks
  <2>2. PICK i \in 1..n : order[i] = h
    BY <1>1
  <2>3. Cardinality(D(i)) + 1 = k
    BY <1>7, <2>1, <2>2
  <2>4. at(k) \in 1..n /\ Cardinality(D(at(k))) + 1 = k
    BY <2>3
  <2> HIDE DEF at
  <2>5. Cardinality(HostsBefore[order[at(k)]]) + 1 = k /\ order[at(k)] \in SeenHosts
    BY <1>0, <1>7, <2>4
  <2>6. HostAt[k] = order[at(k)]
    BY <1>0, <1>3, <2>5, RankIsOne DEF HostAt
  <2> QED
    BY <2>4, <2>6 DEF s
<1> HIDE DEF at
<1> QED
  BY <1>2, <1>8

LEMMA HostAtIs ==
  ASSUME LogInv
  PROVE  /\ Cardinality(SeenHosts) \in Nat
         /\ HostAt \in [1..Cardinality(SeenHosts) -> SeenHosts]
         /\ \A h \in SeenHosts : \E k \in 1..Cardinality(SeenHosts) : HostAt[k] = h
         /\ \A k, l \in 1..Cardinality(SeenHosts) : k # l => HostAt[k] # HostAt[l]
         /\ \E order : order \in SetToSeqs(SeenHosts)
<1>1. /\ Cardinality(SeenHosts) \in Nat
      /\ HostAt \in [1..Cardinality(SeenHosts) -> SeenHosts]
      /\ \A h \in SeenHosts : \E k \in 1..Cardinality(SeenHosts) : HostAt[k] = h
      /\ \A k, l \in 1..Cardinality(SeenHosts) : k # l => HostAt[k] # HostAt[l]
  BY HostsAre, HostOrder, PlacedInOrder DEF HostAt
<1>2. HostAt \in SetToSeqs(SeenHosts)
  BY <1>1 DEF SetToSeqs
<1> QED
  BY <1>1, <1>2

(* As many rows on a list as traces that pass. *)
LEMMA FilterCount ==
  ASSUME NEW T, NEW s \in Seq(T), NEW p
  PROVE  Len(Filter(s, p)) = Cardinality({i \in DOMAIN s : Passes(s[i], p)})
<1> DEFINE S == {t \in Range(s) : Passes(t, p)}
           f == Filter(s, p)
           At == {i \in DOMAIN s : Passes(s[i], p)}
<1>1. Len(f) \in Nat /\ \E h : Chosen(f, h, s, S, Len(s))
  <2> HIDE DEF f
  <2> QED
    BY FilterIs DEF f
<1>2. PICK h : Chosen(f, h, s, S, Len(s))
  BY <1>1
<1>3. DOMAIN s = 1..Len(s)
  OBVIOUS
<1>4. \A i \in 1..Len(s) : s[i] \in S <=> i \in At
  BY <1>3 DEF Range
<1> HIDE DEF f, S
<1>5. h \in [1..Len(f) -> At]
  <2>1. \A j \in 1..Len(f) : h[j] \in At
    BY <1>2, <1>4 DEF Chosen
  <2>2. h = [j \in 1..Len(f) |-> h[j]]
    BY <1>2 DEF Chosen
  <2> HIDE DEF At
  <2> QED
    BY <2>1, <2>2
<1>6. ASSUME NEW i \in 1..Len(f), NEW j \in 1..Len(f), h[i] = h[j]
      PROVE  i = j
  <2>1. h[i] \in 1..Len(s) /\ h[j] \in 1..Len(s)
    BY <1>2 DEF Chosen
  <2>2. ~(i < j) /\ ~(j < i)
    <3>1. (i < j => h[i] < h[j]) /\ (j < i => h[j] < h[i])
      BY <1>2 DEF Chosen
    <3> QED
      BY <1>6, <2>1, <3>1
  <2> QED
    BY <1>1, <2>2
<1>7. \A i \in At : \E j \in 1..Len(f) : h[j] = i
  BY <1>2, <1>3, <1>4 DEF Chosen
<1> HIDE DEF At
<1>8. h \in Bijection(1..Len(f), At)
  BY <1>5, <1>6, <1>7 DEF Bijection, Injection, IsInjective, Surjection
<1>9. IsFiniteSet(1..Len(f)) /\ Cardinality(1..Len(f)) = Len(f)
  <2>1. Len(f) \in Nat
    BY <1>1
  <2> DEFINE m == Len(f)
  <2> HIDE DEF m
  <2>2. m \in Nat
    BY <2>1 DEF m
  <2>3. IsFiniteSet(1..m) /\ Cardinality(1..m) = m
    BY <2>2, FS_Interval
  <2> QED
    BY <2>3 DEF m
<1>10. Cardinality(At) = Len(f)
  BY <1>8, <1>9, FS_Bijection DEF ExistsBijection
<1> QED
  BY <1>10 DEF At, f

OnHost(h, status) == [Unfiltered("list") EXCEPT !.host = h, !.status = status]

LEMMA OnHostCount ==
  ASSUME LogInv, NEW h \in SeenHosts
  PROVE  /\ Len(Filter(log, OnHost(h, "all"))) = Cardinality(TracesOf(h))
         /\ Len(Filter(log, OnHost(h, "error")))
              = Cardinality({i \in TracesOf(h) : HasFailed(log[i])})
<1>1. h # 0
  BY HostsAre
<1>2. ASSUME NEW status \in {"all", "error"}
      PROVE  \A t : Passes(t, OnHost(h, status)) <=>
                      TraceHost(t) = h /\ (status = "error" => HasFailed(t))
  BY <1>1 DEF Passes, OnHost, Unfiltered, NewPage, EmptyQuery, Matches
<1>3. {i \in DOMAIN log : Passes(log[i], OnHost(h, "all"))} = TracesOf(h)
  BY <1>2 DEF TracesOf
<1>4. {i \in DOMAIN log : Passes(log[i], OnHost(h, "error"))}
        = {i \in TracesOf(h) : HasFailed(log[i])}
  BY <1>2 DEF TracesOf
<1>5. log \in Seq(Traces)
  BY LogsAreTraces
<1> QED
  BY <1>3, <1>4, <1>5, FilterCount

HostTable == [k \in 1..Cardinality(SeenHosts) |-> HostStat(HostAt[k])]

LEMMA HostsAgree ==
  ASSUME LogInv
  PROVE  /\ \A i \in DOMAIN HostTable :
              /\ HostTable[i].traces = Len(Filter(log, OnHost(HostTable[i].host, "all")))
              /\ HostTable[i].errors = Len(Filter(log, OnHost(HostTable[i].host, "error")))
              /\ HostTable[i].routes <= HostTable[i].traces
         /\ SumFunction([i \in DOMAIN HostTable |-> HostTable[i].traces]) = Len(log)
<1> DEFINE n == Cardinality(SeenHosts)
           D == DOMAIN log
<1>1. /\ n \in Nat /\ DOMAIN HostTable = 1..n
      /\ \A k \in 1..n : HostAt[k] \in SeenHosts /\ HostTable[k] = HostStat(HostAt[k])
      /\ \A h \in SeenHosts : \E k \in 1..n : HostAt[k] = h
      /\ \A k, l \in 1..n : k # l => HostAt[k] # HostAt[l]
  BY HostAtIs DEF HostTable
<1>2. \A i \in DOMAIN HostTable :
        /\ HostTable[i].traces = Len(Filter(log, OnHost(HostTable[i].host, "all")))
        /\ HostTable[i].errors = Len(Filter(log, OnHost(HostTable[i].host, "error")))
        /\ HostTable[i].routes <= HostTable[i].traces
  <2> SUFFICES ASSUME NEW i \in 1..n
               PROVE  /\ HostTable[i].traces = Len(Filter(log, OnHost(HostTable[i].host, "all")))
                      /\ HostTable[i].errors = Len(Filter(log, OnHost(HostTable[i].host, "error")))
                              /\ HostTable[i].routes <= HostTable[i].traces
    BY <1>1
  <2>1. PICK h \in SeenHosts : HostTable[i] = HostStat(h)
    BY <1>1
  <2>2. /\ HostTable[i].host = h
        /\ HostTable[i].traces = Cardinality(TracesOf(h))
        /\ HostTable[i].errors = Cardinality({j \in TracesOf(h) : HasFailed(log[j])})
        /\ HostTable[i].routes <= HostTable[i].traces
    BY <2>1, HostStatIs
  <2> QED
    BY <2>2, OnHostCount
<1> DEFINE c == [j \in D |-> CHOOSE k \in 1..n : HostAt[k] = TraceHost(log[j])]
           f == [k \in 1..n |-> HostTable[k].traces]
<1>3. \A j \in D : c[j] \in 1..n /\ HostAt[c[j]] = TraceHost(log[j])
  BY <1>1, HostsAre
<1> HIDE DEF c
<1>4. \A k \in 1..n, j \in D : TraceHost(log[j]) = HostAt[k] <=> c[j] = k
  BY <1>1, <1>3
<1>5. ASSUME NEW k \in 1..n
      PROVE  HostTable[k].traces = Cardinality({j \in D : c[j] = k})
  <2>1. TracesOf(HostAt[k]) = {j \in D : c[j] = k}
    BY <1>4 DEF TracesOf
  <2> QED
    BY <1>1, <2>1, HostStatIs
<1>6. f = [k \in 1..n |-> Cardinality({j \in D : c[j] = k})]
  BY <1>5
<1>7. {j \in D : c[j] \in 1..n} = D
  BY <1>3
<1>8. IsFiniteSet(1..n) /\ IsFiniteSet(D) /\ Cardinality(D) = Len(log)
  BY <1>1, FS_Interval, LogFinite
<1> HIDE DEF f, D
<1>9. SumFunction(f) = Cardinality({j \in D : c[j] \in 1..n})
  <2> DEFINE I == 1..n
  <2> HIDE DEF I
  <2>1. f = [k \in I |-> Cardinality({j \in D : c[j] = k})] /\ IsFiniteSet(I)
    BY <1>6, <1>8 DEF I
  <2>2. SumFunction(f) = Cardinality({j \in D : c[j] \in I})
    BY <1>8, <2>1, SumOfClasses
  <2> QED
    BY <2>2 DEF I
<1>10. SumFunction(f) = Len(log)
  BY <1>7, <1>8, <1>9
<1> QED
  BY <1>1, <1>2, <1>10 DEF f

-----------------------------------------------------------------------------
(* The groups. Each is listed once, in the order they first occur.         *)
Keys == {GroupKey(log[i]) : i \in DOMAIN log}

LEMMA GroupKeysAre ==
  ASSUME LogInv
  PROVE  /\ IsFiniteSet(Keys) /\ Cardinality(Keys) \in Nat
         /\ GroupKeys \in [1..Cardinality(Keys) -> Keys]
         /\ \A key \in Keys : \E n \in 1..Cardinality(Keys) : GroupKeys[n] = key
         /\ \A n, l \in 1..Cardinality(Keys) : n # l => GroupKeys[n] # GroupKeys[l]
<1> DEFINE keys == [i \in DOMAIN log |-> GroupKey(log[i])]
           Leads(i) == \A j \in 1..(i - 1) : keys[j] # keys[i]
           Leaders == {i \in DOMAIN log : Leads(i)}
           B == [i \in Leaders |-> {j \in Leaders : j < i}]
           m == Cardinality(Keys)
<1>0. /\ Len(log) \in Nat /\ DOMAIN log = 1..Len(log) /\ IsFiniteSet(DOMAIN log)
      /\ DOMAIN keys = DOMAIN log
  BY LogFinite
<1>1. Range(keys) = Keys
  BY DEF Range, Keys
<1>2. \A key \in Keys : \E i \in Leaders : keys[i] = key
  <2> SUFFICES ASSUME NEW key \in Keys PROVE \E i \in Leaders : keys[i] = key
    OBVIOUS
  <2> DEFINE At == {i \in DOMAIN log : keys[i] = key}
  <2>1. At \in SUBSET Nat /\ At # {}
    BY <1>0 DEF Keys
  <2>2. PICK i \in At : \A j \in At : i <= j
    <3> HIDE DEF At
    <3> QED
      BY <2>1, LeastNumber
  <2>3. i \in 1..Len(log) /\ keys[i] = key
    BY <1>0, <2>2
  <2>4. ASSUME NEW j \in 1..(i - 1)
        PROVE  keys[j] # keys[i]
    <3>1. j \in 1..Len(log) /\ ~(i <= j)
      BY <1>0, <2>3
    <3> QED
      BY <1>0, <2>2, <2>3, <3>1
  <2> QED
    BY <1>0, <2>3, <2>4
<1>3. \A i, j \in Leaders : keys[i] = keys[j] => i = j
  <2> SUFFICES ASSUME NEW i \in Leaders, NEW j \in Leaders, keys[i] = keys[j], i # j
               PROVE  FALSE
    OBVIOUS
  <2>1. i \in 1..Len(log) /\ j \in 1..Len(log) /\ Leads(i) /\ Leads(j)
    BY <1>0
  <2>2. i \in 1..(j - 1) \/ j \in 1..(i - 1)
    BY <1>0, <2>1
  <2> QED
    BY <2>1, <2>2
<1> HIDE DEF keys
<1>4. IsFiniteSet(Leaders) /\ Leaders \subseteq 1..Len(log)
  <2>1. Leaders \in SUBSET DOMAIN log
    OBVIOUS
  <2> HIDE DEF Leaders
  <2> QED
    BY <1>0, <2>1, FS_Subset
<1>5. IsFiniteSet(Keys) /\ Cardinality(Keys) = Cardinality(Leaders) /\ m \in Nat
  <2> DEFINE b == [i \in Leaders |-> keys[i]]
  <2>1. \A i \in Leaders : keys[i] \in Keys
    BY <1>0 DEF Keys, keys
  <2> HIDE DEF Leaders
  <2>2. b \in Bijection(Leaders, Keys)
    BY <1>2, <1>3, <2>1 DEF Bijection, Injection, IsInjective, Surjection
  <2> HIDE DEF b
  <2> QED
    BY <1>4, <2>2, FS_Bijection, FS_CardinalityType DEF ExistsBijection
<1>6. IsOrder(B, Leaders)
  <2> HIDE DEF Leaders
  <2>1. \A i \in Leaders : i \in Int
    BY <1>4
  <2> QED
    BY <2>1 DEF IsOrder
<1>7. ASSUME NEW i \in Leaders
      PROVE  Cardinality({j \in 1..i : Leads(j)}) = Cardinality(B[i]) + 1
  <2>1. i \in 1..Len(log) /\ Leads(i)
    BY <1>0
  <2>2. {j \in 1..i : Leads(j)} = B[i] \cup {i}
    <3>1. \A j \in 1..i : j \in DOMAIN log /\ (j < i \/ j = i)
      BY <1>0, <2>1
    <3>2. \A j \in DOMAIN log : j < i => j \in 1..i
      BY <1>0, <2>1
    <3>3. i \in 1..i
      BY <2>1
    <3> HIDE DEF Leads
    <3> QED
      BY <1>7, <2>1, <3>1, <3>2, <3>3
  <2>3. i \notin B[i] /\ B[i] \in SUBSET Leaders
    BY <2>1
  <2>4. IsFiniteSet(B[i])
    <3> HIDE DEF B, Leaders
    <3> QED
      BY <1>4, <2>3, FS_Subset
  <2> HIDE DEF B, Leaders, Leads
  <2> QED
    BY <2>2, <2>3, <2>4, FS_AddElement
<1> DEFINE at == Placed(B, Leaders)
<1>8. ASSUME NEW n \in 1..m
      PROVE  GroupKeys[n] = keys[at[n]]
  <2> DEFINE P(i) == i \in DOMAIN log /\ Leads(i) /\ Cardinality({j \in 1..i : Leads(j)}) = n
             Q(i) == i \in Leaders /\ Cardinality(B[i]) + 1 = n
  <2>1. GroupKeys[n] = keys[CHOOSE i \in DOMAIN log :
                              Leads(i) /\ Cardinality({j \in 1..i : Leads(j)}) = n]
    BY <1>0, <1>1 DEF GroupKeys, keys
  <2>2. \A i : P(i) <=> Q(i)
    <3>1. \A i : i \in Leaders <=> i \in DOMAIN log /\ Leads(i)
      OBVIOUS
    <3> HIDE DEF Leaders, B, Leads
    <3> QED
      BY <1>7, <3>1
  <2>3. (CHOOSE i : P(i)) = (CHOOSE i : Q(i))
    <3> HIDE DEF P, Q
    <3> QED
      BY <2>2
  <2>4. (CHOOSE i : P(i)) = CHOOSE i \in DOMAIN log :
                              Leads(i) /\ Cardinality({j \in 1..i : Leads(j)}) = n
    BY Zenon
  <2>5. (CHOOSE i : Q(i)) = CHOOSE i \in Leaders : Cardinality(B[i]) + 1 = n
    BY Zenon
  <2> HIDE DEF Leaders, B, Leads
  <2>6. at[n] = CHOOSE i \in Leaders : Cardinality(B[i]) + 1 = n
    BY <1>5 DEF Placed
  <2> QED
    BY <2>1, <2>3, <2>4, <2>5, <2>6, Zenon
<1>9. GroupKeys = [n \in 1..m |-> GroupKeys[n]]
  BY <1>1 DEF GroupKeys, keys
<1> HIDE DEF B, Leaders
<1>10. /\ at \in [1..m -> Leaders]
       /\ \A i \in Leaders : \E n \in 1..m : at[n] = i
       /\ \A n, l \in 1..m : n # l => at[n] # at[l]
  BY <1>4, <1>5, <1>6, PlacedInOrder
<1> HIDE DEF at
<1>11. \A n \in 1..m : GroupKeys[n] \in Keys
  <2> SUFFICES ASSUME NEW n \in 1..m PROVE GroupKeys[n] \in Keys
    OBVIOUS
  <2>1. at[n] \in DOMAIN log
    BY <1>0, <1>4, <1>10
  <2> QED
    BY <1>8, <2>1 DEF Keys, keys
<1>12. GroupKeys \in [1..m -> Keys]
  BY <1>9, <1>11
<1>13. \A key \in Keys : \E n \in 1..m : GroupKeys[n] = key
  BY <1>2, <1>8, <1>10
<1>14. \A n, l \in 1..m : n # l => GroupKeys[n] # GroupKeys[l]
  BY <1>3, <1>8, <1>10
<1> QED
  BY <1>5, <1>12, <1>13, <1>14

InGroup(key) == {i \in DOMAIN log : GroupKey(log[i]) = key}

LEMMA SlowestIs ==
  ASSUME NEW S, IsFiniteSet(S), S # {}, NEW f \in [S -> Traces]
  PROVE  Slowest(f) \in Nat /\ \A i \in S : f[i].duration <= Slowest(f)
<1> DEFINE d == [i \in S |-> f[i].duration]
<1>1. \A i \in S : f[i].duration \in Nat /\ d[i] = f[i].duration
  BY TraceFields
<1>2. DOMAIN f = S
  OBVIOUS
<1>3. PICK x \in S : \A y \in S : d[y] <= d[x]
  <2>1. d \in [S -> Int]
    BY <1>1
  <2> HIDE DEF d
  <2> QED
    BY <2>1, GreatestValue
<1>4. CASE \A i \in DOMAIN f : f[i].duration <= 0
  BY <1>2, <1>4 DEF Slowest
<1>5. CASE ~ \A i \in DOMAIN f : f[i].duration <= 0
  <2> DEFINE most(e) == e \in {f[i].duration : i \in DOMAIN f}
                        /\ \A i \in DOMAIN f : f[i].duration <= e
  <2>1. most(f[x].duration)
    BY <1>1, <1>2, <1>3
  <2>2. Slowest(f) = CHOOSE e \in {f[i].duration : i \in DOMAIN f} :
                       \A i \in DOMAIN f : f[i].duration <= e
    BY <1>5, Zenon DEF Slowest
  <2>3. most(Slowest(f))
    BY <2>1, <2>2
  <2> QED
    BY <1>1, <1>2, <2>3
<1> QED
  BY <1>4, <1>5

LEMMA GroupIs ==
  ASSUME LogInv, NEW key \in Keys
  PROVE  /\ key.name \in Nat /\ key.host \in Nat
         /\ key = [name |-> key.name, host |-> key.host]
         /\ Group(key).name = key.name /\ Group(key).host = key.host
         /\ Group(key).count = Cardinality(InGroup(key)) /\ Group(key).count \in Nat
         /\ Group(key).total \in Nat
         /\ Group(key).average <= Group(key).longest
<1> DEFINE In == InGroup(key)
           times == [i \in In |-> log[i].duration]
           most == Slowest([i \in In |-> log[i]])
<1>1. PICK i \in DOMAIN log : key = GroupKey(log[i])
  BY DEF Keys
<1>2. log[i] \in Traces
  BY LogFinite
<1>3. /\ key.name \in Nat /\ key.host \in Nat
      /\ key = [name |-> key.name, host |-> key.host]
  BY <1>1, <1>2, TraceFields DEF GroupKey
<1>4. IsFiniteSet(In) /\ In # {} /\ \A j \in In : log[j] \in Traces
  BY <1>1, LogFinite, FS_Subset DEF InGroup
<1>5. Cardinality(In) \in Nat \ {0}
  BY <1>4, FS_CardinalityType, FS_EmptySet
<1>6. most \in Nat /\ \A j \in In : log[j].duration <= most
  <2> DEFINE f == [j \in In |-> log[j]]
  <2>1. f \in [In -> Traces] /\ \A j \in In : f[j] = log[j]
    BY <1>4
  <2> HIDE DEF f, In
  <2>2. Slowest(f) \in Nat /\ \A j \in In : f[j].duration <= Slowest(f)
    BY <1>4, <2>1, SlowestIs
  <2> QED
    BY <2>1, <2>2 DEF f
<1>7. /\ Group(key).name = key.name /\ Group(key).host = key.host
      /\ Group(key).count = Cardinality(In)
      /\ Group(key).total = SumFunction(times)
      /\ Group(key).average = SumFunction(times) \div Cardinality(In)
      /\ Group(key).longest = most
  BY DEF Group, InGroup
<1>8. times \in [In -> Nat] /\ \A j \in In : times[j] <= most
  <2>1. \A j \in In : log[j].duration \in Nat
    BY <1>4, TraceFields
  <2> HIDE DEF In, most
  <2> QED
    BY <1>6, <2>1
<1> HIDE DEF In, times, most
<1>9. SumFunction(times) \in Nat /\ SumFunction(times) <= most * Cardinality(In)
  BY <1>4, <1>6, <1>8, SumAtMost
<1>10. SumFunction(times) \div Cardinality(In) <= most
  BY <1>5, <1>6, <1>9, AverageAtMost
<1> QED
  BY <1>3, <1>5, <1>7, <1>9, <1>10 DEF In

(* The order of the groups leaves no two of them tied.                     *)
GroupAt(n) == Group(GroupKeys[n])

GroupsBefore ==
  [n \in 1..Cardinality(Keys) |->
     {l \in 1..Cardinality(Keys) : GroupLess(GroupAt(l), GroupAt(n))}]

LEMMA GroupOrder ==
  ASSUME LogInv
  PROVE  IsOrder(GroupsBefore, 1..Cardinality(Keys))
<1> DEFINE m == Cardinality(Keys)
           C(n) == GroupAt(n).count
           T(n) == GroupAt(n).total
           N(n) == GroupKeys[n].name
           H(n) == GroupKeys[n].host
<1>1. \A n \in 1..m : GroupKeys[n] \in Keys
  BY GroupKeysAre
<1>2. \A n \in 1..m :
        /\ C(n) \in Nat /\ T(n) \in Nat /\ N(n) \in Nat /\ H(n) \in Nat
        /\ GroupAt(n).name = N(n) /\ GroupAt(n).host = H(n)
        /\ GroupKeys[n] = [name |-> N(n), host |-> H(n)]
  BY <1>1, GroupIs DEF GroupAt
<1>3. \A n, l \in 1..m : n # l => N(n) # N(l) \/ H(n) # H(l)
  BY <1>2, GroupKeysAre
<1>4. \A n, l \in 1..m :
        l \in GroupsBefore[n] <=>
          \/ C(l) > C(n)
          \/ C(l) = C(n) /\ T(l) > T(n)
          \/ C(l) = C(n) /\ T(l) = T(n) /\ N(l) < N(n)
          \/ C(l) = C(n) /\ T(l) = T(n) /\ N(l) = N(n) /\ H(l) < H(n)
  <2> SUFFICES ASSUME NEW n \in 1..m, NEW l \in 1..m
               PROVE  GroupLess(GroupAt(l), GroupAt(n)) <=>
                        \/ C(l) > C(n)
                        \/ C(l) = C(n) /\ T(l) > T(n)
                        \/ C(l) = C(n) /\ T(l) = T(n) /\ N(l) < N(n)
                        \/ C(l) = C(n) /\ T(l) = T(n) /\ N(l) = N(n) /\ H(l) < H(n)
    BY DEF GroupsBefore
  <2>1. /\ C(n) \in Nat /\ T(n) \in Nat /\ N(n) \in Nat /\ H(n) \in Nat
        /\ C(l) \in Nat /\ T(l) \in Nat /\ N(l) \in Nat /\ H(l) \in Nat
        /\ GroupAt(n).name = N(n) /\ GroupAt(n).host = H(n)
        /\ GroupAt(l).name = N(l) /\ GroupAt(l).host = H(l)
    BY <1>2
  <2> HIDE DEF N, H
  <2>2. CASE C(l) # C(n)
    BY <2>1, <2>2 DEF GroupLess
  <2>3. CASE C(l) = C(n) /\ T(l) # T(n)
    BY <2>1, <2>3 DEF GroupLess
  <2>4. CASE C(l) = C(n) /\ T(l) = T(n) /\ N(l) # N(n)
    BY <2>1, <2>4 DEF GroupLess
  <2>5. CASE C(l) = C(n) /\ T(l) = T(n) /\ N(l) = N(n)
    BY <2>1, <2>5 DEF GroupLess
  <2> QED
    BY <2>2, <2>3, <2>4, <2>5
<1>5. GroupsBefore \in [1..m -> SUBSET (1..m)]
  BY DEF GroupsBefore
<1> HIDE DEF C, T, N, H
<1>6. ASSUME NEW n \in 1..m, n \in GroupsBefore[n]
      PROVE  FALSE
  <2>1. C(n) \in Nat /\ T(n) \in Nat /\ N(n) \in Nat /\ H(n) \in Nat
    BY <1>2
  <2> QED
    BY <1>4, <1>6, <2>1
<1>7. ASSUME NEW n \in 1..m, NEW l \in 1..m, n # l
      PROVE  n \in GroupsBefore[l] \/ l \in GroupsBefore[n]
  <2>1. N(n) # N(l) \/ H(n) # H(l)
    BY <1>3, <1>7
  <2>2. /\ C(n) \in Nat /\ T(n) \in Nat /\ N(n) \in Nat /\ H(n) \in Nat
        /\ C(l) \in Nat /\ T(l) \in Nat /\ N(l) \in Nat /\ H(l) \in Nat
    BY <1>2
  <2> QED
    BY <1>4, <2>1, <2>2
<1>8. ASSUME NEW n \in 1..m, NEW l \in 1..m, n \in GroupsBefore[l], NEW e \in GroupsBefore[n]
      PROVE  e \in GroupsBefore[l]
  <2>1. e \in 1..m
    BY <1>5
  <2>2. /\ C(n) \in Nat /\ T(n) \in Nat /\ N(n) \in Nat /\ H(n) \in Nat
        /\ C(l) \in Nat /\ T(l) \in Nat /\ N(l) \in Nat /\ H(l) \in Nat
        /\ C(e) \in Nat /\ T(e) \in Nat /\ N(e) \in Nat /\ H(e) \in Nat
    BY <1>2, <2>1
  <2> QED
    BY <1>4, <1>8, <2>1, <2>2
<1> QED
  BY <1>5, <1>6, <1>7, <1>8 DEF IsOrder

GroupRanked == Placed(GroupsBefore, 1..Cardinality(Keys))

LEMMA GroupsSorted ==
  ASSUME LogInv
  PROVE  Top = Cut([k \in 1..Cardinality(Keys) |-> GroupAt(GroupRanked[k])], TopLimit)
<1> DEFINE m == Cardinality(Keys)
           s == [n \in 1..m |-> GroupAt(n)]
           D(i) == {j \in 1..m : GroupLess(s[j], s[i]) \/ (~GroupLess(s[i], s[j]) /\ j < i)}
           at(k) == CHOOSE i \in 1..m : Cardinality(D(i)) + 1 = k
<1>0. /\ m \in Nat /\ DOMAIN GroupKeys = 1..m
      /\ IsFiniteSet(1..m) /\ Cardinality(1..m) = m
  BY GroupKeysAre, FS_Interval
<1>1. [n \in DOMAIN GroupKeys |-> Group(GroupKeys[n])] = s
  BY <1>0 DEF GroupAt
<1>2. Top = Cut([k \in 1..m |-> s[at(k)]], TopLimit)
  <2>1. Top = Cut(StableSort(s, GroupLess), TopLimit)
    BY <1>1 DEF Top
  <2>2. StableSort(s, GroupLess) = [k \in DOMAIN s |-> s[CHOOSE i \in DOMAIN s :
           Cardinality({j \in DOMAIN s : GroupLess(s[j], s[i])
                          \/ (~GroupLess(s[i], s[j]) /\ j < i)}) + 1 = k]]
    BY DEF StableSort
  <2>3. DOMAIN s = 1..m
    OBVIOUS
  <2> HIDE DEF s
  <2> QED
    BY <2>1, <2>2, <2>3
<1>3. IsOrder(GroupsBefore, 1..m)
  BY GroupOrder
<1>4. \A i, j \in 1..m : GroupLess(s[j], s[i]) <=> j \in GroupsBefore[i]
  BY DEF GroupsBefore
<1> HIDE DEF s
<1>5. ASSUME NEW i \in 1..m
      PROVE  D(i) = GroupsBefore[i]
  <2>1. ASSUME NEW j \in 1..m
        PROVE  GroupLess(s[j], s[i]) \/ (~GroupLess(s[i], s[j]) /\ j < i)
                 <=> j \in GroupsBefore[i]
    <3>1. CASE i = j
      <4>1. i \notin GroupsBefore[i] /\ ~(j < i)
        BY <1>3, <3>1 DEF IsOrder
      <4> QED
        BY <1>4, <3>1, <4>1
    <3>2. CASE i # j
      <4>1. i \in GroupsBefore[j] \/ j \in GroupsBefore[i]
        BY <1>3, <3>2 DEF IsOrder
      <4> QED
        BY <1>4, <4>1
    <3> QED
      BY <3>1, <3>2
  <2>2. GroupsBefore[i] \subseteq 1..m
    BY <1>3 DEF IsOrder
  <2> QED
    BY <2>1, <2>2
<1> HIDE DEF D
<1>6. ASSUME NEW k \in 1..m
      PROVE  s[at(k)] = GroupAt(GroupRanked[k])
  <2>1. PICK i \in 1..m : Cardinality(GroupsBefore[i]) + 1 = k
    <3> DEFINE I == 1..m
    <3> HIDE DEF I
    <3>1. IsFiniteSet(I) /\ IsOrder(GroupsBefore, I) /\ k \in 1..Cardinality(I)
      BY <1>0, <1>3 DEF I
    <3>2. \E i \in I : Cardinality(GroupsBefore[i]) + 1 = k
      BY <3>1, Ranks
    <3> QED
      BY <3>2 DEF I
  <2>2. Cardinality(D(i)) + 1 = k
    BY <1>5, <2>1
  <2>3. at(k) \in 1..m /\ Cardinality(D(at(k))) + 1 = k
    BY <2>2
  <2> HIDE DEF at
  <2>4. Cardinality(GroupsBefore[at(k)]) + 1 = k
    BY <1>5, <2>3
  <2>5. GroupRanked[k] = at(k)
    <3> DEFINE I == 1..m
    <3> HIDE DEF I
    <3>1. IsFiniteSet(I) /\ IsOrder(GroupsBefore, I) /\ at(k) \in I
      BY <1>0, <1>3, <2>3 DEF I
    <3>2. Placed(GroupsBefore, I)[k] = at(k)
      BY <2>4, <3>1, RankIsOne
    <3> QED
      BY <3>2 DEF I, GroupRanked
  <2> QED
    BY <2>3, <2>5 DEF s
<1> HIDE DEF at
<1>7. [k \in 1..m |-> s[at(k)]] = [k \in 1..m |-> GroupAt(GroupRanked[k])]
  BY <1>6
<1> QED
  BY <1>2, <1>7

(* The groups on the page hold no trace twice, and all of them when none   *)
(* is cut; an average is not more than the longest; and a group with more  *)
(* traces than one on the page is on it before that one.                   *)
LEMMA GroupsAgree ==
  ASSUME LogInv
  PROVE  LET counted == SumFunction([i \in DOMAIN Top |-> Top[i].count]) IN
         /\ counted <= Len(log)
         /\ Len(Top) < TopLimit => counted = Len(log)
         /\ \A i \in DOMAIN Top : Top[i].average <= Top[i].longest
         /\ \A n \in DOMAIN GroupKeys, i \in DOMAIN Top :
              Group(GroupKeys[n]).count > Top[i].count =>
                \E j \in 1..i : Top[j] = Group(GroupKeys[n])
<1> DEFINE m == Cardinality(Keys)
           s == [k \in 1..m |-> GroupAt(GroupRanked[k])]
           r == Len(Top)
           T == {GroupAt(n) : n \in 1..m}
           D == DOMAIN log
<1>0. /\ m \in Nat /\ DOMAIN GroupKeys = 1..m /\ TopLimit \in Nat
      /\ \A n \in 1..m : GroupKeys[n] \in Keys
      /\ IsFiniteSet(1..m) /\ Cardinality(1..m) = m
  <2>1. /\ m \in Nat /\ DOMAIN GroupKeys = 1..m
        /\ \A n \in 1..m : GroupKeys[n] \in Keys
    BY GroupKeysAre
  <2>2. IsFiniteSet(1..m) /\ Cardinality(1..m) = m
    BY <2>1, FS_Interval
  <2> QED
    BY <2>1, <2>2, ListingAssumption
<1>1. /\ GroupRanked \in [1..m -> 1..m]
      /\ \A n \in 1..m : \E k \in 1..m : GroupRanked[k] = n
      /\ \A k, l \in 1..m : GroupRanked[k] \in GroupsBefore[GroupRanked[l]] => k < l
      /\ \A k, l \in 1..m : k # l => GroupRanked[k] # GroupRanked[l]
  <2> DEFINE I == 1..m
  <2> HIDE DEF I
  <2>1. IsFiniteSet(I) /\ IsOrder(GroupsBefore, I) /\ Cardinality(I) = m
    BY <1>0, GroupOrder DEF I
  <2>2. /\ Placed(GroupsBefore, I) \in [1..m -> I]
        /\ \A n \in I : \E k \in 1..m : Placed(GroupsBefore, I)[k] = n
        /\ \A k, l \in 1..m :
             Placed(GroupsBefore, I)[k] \in GroupsBefore[Placed(GroupsBefore, I)[l]] => k < l
        /\ \A k, l \in 1..m : k # l => Placed(GroupsBefore, I)[k] # Placed(GroupsBefore, I)[l]
    BY <2>1, PlacedInOrder
  <2> QED
    BY <2>2 DEF I, GroupRanked
<1>2. s \in Seq(T) /\ Len(s) = m /\ \A k \in 1..m : s[k] = GroupAt(GroupRanked[k])
  <2>1. \A k \in 1..m : GroupAt(GroupRanked[k]) \in T
    BY <1>1
  <2> HIDE DEF T
  <2> QED
    BY <1>0, <2>1
<1> HIDE DEF s, T
<1>3. /\ r \in 0..m /\ DOMAIN Top = 1..r
      /\ r < TopLimit => r = m
      /\ \A i \in 1..r : Top[i] = GroupAt(GroupRanked[i])
  <2>1. Top = Cut(s, TopLimit)
    BY GroupsSorted DEF s
  <2>2. /\ Top \in Seq(T) /\ r \in 0..m
        /\ r = IF TopLimit > 0 /\ m > TopLimit THEN TopLimit ELSE m
        /\ \A i \in 1..r : Top[i] = s[i]
    BY <1>0, <1>2, <2>1, CutIs
  <2>3. DOMAIN Top = 1..r
    BY <2>2
  <2>4. r < TopLimit => r = m
    BY <1>0, <2>2
  <2>5. \A i \in 1..r : i \in 1..m
    BY <1>0, <2>2
  <2> QED
    BY <1>2, <2>2, <2>3, <2>4, <2>5
<1>4. \A i \in 1..r : i \in 1..m /\ GroupRanked[i] \in 1..m
  <2> SUFFICES ASSUME NEW i \in 1..r PROVE i \in 1..m /\ GroupRanked[i] \in 1..m
    OBVIOUS
  <2>1. i \in 1..m
    BY <1>0, <1>3
  <2> QED
    BY <1>1, <2>1
<1> DEFINE c == [j \in D |-> CHOOSE k \in 1..m : GroupKeys[GroupRanked[k]] = GroupKey(log[j])]
           f == [i \in 1..r |-> Top[i].count]
<1>5. \A j \in D : c[j] \in 1..m /\ GroupKeys[GroupRanked[c[j]]] = GroupKey(log[j])
  <2> SUFFICES ASSUME NEW j \in D
               PROVE  \E k \in 1..m : GroupKeys[GroupRanked[k]] = GroupKey(log[j])
    OBVIOUS
  <2>1. GroupKey(log[j]) \in Keys
    BY DEF Keys
  <2>2. PICK n \in 1..m : GroupKeys[n] = GroupKey(log[j])
    BY <2>1, GroupKeysAre
  <2> QED
    BY <1>1, <2>2
<1> HIDE DEF c
<1>6. \A k \in 1..m, j \in D : GroupKey(log[j]) = GroupKeys[GroupRanked[k]] <=> c[j] = k
  <2> SUFFICES ASSUME NEW k \in 1..m, NEW j \in D, GroupKey(log[j]) = GroupKeys[GroupRanked[k]]
               PROVE  c[j] = k
    BY <1>5
  <2>1. /\ c[j] \in 1..m /\ GroupRanked[c[j]] \in 1..m /\ GroupRanked[k] \in 1..m
        /\ GroupKeys[GroupRanked[c[j]]] = GroupKeys[GroupRanked[k]]
    BY <1>1, <1>5
  <2>2. GroupRanked[c[j]] = GroupRanked[k]
    BY <2>1, GroupKeysAre
  <2> QED
    BY <1>1, <2>1, <2>2
<1>7. ASSUME NEW i \in 1..r
      PROVE  Top[i].count = Cardinality({j \in D : c[j] = i})
  <2>1. InGroup(GroupKeys[GroupRanked[i]]) = {j \in D : c[j] = i}
    BY <1>4, <1>6 DEF InGroup
  <2>2. GroupKeys[GroupRanked[i]] \in Keys /\ Top[i] = Group(GroupKeys[GroupRanked[i]])
    BY <1>0, <1>3, <1>4 DEF GroupAt
  <2> QED
    BY <2>1, <2>2, GroupIs
<1>8. SumFunction(f) = Cardinality({j \in D : c[j] \in 1..r})
  <2> DEFINE I == 1..r
  <2> HIDE DEF I
  <2>1. f = [i \in I |-> Cardinality({j \in D : c[j] = i})]
    BY <1>7 DEF I
  <2>2. IsFiniteSet(I) /\ IsFiniteSet(D)
    BY <1>0, <1>3, FS_Interval, LogFinite DEF I
  <2> HIDE DEF f, D
  <2>3. SumFunction(f) = Cardinality({j \in D : c[j] \in I})
    BY <2>1, <2>2, SumOfClasses
  <2> QED
    BY <2>3 DEF I
<1>9. SumFunction(f) <= Len(log)
  <2>1. {j \in D : c[j] \in 1..r} \in SUBSET D
    OBVIOUS
  <2>2. IsFiniteSet(D) /\ Cardinality(D) = Len(log)
    BY LogFinite
  <2> HIDE DEF D
  <2> QED
    BY <1>8, <2>1, <2>2, FS_Subset
<1>10. ASSUME r < TopLimit
       PROVE  SumFunction(f) = Len(log)
  <2>1. {j \in D : c[j] \in 1..r} = D
    BY <1>3, <1>5, <1>10
  <2> QED
    BY <1>8, <2>1, LogFinite
<1>11. ASSUME NEW i \in 1..r
       PROVE  Top[i].average <= Top[i].longest
  <2>1. GroupKeys[GroupRanked[i]] \in Keys /\ Top[i] = Group(GroupKeys[GroupRanked[i]])
    BY <1>0, <1>3, <1>4 DEF GroupAt
  <2> QED
    BY <2>1, GroupIs
<1>12. ASSUME NEW n \in 1..m, NEW i \in 1..r, Group(GroupKeys[n]).count > Top[i].count
       PROVE  \E j \in 1..i : Top[j] = Group(GroupKeys[n])
  <2>1. PICK k \in 1..m : GroupRanked[k] = n
    BY <1>1
  <2>2. /\ Top[i] = GroupAt(GroupRanked[i]) /\ i \in 1..m /\ GroupRanked[i] \in 1..m
        /\ Group(GroupKeys[n]) = GroupAt(n)
    BY <1>3, <1>4 DEF GroupAt
  <2>3. GroupAt(n).count \in Nat /\ GroupAt(GroupRanked[i]).count \in Nat
    BY <1>0, <2>2, GroupIs DEF GroupAt
  <2>4. GroupLess(GroupAt(n), GroupAt(GroupRanked[i]))
    BY <1>12, <2>2, <2>3 DEF GroupLess
  <2>5. n \in GroupsBefore[GroupRanked[i]]
    BY <2>2, <2>4 DEF GroupsBefore
  <2>6. k < i
    BY <1>1, <2>1, <2>2, <2>5
  <2>7. k \in 1..i /\ k \in 1..r
    BY <1>0, <1>3, <2>2, <2>6
  <2>8. Top[k] = Group(GroupKeys[n])
    BY <1>3, <2>1, <2>2, <2>7
  <2> QED
    BY <2>7, <2>8
<1> HIDE DEF f
<1>13. SumFunction([i \in DOMAIN Top |-> Top[i].count]) = SumFunction(f)
  BY <1>3 DEF f
<1> QED
  BY <1>0, <1>3, <1>9, <1>10, <1>11, <1>12, <1>13

LEMMA StatisticsShown ==
  ASSUME LogInv
  PROVE  StatisticsAgree
<1> DEFINE orders == SetToSeqs(SeenHosts)
           stats == HostStats(CHOOSE order \in orders : TRUE)
<1>1. \A order \in orders : HostStats(order) = HostTable
  BY HostStatsIs DEF HostTable
<1>2. stats = HostTable
  BY <1>1, HostAtIs
<1> HIDE DEF stats
<1>3. \A order \in orders : HostStats(order) = stats
  BY <1>1, <1>2
<1>4. /\ \A i \in DOMAIN stats :
           /\ stats[i].traces = Len(Filter(log, OnHost(stats[i].host, "all")))
           /\ stats[i].errors = Len(Filter(log, OnHost(stats[i].host, "error")))
           /\ stats[i].routes <= stats[i].traces
      /\ SumFunction([i \in DOMAIN stats |-> stats[i].traces]) = Len(log)
  BY <1>2, HostsAgree
<1> QED
  BY <1>3, <1>4, GroupsAgree, Zenon DEF StatisticsAgree, stats, OnHost

(* Over any loads, with traces starting, finishing, being saved or lost,   *)
(* and Resets, while the reader browses and the stream redraws: a list     *)
(* shows the traces that pass the filters asked for, in order and as many  *)
(* as fit; the feed is the newest of what the two halves of its snapshot   *)
(* hold, with a trace twice only when it is in both, and for the host it   *)
(* is drawn for; and the host table, the groups and the list agree         *)
(* (handler.go:143-210, 328-345, page.go:16-341, stats.go:12-193).         *)
THEOREM ListsAgree == ListingSpec => []ListHolds
<1> DEFINE Inv == PageInv /\ LogInv
<1>1. ListingInit => Inv
  BY NewPageIsPage, LogInit DEF ListingInit, PageInv, FiltersKept
<1>2. Inv /\ [ListingNext]_listingVars => Inv'
  BY PageStep, LogStep
<1>3. Inv => ListHolds
  <2> SUFFICES ASSUME PageInv, LogInv PROVE ListHolds
    OBVIOUS
  <2>1. FiltersKept /\ IsPage(page)
    BY DEF PageInv
  <2> QED
    BY <2>1, ListShows, FeedShows, StatisticsShown DEF ListHolds
<1> QED
  BY <1>1, <1>2, <1>3, PTL DEF ListingSpec
-----------------------------------------------------------------------------
(* Numbers, in any widths.                                                 *)
LEMMA Widths ==
  /\ 2^Width \in Nat /\ 2^(Width - 1) \in Nat /\ 2^Narrow \in Nat /\ Unit \in Nat
  /\ 2^Width > 0 /\ 2^(Width - 1) > 0 /\ 2^Narrow > 0 /\ Unit > 0
  /\ 2^Width = 2 * 2^(Width - 1) /\ 2^Narrow <= 2^(Width - 1)
  /\ MaxUint = 2^Width - 1 /\ MaxInt = 2^(Width - 1) - 1 /\ MinInt = -(2^(Width - 1))
BY PowersAssumption DEF MaxUint, MaxInt, MinInt

LEMMA Remainder ==
  ASSUME NEW m \in Nat \ {0}, NEW n \in Int
  PROVE  /\ n % m \in 0..(m - 1)
         /\ n \in 0..(m - 1) => n % m = n
OBVIOUS

LEMMA Quotient ==
  ASSUME NEW n \in Nat, NEW d \in Nat \ {0}
  PROVE  /\ n \div d \in Nat
         /\ (n \div d) * d <= n
         /\ n < (n \div d + 1) * d
OBVIOUS

LEMMA UintIs ==
  ASSUME NEW n \in Int
  PROVE  /\ Uint(n) \in 0..MaxUint
         /\ n \in 0..MaxUint => Uint(n) = n
<1> DEFINE m == 2^Width
<1>1. m \in Nat \ {0} /\ MaxUint = m - 1
  BY Widths
<1>2. Uint(n) = n % m
  BY DEF Uint
<1> HIDE DEF m
<1> QED
  BY <1>1, <1>2, Remainder

LEMMA SignedIs ==
  ASSUME NEW n \in MinInt..MaxInt
  PROVE  Signed(n) = n
<1> DEFINE m == 2^Width
           h == 2^(Width - 1)
<1>1. /\ m \in Nat /\ h \in Nat /\ h > 0 /\ m = 2 * h
      /\ MaxInt = h - 1 /\ MinInt = -h /\ MaxUint = m - 1
  BY Widths
<1>2. n \in Int /\ Signed(n) = IF Uint(n) > MaxInt THEN Uint(n) - m ELSE Uint(n)
  BY <1>1 DEF Signed
<1>3. Uint(n) = n % m
  BY DEF Uint
<1> HIDE DEF m, h
<1>4. CASE n >= 0
  BY <1>1, <1>2, <1>4, UintIs
<1>5. CASE n < 0
  <2>1. n % m = n + m
    BY <1>1, <1>2, <1>5
  <2> QED
    BY <1>1, <1>2, <1>3, <1>5, <2>1
<1> QED
  BY <1>2, <1>4, <1>5

LEMMA ReadAs ==
  ASSUME NEW v
  PROVE  /\ Int64("signed", v) = [n |-> v, ok |-> TRUE]
         /\ Int64("narrow", v) = [n |-> Signed(v), ok |-> TRUE]
         /\ Int64("unsigned", v) = [n |-> ClampUint(v), ok |-> TRUE]
         /\ Int64("float", v) = [n |-> ClampFloat(v), ok |-> TRUE]
         /\ Int64("decimal", v) = [n |-> Nearest(v), ok |-> v \in MinInt..MaxInt]
BY DEF Int64, Nearest

LEMMA AttributeIsRead ==
  ASSUME NEW q \in QuestionType, q.what = "attribute"
  PROVE  AttributeReads(q)
<1>0. MaxInt \in Int /\ MinInt \in Int /\ MinInt < 0 /\ 0 <= MaxInt /\ NaN \notin Int
  BY Widths, NumbersAssumption
<1>1. \A n \in MinInt..MaxInt : n # NaN /\ Nearest(n) = n
  BY <1>0 DEF Nearest
<1>2. CASE q.type = "signed"
  <2>1. q.n \in MinInt..MaxInt
    BY <1>2 DEF QuestionType
  <2>2. Int64(q.type, q.n) = [n |-> q.n, ok |-> TRUE]
    BY <1>2, ReadAs
  <2> QED
    BY <1>1, <1>2, <2>1, <2>2 DEF AttributeReads
<1>3. CASE q.type = "narrow"
  <2>1. q.n \in 0..(2^Narrow - 1)
    BY <1>3 DEF QuestionType
  <2>2. q.n \in MinInt..MaxInt
    BY <2>1, Widths
  <2>3. Int64(q.type, q.n) = [n |-> Signed(q.n), ok |-> TRUE]
    BY <1>3, ReadAs
  <2> QED
    BY <1>1, <1>3, <2>2, <2>3, SignedIs DEF AttributeReads
<1>4. CASE q.type = "unsigned"
  <2>1. q.n \in Nat
    BY <1>4, Widths DEF QuestionType
  <2>2. q.n \in MinInt..MaxInt => Signed(q.n) = q.n
    BY SignedIs
  <2>3. q.n # NaN /\ ClampUint(q.n) = Nearest(q.n)
    BY <1>0, <2>1, <2>2 DEF ClampUint, Nearest
  <2>4. Int64(q.type, q.n) = [n |-> ClampUint(q.n), ok |-> TRUE]
    BY <1>4, ReadAs
  <2> QED
    BY <1>4, <2>3, <2>4 DEF AttributeReads
<1>5. CASE q.type = "float"
  <2>1. q.n \in Int \cup {NaN}
    BY <1>5 DEF QuestionType
  <2>2. q.n \in MinInt..MaxInt => Signed(q.n) = q.n
    BY SignedIs
  <2>3. ClampFloat(q.n) = IF q.n = NaN THEN 0 ELSE Nearest(q.n)
    <3>1. CASE q.n = NaN
      BY <3>1 DEF ClampFloat
    <3>2. CASE q.n \in Int
      <4>1. q.n # NaN
        BY <1>0, <3>2
      <4> QED
        BY <1>0, <2>2, <3>2, <4>1 DEF ClampFloat, Nearest
    <3> QED
      BY <2>1, <3>1, <3>2
  <2>4. Int64(q.type, q.n) = [n |-> ClampFloat(q.n), ok |-> TRUE]
    BY <1>5, ReadAs
  <2> QED
    BY <1>5, <2>3, <2>4 DEF AttributeReads
<1>6. CASE q.type = "decimal"
  <2>1. q.n \in Int
    BY <1>6 DEF QuestionType
  <2>2. q.n \in MinInt..MaxInt <=> q.n = Nearest(q.n)
    BY <1>0, <2>1 DEF Nearest
  <2> DEFINE read == Int64(q.type, q.n)
             fits == q.n \in MinInt..MaxInt
  <2>3. read = [n |-> Nearest(q.n), ok |-> fits]
    BY <1>6, ReadAs
  <2>4. fits \in BOOLEAN /\ fits = (q.n = Nearest(q.n))
    BY <2>2
  <2> HIDE DEF fits, read
  <2>5. read.n = Nearest(q.n) /\ read.ok = fits
    BY <2>3
  <2>6. read.ok = (q.n = Nearest(q.n)) /\ (read.ok => read.n = q.n)
    BY <2>4, <2>5
  <2>7. q.type \notin {"signed", "narrow", "unsigned", "float"}
    BY <1>6
  <2> QED
    BY <2>6, <2>7 DEF AttributeReads, read
<1>7. CASE q.type \notin {"signed", "narrow", "unsigned", "float", "decimal"}
  BY <1>7 DEF AttributeReads
<1> QED
  BY <1>2, <1>3, <1>4, <1>5, <1>6, <1>7

LEMMA DeltaIsRead ==
  ASSUME NEW q \in QuestionType, q.what = "delta"
  PROVE  DeltaIsNearest(q)
<1> DEFINE a == q.after
           b == q.before
           use == MemoryUse(a, b)
<1>1. a \in 0..MaxUint /\ b \in 0..MaxUint
  BY DEF QuestionType
<1>2. /\ MaxUint \in Nat /\ MaxInt \in Nat /\ MinInt = -MaxInt - 1
      /\ MaxUint = 2 * MaxInt + 1
      /\ 2^Narrow \in Nat \ {0}
  BY Widths
<1>3. /\ use.heap = SignedDelta(a, b) /\ use.allocated = Delta(a, b)
      /\ use.cycles = Delta(a, b) % 2^Narrow /\ use.pause = Signed(Delta(a, b))
  BY DEF MemoryUse
<1> HIDE DEF a, b, use
<1>4. use.heap = Nearest(a - b)
  BY <1>1, <1>2, <1>3 DEF SignedDelta, Nearest
<1>5. Delta(a, b) = IF a < b THEN 0 ELSE a - b
  <2>1. a >= b => Uint(a - b) = a - b
    BY <1>1, <1>2, UintIs
  <2> QED
    BY <1>1, <1>2, <2>1 DEF Delta
<1>6. a - b \in 0..(2^Narrow - 1) => use.cycles = use.allocated
  <2> SUFFICES ASSUME a - b \in 0..(2^Narrow - 1) PROVE use.cycles = use.allocated
    OBVIOUS
  <2> DEFINE m == 2^Narrow
             d == Delta(a, b)
  <2>1. m \in Nat \ {0} /\ d \in 0..(m - 1)
    BY <1>1, <1>2, <1>5
  <2>2. use.cycles = d % m /\ use.allocated = d
    BY <1>3
  <2> HIDE DEF m, d
  <2>3. m \in Nat \ {0} /\ d \in Int
    BY <2>1
  <2>4. d % m = d
    BY <2>1, <2>3, Remainder
  <2> QED
    BY <2>2, <2>4
<1>7. a - b <= MaxInt => use.pause >= 0
  <2>1. a - b <= MaxInt => Delta(a, b) \in 0..MaxInt
    BY <1>1, <1>2, <1>5
  <2> QED
    BY <1>2, <1>3, <2>1, SignedIs
<1>8. a < b => use.pause = 0
  BY <1>1, <1>2, <1>3, <1>5, SignedIs
<1> QED
  BY <1>1, <1>2, <1>3, <1>4, <1>5, <1>6, <1>7, <1>8 DEF DeltaIsNearest, a, b, use

LEMMA EstimateIsRead ==
  ASSUME NEW q \in QuestionType, q.what = "pool"
  PROVE  EstimateFits(q)
<1> DEFINE pool == PoolEstimate(q.samples, q.allocated, q.from, q.to)
           left == IF q.to > q.from THEN q.to - q.from ELSE 0
           average == IF q.samples > 0 THEN q.allocated \div q.samples ELSE 0
<1>1. q.samples \in Nat /\ q.allocated \in Nat /\ q.to \in 0..MaxUint /\ q.from \in 0..MaxUint
  BY Widths DEF QuestionType
<1>2. average \in Nat
  BY <1>1, Quotient
<1>3. left \in 0..MaxUint /\ (q.to > q.from => Uint(q.to - q.from) = left)
  BY <1>1, Widths, UintIs
<1>4. /\ pool.average = average
      /\ pool.fits = IF average > 0 /\ q.to > q.from
                     THEN Uint(q.to - q.from) \div average ELSE 0
  BY DEF PoolEstimate
<1> HIDE DEF pool, average
<1>5. ASSUME average > 0
      PROVE  pool.fits * average <= left /\ left < (pool.fits + 1) * average
  <2>1. CASE q.to > q.from
    <3>1. pool.fits = left \div average /\ left \in Nat
      BY <1>3, <1>4, <1>5, <2>1, Widths
    <3> HIDE DEF left
    <3> QED
      BY <1>2, <1>5, <3>1, Quotient
  <2>2. CASE ~(q.to > q.from)
    <3>1. pool.fits = 0 /\ left = 0
      BY <1>4, <2>2
    <3> HIDE DEF left
    <3> QED
      BY <1>2, <1>5, <3>1
  <2> QED
    BY <2>1, <2>2
<1> QED
  BY <1>4, <1>5 DEF EstimateFits, pool

LEMMA LimitIsRead ==
  ASSUME NEW q \in QuestionType, q.what = "limit"
  PROVE  LimitIsSmallest(q)
<1> DEFINE known == KnownLimits(q.runtime, q.groups, q.machine)
           least == MemoryLimit(q.runtime, q.groups, q.machine)
<1>1. q.runtime \in Nat /\ q.groups \subseteq Nat /\ q.machine \subseteq Nat
  BY Widths DEF QuestionType
<1>2. \A k \in q.machine : k * Unit \in Nat /\ Uint(k * Unit) \in Nat
  <2> TAKE k \in q.machine
  <2>1. k * Unit \in Nat
    BY <1>1, Widths
  <2> QED
    BY <2>1, UintIs, Widths
<1>3. known = {l \in {q.runtime} : l > 0 /\ l # MaxInt} \cup {l \in q.groups : l > 0}
                \cup {Uint(k * Unit) : k \in q.machine}
  BY DEF KnownLimits, Unit
<1>4. least = IF known = {} THEN 0 ELSE CHOOSE l \in known : \A m \in known : l <= m
  BY DEF MemoryLimit
<1>5. \A k \in q.machine : k * Unit <= MaxUint => Uint(k * Unit) = k * Unit
  BY <1>2, UintIs, Widths
<1> HIDE DEF known, least
<1>6. known \subseteq Nat
  BY <1>1, <1>2, <1>3
<1>7. known # {} => least \in known /\ \A m \in known : least <= m
  <2> SUFFICES ASSUME known # {} PROVE \E l \in known : \A m \in known : l <= m
    BY <1>4
  <2> QED
    BY <1>6, LeastNumber
<1>8. \A l \in known : least <= l
  BY <1>7
<1>9. least > 0 => least \in known
  BY <1>4, <1>7
<1>10. /\ \A l \in q.groups : l > 0 => l \in known
       /\ q.runtime > 0 /\ q.runtime < MaxInt => q.runtime \in known
       /\ \A k \in q.machine : Uint(k * Unit) \in known
  BY <1>1, <1>3, Widths
<1> QED
  BY <1>5, <1>8, <1>9, <1>10 DEF LimitIsSmallest, known, least

(* Sizes. Scale climbs from unit to unit; g is what it comes to from each  *)
(* number up to m.                                                         *)
Up(v) == v \div Unit

IsClimb(g, m) ==
  g = [v \in 0..m |->
         IF v >= Unit THEN [div |-> g[v \div Unit].div * Unit,
                            exp |-> g[v \div Unit].exp + 1]
         ELSE [div |-> Unit, exp |-> 0]]

LEMMA UpIs ==
  ASSUME NEW v \in Nat
  PROVE  /\ Up(v) \in Nat
         /\ Up(v) * Unit <= v
         /\ v < Up(v) * Unit + Unit
         /\ v >= Unit => Up(v) < v /\ Up(v) >= 1
<1> DEFINE u == Unit
           x == v \div u
<1>1. u \in Nat /\ u > 1
  BY PowersAssumption
<1> HIDE DEF u
<1>2. x \in Nat /\ x * u <= v /\ v < (x + 1) * u
  BY <1>1, Quotient
<1> HIDE DEF x
<1>3. (x + 1) * u = x * u + u
  BY <1>1, <1>2
<1>4. v >= u => x >= 1
  <2> SUFFICES ASSUME v >= u, x = 0 PROVE FALSE
    BY <1>2
  <2>1. x * u = 0
    BY <1>1
  <2> QED
    BY <1>1, <1>2, <1>3, <2>1
<1>5. x >= 1 => x < x * u
  BY <1>1, <1>2
<1>6. v >= u => x < v
  BY <1>1, <1>2, <1>4, <1>5
<1> QED
  BY <1>2, <1>3, <1>4, <1>6 DEF Up, x, u

LEMMA ClimbExists ==
  ASSUME NEW m \in Nat
  PROVE  \E g : IsClimb(g, m)
<1> DEFINE Good == {n \in 0..m : \E g : IsClimb(g, n)}
<1>0. Unit \in Nat /\ Unit > 1
  BY PowersAssumption
<1>1. 0 \in Good
  <2> DEFINE g == [v \in 0..0 |-> [div |-> Unit, exp |-> 0]]
  <2>1. \A v \in 0..0 : ~(v >= Unit)
    BY <1>0
  <2>2. IsClimb(g, 0)
    BY <2>1 DEF IsClimb
  <2> QED
    BY <2>2
<1>2. ASSUME NEW n \in 0..(m - 1), n \in Good
      PROVE  n + 1 \in Good
  <2>1. PICK g : IsClimb(g, n)
    BY <1>2
  <2> DEFINE step(f, v) == IF v >= Unit THEN [div |-> f[Up(v)].div * Unit,
                                              exp |-> f[Up(v)].exp + 1]
                           ELSE [div |-> Unit, exp |-> 0]
             h == [v \in 0..(n + 1) |-> IF v = n + 1 THEN step(g, v) ELSE g[v]]
  <2>2. \A v \in 0..n : g[v] = step(g, v)
    BY <2>1 DEF IsClimb, Up
  <2>3. ASSUME NEW v \in 0..(n + 1)
        PROVE  h[v] = step(h, v)
    <3>1. h[v] = step(g, v)
      <4>1. v # n + 1 => v \in 0..n
        OBVIOUS
      <4> HIDE DEF step
      <4> QED
        BY <2>2, <4>1
    <3>2. v >= Unit => h[Up(v)] = g[Up(v)]
      <4> SUFFICES ASSUME v >= Unit PROVE h[Up(v)] = g[Up(v)]
        OBVIOUS
      <4>1. Up(v) \in 0..(n + 1) /\ Up(v) # n + 1
        BY UpIs
      <4> HIDE DEF step
      <4> QED
        BY <4>1
    <3> HIDE DEF h
    <3> QED
      BY <3>1, <3>2
  <2>4. h = [v \in 0..(n + 1) |-> h[v]]
    OBVIOUS
  <2>5. h = [v \in 0..(n + 1) |-> step(h, v)]
    <3> HIDE DEF h, step
    <3> QED
      BY <2>3, <2>4
  <2>6. IsClimb(h, n + 1)
    <3> HIDE DEF h
    <3> QED
      BY <2>5 DEF IsClimb, Up
  <2>7. n + 1 \in 0..m
    OBVIOUS
  <2> QED
    BY <2>6, <2>7
<1> HIDE DEF Good
<1>3. \A n \in 0..m : n \in Good
  BY <1>1, <1>2, UpTo
<1>4. m \in Good
  BY <1>3
<1> QED
  BY <1>4 DEF Good

(* What Scale comes to from v below the k-th power: as many units up as v  *)
(* fills, and no more than k.                                              *)
Reached(c, v, k) ==
  /\ c.exp \in 0..k
  /\ c.div = Unit^(c.exp + 1)
  /\ v < c.div
  /\ v >= 1 => Unit^(c.exp) <= v

LEMMA PowerIs ==
  ASSUME NEW k \in 0..Letters
  PROVE  Unit^k \in Nat \ {0} /\ Unit^(k + 1) = Unit^k * Unit /\ Unit^(k + 1) \in Nat \ {0}
<1> DEFINE u == Unit
           p == Unit^k
           s == Unit^(k + 1)
<1>1. u \in Nat \ {0} /\ p \in Nat \ {0} /\ s = u * p
  BY PowersAssumption
<1> HIDE DEF u, p, s
<1>2. s = p * u /\ s \in Nat \ {0}
  BY <1>1
<1> QED
  BY <1>1, <1>2 DEF u, p, s

LEMMA LettersNat == Letters \in Nat
<1>1. Width - 1 \in Nat /\ UnitBits \in Nat \ {0}
  BY NumbersAssumption
<1> QED
  BY <1>1, Quotient DEF Letters

LEMMA ClimbIs ==
  ASSUME NEW m \in Nat, NEW g, IsClimb(g, m)
  PROVE  \A v \in 0..m : \A k \in 0..(Letters - 1) :
            v < Unit^(k + 1) => Reached(g[v], v, k)
<1> DEFINE Holds(v) == \A k \in 0..(Letters - 1) : v < Unit^(k + 1) => Reached(g[v], v, k)
           Bad == {v \in 0..m : ~Holds(v)}
<1> SUFFICES ASSUME Bad # {} PROVE FALSE
  OBVIOUS
<1>1. PICK v \in Bad : \A w \in Bad : v <= w
  <2>1. Bad \in SUBSET Nat
    OBVIOUS
  <2> HIDE DEF Bad
  <2> QED
    BY <2>1, LeastNumber
<1>2. v \in 0..m /\ v \in Nat /\ ~Holds(v)
  BY <1>1
<1>3. \A w \in 0..m : w < v => Holds(w)
  BY <1>1
<1> HIDE DEF Bad
<1>4. PICK k \in 0..(Letters - 1) : v < Unit^(k + 1) /\ ~Reached(g[v], v, k)
  BY <1>2
<1>5. Unit \in Nat /\ Unit > 1 /\ Unit^0 = 1
  BY PowersAssumption
<1>6. g[v] = IF v >= Unit THEN [div |-> g[Up(v)].div * Unit, exp |-> g[Up(v)].exp + 1]
             ELSE [div |-> Unit, exp |-> 0]
  BY <1>2 DEF IsClimb, Up
<1>7. Letters \in Nat /\ k \in Nat /\ k \in 0..Letters /\ k <= Letters - 1
  BY LettersNat
<1>8. CASE v < Unit
  <2>1. g[v].div = Unit /\ g[v].exp = 0
    BY <1>2, <1>5, <1>6, <1>8
  <2>2. Unit^(0 + 1) = Unit
    <3>1. 0 \in 0..Letters
      BY <1>7
    <3>2. Unit^(0 + 1) = Unit * Unit^0
      BY <3>1, PowersAssumption
    <3>3. Unit * 1 = Unit
      BY <1>5
    <3> QED
      BY <1>5, <3>2, <3>3
  <2>3. Reached(g[v], v, k)
    BY <1>5, <1>7, <1>8, <2>1, <2>2 DEF Reached
  <2> QED
    BY <1>4, <2>3
<1>9. CASE v >= Unit
  <2> DEFINE w == Up(v)
             c == g[w]
  <2>1. w \in 0..m /\ w \in Nat /\ w < v /\ w >= 1 /\ w * Unit <= v /\ v < w * Unit + Unit
    BY <1>2, <1>9, UpIs
  <2>2. g[v] = [div |-> c.div * Unit, exp |-> c.exp + 1]
    BY <1>6, <1>9
  <2> HIDE DEF w, c
  <2>3. Holds(w)
    BY <1>3, <2>1
  <2>4. k # 0
    <3> SUFFICES ASSUME k = 0 PROVE FALSE
      OBVIOUS
    <3>1. 0 \in 0..Letters
      BY <1>7
    <3>2. Unit^(0 + 1) = Unit * Unit^0
      BY <3>1, PowersAssumption
    <3>3. Unit * 1 = Unit
      BY <1>5
    <3> QED
      BY <1>2, <1>4, <1>5, <1>9, <3>2, <3>3
  <2>5. k - 1 \in 0..(Letters - 1) /\ (k - 1) + 1 = k
    BY <1>7, <2>4
  <2>6. w < Unit^k
    <3> DEFINE p == Unit^k
               u == Unit
    <3>1. p \in Nat \ {0} /\ Unit^(k + 1) = p * u
      BY <1>7, PowerIs
    <3>2. v < p * u
      BY <1>4, <3>1
    <3>3. w * u <= v /\ u \in Nat /\ u > 1
      BY <1>5, <2>1
    <3> HIDE DEF p, u
    <3>4. w * u < p * u
      BY <1>2, <2>1, <3>1, <3>2, <3>3
    <3>5. w < p
      <4> SUFFICES ASSUME w >= p PROVE FALSE
        BY <2>1, <3>1
      <4>1. w * u >= p * u
        BY <2>1, <3>1, <3>3
      <4> QED
        BY <2>1, <3>1, <3>3, <3>4, <4>1
    <3> QED
      BY <3>5 DEF p
  <2>7. Reached(c, w, k - 1)
    BY <2>3, <2>5, <2>6 DEF c
  <2> DEFINE e == c.exp
             d == Unit^(e + 1)
             q == Unit^e
  <2>8. e \in 0..(k - 1) /\ c.div = d /\ w < d /\ q <= w
    BY <2>1, <2>7 DEF Reached
  <2>9. e \in 0..Letters /\ e + 1 \in 0..Letters
    BY <1>7, <2>8
  <2> HIDE DEF e
  <2>10. /\ q \in Nat /\ d = q * Unit /\ d \in Nat /\ Unit^((e + 1) + 1) = d * Unit
    BY <2>9, PowerIs
  <2>11. g[v].exp = e + 1 /\ g[v].div = d * Unit
    BY <2>2, <2>8 DEF e
  <2> HIDE DEF d, q
  <2>12. v < d * Unit
    <3>1. w + 1 <= d
      BY <2>1, <2>8, <2>10
    <3>2. (w + 1) * Unit <= d * Unit
      BY <1>5, <2>1, <2>10, <3>1
    <3>3. (w + 1) * Unit = w * Unit + Unit
      BY <1>5, <2>1
    <3> QED
      BY <1>2, <1>5, <2>1, <2>10, <3>2, <3>3
  <2>13. d <= v
    <3>1. q * Unit <= w * Unit
      BY <1>5, <2>1, <2>8, <2>10
    <3> QED
      BY <1>2, <1>5, <2>1, <2>10, <3>1
  <2>14. Unit^(e + 1) <= v /\ Unit^((e + 1) + 1) = d * Unit
    BY <2>10, <2>13 DEF d
  <2>15. e + 1 \in 0..k
    BY <1>7, <2>8
  <2>16. Reached(g[v], v, k)
    BY <2>11, <2>12, <2>14, <2>15 DEF Reached
  <2> QED
    BY <1>4, <2>16
<1> QED
  BY <1>2, <1>5, <1>8, <1>9

LEMMA MagnitudeIs ==
  ASSUME NEW n \in MinInt..MaxInt
  PROVE  /\ Magnitude(n) = IF n < 0 THEN -n ELSE n
         /\ Magnitude(n) \in 0..MaxUint
         /\ Magnitude(n) <= 2^(Width - 1)
<1> DEFINE h == 2^(Width - 1)
<1>1. /\ h \in Nat /\ h > 0 /\ MaxInt = h - 1 /\ MinInt = -h /\ MaxUint = 2 * h - 1
      /\ n \in Int
  BY Widths
<1>2. Magnitude(n) = IF n < 0 THEN (IF n = MinInt THEN h ELSE Uint(Signed(-n))) ELSE Uint(n)
  BY DEF Magnitude
<1> HIDE DEF h
<1>3. CASE n < 0 /\ n # MinInt
  <2>1. -n \in MinInt..MaxInt /\ -n \in 0..MaxUint /\ -n \in Int
    BY <1>1, <1>3
  <2>2. Signed(-n) = -n
    BY <2>1, SignedIs
  <2>3. Uint(-n) = -n
    BY <2>1, UintIs
  <2> QED
    BY <1>1, <1>2, <1>3, <2>1, <2>2, <2>3 DEF h
<1>4. CASE n < 0 /\ n = MinInt
  BY <1>1, <1>2, <1>4 DEF h
<1>5. CASE n >= 0
  <2>1. Uint(n) = n
    BY <1>1, <1>5, UintIs
  <2> QED
    BY <1>1, <1>2, <1>5, <2>1 DEF h
<1> QED
  BY <1>1, <1>3, <1>4, <1>5

LEMMA ScaleIs ==
  ASSUME NEW n \in 0..MaxUint, n <= 2^(Width - 1)
  PROVE  LET scale == Scale(n) IN
         /\ scale.exp < Letters
         /\ n < Unit * scale.div
         /\ n >= Unit => scale.div <= n /\ scale.div = Unit^(scale.exp + 1)
<1>0. /\ Unit \in Nat /\ Unit > 1 /\ Unit^0 = 1 /\ Letters \in Nat
      /\ n \in Nat /\ MaxUint \in Nat /\ n < Unit^(Letters + 1)
  <2>1. n < Unit^(Letters + 1)
    <3> DEFINE h == 2^(Width - 1)
               p == Unit^(Letters + 1)
    <3>1. h < p /\ h \in Nat
      BY PowersAssumption
    <3>2. Letters \in 0..Letters
      BY LettersNat
    <3>3. p \in Nat
      BY <3>2, PowerIs
    <3>4. n <= h /\ n \in Nat
      BY Widths
    <3> HIDE DEF h, p
    <3>5. n < p
      BY <3>1, <3>3, <3>4
    <3> QED
      BY <3>5 DEF p
  <2> QED
    BY <2>1, PowersAssumption, LettersNat, Widths
<1> DEFINE g == CHOOSE h : IsClimb(h, MaxUint)
           v == Up(n)
<1>1. IsClimb(g, MaxUint)
  BY <1>0, ClimbExists
<1>2. Scale(n) = IF n < Unit THEN [div |-> 1, exp |-> -1]
                 ELSE [div |-> Uint(g[v].div), exp |-> g[v].exp]
  BY DEF Scale, IsClimb, Up
<1> HIDE DEF g, v
<1>3. CASE n < Unit
  BY <1>0, <1>2, <1>3
<1>4. CASE n >= Unit
  <2>1. /\ v \in 0..MaxUint /\ v \in Nat /\ v >= 1
        /\ v * Unit <= n /\ n < v * Unit + Unit
    BY <1>0, <1>4, UpIs DEF v
  <2>2. v < Unit^Letters /\ Letters # 0
    <3> DEFINE p == Unit^Letters
               u == Unit
    <3>1. p \in Nat \ {0} /\ Unit^(Letters + 1) = p * u
      BY <1>0, PowerIs
    <3>2. n < p * u
      BY <1>0, <3>1
    <3>3. v * u <= n /\ u \in Nat /\ u > 1
      BY <1>0, <2>1
    <3> HIDE DEF p, u
    <3>4. v < p
      <4> SUFFICES ASSUME v >= p PROVE FALSE
        BY <2>1, <3>1
      <4>1. v * u >= p * u
        BY <2>1, <3>1, <3>3
      <4> QED
        BY <1>0, <2>1, <3>1, <3>2, <3>3, <4>1
    <3>5. Letters # 0
      <4> SUFFICES ASSUME Letters = 0 PROVE FALSE
        OBVIOUS
      <4>1. p = 1
        BY <1>0 DEF p
      <4> QED
        BY <2>1, <3>4, <4>1
    <3> QED
      BY <3>4, <3>5 DEF p
  <2> DEFINE k == Letters - 1
             c == g[v]
             e == c.exp
             d == Unit^(e + 1)
             q == Unit^e
  <2>3. k \in 0..(Letters - 1) /\ k + 1 = Letters
    BY <1>0, <2>2
  <2>4. Reached(c, v, k)
    BY <1>0, <1>1, <2>1, <2>2, <2>3, ClimbIs
  <2>5. e \in 0..k /\ c.div = d /\ v < d /\ q <= v
    BY <2>1, <2>4 DEF Reached
  <2>6. e \in 0..Letters /\ e < Letters
    BY <1>0, <2>3, <2>5
  <2> HIDE DEF e
  <2>7. q \in Nat /\ d = q * Unit /\ d \in Nat
    BY <2>6, PowerIs
  <2> HIDE DEF d, q, c
  <2>8. d <= n
    <3>1. q * Unit <= v * Unit
      BY <1>0, <2>1, <2>5, <2>7
    <3> QED
      BY <1>0, <2>1, <2>7, <3>1
  <2>9. n < Unit * d
    <3>1. v + 1 <= d
      BY <2>1, <2>5, <2>7
    <3>2. (v + 1) * Unit <= d * Unit
      BY <1>0, <2>1, <2>7, <3>1
    <3>3. (v + 1) * Unit = v * Unit + Unit /\ d * Unit = Unit * d
      BY <1>0, <2>1, <2>7
    <3> QED
      BY <1>0, <2>1, <2>7, <3>2, <3>3
  <2>10. Uint(d) = d
    <3>1. d \in 0..MaxUint
      BY <1>0, <2>7, <2>8
    <3> QED
      BY <2>7, <3>1, UintIs
  <2>11. Scale(n).exp = e /\ Scale(n).div = d
    <3>1. Scale(n) = [div |-> Uint(c.div), exp |-> c.exp]
      BY <1>0, <1>2, <1>4 DEF c
    <3> QED
      BY <2>5, <2>10, <3>1 DEF e
  <2> QED
    BY <2>6, <2>8, <2>9, <2>11 DEF d
<1> QED
  BY <1>0, <1>3, <1>4

LEMMA SizeIsShown ==
  ASSUME NEW q \in QuestionType, q.what = "size"
  PROVE  SizeShown(q)
<1>1. q.n \in MinInt..MaxInt
  BY DEF QuestionType
<1> QED
  BY <1>1, MagnitudeIs, ScaleIs DEF SizeShown

(* The sampler: its counter and the gap go together until the counter      *)
(* starts over.                                                            *)
LEMMA PeriodOf ==
  ASSUME rate \in Int
  PROVE  /\ Every(rate) \in Nat
         /\ Every(rate) = 0 <=> rate <= 0
         /\ rate >= 100 => Every(rate) = 1
<1>1. CASE rate >= 100
  BY <1>1 DEF Every
<1>2. CASE rate <= 0
  BY <1>2 DEF Every
<1>3. CASE rate > 0 /\ rate < 100
  <2> DEFINE n == (200 + rate) \div (2 * rate)
  <2>1. 200 + rate \in Nat /\ 2 * rate \in Nat \ {0}
    BY <1>3
  <2>2. n \in Nat
    BY <2>1, Quotient
  <2>3. Every(rate) = IF n < 1 THEN 1 ELSE n
    BY <1>3 DEF Every
  <2> HIDE DEF n
  <2> QED
    BY <1>3, <2>2, <2>3
<1> QED
  BY <1>1, <1>2, <1>3

Period ==
  /\ question = [what |-> "none"] \/ question \in QuestionType
  /\ rate \in Rates
  /\ counter \in 0..MaxUint /\ gap \in Nat
  /\ Every(rate) > 0 => gap < Every(rate)
  /\ Every(rate) > 1 /\ ~wrapped => gap = counter % Every(rate)

(* The next call of a period: the remainder goes up by one or starts over. *)
LEMMA NextRemainder ==
  ASSUME NEW e \in Nat, e > 1, NEW c \in Nat
  PROVE  (c + 1) % e = IF (c % e) + 1 = e THEN 0 ELSE (c % e) + 1
<1> DEFINE p == c \div e
           r == c % e
           pp == (c + 1) \div e
           rr == (c + 1) % e
           k == pp - p
<1>1. p \in Int /\ r \in 0..(e - 1) /\ c = e * p + r
  OBVIOUS
<1>2. pp \in Int /\ rr \in 0..(e - 1) /\ c + 1 = e * pp + rr
  OBVIOUS
<1> HIDE DEF p, r, pp, rr
<1>3. k \in Int /\ e * k = r + 1 - rr
  BY <1>1, <1>2
<1> HIDE DEF k
<1>4. k <= -1 => e * k <= -e
  BY <1>3
<1>5. k >= 2 => e * k >= 2 * e
  BY <1>3
<1>6. k = 0 \/ k = 1
  BY <1>1, <1>2, <1>3, <1>4, <1>5
<1>7. e * k = IF k = 0 THEN 0 ELSE e
  BY <1>6
<1>8. rr = IF r + 1 = e THEN 0 ELSE r + 1
  BY <1>1, <1>2, <1>3, <1>6, <1>7
<1> QED
  BY <1>8 DEF r, rr

LEMMA PeriodInit == NumbersInit => Period
<1> SUFFICES ASSUME NumbersInit PROVE Period
  OBVIOUS
<1>1. rate \in Rates /\ rate \in Int
  BY NumbersAssumption DEF NumbersInit
<1> DEFINE e == Every(rate)
<1>2. e \in Nat
  BY <1>1, PeriodOf
<1> HIDE DEF e
<1>3. e > 0 => 0 % e = 0
  BY <1>2, Remainder
<1>4. counter = 0 /\ gap = 0 /\ question = [what |-> "none"]
  BY DEF NumbersInit
<1> QED
  BY <1>1, <1>2, <1>3, <1>4, Widths DEF Period, e

LEMMA PeriodStep == Period /\ [NumbersNext]_numbersVars => Period'
<1> SUFFICES ASSUME Period, [NumbersNext]_numbersVars PROVE Period'
  OBVIOUS
<1>1. rate \in Int
  BY NumbersAssumption DEF Period
<1> DEFINE e == Every(rate)
<1>2. e \in Nat
  BY <1>1, PeriodOf
<1>3. CASE Sample
  <2> DEFINE n == IF e > 1 THEN Uint(counter + 1) ELSE counter
  <2>1. /\ counter' = n /\ wrapped' = (e > 1 /\ n = 0) /\ ~wrapped
        /\ gap' = IF Samples(n) \/ e = 0 THEN 0 ELSE gap + 1
        /\ question' = question /\ rate' = rate /\ e' = e
    BY <1>3 DEF Sample, Every
  <2>2. Samples(n) <=> (e = 1 \/ (e > 1 /\ n % e = 0))
    BY DEF Samples
  <2>3. counter \in 0..MaxUint /\ gap \in Nat /\ (e > 0 => gap < e)
        /\ (e > 1 => gap = counter % e)
    BY <2>1 DEF Period
  <2>4. n \in 0..MaxUint /\ (e > 1 => n = 0 \/ n = counter + 1)
    <3>1. counter + 1 \in Int /\ MaxUint \in Nat
      BY <2>3, Widths
    <3>2. Uint(counter + 1) \in 0..MaxUint
      BY <3>1, UintIs
    <3>3. counter + 1 \in 0..MaxUint => Uint(counter + 1) = counter + 1
      BY <3>1, UintIs
    <3>4. counter = MaxUint => Uint(counter + 1) = 0
      <4>1. (MaxUint + 1) % 2^Width = 0
        <5> DEFINE m == 2^Width
        <5>1. m \in Nat \ {0} /\ MaxUint + 1 = m
          BY Widths
        <5> HIDE DEF m
        <5> QED
          BY <5>1 DEF m
      <4> QED
        BY <4>1 DEF Uint
    <3> QED
      BY <2>3, <3>1, <3>2, <3>3, <3>4
  <2> HIDE DEF n
  <2>5. CASE e <= 1
    BY <1>2, <2>1, <2>2, <2>3, <2>4, <2>5 DEF Period
  <2>6. CASE e > 1 /\ n = 0
    <3>1. n % e = 0
      BY <1>2, <2>6, Remainder
    <3> QED
      BY <1>2, <2>1, <2>2, <2>3, <2>4, <2>6, <3>1 DEF Period
  <2>7. CASE e > 1 /\ n # 0
    <3>1. n % e = IF gap + 1 = e THEN 0 ELSE gap + 1
      <4>1. counter \in Nat /\ n = counter + 1 /\ gap = counter % e
        BY <2>3, <2>4, <2>7, Widths
      <4> HIDE DEF e
      <4> QED
        BY <1>2, <2>7, <4>1, NextRemainder
    <3>2. gap' = n % e /\ gap' \in Nat /\ gap' < e
      BY <1>2, <2>1, <2>2, <2>3, <2>7, <3>1
    <3> QED
      BY <2>1, <2>4, <2>7, <3>2 DEF Period
  <2> QED
    BY <1>2, <2>5, <2>6, <2>7
<1>4. CASE \E q \in Questions : Ask(q)
  BY <1>4, NumbersAssumption DEF Period, Ask, Every
<1>5. CASE UNCHANGED numbersVars
  BY <1>5 DEF Period, numbersVars, Every
<1> QED
  BY <1>3, <1>4, <1>5 DEF NumbersNext

LEMMA PeriodIsHeld == Period => PeriodHolds
<1> SUFFICES ASSUME Period PROVE PeriodHolds
  OBVIOUS
<1>1. rate \in Int
  BY NumbersAssumption DEF Period
<1> DEFINE e == Every(rate)
<1>2. e \in Nat /\ (e = 0 <=> rate <= 0) /\ (rate >= 100 => e = 1)
  BY <1>1, PeriodOf
<1>3. gap \in Nat /\ (e > 0 => gap < e) /\ (e > 1 /\ ~wrapped => gap = counter % e)
  BY DEF Period
<1> HIDE DEF e
<1> QED
  BY <1>2, <1>3 DEF PeriodHolds, e

(* Whatever is asked of the fixed width arithmetic is answered by the      *)
(* number it is or the nearest one, a size is shown in the largest unit    *)
(* that has a letter, and of any period of requests one is traced          *)
(* (model/attributes.go:32-90, model/trace.go:565-617, tracer.go:369-382,  *)
(* internal/memory_limit.go:12-46, internal/rate_sampler.go:10-48,         *)
(* frontend/view/funcs.go:150-173).                                        *)
THEOREM NumbersRead == NumbersSpec => []NumbersHold
<1>1. Period => NumbersHold
  <2> SUFFICES ASSUME Period PROVE NumbersHold
    OBVIOUS
  <2>1. question.what = "none" \/ question \in QuestionType
    BY DEF Period
  <2>2. question.what = "attribute" => AttributeReads(question)
    BY <2>1, AttributeIsRead
  <2>3. question.what = "delta" => DeltaIsNearest(question)
    BY <2>1, DeltaIsRead
  <2>4. question.what = "pool" => EstimateFits(question)
    BY <2>1, EstimateIsRead
  <2>5. question.what = "limit" => LimitIsSmallest(question)
    BY <2>1, LimitIsRead
  <2>6. question.what = "size" => SizeShown(question)
    BY <2>1, SizeIsShown
  <2> QED
    BY <2>2, <2>3, <2>4, <2>5, <2>6, PeriodIsHeld DEF NumbersHold
<1> QED
  BY <1>1, PeriodInit, PeriodStep, PTL DEF NumbersSpec

-----------------------------------------------------------------------------
(* What the page of one trace draws. *)

(* Numbers in ascending order: each of them once, and no other between two *)
(* that follow each other.                                                 *)
LEMMA AscendingIs ==
  ASSUME NEW S \in SUBSET Int, IsFiniteSet(S)
  PROVE  /\ Cardinality(S) \in Nat
         /\ Ascending(S) \in [1..Cardinality(S) -> S]
         /\ \A a \in S : \E n \in 1..Cardinality(S) : Ascending(S)[n] = a
         /\ \A m, n \in 1..Cardinality(S) : m < n => Ascending(S)[m] < Ascending(S)[n]
<1> DEFINE B == [a \in S |-> {b \in S : b < a}]
           n == Cardinality(S)
<1>0. n \in Nat
  BY FS_CardinalityType
<1>3. \A a, b \in S : b \in B[a] <=> b < a
  OBVIOUS
<1>1. IsOrder(B, S)
  <2>1. B \in [S -> SUBSET S]
    OBVIOUS
  <2>2. \A a \in S : a \notin B[a]
    BY <1>3
  <2>3. \A a, b \in S : a # b => a \in B[b] \/ b \in B[a]
    BY <1>3
  <2>4. ASSUME NEW a \in S, NEW b \in S, a \in B[b], NEW c \in B[a]
        PROVE  c \in B[b]
    <3>1. c \in S
      BY <2>4
    <3>2. c < a /\ a < b
      BY <1>3, <2>4, <3>1
    <3> QED
      BY <1>3, <3>1, <3>2
  <2> HIDE DEF B
  <2> QED
    BY <2>1, <2>2, <2>3, <2>4 DEF IsOrder
<1>2. Ascending(S) = Placed(B, S)
  <2>1. ASSUME NEW k \in 1..n
        PROVE  (CHOOSE a \in S : Cardinality(B[a]) + 1 = k)
                 = CHOOSE a \in S : Cardinality({b \in S : b < a}) + 1 = k
    <3> DEFINE P(a) == a \in S /\ Cardinality({b \in S : b < a}) + 1 = k
               Q(a) == a \in S /\ Cardinality(B[a]) + 1 = k
    <3>1. \A a : P(a) <=> Q(a)
      OBVIOUS
    <3>2. (CHOOSE a : P(a)) = (CHOOSE a : Q(a))
      <4> HIDE DEF P, Q
      <4> QED
        BY <3>1
    <3> HIDE DEF B
    <3>4. (CHOOSE a : P(a)) = CHOOSE a \in S : Cardinality({b \in S : b < a}) + 1 = k
      BY Zenon
    <3>5. (CHOOSE a : Q(a)) = CHOOSE a \in S : Cardinality(B[a]) + 1 = k
      BY Zenon
    <3> QED
      BY <3>2, <3>4, <3>5, Zenon
  <2>2. Ascending(S) = [k \in 1..n |-> CHOOSE a \in S : Cardinality({b \in S : b < a}) + 1 = k]
    BY DEF Ascending
  <2> HIDE DEF B
  <2>3. Placed(B, S) = [k \in 1..n |-> CHOOSE a \in S : Cardinality(B[a]) + 1 = k]
    BY DEF Placed
  <2> QED
    BY <2>1, <2>2, <2>3
<1> HIDE DEF B
<1>4. /\ Cardinality(S) \in Nat
      /\ Placed(B, S) \in [1..Cardinality(S) -> S]
      /\ \A x \in S : \E k \in 1..Cardinality(S) : Placed(B, S)[k] = x
      /\ \A k, l \in 1..Cardinality(S) : k < l => Placed(B, S)[k] \in B[Placed(B, S)[l]]
  BY <1>1, PlacedInOrder
<1>5. \A k, l \in 1..Cardinality(S) : k < l => Placed(B, S)[k] < Placed(B, S)[l]
  BY <1>3, <1>4
<1> QED
  BY <1>2, <1>4, <1>5

-----------------------------------------------------------------------------
(* The spans. *)
SpanRecords ==
  [kind : SpanKinds, parent : Int, start : Int, duration : Nat,
   memory : Nat \cup {NoReading}, depth : Nat]

SpansRecorded ==
  /\ spans \in Seq(SpanRecords)
  /\ \A i \in 1..Len(spans) :
       \/ spans[i].parent = Lost
       \/ /\ spans[i].parent \in 0..(i - 1)
          /\ spans[i].parent # 0 => spans[spans[i].parent].depth < spans[i].depth
  /\ limit \in Int

LEMMA SpanFields ==
  ASSUME SpansRecorded
  PROVE  /\ Len(spans) \in Nat /\ DOMAIN spans = 1..Len(spans)
         /\ \A i \in 1..Len(spans) :
              /\ spans[i].kind \in SpanKinds
              /\ spans[i].parent \in Int
              /\ spans[i].start \in Int
              /\ spans[i].duration \in Nat
              /\ spans[i].memory \in Nat \cup {NoReading}
              /\ spans[i].depth \in Nat
<1>1. Len(spans) \in Nat /\ DOMAIN spans = 1..Len(spans)
      /\ \A i \in 1..Len(spans) : spans[i] \in SpanRecords
  BY DEF SpansRecorded
<1>2. ASSUME NEW s \in SpanRecords
      PROVE  /\ s.kind \in SpanKinds
             /\ s.parent \in Int
             /\ s.start \in Int
             /\ s.duration \in Nat
             /\ s.memory \in Nat \cup {NoReading}
             /\ s.depth \in Nat
  <2>1. s.kind \in SpanKinds
    BY DEF SpanRecords
  <2>2. s.parent \in Int
    BY DEF SpanRecords
  <2>3. s.start \in Int
    BY DEF SpanRecords
  <2>4. s.duration \in Nat
    BY DEF SpanRecords
  <2>5. s.memory \in Nat \cup {NoReading}
    BY DEF SpanRecords
  <2>6. s.depth \in Nat
    BY DEF SpanRecords
  <2> QED
    BY <2>1, <2>2, <2>3, <2>4, <2>5, <2>6
<1> QED
  BY <1>1, <1>2

(* Where a span is drawn, and which spans the timeline draws.              *)
LEMMA DrawnTimes ==
  ASSUME SpansRecorded
  PROVE  /\ \A i \in 1..Len(spans) :
              /\ End(i) \in Int /\ From(i) \in Nat /\ To(i) \in Int
              /\ spans[i].start <= From(i) /\ To(i) <= End(i) /\ To(i) <= Length
              /\ spans[i].start <= End(i)
              /\ \A x \in 0..(Length - 1) :
                   /\ From(i) <= x <=> spans[i].start <= x
                   /\ x < To(i) <=> x < End(i)
         /\ IsFiniteSet(Intervals) /\ Intervals \in SUBSET (1..Len(spans))
         /\ \A i \in Intervals : From(i) < To(i)
<1>1. ASSUME NEW i \in 1..Len(spans)
      PROVE  /\ End(i) \in Int /\ From(i) \in Nat /\ To(i) \in Int
             /\ spans[i].start <= From(i) /\ To(i) <= End(i) /\ To(i) <= Length
             /\ spans[i].start <= End(i)
             /\ \A x \in 0..(Length - 1) :
                  /\ From(i) <= x <=> spans[i].start <= x
                  /\ x < To(i) <=> x < End(i)
  <2>1. spans[i].start \in Int /\ spans[i].duration \in Nat /\ Length \in Nat
    BY SpanFields, TimelineAssumption
  <2> QED
    BY <2>1 DEF End, From, To
<1>2. Intervals \in SUBSET (1..Len(spans))
  BY SpanFields DEF Intervals
<1>3. IsFiniteSet(Intervals)
  <2>1. IsFiniteSet(1..Len(spans))
    BY SpanFields, FS_Interval
  <2> QED
    BY <1>2, <2>1, FS_Subset
<1>4. \A i \in Intervals : From(i) < To(i)
  BY DEF Intervals
<1> QED
  BY <1>1, <1>2, <1>3, <1>4

-----------------------------------------------------------------------------
(* The timeline. *)

(* Of the spans that run there is an innermost one.                        *)
LEMMA InnermostIs ==
  ASSUME SpansRecorded, NEW S \in SUBSET (1..Len(spans)), S # {}
  PROVE  Innermost(S) \in S /\ \A j \in S : Inner(Innermost(S), j)
<1>0. \A i \in S : spans[i].depth \in Int /\ From(i) \in Int /\ i \in Int
  BY SpanFields, DrawnTimes
<1>1. IsFiniteSet(S)
  <2>1. IsFiniteSet(1..Len(spans))
    BY SpanFields, FS_Interval
  <2> QED
    BY <2>1, FS_Subset
<1>2. PICK d \in S : \A j \in S : spans[j].depth <= spans[d].depth
  <2> DEFINE f == [i \in S |-> spans[i].depth]
  <2>1. f \in [S -> Int]
    BY <1>0
  <2>2. \A i \in S : f[i] = spans[i].depth
    OBVIOUS
  <2> HIDE DEF f
  <2>3. \E x \in S : \A y \in S : f[y] <= f[x]
    BY <1>1, <2>1, GreatestValue
  <2> QED
    BY <2>2, <2>3
<1> DEFINE D == {i \in S : spans[i].depth = spans[d].depth}
<1>3. PICK e \in D : \A j \in D : From(j) <= From(e)
  <2> DEFINE f == [i \in D |-> From(i)]
  <2>1. f \in [D -> Int]
    BY <1>0
  <2>2. \A i \in D : f[i] = From(i)
    OBVIOUS
  <2>3. IsFiniteSet(D) /\ D # {}
    BY <1>1, FS_Subset
  <2> HIDE DEF f, D
  <2>4. \E x \in D : \A y \in D : f[y] <= f[x]
    BY <2>1, <2>3, GreatestValue
  <2> QED
    BY <2>2, <2>4
<1> DEFINE E == {i \in D : From(i) = From(e)}
<1>4. PICK i \in E : \A j \in E : i <= j
  <2>1. E \in SUBSET Nat /\ E # {}
    <3>1. e \in E
      OBVIOUS
    <3>2. E \subseteq 1..Len(spans) /\ Len(spans) \in Nat
      BY SpanFields
    <3> HIDE DEF E
    <3> QED
      BY <3>1, <3>2
  <2> HIDE DEF E
  <2> QED
    BY <2>1, LeastNumber
<1>5. i \in S
  OBVIOUS
<1>6. ASSUME NEW j \in S
      PROVE  Inner(i, j)
  <2>1. /\ spans[i].depth = spans[d].depth /\ From(i) = From(e)
        /\ spans[i].depth \in Int /\ spans[j].depth \in Int
        /\ From(i) \in Int /\ From(j) \in Int
    BY <1>0, <1>5
  <2>2. CASE spans[j].depth < spans[d].depth
    BY <2>1, <2>2 DEF Inner
  <2>3. CASE spans[j].depth = spans[d].depth /\ From(j) < From(e)
    BY <2>1, <2>3 DEF Inner
  <2>4. CASE spans[j].depth = spans[d].depth /\ From(j) = From(e)
    <3>1. i <= j
      BY <1>4, <2>4
    <3> QED
      BY <2>1, <2>4, <3>1 DEF Inner
  <2>5. spans[j].depth <= spans[d].depth /\ (j \in D => From(j) <= From(e))
    BY <1>2, <1>3
  <2> QED
    BY <2>1, <2>2, <2>3, <2>4, <2>5
<1>7. \E x : x \in S /\ \A j \in S : Inner(x, j)
  BY <1>5, <1>6
<1> QED
  BY <1>7, Zenon DEF Innermost

(* segs draws what runs before a time: its segments follow each other, two *)
(* of one kind never touch, and a moment lies in one of them when a span   *)
(* runs, with the kind of the innermost.                                   *)
SegmentRecords == [kind : SpanKinds, offset : Int, duration : Nat \ {0}]

Covers(segment, x) == segment.offset <= x /\ x < segment.offset + segment.duration

Draws(segs, upto) ==
  /\ segs \in Seq(SegmentRecords)
  /\ \A k \in 1..Len(segs) :
       0 <= segs[k].offset /\ segs[k].offset + segs[k].duration <= upto
  /\ \A k, l \in 1..Len(segs) :
       k < l => segs[k].offset + segs[k].duration <= segs[l].offset
  /\ \A k \in 1..(Len(segs) - 1) :
       segs[k].offset + segs[k].duration = segs[k + 1].offset
         => segs[k].kind # segs[k + 1].kind
  /\ \A k \in 1..Len(segs), x \in Int :
       Covers(segs[k], x) => \E i \in ActiveAt(x) :
         segs[k].kind = spans[i].kind /\ \A j \in ActiveAt(x) : Inner(i, j)
  /\ \A x \in Int : x < upto /\ ActiveAt(x) # {} =>
       \E k \in 1..Len(segs) : Covers(segs[k], x)

LEMMA SegmentFields ==
  ASSUME NEW segs \in Seq(SegmentRecords)
  PROVE  /\ Len(segs) \in Nat /\ DOMAIN segs = 1..Len(segs)
         /\ \A k \in 1..Len(segs) :
              /\ segs[k].kind \in SpanKinds
              /\ segs[k].offset \in Int
              /\ segs[k].duration \in Nat \ {0}
<1>1. Len(segs) \in Nat /\ DOMAIN segs = 1..Len(segs)
      /\ \A k \in 1..Len(segs) : segs[k] \in SegmentRecords
  OBVIOUS
<1>2. ASSUME NEW s \in SegmentRecords
      PROVE  /\ s.kind \in SpanKinds
             /\ s.offset \in Int
             /\ s.duration \in Nat \ {0}
  <2>1. s.kind \in SpanKinds
    BY DEF SegmentRecords
  <2>2. s.offset \in Int
    BY DEF SegmentRecords
  <2>3. s.duration \in Nat \ {0}
    BY DEF SegmentRecords
  <2> QED
    BY <2>1, <2>2, <2>3
<1> QED
  BY <1>1, <1>2

(* Where nothing starts or ends, what runs does not change.                *)
LEMMA SameBetween ==
  ASSUME SpansRecorded, NEW a \in Int, NEW b \in Int, a < b,
         \A i \in Intervals : ~(a < From(i) /\ From(i) < b) /\ ~(a < To(i) /\ To(i) < b),
         NEW x \in Int, a <= x, x < b
  PROVE  ActiveAt(x) = ActiveAt(a)
<1>1. ASSUME NEW i \in Intervals
      PROVE  i \in ActiveAt(x) <=> i \in ActiveAt(a)
  <2>1. From(i) \in Int /\ To(i) \in Int
    BY DrawnTimes
  <2> QED
    BY <2>1 DEF ActiveAt
<1>2. ActiveAt(x) \subseteq Intervals /\ ActiveAt(a) \subseteq Intervals
  BY DEF ActiveAt
<1> QED
  BY <1>1, <1>2

LEMMA DrawsIdle ==
  ASSUME NEW d, NEW a \in Int, NEW b \in Int, a < b, ActiveAt(a) = {},
         \A x \in Int : a <= x /\ x < b => ActiveAt(x) = ActiveAt(a),
         Draws(d, a)
  PROVE  Draws(d, b)
<1>1. /\ d \in Seq(SegmentRecords)
      /\ \A k \in 1..Len(d) : d[k].offset \in Int /\ d[k].duration \in Nat
  BY SegmentFields DEF Draws
<1>2. \A k \in 1..Len(d) : 0 <= d[k].offset /\ d[k].offset + d[k].duration <= b
  BY <1>1 DEF Draws
<1>3. \A x \in Int : x < b /\ ActiveAt(x) # {} => x < a
  OBVIOUS
<1> QED
  BY <1>2, <1>3 DEF Draws

LEMMA DrawsAppended ==
  ASSUME NEW d, NEW p \in SegmentRecords, NEW a \in Int, NEW b \in Int, a < b, 0 <= a,
         NEW i \in ActiveAt(a), \A j \in ActiveAt(a) : Inner(i, j),
         \A x \in Int : a <= x /\ x < b => ActiveAt(x) = ActiveAt(a),
         Draws(d, a), p.kind = spans[i].kind, p.offset = a, p.duration = b - a,
         d # <<>> => \/ d[Len(d)].kind # p.kind
                     \/ d[Len(d)].offset + d[Len(d)].duration # a
  PROVE  Draws(Append(d, p), b)
<1> DEFINE q == Append(d, p)
           m == Len(d)
<1>1. d \in Seq(SegmentRecords) /\ m \in Nat
      /\ \A k \in 1..m : d[k].offset \in Int /\ d[k].duration \in Nat \ {0}
  BY SegmentFields DEF Draws
<1>2. /\ q \in Seq(SegmentRecords) /\ Len(q) = m + 1
      /\ q[m + 1] = p /\ \A k \in 1..m : q[k] = d[k]
  BY <1>1, AppendIs
<1>3. d # <<>> <=> m > 0
  BY <1>1
<1> HIDE DEF q, m
<1>4. \A k \in 1..m : 0 <= d[k].offset /\ d[k].offset + d[k].duration <= a
  BY DEF Draws, m
<1>5. ASSUME NEW k \in 1..(m + 1)
      PROVE  0 <= q[k].offset /\ q[k].offset + q[k].duration <= b
  <2>1. CASE k = m + 1
    BY <1>2, <2>1
  <2>2. CASE k # m + 1
    <3>1. k \in 1..m
      BY <1>1, <2>2
    <3> QED
      BY <1>1, <1>2, <1>4, <3>1
  <2> QED
    BY <2>1, <2>2
<1>6. ASSUME NEW k \in 1..(m + 1), NEW l \in 1..(m + 1), k < l
      PROVE  q[k].offset + q[k].duration <= q[l].offset
  <2>0. k \in 1..m
    BY <1>1, <1>6
  <2>1. CASE l = m + 1
    BY <1>2, <1>4, <2>0, <2>1
  <2>2. CASE l # m + 1
    <3>1. l \in 1..m
      BY <1>1, <2>2
    <3>2. d[k].offset + d[k].duration <= d[l].offset
      BY <1>6, <2>0, <3>1 DEF Draws, m
    <3> QED
      BY <1>2, <2>0, <3>1, <3>2
  <2> QED
    BY <2>1, <2>2
<1>7. ASSUME NEW k \in 1..m, q[k].offset + q[k].duration = q[k + 1].offset
      PROVE  q[k].kind # q[k + 1].kind
  <2>1. CASE k = m
    <3>1. q[k] = d[m] /\ q[k + 1] = p /\ d # <<>>
      BY <1>1, <1>2, <1>3, <2>1
    <3> QED
      BY <1>7, <3>1 DEF m
  <2>2. CASE k # m
    <3>1. k \in 1..(m - 1) /\ k + 1 \in 1..m
      BY <1>1, <2>2
    <3>2. q[k] = d[k] /\ q[k + 1] = d[k + 1]
      BY <1>2, <3>1
    <3> QED
      BY <1>7, <3>1, <3>2 DEF Draws, m
  <2> QED
    BY <2>1, <2>2
<1>8. ASSUME NEW k \in 1..(m + 1), NEW x \in Int, Covers(q[k], x)
      PROVE  \E e \in ActiveAt(x) :
               q[k].kind = spans[e].kind /\ \A j \in ActiveAt(x) : Inner(e, j)
  <2>1. CASE k = m + 1
    <3>1. a <= x /\ x < b
      BY <1>2, <1>8, <2>1 DEF Covers
    <3>2. ActiveAt(x) = ActiveAt(a)
      BY <3>1
    <3> QED
      BY <1>2, <2>1, <3>2
  <2>2. CASE k # m + 1
    <3>1. k \in 1..m
      BY <1>1, <2>2
    <3>2. q[k] = d[k]
      BY <1>2, <3>1
    <3>3. k \in 1..Len(d) /\ Covers(d[k], x)
      BY <1>8, <3>1, <3>2 DEF m
    <3>4. \E e \in ActiveAt(x) :
            d[k].kind = spans[e].kind /\ \A j \in ActiveAt(x) : Inner(e, j)
      BY <3>3 DEF Draws
    <3> QED
      BY <3>2, <3>4
  <2> QED
    BY <2>1, <2>2
<1>9. ASSUME NEW x \in Int, x < b, ActiveAt(x) # {}
      PROVE  \E k \in 1..(m + 1) : Covers(q[k], x)
  <2>1. CASE x < a
    <3>1. PICK k \in 1..m : Covers(d[k], x)
      BY <1>9, <2>1 DEF Draws, m
    <3>2. k \in 1..(m + 1) /\ q[k] = d[k]
      BY <1>1, <1>2
    <3> QED
      BY <3>1, <3>2
  <2>2. CASE a <= x
    <3>1. Covers(q[m + 1], x)
      BY <1>2, <1>9, <2>2 DEF Covers
    <3>2. m + 1 \in 1..(m + 1)
      BY <1>1
    <3> QED
      BY <3>1, <3>2
  <2> QED
    BY <2>1, <2>2
<1>10. Len(q) - 1 = m
  BY <1>1, <1>2
<1> QED
  BY <1>2, <1>5, <1>6, <1>7, <1>8, <1>9, <1>10 DEF Draws, q

LEMMA DrawsWidened ==
  ASSUME NEW d, NEW p \in SegmentRecords, NEW a \in Int, NEW b \in Int, a < b,
         NEW i \in ActiveAt(a), \A j \in ActiveAt(a) : Inner(i, j),
         \A x \in Int : a <= x /\ x < b => ActiveAt(x) = ActiveAt(a),
         Draws(d, a), p.kind = spans[i].kind, p.offset = a, p.duration = b - a,
         d # <<>>, d[Len(d)].kind = p.kind, d[Len(d)].offset + d[Len(d)].duration = a
  PROVE  Draws([d EXCEPT ![Len(d)].duration = @ + p.duration], b)
<1> DEFINE m == Len(d)
           q == [d EXCEPT ![m].duration = @ + p.duration]
<1>1. /\ d \in Seq(SegmentRecords) /\ m \in Nat /\ DOMAIN d = 1..m
      /\ \A k \in 1..m : /\ d[k].offset \in Int /\ d[k].duration \in Nat \ {0}
                         /\ d[k].kind \in SpanKinds
  BY SegmentFields DEF Draws
<1>2. m \in 1..m
  BY <1>1
<1>3. /\ q = [k \in 1..m |-> q[k]]
      /\ \A k \in 1..m : k # m => q[k] = d[k]
      /\ q[m] = [d[m] EXCEPT !.duration = @ + p.duration]
  BY <1>1, <1>2
<1>4. d[m] \in SegmentRecords
  BY <1>1, <1>2
<1>5. /\ q[m].offset = d[m].offset /\ q[m].kind = d[m].kind
      /\ q[m].duration = d[m].duration + (b - a)
      /\ q[m] \in SegmentRecords
  <2>1. d[m].duration + (b - a) \in Nat \ {0}
    BY <1>1, <1>2
  <2> HIDE DEF m, q
  <2>2. q[m].offset = d[m].offset
    BY <1>3, <1>4 DEF SegmentRecords
  <2>3. q[m].kind = d[m].kind
    BY <1>3, <1>4 DEF SegmentRecords
  <2>4. q[m].duration = d[m].duration + (b - a)
    BY <1>3, <1>4 DEF SegmentRecords
  <2>5. q[m] \in SegmentRecords
    BY <1>3, <1>4, <2>1 DEF SegmentRecords
  <2> QED
    BY <2>2, <2>3, <2>4, <2>5
<1> HIDE DEF q, m
<1>6. q \in Seq(SegmentRecords) /\ Len(q) = m
  <2>1. \A k \in 1..m : d[k] \in SegmentRecords
    BY <1>1 DEF m
  <2>2. \A k \in 1..m : q[k] \in SegmentRecords
    BY <1>3, <1>5, <2>1
  <2>3. q \in [1..m -> SegmentRecords]
    BY <1>3, <2>2
  <2> QED
    BY <1>1, <2>3
<1>7. \A k \in 1..m : q[k].offset = d[k].offset /\ q[k].kind = d[k].kind
  BY <1>3, <1>5
<1>8. /\ \A k \in 1..m : k # m => q[k].duration = d[k].duration
      /\ q[m].offset + q[m].duration = b /\ d[m].offset + d[m].duration = a
      /\ q[m].duration = d[m].duration + (b - a)
  <2>1. d[m].offset \in Int /\ d[m].duration \in Int
    BY <1>1, <1>2
  <2>2. d[m].offset + d[m].duration = a
    BY DEF m
  <2>3. q[m].offset = d[m].offset /\ q[m].duration = d[m].duration + (b - a)
    BY <1>5
  <2>4. q[m].offset + q[m].duration = b
    BY <2>1, <2>2, <2>3
  <2> QED
    BY <1>3, <2>2, <2>3, <2>4
<1>9. \A k \in 1..m : 0 <= d[k].offset /\ d[k].offset + d[k].duration <= a
  BY DEF Draws, m
<1>10. ASSUME NEW k \in 1..m
       PROVE  0 <= q[k].offset /\ q[k].offset + q[k].duration <= b
  <2>1. 0 <= q[k].offset
    BY <1>7, <1>9
  <2>2. q[k].offset + q[k].duration <= b
    <3>1. CASE k = m
      BY <1>8, <3>1
    <3>2. CASE k # m
      <4>1. q[k].offset = d[k].offset /\ q[k].duration = d[k].duration
        BY <1>7, <1>8, <3>2
      <4>2. d[k].offset + d[k].duration <= a /\ d[k].offset + d[k].duration \in Int
        BY <1>1, <1>9
      <4> QED
        BY <4>1, <4>2
    <3> QED
      BY <3>1, <3>2
  <2> QED
    BY <2>1, <2>2
<1>11. ASSUME NEW k \in 1..m, NEW l \in 1..m, k < l
       PROVE  q[k].offset + q[k].duration <= q[l].offset
  <2>1. k # m
    BY <1>1, <1>11
  <2>2. d[k].offset + d[k].duration <= d[l].offset
    BY <1>11 DEF Draws, m
  <2> QED
    BY <1>7, <1>8, <2>1, <2>2
<1>12. ASSUME NEW k \in 1..(m - 1), q[k].offset + q[k].duration = q[k + 1].offset
       PROVE  q[k].kind # q[k + 1].kind
  <2>1. k \in 1..m /\ k + 1 \in 1..m /\ k # m
    BY <1>1
  <2>2. d[k].offset + d[k].duration = d[k + 1].offset
    BY <1>7, <1>8, <1>12, <2>1
  <2>3. d[k].kind # d[k + 1].kind
    BY <2>2 DEF Draws, m
  <2> QED
    BY <1>7, <2>1, <2>3
<1>13. ASSUME NEW k \in 1..m, NEW x \in Int, Covers(q[k], x)
       PROVE  \E e \in ActiveAt(x) :
                q[k].kind = spans[e].kind /\ \A j \in ActiveAt(x) : Inner(e, j)
  <2>1. CASE k = m /\ a <= x
    <3>1. x < b
      BY <1>8, <1>13, <2>1 DEF Covers
    <3>2. ActiveAt(x) = ActiveAt(a)
      BY <2>1, <3>1
    <3>3. q[k].kind = spans[i].kind
      BY <1>5, <2>1 DEF m
    <3> QED
      BY <3>2, <3>3
  <2>2. CASE ~(k = m /\ a <= x)
    <3>1. Covers(d[k], x)
      <4>1. CASE k = m
        <5>1. x < a
          BY <2>2, <4>1
        <5> QED
          BY <1>5, <1>8, <1>13, <4>1, <5>1 DEF Covers
      <4>2. CASE k # m
        BY <1>3, <1>13, <4>2
      <4> QED
        BY <4>1, <4>2
    <3>2. \E e \in ActiveAt(x) :
            d[k].kind = spans[e].kind /\ \A j \in ActiveAt(x) : Inner(e, j)
      BY <3>1 DEF Draws, m
    <3> QED
      BY <1>7, <3>2
  <2> QED
    BY <2>1, <2>2
<1>14. ASSUME NEW x \in Int, x < b, ActiveAt(x) # {}
       PROVE  \E k \in 1..m : Covers(q[k], x)
  <2>1. CASE x < a
    <3>1. PICK k \in 1..m : Covers(d[k], x)
      BY <1>14, <2>1 DEF Draws, m
    <3>2. CASE k # m
      BY <1>3, <3>1, <3>2
    <3>3. CASE k = m
      <4>1. q[m].offset <= x /\ x < b
        BY <1>5, <1>14, <3>1, <3>3 DEF Covers
      <4> QED
        BY <1>2, <1>8, <4>1 DEF Covers
    <3> QED
      BY <3>2, <3>3
  <2>2. CASE a <= x
    <3>1. q[m].offset \in Int /\ q[m].offset <= a
      BY <1>1, <1>2, <1>7, <1>8
    <3>2. Covers(q[m], x)
      BY <1>8, <1>14, <2>2, <3>1 DEF Covers
    <3> QED
      BY <1>2, <3>2
  <2> QED
    BY <2>1, <2>2
<1> QED
  BY <1>6, <1>10, <1>11, <1>12, <1>13, <1>14 DEF Draws, q, m

LEMMA ExtendType ==
  ASSUME NEW d \in Seq(SegmentRecords), NEW p \in SegmentRecords
  PROVE  Extend(d, p) \in Seq(SegmentRecords)
<1> DEFINE m == Len(d)
           q == [d EXCEPT ![m].duration = @ + p.duration]
<1>1. Append(d, p) \in Seq(SegmentRecords)
  OBVIOUS
<1>2. ASSUME d # <<>>
      PROVE  q \in Seq(SegmentRecords)
  <2>1. m \in 1..m /\ m \in Nat /\ DOMAIN d = 1..m
    BY <1>2
  <2>2. \A k \in 1..m : d[k] \in SegmentRecords
    OBVIOUS
  <2>3. /\ q = [k \in 1..m |-> q[k]]
        /\ \A k \in 1..m : k # m => q[k] = d[k]
        /\ q[m] = [d[m] EXCEPT !.duration = @ + p.duration]
    BY <2>1
  <2>4. d[m].duration \in Nat \ {0} /\ p.duration \in Nat \ {0} /\ d[m] \in SegmentRecords
    <3>1. d[m] \in SegmentRecords
      BY <2>1, <2>2
    <3> HIDE DEF m
    <3>2. d[m].duration \in Nat \ {0}
      BY <3>1 DEF SegmentRecords
    <3>3. p.duration \in Nat \ {0}
      BY DEF SegmentRecords
    <3> QED
      BY <3>1, <3>2, <3>3
  <2> HIDE DEF q, m
  <2>5. q[m] \in SegmentRecords
    <3>1. d[m].duration + p.duration \in Nat \ {0}
      BY <2>4
    <3> QED
      BY <2>3, <2>4, <3>1 DEF SegmentRecords
  <2>6. \A k \in 1..m : q[k] \in SegmentRecords
    BY <2>2, <2>3, <2>5
  <2>7. q \in [1..m -> SegmentRecords]
    BY <2>3, <2>6
  <2> QED
    BY <2>1, <2>7
<1>3. Extend(d, p) = Append(d, p) \/ (d # <<>> /\ Extend(d, p) = q)
  BY DEF Extend
<1> QED
  BY <1>1, <1>2, <1>3

LEMMA TimelineDraws ==
  ASSUME SpansRecorded
  PROVE  Draws(Timeline, Length)
<1> DEFINE S == {From(i) : i \in Intervals} \cup {To(i) : i \in Intervals}
           edges == Boundaries
           m == Cardinality(S)
           V == Seq(SegmentRecords)
           Idle(n) == ActiveAt(edges[n]) = {}
<1>0. Length \in Nat
  BY TimelineAssumption
<1>1. CASE Length <= 0 \/ Intervals = {}
  <2>1. Timeline = <<>>
    BY <1>1 DEF Timeline
  <2>2. ASSUME NEW x \in Int
        PROVE  ActiveAt(x) = {}
    <3> SUFFICES ASSUME NEW i \in Intervals PROVE Length > 0
      BY <1>0, <1>1 DEF ActiveAt
    <3>1. From(i) \in Nat /\ To(i) \in Int /\ From(i) < To(i) /\ To(i) <= Length
      BY DrawnTimes
    <3> QED
      BY <1>0, <3>1
  <2>3. <<>> \in Seq(SegmentRecords) /\ Len(<<>>) = 0
    BY EmptyIs
  <2> QED
    BY <2>1, <2>2, <2>3 DEF Draws
<1>2. CASE ~(Length <= 0 \/ Intervals = {})
  <2>1. S \in SUBSET Int /\ IsFiniteSet(S)
    <3>1. S \in SUBSET Int
      BY DrawnTimes
    <3>2. \A y \in S : y \in 0..Length
      <4>1. \A i \in Intervals : /\ From(i) \in Nat /\ To(i) \in Int
                                 /\ From(i) < To(i) /\ To(i) <= Length
        BY DrawnTimes
      <4> QED
        BY <1>0, <4>1
    <3>3. IsFiniteSet(0..Length)
      BY <1>0, FS_Interval
    <3> HIDE DEF S
    <3> QED
      BY <3>1, <3>2, <3>3, FS_Subset
  <2>2. \A i \in Intervals : From(i) \in S /\ To(i) \in S
    OBVIOUS
  <2>3. \A y \in S : \E i \in Intervals : y = From(i) \/ y = To(i)
    OBVIOUS
  <2>4. edges = Ascending(S)
    BY DEF Boundaries
  <2> HIDE DEF S, edges
  <2>5. /\ m \in Nat /\ edges \in [1..m -> S]
        /\ \A y \in S : \E n \in 1..m : edges[n] = y
        /\ \A k, n \in 1..m : k < n => edges[k] < edges[n]
    BY <2>1, <2>4, AscendingIs
  <2> HIDE DEF m
  <2>6. /\ Len(edges) = m /\ \A n \in 1..m : edges[n] \in Int /\ edges[n] \in S
    <3>1. edges \in [1..m -> Int]
      BY <2>1, <2>5
    <3> QED
      BY <2>5, <3>1
  <2>7. m >= 1
    BY <1>2, <2>2, <2>5
  <2>8. \A n \in 1..m : edges[n] >= 0 /\ edges[n] <= Length
    <3> SUFFICES ASSUME NEW n \in 1..m PROVE edges[n] >= 0 /\ edges[n] <= Length
      OBVIOUS
    <3>1. PICK i \in Intervals : edges[n] = From(i) \/ edges[n] = To(i)
      BY <2>3, <2>6
    <3>2. From(i) \in Nat /\ To(i) \in Int /\ From(i) < To(i) /\ To(i) <= Length
      BY DrawnTimes
    <3> QED
      BY <1>0, <3>1, <3>2
  (* What runs does not change from one boundary to the next.              *)
  <2>9. ASSUME NEW n \in 1..(m - 1)
        PROVE  /\ edges[n] < edges[n + 1]
               /\ \A x \in Int : edges[n] <= x /\ x < edges[n + 1] =>
                    ActiveAt(x) = ActiveAt(edges[n])
    <3>1. n \in 1..m /\ n + 1 \in 1..m /\ edges[n] < edges[n + 1]
      BY <2>5
    <3>2. ASSUME NEW y \in S
          PROVE  ~(edges[n] < y /\ y < edges[n + 1])
      <4>1. PICK k \in 1..m : edges[k] = y
        BY <2>5
      <4>2. CASE k <= n
        <5>1. edges[k] <= edges[n]
          <6>1. k < n => edges[k] < edges[n]
            BY <2>5, <3>1
          <6>2. k = n \/ k < n
            BY <4>2
          <6>3. edges[k] \in Int /\ edges[n] \in Int
            BY <2>6, <3>1
          <6> QED
            BY <6>1, <6>2, <6>3
        <5> QED
          BY <2>6, <3>1, <4>1, <5>1
      <4>3. CASE k >= n + 1
        <5>1. edges[n + 1] <= edges[k]
          BY <2>5, <2>6, <3>1, <4>3
        <5> QED
          BY <2>6, <3>1, <4>1, <5>1
      <4> QED
        BY <4>2, <4>3
    <3>3. \A i \in Intervals : /\ ~(edges[n] < From(i) /\ From(i) < edges[n + 1])
                               /\ ~(edges[n] < To(i) /\ To(i) < edges[n + 1])
      BY <2>2, <3>2
    <3> QED
      BY <2>6, <3>1, <3>3, SameBetween
  <2>10. ASSUME NEW n \in 1..(m - 1), ~Idle(n)
         PROVE  /\ Piece(edges, n) \in SegmentRecords
                /\ Piece(edges, n).offset = edges[n]
                /\ Piece(edges, n).duration = edges[n + 1] - edges[n]
                /\ \E i \in ActiveAt(edges[n]) :
                     /\ Piece(edges, n).kind = spans[i].kind
                     /\ \A j \in ActiveAt(edges[n]) : Inner(i, j)
    <3> DEFINE i == Innermost(ActiveAt(edges[n]))
               dur == edges[n + 1] - edges[n]
    <3>1. ActiveAt(edges[n]) \in SUBSET (1..Len(spans))
      BY DrawnTimes DEF ActiveAt
    <3>2. i \in ActiveAt(edges[n]) /\ \A j \in ActiveAt(edges[n]) : Inner(i, j)
      BY <2>10, <3>1, InnermostIs
    <3>3. Piece(edges, n) = [kind |-> spans[i].kind, offset |-> edges[n], duration |-> dur]
      BY DEF Piece
    <3>4. n \in 1..m /\ n + 1 \in 1..m
      BY <2>5
    <3>5. dur \in Nat \ {0}
      <4>1. edges[n] \in Int /\ edges[n + 1] \in Int /\ edges[n] < edges[n + 1]
        BY <2>6, <2>9, <3>4
      <4> QED
        BY <4>1
    <3> HIDE DEF i, dur
    <3>6. spans[i].kind \in SpanKinds /\ edges[n] \in Int
      BY <2>6, <3>1, <3>2, <3>4, SpanFields
    <3>7. Piece(edges, n) \in SegmentRecords
      BY <3>3, <3>5, <3>6 DEF SegmentRecords
    <3>8. Piece(edges, n).kind = spans[i].kind
      BY <3>3
    <3>9. Piece(edges, n).offset = edges[n]
      BY <3>3
    <3>10. Piece(edges, n).duration = dur
      BY <3>3
    <3> QED
      BY <3>2, <3>7, <3>8, <3>9, <3>10 DEF dur
  <2> DEFINE step == [n \in 1..(m - 1) |-> [v \in V |->
                        IF Idle(n) THEN v ELSE Extend(v, Piece(edges, n))]]
  <2>11. step \in [1..(m - 1) -> [V -> V]]
    <3>1. \A n \in 1..(m - 1), v \in V :
            (IF Idle(n) THEN v ELSE Extend(v, Piece(edges, n))) \in V
      <4> HIDE DEF Idle
      <4> QED
        BY <2>10, ExtendType
    <3> HIDE DEF V, Idle
    <3> QED
      BY <3>1
  <2>12. \A n \in 1..(m - 1), v \in V :
           step[n][v] = IF Idle(n) THEN v ELSE Extend(v, Piece(edges, n))
    BY Zenon
  <2>13. <<>> \in V /\ m - 1 \in Nat
    BY <2>5, <2>7
  <2> HIDE DEF step, V
  <2>14. PICK g \in [0..(m - 1) -> V] :
           g[0] = <<>> /\ \A n \in 1..(m - 1) : g[n] = step[n][g[n - 1]]
    <3> DEFINE last == m - 1
               none == <<>>
    <3>1. step \in [1..last -> [V -> V]] /\ last \in Nat /\ none \in V
      BY <2>11, <2>13
    <3> HIDE DEF last, none
    <3>2. \E g : IsLoop(g, none, step, last, V)
      BY <3>1, LoopExists
    <3> QED
      BY <3>2 DEF IsLoop, last, none
  <2>15. \A n \in 1..(m - 1) :
           g[n] = IF Idle(n) THEN g[n - 1] ELSE Extend(g[n - 1], Piece(edges, n))
    <3> HIDE DEF Idle
    <3>1. \A n \in 1..(m - 1) : n - 1 \in 0..(m - 1)
      BY <2>13
    <3> QED
      BY <2>12, <2>14, <3>1
  <2> DEFINE IsDrawn(f) ==
        f = [n \in 0..(Len(edges) - 1) |->
               IF n = 0 THEN <<>>
               ELSE IF ActiveAt(edges[n]) = {} THEN f[n - 1]
               ELSE Extend(f[n - 1], Piece(edges, n))]
             d == CHOOSE f : IsDrawn(f)
  <2>16. IsDrawn(g)
    <3>1. g = [n \in 0..(m - 1) |-> g[n]]
      BY <2>14
    <3>2. \A n \in 0..(m - 1) :
            g[n] = IF n = 0 THEN <<>>
                   ELSE IF ActiveAt(edges[n]) = {} THEN g[n - 1]
                   ELSE Extend(g[n - 1], Piece(edges, n))
      <4> SUFFICES ASSUME NEW n \in 0..(m - 1)
                   PROVE  g[n] = IF n = 0 THEN <<>>
                                 ELSE IF ActiveAt(edges[n]) = {} THEN g[n - 1]
                                 ELSE Extend(g[n - 1], Piece(edges, n))
        OBVIOUS
      <4>1. n = 0 \/ n \in 1..(m - 1)
        BY <2>13
      <4>2. n \in 1..(m - 1) => n # 0
        OBVIOUS
      <4> QED
        BY <2>14, <2>15, <4>1, <4>2
    <3> QED
      BY <2>6, <3>1, <3>2
  <2>17. IsDrawn(d)
    <3> HIDE DEF IsDrawn
    <3> QED
      BY <2>16
  <2>18. Timeline = d[m - 1]
    <3>1. Timeline = d[Len(edges) - 1]
      BY <1>2 DEF Timeline, edges
    <3> QED
      BY <2>6, <3>1
  <2> HIDE DEF d
  <2>19. \A n \in 0..(m - 1) :
           d[n] = IF n = 0 THEN <<>>
                  ELSE IF ActiveAt(edges[n]) = {} THEN d[n - 1]
                  ELSE Extend(d[n - 1], Piece(edges, n))
    BY <2>6, <2>17
  <2> DEFINE Good == {n \in 0..(m - 1) : Draws(d[n], edges[n + 1])}
  <2>20. 0 \in Good
    <3>1. 0 \in 0..(m - 1) /\ d[0] = <<>> /\ 1 \in 1..m
      BY <2>5, <2>7, <2>19
    <3>2. ASSUME NEW x \in Int, x < edges[1]
          PROVE  ActiveAt(x) = {}
      <4> SUFFICES ASSUME NEW i \in Intervals, From(i) <= x PROVE FALSE
        BY DEF ActiveAt
      <4>1. PICK k \in 1..m : edges[k] = From(i)
        BY <2>2, <2>5
      <4>2. edges[1] <= edges[k]
        BY <2>5, <2>6, <3>1
      <4> QED
        BY <2>6, <3>1, <3>2, <4>1, <4>2
    <3>3. <<>> \in Seq(SegmentRecords) /\ Len(<<>>) = 0
      BY EmptyIs
    <3>4. Draws(<<>>, edges[1])
      BY <3>2, <3>3 DEF Draws
    <3> QED
      BY <3>1, <3>4
  <2>21. ASSUME NEW k \in 0..((m - 1) - 1), k \in Good
         PROVE  k + 1 \in Good
    <3> DEFINE n == k + 1
               a == edges[n]
               b == edges[n + 1]
    <3>1. n \in 1..(m - 1) /\ n # 0 /\ n - 1 = k /\ n \in 0..(m - 1) /\ k + 1 = n
      BY <2>13
    <3>2. Draws(d[k], a)
      BY <2>21
    <3> HIDE DEF n
    <3>3. /\ a \in Int /\ b \in Int /\ a < b /\ 0 <= a
          /\ \A x \in Int : a <= x /\ x < b => ActiveAt(x) = ActiveAt(a)
      <4>1. n \in 1..m /\ n + 1 \in 1..m
        BY <2>5, <3>1
      <4> QED
        BY <2>6, <2>8, <2>9, <3>1, <4>1
    <3>4. d[n] = IF ActiveAt(a) = {} THEN d[k] ELSE Extend(d[k], Piece(edges, n))
      BY <2>19, <3>1
    <3>5. CASE ActiveAt(a) = {}
      <4> HIDE DEF a, b
      <4>1. Draws(d[k], b)
        BY <3>2, <3>3, <3>5, DrawsIdle
      <4> QED
        BY <3>1, <3>4, <3>5, <4>1 DEF b
    <3>6. CASE ActiveAt(a) # {}
      <4> DEFINE p == Piece(edges, n)
                 v == d[k]
                 Touch == /\ v # <<>>
                          /\ v[Len(v)].kind = p.kind
                          /\ v[Len(v)].offset + v[Len(v)].duration = p.offset
      <4>1. p \in SegmentRecords /\ p.offset = a /\ p.duration = b - a
        BY <2>10, <3>1, <3>6
      <4>2. PICK i \in ActiveAt(a) :
              p.kind = spans[i].kind /\ \A j \in ActiveAt(a) : Inner(i, j)
        BY <2>10, <3>1, <3>6
      <4>3. Extend(v, p) = IF Touch THEN [v EXCEPT ![Len(v)].duration = @ + p.duration]
                           ELSE Append(v, p)
        <5> HIDE DEF p, v
        <5> QED
          BY DEF Extend
      <4> HIDE DEF p, v, a, b
      <4>4. Draws(Extend(v, p), b)
        <5>1. CASE Touch
          <6>0. Draws(v, a)
            BY <3>2 DEF v
          <6>2. /\ v # <<>> /\ v[Len(v)].kind = p.kind
                /\ v[Len(v)].offset + v[Len(v)].duration = a
            BY <4>1, <5>1
          <6> HIDE DEF Touch
          <6>1. Draws([v EXCEPT ![Len(v)].duration = @ + p.duration], b)
            BY <3>3, <4>1, <4>2, <6>0, <6>2, DrawsWidened
          <6> QED
            BY <4>3, <5>1, <6>1
        <5>2. CASE ~Touch
          <6>0. Draws(v, a)
            BY <3>2 DEF v
          <6>2. v # <<>> => \/ v[Len(v)].kind # p.kind
                            \/ v[Len(v)].offset + v[Len(v)].duration # a
            BY <4>1, <5>2
          <6> HIDE DEF Touch
          <6>1. Draws(Append(v, p), b)
            BY <3>3, <4>1, <4>2, <6>0, <6>2, DrawsAppended
          <6> QED
            BY <4>3, <5>2, <6>1
        <5> QED
          BY <5>1, <5>2
      <4> QED
        BY <3>1, <3>4, <3>6, <4>4 DEF p, v, b
    <3> QED
      BY <3>5, <3>6
  <2> HIDE DEF Good
  <2>22. \A n \in 0..(m - 1) : n \in Good
    BY <2>13, <2>20, <2>21, UpTo
  <2>23. Draws(d[m - 1], edges[m])
    <3>1. m - 1 \in 0..(m - 1) /\ (m - 1) + 1 = m
      BY <2>5, <2>7
    <3> QED
      BY <2>22, <3>1 DEF Good
  <2>24. m \in 1..m /\ edges[m] <= Length /\ edges[m] \in Int
    BY <2>5, <2>6, <2>7, <2>8
  <2>25. ASSUME NEW x \in Int, edges[m] <= x
         PROVE  ActiveAt(x) = {}
    <3> SUFFICES ASSUME NEW i \in Intervals, x < To(i) PROVE FALSE
      BY DEF ActiveAt
    <3>1. PICK k \in 1..m : edges[k] = To(i)
      BY <2>2, <2>5
    <3>2. edges[k] <= edges[m]
      BY <2>5, <2>6, <2>24
    <3> QED
      BY <2>6, <2>24, <2>25, <3>1, <3>2
  <2>26. CASE edges[m] = Length
    BY <2>18, <2>23, <2>26
  <2>27. CASE edges[m] < Length
    <3>2. ActiveAt(edges[m]) = {}
      <4>1. edges[m] <= edges[m]
        BY <2>24
      <4> QED
        BY <2>24, <2>25, <4>1
    <3>1. \A x \in Int : edges[m] <= x /\ x < Length => ActiveAt(x) = ActiveAt(edges[m])
      <4> SUFFICES ASSUME NEW x \in Int, edges[m] <= x
                   PROVE  ActiveAt(x) = ActiveAt(edges[m])
        OBVIOUS
      <4>1. ActiveAt(x) = {}
        BY <2>25
      <4> QED
        BY <3>2, <4>1
    <3> DEFINE last == edges[m]
               v == d[m - 1]
    <3> HIDE DEF last, v
    <3>3. Draws(v, Length)
      <4>1. Draws(v, last) /\ last \in Int /\ last < Length /\ Length \in Int
        BY <1>0, <2>23, <2>24, <2>27 DEF last, v
      <4>2. ActiveAt(last) = {}
        BY <3>2 DEF last
      <4>3. \A x \in Int : last <= x /\ x < Length => ActiveAt(x) = ActiveAt(last)
        BY <3>1 DEF last
      <4> QED
        BY <4>1, <4>2, <4>3, DrawsIdle
    <3> QED
      BY <2>18, <3>3 DEF v
  <2> QED
    BY <1>0, <2>24, <2>26, <2>27
<1> QED
  BY <1>1, <1>2

-----------------------------------------------------------------------------
(* What the page shows of the segments. *)
Drawn == SpansRecorded /\ Draws(segments, Length)

Moments == 0..(Length - 1)
BusyMoments == {x \in Moments : Running(x) # {}}
SegmentAt(x) == CHOOSE n \in 1..Len(segments) : Covers(segments[n], x)

LEMMA RunningIs ==
  ASSUME SpansRecorded, NEW x \in Moments
  PROVE  Running(x) = ActiveAt(x)
<1>1. Running(x) \subseteq 1..Len(spans) /\ ActiveAt(x) \subseteq 1..Len(spans)
  BY SpanFields, DrawnTimes DEF Running, ActiveAt
<1>2. ASSUME NEW i \in 1..Len(spans)
      PROVE  i \in Running(x) <=> i \in ActiveAt(x)
  <2>1. /\ DOMAIN spans = 1..Len(spans)
        /\ spans[i].start \in Int /\ spans[i].duration \in Nat
        /\ From(i) \in Int /\ To(i) \in Int /\ x \in Int
        /\ From(i) <= x <=> spans[i].start <= x
        /\ x < To(i) <=> x < End(i)
    <3>1. DOMAIN spans = 1..Len(spans) /\ spans[i].start \in Int /\ spans[i].duration \in Nat
      BY SpanFields
    <3>2. From(i) \in Int /\ To(i) \in Int
      BY DrawnTimes
    <3>3. x \in 0..(Length - 1) /\ x \in Int
      BY DEF Moments
    <3>4. (From(i) <= x <=> spans[i].start <= x) /\ (x < To(i) <=> x < End(i))
      BY <3>3, DrawnTimes
    <3> QED
      BY <3>1, <3>2, <3>3, <3>4
  <2>2. From(i) <= x /\ x < To(i) => spans[i].duration > 0 /\ From(i) < To(i)
    BY <2>1 DEF End
  <2> QED
    BY <2>1, <2>2 DEF Running, ActiveAt, Intervals
<1> QED
  BY <1>1, <1>2

(* A moment lies in one segment when something runs, and in none when not. *)
LEMMA SegmentsAre ==
  ASSUME Drawn, NEW x \in Moments
  PROVE  /\ Running(x) = {} => Segments(x) = {}
         /\ Running(x) # {} => /\ SegmentAt(x) \in 1..Len(segments)
                               /\ Covers(segments[SegmentAt(x)], x)
                               /\ Segments(x) = {SegmentAt(x)}
         /\ \A n \in 1..Len(segments) : Covers(segments[n], x) =>
              Running(x) # {} /\ n = SegmentAt(x)
<1> DEFINE m == Len(segments)
<1>1. /\ m \in Nat /\ DOMAIN segments = 1..m
      /\ \A n \in 1..m : segments[n].offset \in Int /\ segments[n].duration \in Nat
  BY SegmentFields DEF Drawn, Draws
<1>2. x \in Int /\ x < Length /\ Length \in Nat
  BY TimelineAssumption DEF Moments
<1>3. Running(x) = ActiveAt(x)
  BY RunningIs DEF Drawn
<1>4. \A n \in 1..m : Covers(segments[n], x) => ActiveAt(x) # {}
  BY <1>2 DEF Drawn, Draws
<1>5. ASSUME NEW k \in 1..m, NEW l \in 1..m, Covers(segments[k], x), Covers(segments[l], x)
      PROVE  k = l
  <2>1. ASSUME NEW a \in 1..m, NEW b \in 1..m, a < b,
               Covers(segments[a], x), Covers(segments[b], x)
        PROVE  FALSE
    <3>1. segments[a].offset + segments[a].duration <= segments[b].offset
      BY <2>1 DEF Drawn, Draws
    <3>2. /\ segments[a].offset \in Int /\ segments[a].duration \in Nat
          /\ segments[b].offset \in Int
      BY <1>1
    <3>3. x < segments[a].offset + segments[a].duration /\ segments[b].offset <= x
      BY <2>1 DEF Covers
    <3> QED
      BY <1>2, <3>1, <3>2, <3>3
  <2> QED
    BY <1>5, <2>1
<1>6. Segments(x) = {n \in 1..m : Covers(segments[n], x)}
  BY <1>1 DEF Segments, Covers
<1>7. ASSUME Running(x) # {}
      PROVE  SegmentAt(x) \in 1..m /\ Covers(segments[SegmentAt(x)], x)
  <2>1. \E n \in 1..m : Covers(segments[n], x)
    BY <1>2, <1>3, <1>7 DEF Drawn, Draws
  <2> QED
    BY <2>1, Zenon DEF SegmentAt
<1> HIDE DEF m
<1>8. \A n \in 1..m : Covers(segments[n], x) => Running(x) # {} /\ n = SegmentAt(x)
  BY <1>3, <1>4, <1>5, <1>7
<1> QED
  BY <1>6, <1>7, <1>8 DEF m

LEMMA BusyFinite == IsFiniteSet(BusyMoments) /\ IsFiniteSet(Moments)
<1>1. Length - 1 \in Int
  BY TimelineAssumption
<1>2. IsFiniteSet(Moments)
  BY <1>1, FS_Interval DEF Moments
<1> QED
  BY <1>2, FS_Subset DEF BusyMoments

LEMMA DurationCounts ==
  ASSUME Drawn, NEW n \in 1..Len(segments)
  PROVE  segments[n].duration = Cardinality({x \in BusyMoments : SegmentAt(x) = n})
<1> DEFINE a == segments[n].offset
           d == segments[n].duration
<1>1. a \in Int /\ d \in Nat \ {0} /\ 0 <= a /\ a + d <= Length /\ Length \in Nat
  BY SegmentFields, TimelineAssumption DEF Drawn, Draws
<1>2. {x \in BusyMoments : SegmentAt(x) = n} = a..(a + d - 1)
  <2>1. ASSUME NEW x \in BusyMoments, SegmentAt(x) = n
        PROVE  x \in a..(a + d - 1)
    <3>1. x \in Moments /\ Running(x) # {} /\ x \in Int
      BY DEF BusyMoments, Moments
    <3>2. Covers(segments[n], x)
      BY <2>1, <3>1, SegmentsAre
    <3> QED
      BY <1>1, <3>1, <3>2 DEF Covers
  <2>2. ASSUME NEW x \in a..(a + d - 1)
        PROVE  x \in BusyMoments /\ SegmentAt(x) = n
    <3>1. x \in Moments /\ Covers(segments[n], x)
      BY <1>1 DEF Moments, Covers
    <3>2. Running(x) # {} /\ n = SegmentAt(x)
      BY <3>1, SegmentsAre
    <3> QED
      BY <3>1, <3>2 DEF BusyMoments
  <2> QED
    BY <2>1, <2>2
<1> HIDE DEF a, d
<1>3. Cardinality(a..(a + d - 1)) = d
  <2>1. a + d - 1 \in Int /\ a <= a + d - 1 /\ (a + d - 1) - a + 1 = d
    BY <1>1
  <2> DEFINE b == a + d - 1
  <2> HIDE DEF b
  <2>2. Cardinality(a..b) = IF a > b THEN 0 ELSE b - a + 1
    BY <1>1, <2>1, FS_Interval DEF b
  <2> QED
    BY <1>1, <2>1, <2>2 DEF b
<1> QED
  BY <1>2, <1>3 DEF d

(* The total of a kind is the time an innermost span of the kind runs.     *)
KindMoments(kind) == {x \in BusyMoments : segments[SegmentAt(x)].kind = kind}

LEMMA KindTotalIs ==
  ASSUME Drawn, NEW kind
  PROVE  KindTotal(kind) = Cardinality(KindMoments(kind)) /\ KindTotal(kind) \in Nat
<1> DEFINE S == {m \in DOMAIN segments : segments[m].kind = kind}
           D == BusyMoments
           c == [x \in D |-> SegmentAt(x)]
           f == [n \in S |-> segments[n].duration]
           g == [n \in S |-> Cardinality({x \in D : c[x] = n})]
<1>1. DOMAIN segments = 1..Len(segments) /\ Len(segments) \in Nat
  BY SegmentFields DEF Drawn, Draws
<1>2. IsFiniteSet(S) /\ S \subseteq 1..Len(segments)
  <2>1. IsFiniteSet(1..Len(segments))
    BY <1>1, FS_Interval
  <2> QED
    BY <1>1, <2>1, FS_Subset
<1>3. f = g
  <2>1. ASSUME NEW n \in S
        PROVE  segments[n].duration = Cardinality({x \in D : c[x] = n})
    <3>1. {x \in D : c[x] = n} = {x \in BusyMoments : SegmentAt(x) = n}
      OBVIOUS
    <3>2. n \in 1..Len(segments)
      BY <1>2
    <3> QED
      BY <3>1, <3>2, DurationCounts
  <2> HIDE DEF S, D, c
  <2> QED
    BY <2>1
<1>4. {x \in D : c[x] \in S} = KindMoments(kind)
  <2>1. ASSUME NEW x \in D
        PROVE  c[x] \in S <=> segments[SegmentAt(x)].kind = kind
    <3>1. x \in Moments /\ Running(x) # {}
      BY DEF BusyMoments
    <3>2. SegmentAt(x) \in 1..Len(segments)
      BY <3>1, SegmentsAre
    <3> QED
      BY <1>1, <3>2
  <2> QED
    BY <2>1 DEF KindMoments
<1>5. IsFiniteSet(D)
  BY BusyFinite
<1>6. KindTotal(kind) = SumFunction(f)
  BY DEF KindTotal
<1>7. SumFunction(g) = Cardinality({x \in D : c[x] \in S})
  <2>0. g = [n \in S |-> Cardinality({x \in D : c[x] = n})]
    OBVIOUS
  <2>1. IsFiniteSet(S) /\ IsFiniteSet(D)
    BY <1>2, <1>5
  <2> HIDE DEF S, D, c, g
  <2> QED
    BY <2>0, <2>1, SumOfClasses
<1>8. Cardinality(KindMoments(kind)) \in Nat
  <2>1. IsFiniteSet(KindMoments(kind))
    BY <1>5, FS_Subset DEF KindMoments
  <2> QED
    BY <2>1, FS_CardinalityType
<1> HIDE DEF S, D, c, f, g
<1> QED
  BY <1>3, <1>4, <1>6, <1>7, <1>8

(* The shares are the totals of the kinds that occur, each of them once,   *)
(* the largest first.                                                      *)
SharesAre(kinds, n) ==
  /\ n \in Nat
  /\ KindShares = [k \in 1..n |-> [kind |-> kinds[k], duration |-> KindTotal(kinds[k])]]
  /\ \A k, l \in 1..n : k # l => kinds[k] # kinds[l]
  /\ \A m \in 1..Len(segments) : \E k \in 1..n : kinds[k] = segments[m].kind
  /\ \A k, l \in 1..n : k < l => KindTotal(kinds[k]) >= KindTotal(kinds[l])

LEMMA SharesFound ==
  ASSUME Drawn
  PROVE  \E kinds, n : SharesAre(kinds, n)
<1> DEFINE m == Len(segments)
           id == [k \in DOMAIN segments |-> k]
           order == Sifted(id, FirstOfKind)
           n == Len(order)
           Kind(k) == segments[order[k]].kind
           out == [k \in 1..n |-> [kind |-> Kind(k), duration |-> KindTotal(Kind(k))]]
           f == [k \in 1..n |-> -KindTotal(Kind(k))]
           p == Placed(Sooner(f, n), 1..n)
<1>1. m \in Nat /\ DOMAIN segments = 1..m
  BY SegmentFields DEF Drawn, Draws
<1>2. id \in Seq(1..m) /\ Len(id) = m /\ \A k \in 1..m : id[k] = k
  BY <1>1
<1> HIDE DEF id
<1>3. order \in Seq(1..m) /\ \E h : Chosen(order, h, id, FirstOfKind, m)
  BY <1>2, KeptOrder
<1>4. /\ n \in Nat /\ DOMAIN order = 1..n
      /\ \A k \in 1..n : order[k] \in 1..m /\ order[k] \in FirstOfKind
      /\ \A k, l \in 1..n : k < l => order[k] < order[l]
      /\ \A a \in 1..m : a \in FirstOfKind => \E k \in 1..n : order[k] = a
  <2>1. PICK h : Chosen(order, h, id, FirstOfKind, m)
    BY <1>3
  <2>2. \A k \in 1..n : order[k] = id[h[k]] /\ h[k] \in 1..m /\ order[k] \in FirstOfKind
    BY <2>1 DEF Chosen
  <2>3. \A k \in 1..n : order[k] = h[k]
    BY <1>2, <2>2
  <2>4. /\ \A k, l \in 1..n : k < l => h[k] < h[l]
        /\ \A a \in 1..m : id[a] \in FirstOfKind => \E k \in 1..n : h[k] = a
    BY <2>1 DEF Chosen
  <2>5. n \in Nat /\ DOMAIN order = 1..n
    BY <1>3
  <2> HIDE DEF order, n
  <2> QED
    BY <1>2, <2>2, <2>3, <2>4, <2>5
<1>5. FirstOfKind = {a \in 1..m : \A b \in 1..(a - 1) : segments[b].kind # segments[a].kind}
  BY <1>1 DEF FirstOfKind
<1>6. KindShares = [k \in 1..n |-> out[CHOOSE i \in 1..n :
        Cardinality({j \in 1..n : out[j].duration > out[i].duration
                       \/ (~(out[i].duration > out[j].duration) /\ j < i)}) + 1 = k]]
  <2>1. KindShares = StableSort(out, LAMBDA a, b : a.duration > b.duration)
    <3>1. order = Sifted([k \in DOMAIN segments |-> k], FirstOfKind)
      BY DEF id
    <3> HIDE DEF order, id
    <3> QED
      BY <1>4, <3>1 DEF KindShares
  <2>2. DOMAIN out = 1..n
    OBVIOUS
  <2> HIDE DEF out
  <2> QED
    BY <2>1, <2>2 DEF StableSort
<1>7. \A k \in 1..n : /\ KindTotal(Kind(k)) \in Nat /\ f[k] = -KindTotal(Kind(k))
                      /\ out[k] = [kind |-> Kind(k), duration |-> KindTotal(Kind(k))]
  <2> HIDE DEF order, n
  <2> QED
    BY KindTotalIs
<1>8. InOrder(p, f, n)
  <2>1. \A k \in 1..n : f[k] \in Int
    BY <1>7
  <2> HIDE DEF f, n
  <2> QED
    BY <1>4, <2>1, NumbersPlaced
<1> DEFINE B == Sooner(f, n)
           Before(i) == {j \in 1..n : out[j].duration > out[i].duration
                           \/ (~(out[i].duration > out[j].duration) /\ j < i)}
<1>9. \A i \in 1..n : Before(i) = B[i]
  <2>1. \A i \in 1..n : f[i] \in Int /\ out[i].duration \in Int /\ f[i] = -out[i].duration
    BY <1>7
  <2> HIDE DEF f, out, n
  <2> QED
    BY <2>1 DEF Sooner
<1>10. ASSUME NEW k \in 1..n
       PROVE  KindShares[k] = out[p[k]]
  <2> DEFINE P(i) == i \in 1..n /\ Cardinality(Before(i)) + 1 = k
             Q(i) == i \in 1..n /\ Cardinality(B[i]) + 1 = k
  <2>1. \A i : P(i) <=> Q(i)
    <3> HIDE DEF Before, B, n
    <3> QED
      BY <1>9
  <2>2. (CHOOSE i : P(i)) = (CHOOSE i : Q(i))
    <3> HIDE DEF P, Q
    <3> QED
      BY <2>1
  <2>0. KindShares = [x \in 1..n |-> out[CHOOSE i \in 1..n : Cardinality(Before(i)) + 1 = x]]
    BY <1>6
  <2>3. Cardinality(1..n) = n
    <3>1. n \in Nat
      BY <1>4
    <3> HIDE DEF n
    <3> QED
      BY <3>1, FS_Interval
  <2> HIDE DEF Before, B, n, out
  <2>4. p[k] = CHOOSE i \in 1..n : Cardinality(B[i]) + 1 = k
    BY <2>3 DEF Placed, B
  <2>5. (CHOOSE i : P(i)) = CHOOSE i \in 1..n : Cardinality(Before(i)) + 1 = k
    BY Zenon
  <2>6. (CHOOSE i : Q(i)) = CHOOSE i \in 1..n : Cardinality(B[i]) + 1 = k
    BY Zenon
  <2>7. KindShares[k] = out[CHOOSE i \in 1..n : Cardinality(Before(i)) + 1 = k]
    BY <2>0
  <2> QED
    BY <2>2, <2>4, <2>5, <2>6, <2>7, Zenon
<1>11. KindShares = [k \in 1..n |-> KindShares[k]]
  <2> HIDE DEF out, n
  <2> QED
    BY <1>6
<1> DEFINE kinds == [k \in 1..n |-> Kind(p[k])]
<1>12. \A k \in 1..n : p[k] \in 1..n
  BY <1>8 DEF InOrder
<1>13. KindShares = [k \in 1..n |-> [kind |-> kinds[k], duration |-> KindTotal(kinds[k])]]
  <2>1. ASSUME NEW k \in 1..n
        PROVE  KindShares[k] = [kind |-> kinds[k], duration |-> KindTotal(kinds[k])]
    <3>1. KindShares[k] = out[p[k]] /\ kinds[k] = Kind(p[k])
      BY <1>10
    <3> QED
      BY <1>7, <1>12, <3>1
  <2> HIDE DEF kinds, n
  <2> QED
    BY <1>11, <2>1
<1>14. ASSUME NEW a \in 1..n, NEW b \in 1..n, a < b
       PROVE  Kind(a) # Kind(b)
  <2>1. /\ order[a] \in 1..m /\ order[b] \in 1..m /\ order[a] < order[b]
        /\ order[b] \in FirstOfKind
    BY <1>4, <1>14
  <2>2. order[a] \in 1..(order[b] - 1)
    BY <2>1
  <2> HIDE DEF order
  <2> QED
    BY <1>5, <2>1, <2>2
<1>15. ASSUME NEW k \in 1..n, NEW l \in 1..n, k # l
       PROVE  kinds[k] # kinds[l]
  <2>1. p[k] # p[l] /\ p[k] \in 1..n /\ p[l] \in 1..n
    BY <1>8, <1>15 DEF InOrder
  <2>2. kinds[k] = Kind(p[k]) /\ kinds[l] = Kind(p[l])
    OBVIOUS
  <2>3. p[k] < p[l] \/ p[l] < p[k]
    BY <1>4, <2>1
  <2> HIDE DEF kinds, p, n, Kind
  <2> QED
    BY <1>14, <2>1, <2>2, <2>3
<1>16. ASSUME NEW a \in 1..m
       PROVE  \E k \in 1..n : kinds[k] = segments[a].kind
  <2> DEFINE E == {b \in 1..m : segments[b].kind = segments[a].kind}
  <2>1. E \in SUBSET Nat /\ E # {}
    OBVIOUS
  <2>2. PICK b \in E : \A c \in E : b <= c
    <3> HIDE DEF E
    <3> QED
      BY <2>1, LeastNumber
  <2>3. b \in 1..m /\ segments[b].kind = segments[a].kind
    OBVIOUS
  <2>4. ASSUME NEW c \in 1..(b - 1)
        PROVE  segments[c].kind # segments[b].kind
    <3>1. c \in 1..m /\ ~(b <= c)
      BY <1>1, <2>3
    <3> QED
      BY <2>2, <2>3, <3>1
  <2>5. b \in FirstOfKind
    BY <1>5, <2>3, <2>4
  <2>6. PICK i \in 1..n : order[i] = b
    BY <1>4, <2>3, <2>5
  <2>7. PICK k \in 1..n : p[k] = i
    BY <1>8 DEF InOrder
  <2>8. kinds[k] = segments[order[p[k]]].kind
    OBVIOUS
  <2> QED
    BY <2>3, <2>6, <2>7, <2>8
<1>17. ASSUME NEW k \in 1..n, NEW l \in 1..n, k < l
       PROVE  KindTotal(kinds[k]) >= KindTotal(kinds[l])
  <2>1. f[p[k]] <= f[p[l]] /\ p[k] \in 1..n /\ p[l] \in 1..n
    BY <1>8, <1>17 DEF InOrder
  <2>2. kinds[k] = Kind(p[k]) /\ kinds[l] = Kind(p[l])
    OBVIOUS
  <2> HIDE DEF f, kinds, p, n, Kind
  <2> QED
    BY <1>7, <2>1, <2>2
<1> HIDE DEF kinds, n
<1>18. SharesAre(kinds, n)
  BY <1>4, <1>13, <1>15, <1>16, <1>17 DEF SharesAre
<1> QED
  BY <1>18

(* The shares add up to the time something ran. *)
LEMMA SharesAddUp ==
  ASSUME Drawn
  PROVE  /\ SumFunction([n \in DOMAIN KindShares |-> KindShares[n].duration])
              = Cardinality(BusyMoments)
         /\ \A n \in 1..(Len(KindShares) - 1) :
              KindShares[n].duration >= KindShares[n + 1].duration
<1>1. PICK kinds, n : SharesAre(kinds, n)
  BY SharesFound
<1>2. /\ n \in Nat /\ DOMAIN KindShares = 1..n
      /\ \A k \in 1..n : KindShares[k].duration = KindTotal(kinds[k])
  BY <1>1 DEF SharesAre
<1>3. Len(KindShares) = n
  BY <1>2
<1>4. \A k \in 1..(n - 1) : KindShares[k].duration >= KindShares[k + 1].duration
  <2> SUFFICES ASSUME NEW k \in 1..(n - 1)
               PROVE  KindShares[k].duration >= KindShares[k + 1].duration
    OBVIOUS
  <2>1. k \in 1..n /\ k + 1 \in 1..n /\ k < k + 1
    BY <1>2
  <2>2. KindTotal(kinds[k]) >= KindTotal(kinds[k + 1])
    BY <1>1, <2>1 DEF SharesAre
  <2> QED
    BY <1>2, <2>1, <2>2
<1> DEFINE I == 1..n
           D == BusyMoments
           KindOf(x) == segments[SegmentAt(x)].kind
           c == [x \in D |-> CHOOSE k \in I : kinds[k] = KindOf(x)]
           f == [k \in I |-> KindTotal(kinds[k])]
<1>5. ASSUME NEW x \in D
      PROVE  c[x] \in I /\ kinds[c[x]] = KindOf(x)
  <2>1. SegmentAt(x) \in 1..Len(segments)
    BY SegmentsAre DEF BusyMoments
  <2>2. \E k \in I : kinds[k] = KindOf(x)
    BY <1>1, <2>1 DEF SharesAre
  <2>3. c[x] = CHOOSE k \in I : kinds[k] = KindOf(x)
    OBVIOUS
  <2> HIDE DEF c, I, KindOf
  <2> QED
    BY <2>2, <2>3
<1> HIDE DEF c
<1>6. \A k \in I, x \in D : c[x] = k <=> KindOf(x) = kinds[k]
  BY <1>1, <1>5 DEF SharesAre
<1>7. ASSUME NEW k \in I
      PROVE  KindTotal(kinds[k]) = Cardinality({x \in D : c[x] = k})
  <2>1. {x \in D : c[x] = k} = KindMoments(kinds[k])
    BY <1>6 DEF KindMoments
  <2> QED
    BY <2>1, KindTotalIs
<1>8. [k \in DOMAIN KindShares |-> KindShares[k].duration] = f
  BY <1>2
<1> HIDE DEF I, D
<1>9. f = [k \in I |-> Cardinality({x \in D : c[x] = k})]
  BY <1>7
<1>10. IsFiniteSet(I) /\ IsFiniteSet(D)
  BY <1>2, FS_Interval, BusyFinite DEF I, D
<1> HIDE DEF f
<1>11. SumFunction(f) = Cardinality({x \in D : c[x] \in I})
  BY <1>9, <1>10, SumOfClasses
<1>12. {x \in D : c[x] \in I} = D
  BY <1>5
<1> QED
  BY <1>3, <1>4, <1>8, <1>11, <1>12 DEF D

(* Every span has one row. *)
Listed ==
  /\ rows \in Seq(1..Len(spans)) /\ Len(rows) = Len(spans)
  /\ \A i \in 1..Len(spans) : \E n \in 1..Len(spans) : rows[n] = i

LEMMA WavesAre ==
  ASSUME SpansRecorded, Listed, NEW x \in Moments
  PROVE  {w.span : w \in {v \in Waves : v.start <= x /\ x < v.end}}
           = {i \in DOMAIN spans : spans[i].start <= x /\ x < End(i)}
<1> DEFINE Wave(i) == [span |-> i, start |-> spans[i].start, end |-> To(i),
                       depth |-> spans[i].depth]
<1>1. /\ DOMAIN rows = 1..Len(spans) /\ DOMAIN spans = 1..Len(spans)
      /\ \A n \in 1..Len(spans) : rows[n] \in 1..Len(spans)
  <2> DEFINE T == 1..Len(spans)
  <2>1. rows \in Seq(T) /\ Len(rows) = Len(spans)
    BY DEF Listed
  <2> HIDE DEF T
  <2>2. DOMAIN rows = 1..Len(spans) /\ \A n \in 1..Len(spans) : rows[n] \in T
    BY <2>1
  <2> QED
    BY <2>2, SpanFields DEF T
<1>2. ASSUME NEW v
      PROVE  v \in Waves <=>
               \E i \in 1..Len(spans) : spans[i].duration > 0 /\ v = Wave(i)
  <2>1. v \in Waves <=>
          \E n \in 1..Len(spans) : spans[rows[n]].duration > 0 /\ v = Wave(rows[n])
    BY <1>1 DEF Waves
  <2> HIDE DEF Wave
  <2> QED
    BY <1>1, <2>1 DEF Listed
<1>3. \A i : Wave(i).span = i /\ Wave(i).start = spans[i].start /\ Wave(i).end = To(i)
  OBVIOUS
<1>4. ASSUME NEW i \in 1..Len(spans)
      PROVE  /\ x < To(i) <=> x < End(i)
             /\ spans[i].start <= x /\ x < End(i) => spans[i].duration > 0
  <2>1. x < To(i) <=> x < End(i)
    BY DrawnTimes DEF Moments
  <2>2. spans[i].start \in Int /\ spans[i].duration \in Nat /\ x \in Int
    BY SpanFields DEF Moments
  <2> QED
    BY <2>1, <2>2 DEF End
<1> HIDE DEF Wave
<1>5. ASSUME NEW i
      PROVE  i \in {w.span : w \in {v \in Waves : v.start <= x /\ x < v.end}}
               <=> i \in 1..Len(spans) /\ spans[i].start <= x /\ x < End(i)
  <2>1. ASSUME NEW w \in Waves, w.start <= x, x < w.end, i = w.span
        PROVE  i \in 1..Len(spans) /\ spans[i].start <= x /\ x < End(i)
    <3>1. PICK j \in 1..Len(spans) : spans[j].duration > 0 /\ w = Wave(j)
      BY <1>2, <2>1
    <3> QED
      BY <1>3, <1>4, <2>1, <3>1
  <2>2. ASSUME i \in 1..Len(spans), spans[i].start <= x, x < End(i)
        PROVE  \E w \in Waves : w.start <= x /\ x < w.end /\ i = w.span
    <3>1. Wave(i) \in Waves
      BY <1>2, <1>4, <2>2
    <3> QED
      BY <1>3, <1>4, <2>2, <3>1
  <2> QED
    BY <2>1, <2>2
<1> QED
  BY <1>1, <1>5

LEMMA MomentsShown ==
  ASSUME Drawn, Listed
  PROVE  MomentsAttributed
<1>1. ASSUME NEW x \in Moments
      PROVE  Cardinality(Segments(x)) = IF Running(x) = {} THEN 0 ELSE 1
  BY SegmentsAre, FS_EmptySet, FS_Singleton
<1>2. ASSUME NEW x \in Moments
      PROVE  {w.span : w \in {v \in Waves : v.start <= x /\ x < v.end}}
               = {i \in DOMAIN spans : spans[i].start <= x /\ x < End(i)}
  BY WavesAre DEF Drawn
<1>3. ASSUME NEW x \in Moments, NEW n \in Segments(x)
      PROVE  \E i \in Running(x) :
               /\ segments[n].kind = spans[i].kind
               /\ \A j \in Running(x) :
                    /\ spans[j].depth <= spans[i].depth
                    /\ spans[j].depth = spans[i].depth => From(j) <= From(i)
  <2>1. n \in 1..Len(segments) /\ Covers(segments[n], x)
    BY SegmentsAre
  <2>2. PICK i \in ActiveAt(x) :
          segments[n].kind = spans[i].kind /\ \A j \in ActiveAt(x) : Inner(i, j)
    BY <2>1 DEF Drawn, Draws, Moments
  <2>3. ActiveAt(x) = Running(x) /\ ActiveAt(x) \subseteq 1..Len(spans)
    BY RunningIs, DrawnTimes DEF Drawn, ActiveAt
  <2>4. ASSUME NEW j \in ActiveAt(x)
        PROVE  /\ spans[j].depth <= spans[i].depth
               /\ spans[j].depth = spans[i].depth => From(j) <= From(i)
    <3>1. /\ spans[i].depth \in Nat /\ spans[j].depth \in Nat
          /\ From(i) \in Nat /\ From(j) \in Nat
      BY <2>3, SpanFields, DrawnTimes DEF Drawn
    <3>2. Inner(i, j)
      BY <2>2
    <3> QED
      BY <3>1, <3>2 DEF Inner
  <2> QED
    BY <2>2, <2>3, <2>4
<1>4. ASSUME NEW n \in 1..(Len(segments) - 1)
      PROVE  LET next == segments[n + 1] stop == segments[n].offset + segments[n].duration IN
             stop < next.offset \/ (stop = next.offset /\ segments[n].kind # next.kind)
  <2>1. Len(segments) \in Nat
    BY SegmentFields DEF Drawn, Draws
  <2>2. n \in 1..Len(segments) /\ n + 1 \in 1..Len(segments) /\ n < n + 1
    BY <2>1
  <2>3. /\ segments[n].offset \in Int /\ segments[n].duration \in Nat
        /\ segments[n + 1].offset \in Int
    BY <2>2, SegmentFields DEF Drawn, Draws
  <2>4. segments[n].offset + segments[n].duration <= segments[n + 1].offset
    BY <2>2 DEF Drawn, Draws
  <2>5. segments[n].offset + segments[n].duration = segments[n + 1].offset
          => segments[n].kind # segments[n + 1].kind
    BY DEF Drawn, Draws
  <2> QED
    BY <2>3, <2>4, <2>5
<1>5. BusyMoments = {x \in 0..(Length - 1) : Running(x) # {}}
  BY DEF BusyMoments, Moments
<1> QED
  BY <1>1, <1>2, <1>3, <1>4, <1>5, SharesAddUp DEF MomentsAttributed, Moments

-----------------------------------------------------------------------------
(* The rows. *)

(* q holds the spans below p whose line of parents reaches p at a child    *)
(* recorded no later than i.                                               *)
Under(q, p, i) ==
  /\ q \in Seq(1..Len(spans))
  /\ \A m \in 1..Len(q) : q[m] > p
  /\ \A m, n \in 1..Len(q) : m # n => q[m] # q[n]
  /\ \A m \in 1..Len(q) :
       \/ spans[q[m]].parent = p /\ q[m] <= i
       \/ \E l \in 1..Len(q) : l < m /\ q[l] = spans[q[m]].parent
  /\ \A c \in 1..Len(spans) :
       \/ spans[c].parent = p /\ c <= i
       \/ \E l \in 1..Len(q) : q[l] = spans[c].parent
       => \E m \in 1..Len(q) : q[m] = c

(* Siblings stand as recorded; what stands between a span and one of its   *)
(* children is deeper than the span.                                       *)
InWalk(q, p) ==
  /\ \A m, n \in 1..Len(q) :
       spans[q[m]].parent = spans[q[n]].parent /\ q[m] < q[n] => m < n
  /\ p # 0 => \A m \in 1..Len(q) : spans[q[m]].depth > spans[p].depth
  /\ \A m, n \in 1..Len(q) : spans[q[n]].parent = q[m] =>
       \A k \in (m + 1)..n : spans[q[k]].depth > spans[q[m]].depth

LEMMA UnderNone ==
  ASSUME SpansRecorded, NEW p \in 0..Len(spans)
  PROVE  Under(<<>>, p, p) /\ InWalk(<<>>, p)
<1>1. <<>> \in Seq(1..Len(spans)) /\ Len(<<>>) = 0
  BY EmptyIs
<1>2. ASSUME NEW c \in 1..Len(spans), spans[c].parent = p, c <= p
      PROVE  FALSE
  <2>1. spans[c].parent = Lost \/ spans[c].parent \in 0..(c - 1)
    BY DEF SpansRecorded
  <2> QED
    BY <1>2, <2>1, SpanFields DEF Lost
<1> QED
  BY <1>1, <1>2 DEF Under, InWalk

LEMMA UnderOther ==
  ASSUME SpansRecorded, NEW q, NEW p \in 0..Len(spans), NEW i \in 1..Len(spans),
         Under(q, p, i - 1), spans[i].parent # p
  PROVE  Under(q, p, i)
<1>1. Len(spans) \in Nat /\ Len(q) \in Nat /\ \A m \in 1..Len(q) : q[m] \in 1..Len(spans)
  BY SpanFields DEF Under
<1>2. \A c \in 1..Len(spans) : spans[c].parent = p /\ c <= i => c <= i - 1
  BY <1>1
<1>3. \A m \in 1..Len(q) : q[m] <= i - 1 => q[m] <= i
  BY <1>1
<1> QED
  BY <1>2, <1>3 DEF Under

LEMMA UnderChild ==
  ASSUME SpansRecorded, NEW u, NEW v, NEW p \in 0..Len(spans), NEW i \in 1..Len(spans),
         p < i, spans[i].parent = p,
         Under(u, p, i - 1), InWalk(u, p), Under(v, i, Len(spans)), InWalk(v, i)
  PROVE  Under(u \o <<i>> \o v, p, i) /\ InWalk(u \o <<i>> \o v, p)
<1> DEFINE T == 1..Len(spans)
           q == u \o <<i>> \o v
           a == Len(u)
           b == Len(v)
           n == Len(q)
           Par(c) == spans[c].parent
           Deep(c) == spans[c].depth
<1>1. /\ q \in Seq(T) /\ a \in Nat /\ b \in Nat /\ n = a + 1 + b
      /\ \A m \in 1..a : q[m] = u[m]
      /\ q[a + 1] = i
      /\ \A m \in 1..b : q[a + 1 + m] = v[m]
  <2>1. u \in Seq(T) /\ v \in Seq(T) /\ i \in T
    BY DEF Under
  <2> HIDE DEF T
  <2>2. /\ q \in Seq(T) /\ Len(u) \in Nat /\ Len(v) \in Nat /\ Len(q) = Len(u) + 1 + Len(v)
        /\ \A m \in 1..Len(u) : q[m] = u[m]
        /\ q[Len(u) + 1] = i
        /\ \A m \in 1..Len(v) : q[Len(u) + 1 + m] = v[m]
    BY <2>1, JoinIs
  <2> HIDE DEF q
  <2> QED
    BY <2>2
<1>2. /\ Len(spans) \in Nat /\ T \subseteq Nat
      /\ \A m \in 1..a : u[m] \in T
      /\ \A m \in 1..b : v[m] \in T
  BY SpanFields DEF Under
<1>3. \A c \in T : Par(c) \in Int /\ Deep(c) \in Nat /\ (Par(c) = Lost \/ Par(c) \in 0..(c - 1))
  BY SpanFields DEF SpansRecorded
<1>4. p # Lost /\ i # Lost /\ p \in Nat /\ i \in T
  BY <1>2 DEF Lost
<1> HIDE DEF q, a, b, n, T
(* Each row is of the first list, the child or of the second list.         *)
<1>5. ASSUME NEW m \in 1..n
      PROVE  \/ m \in 1..a /\ q[m] = u[m]
             \/ m = a + 1 /\ q[m] = i
             \/ m > a + 1 /\ m - (a + 1) \in 1..b /\ q[m] = v[m - (a + 1)]
  <2>1. CASE m <= a
    BY <1>1, <2>1
  <2>2. CASE m = a + 1
    BY <1>1, <2>2
  <2>3. CASE m > a + 1
    <3>1. m - (a + 1) \in 1..b /\ a + 1 + (m - (a + 1)) = m
      BY <1>1, <2>3
    <3> QED
      BY <1>1, <2>3, <3>1
  <2> QED
    BY <1>1, <2>1, <2>2, <2>3
<1>6. /\ \A m \in 1..a : m \in 1..n
      /\ a + 1 \in 1..n
      /\ \A m \in 1..b : a + 1 + m \in 1..n
  BY <1>1
(* The two lists have no span in common, nor the child.                    *)
<1>7. /\ \A m \in 1..a : u[m] > p /\ u[m] \in Nat
      /\ \A m \in 1..b : v[m] > i /\ v[m] \in Nat
  BY <1>2 DEF Under, a, b
<1>8. /\ \A m \in 1..a : \/ Par(u[m]) = p /\ u[m] <= i - 1
                         \/ \E l \in 1..a : l < m /\ u[l] = Par(u[m])
      /\ \A m \in 1..b : \/ Par(v[m]) = i
                         \/ \E l \in 1..b : l < m /\ v[l] = Par(v[m])
  BY DEF Under, a, b
<1>9. \A m \in 1..a : u[m] # i
  <2> SUFFICES ASSUME NEW m \in 1..a, u[m] = i PROVE FALSE
    OBVIOUS
  <2>1. CASE u[m] <= i - 1
    BY <1>4, <2>1
  <2>2. CASE \E l \in 1..a : u[l] = p
    BY <1>4, <1>7, <2>2
  <2> QED
    BY <1>8, <2>1, <2>2
<1>10. \A m \in 1..a, l \in 1..b : u[m] # v[l]
  <2> DEFINE Both == {c \in T : (\E m \in 1..a : u[m] = c) /\ (\E l \in 1..b : v[l] = c)}
  <2> SUFFICES ASSUME Both # {} PROVE FALSE
    BY <1>2
  <2>1. PICK c \in Both : \A d \in Both : c <= d
    <3>1. Both \in SUBSET Nat
      BY <1>2
    <3> HIDE DEF Both
    <3> QED
      BY <3>1, LeastNumber
  <2>0. c \in T /\ (\E m \in 1..a : u[m] = c) /\ (\E l \in 1..b : v[l] = c)
    OBVIOUS
  <2> HIDE DEF Both
  <2>2. PICK m \in 1..a : u[m] = c
    BY <2>0
  <2>3. PICK l \in 1..b : v[l] = c
    BY <2>0
  <2>4. c \in T /\ c \in Nat
    BY <1>2, <2>0
  <2>5. Par(c) \in Nat => Par(c) < c
    <3>1. Par(c) = Lost \/ Par(c) \in 0..(c - 1)
      BY <1>3, <2>4
    <3> HIDE DEF Par, T
    <3> QED
      BY <2>4, <3>1 DEF Lost
  <2>6. Par(c) = p \/ \E x \in 1..a : u[x] = Par(c)
    BY <1>8, <2>2
  <2>7. Par(c) = i \/ \E x \in 1..b : v[x] = Par(c)
    BY <1>8, <2>3
  <2>8. CASE Par(c) = i
    BY <1>4, <1>9, <2>6, <2>8
  <2>9. CASE Par(c) = p
    BY <1>4, <1>7, <2>7, <2>9
  <2>10. CASE (\E x \in 1..a : u[x] = Par(c)) /\ (\E x \in 1..b : v[x] = Par(c))
    <3>1. Par(c) \in T
      BY <1>2, <2>10
    <3>2. Par(c) \in Both
      BY <2>10, <3>1 DEF Both
    <3>3. c <= Par(c)
      BY <2>1, <3>2
    <3>4. Par(c) \in Nat
      BY <1>2, <3>1
    <3> HIDE DEF Par, T
    <3> QED
      BY <2>4, <2>5, <3>3, <3>4
  <2> QED
    BY <2>6, <2>7, <2>8, <2>9, <2>10
<1>11. \A m \in 1..n : q[m] > p /\ q[m] \in T
  BY <1>2, <1>4, <1>5, <1>7
<1>12. ASSUME NEW x \in 1..n, NEW y \in 1..n, x # y
       PROVE  q[x] # q[y]
  <2>1. \A m, l \in 1..a : m # l => u[m] # u[l]
    BY DEF Under, a
  <2>2. \A m, l \in 1..b : m # l => v[m] # v[l]
    BY DEF Under, b
  <2>3. \A m \in 1..b : v[m] # i
    BY <1>4, <1>7
  <2>4. x \in Int /\ y \in Int /\ a \in Int
    BY <1>1
  <2> QED
    BY <1>5, <1>9, <1>10, <1>12, <2>1, <2>2, <2>3, <2>4
<1>13. ASSUME NEW x \in 1..n
       PROVE  \/ Par(q[x]) = p /\ q[x] <= i
              \/ \E l \in 1..n : l < x /\ q[l] = Par(q[x])
  <2>1. CASE x \in 1..a /\ q[x] = u[x]
    <3>1. CASE Par(u[x]) = p /\ u[x] <= i - 1
      BY <1>4, <1>7, <2>1, <3>1
    <3>2. CASE \E l \in 1..a : l < x /\ u[l] = Par(u[x])
      BY <1>1, <1>6, <2>1, <3>2
    <3> QED
      BY <1>8, <2>1, <3>1, <3>2
  <2>2. CASE x = a + 1 /\ q[x] = i
    BY <1>4, <2>2
  <2>3. CASE x > a + 1 /\ x - (a + 1) \in 1..b /\ q[x] = v[x - (a + 1)]
    <3> DEFINE y == x - (a + 1)
    <3>1. CASE Par(v[y]) = i
      BY <1>1, <1>6, <2>3, <3>1
    <3>2. CASE \E l \in 1..b : l < y /\ v[l] = Par(v[y])
      <4>1. PICK l \in 1..b : l < y /\ v[l] = Par(v[y])
        BY <3>2
      <4>2. a + 1 + l \in 1..n /\ q[a + 1 + l] = v[l] /\ a + 1 + l < x
        BY <1>1, <1>6, <4>1
      <4> QED
        BY <2>3, <4>1, <4>2
    <3> QED
      BY <1>8, <2>3, <3>1, <3>2
  <2> QED
    BY <1>5, <2>1, <2>2, <2>3
<1>14. ASSUME NEW c \in T,
              (Par(c) = p /\ c <= i) \/ \E l \in 1..n : q[l] = Par(c)
       PROVE  \E m \in 1..n : q[m] = c
  <2>1. /\ Par(c) = p /\ c <= i - 1 => \E m \in 1..a : u[m] = c
        /\ (\E l \in 1..a : u[l] = Par(c)) => \E m \in 1..a : u[m] = c
        /\ Par(c) = i => \E m \in 1..b : v[m] = c
        /\ (\E l \in 1..b : v[l] = Par(c)) => \E m \in 1..b : v[m] = c
    <3>1. c \in 1..Len(spans) /\ c <= Len(spans)
      BY <1>2 DEF T
    <3> QED
      BY <3>1 DEF Under, a, b
  <2>2. (\E m \in 1..a : u[m] = c) => \E m \in 1..n : q[m] = c
    BY <1>1, <1>6
  <2>3. (\E m \in 1..b : v[m] = c) => \E m \in 1..n : q[m] = c
    BY <1>1, <1>6
  <2>4. c = i => \E m \in 1..n : q[m] = c
    BY <1>1, <1>6
  <2>5. CASE Par(c) = p /\ c <= i
    <3>1. c = i \/ c <= i - 1
      BY <1>2, <1>4, <2>5
    <3> QED
      BY <2>1, <2>2, <2>4, <2>5, <3>1
  <2>6. CASE \E l \in 1..n : q[l] = Par(c)
    <3>1. PICK l \in 1..n : q[l] = Par(c)
      BY <2>6
    <3>2. \/ \E x \in 1..a : u[x] = Par(c)
          \/ Par(c) = i
          \/ \E x \in 1..b : v[x] = Par(c)
      BY <1>5, <3>1
    <3> QED
      BY <2>1, <2>2, <2>3, <3>2
  <2> QED
    BY <1>14, <2>5, <2>6
(* Nor do they have siblings of each other. *)
<1>15. /\ \A m \in 1..a, l \in 1..b : Par(u[m]) # Par(v[l])
       /\ \A l \in 1..b : Par(v[l]) # p
  <2>1. \A l \in 1..b : Par(v[l]) # p
    BY <1>4, <1>7, <1>8
  <2>2. ASSUME NEW m \in 1..a, NEW l \in 1..b, Par(u[m]) = Par(v[l])
        PROVE  FALSE
    <3>1. \E x \in 1..a : u[x] = Par(u[m])
      BY <1>8, <2>1, <2>2
    <3>2. Par(v[l]) = i \/ \E x \in 1..b : v[x] = Par(v[l])
      BY <1>8
    <3> QED
      BY <1>9, <1>10, <2>2, <3>1, <3>2
  <2> QED
    BY <2>1, <2>2
<1>16. ASSUME NEW x \in 1..n, NEW y \in 1..n, Par(q[x]) = Par(q[y]), q[x] < q[y]
       PROVE  x < y
  <2>0. x \in Int /\ y \in Int /\ a \in Int /\ x # y
    <3>1. q[x] \in Nat
      BY <1>2, <1>11
    <3>2. x # y
      BY <1>16, <3>1
    <3> QED
      BY <1>1, <3>2
  <2>1. \A m, l \in 1..a : Par(u[m]) = Par(u[l]) /\ u[m] < u[l] => m < l
    BY DEF InWalk, a
  <2>2. \A m, l \in 1..b : Par(v[m]) = Par(v[l]) /\ v[m] < v[l] => m < l
    BY DEF InWalk, b
  <2>3. ASSUME y \in 1..a, q[y] = u[y], x = a + 1, q[x] = i
        PROVE  FALSE
    <3>1. Par(u[y]) = p
      BY <1>16, <2>3
    <3>2. u[y] <= i - 1
      BY <1>4, <1>7, <1>8, <2>3, <3>1
    <3> QED
      BY <1>4, <1>7, <1>16, <2>3, <3>2
  <2>4. CASE x \in 1..a /\ q[x] = u[x]
    <3>1. CASE y \in 1..a /\ q[y] = u[y]
      BY <1>16, <2>1, <2>4, <3>1
    <3>2. CASE y > a
      BY <2>0, <2>4, <3>2
    <3> QED
      BY <1>5, <2>0, <3>1, <3>2
  <2>5. CASE x = a + 1 /\ q[x] = i
    <3>1. CASE y \in 1..a /\ q[y] = u[y]
      BY <2>3, <2>5, <3>1
    <3>2. CASE y > a
      BY <2>0, <2>5, <3>2
    <3> QED
      BY <1>5, <2>0, <3>1, <3>2
  <2>6. CASE x > a + 1 /\ x - (a + 1) \in 1..b /\ q[x] = v[x - (a + 1)]
    <3>1. CASE y \in 1..a /\ q[y] = u[y]
      BY <1>15, <1>16, <2>6, <3>1
    <3>2. CASE y = a + 1 /\ q[y] = i
      BY <1>15, <1>16, <2>6, <3>2
    <3>3. CASE y > a + 1 /\ y - (a + 1) \in 1..b /\ q[y] = v[y - (a + 1)]
      <4>1. x - (a + 1) < y - (a + 1)
        BY <1>16, <2>2, <2>6, <3>3
      <4> QED
        BY <2>0, <4>1
    <3> QED
      BY <1>5, <3>1, <3>2, <3>3
  <2> QED
    BY <1>5, <2>4, <2>5, <2>6
<1>17. \A m \in 1..b : Deep(v[m]) > Deep(i)
  BY <1>4 DEF InWalk, b
<1>18. ASSUME p # 0, NEW x \in 1..n
       PROVE  Deep(q[x]) > Deep(p)
  <2>1. Deep(i) > Deep(p) /\ p \in T
    <3>1. /\ spans[i].parent \in 0..(i - 1)
          /\ spans[i].parent # 0 => spans[spans[i].parent].depth < spans[i].depth
      BY <1>4 DEF SpansRecorded
    <3>2. p \in T
      BY <1>4, <1>18, <3>1 DEF T
    <3> QED
      BY <1>3, <1>4, <1>18, <3>1, <3>2
  <2>2. \A m \in 1..a : Deep(u[m]) > Deep(p)
    BY <1>18 DEF InWalk, a
  <2>3. \A m \in 1..b : Deep(v[m]) > Deep(p)
    <3> SUFFICES ASSUME NEW m \in 1..b PROVE Deep(v[m]) > Deep(p)
      OBVIOUS
    <3>1. Deep(v[m]) > Deep(i) /\ Deep(v[m]) \in Nat /\ Deep(i) \in Nat /\ Deep(p) \in Nat
      BY <1>2, <1>3, <1>4, <1>17, <2>1
    <3> QED
      BY <2>1, <3>1
  <2> QED
    BY <1>5, <2>1, <2>2, <2>3
<1>19. ASSUME NEW x \in 1..n, NEW y \in 1..n, Par(q[y]) = q[x], NEW k \in (x + 1)..y
       PROVE  Deep(q[k]) > Deep(q[x])
  <2>0. x \in Int /\ y \in Int /\ a \in Int /\ k \in Int /\ k \in 1..n /\ q[x] # p
    <3>1. x \in Int /\ y \in Int /\ a \in Int /\ k \in Int /\ k \in 1..n
      BY <1>1
    <3>2. q[x] > p /\ q[x] \in Nat
      BY <1>2, <1>11
    <3> QED
      BY <1>4, <3>1, <3>2
  <2>1. CASE y \in 1..a /\ q[y] = u[y]
    <3>1. PICK l \in 1..a : l < y /\ u[l] = Par(u[y])
      BY <1>8, <1>19, <2>0, <2>1
    <3>2. q[l] = u[l] /\ l \in 1..n
      BY <1>1, <1>6
    <3>3. l = x
      BY <1>12, <1>19, <2>1, <3>1, <3>2
    <3>4. k \in 1..a /\ k \in (l + 1)..y
      BY <2>0, <2>1, <3>3
    <3>5. Deep(u[k]) > Deep(u[l])
      BY <2>1, <3>1, <3>4 DEF InWalk, a
    <3> QED
      BY <1>1, <3>2, <3>3, <3>4, <3>5
  <2>2. CASE y = a + 1 /\ q[y] = i
    BY <1>19, <2>0, <2>2
  <2>3. CASE y > a + 1 /\ y - (a + 1) \in 1..b /\ q[y] = v[y - (a + 1)]
    <3> DEFINE z == y - (a + 1)
    <3>1. CASE Par(v[z]) = i
      <4>1. q[a + 1] = i /\ a + 1 \in 1..n /\ q[x] = i
        BY <1>1, <1>6, <1>19, <2>3, <3>1
      <4>2. x = a + 1
        BY <1>12, <4>1
      <4>3. k > a + 1
        BY <2>0, <4>2
      <4>4. k - (a + 1) \in 1..b /\ q[k] = v[k - (a + 1)]
        BY <1>5, <2>0, <4>3
      <4> QED
        BY <1>17, <4>1, <4>4
    <3>2. CASE \E l \in 1..b : l < z /\ v[l] = Par(v[z])
      <4>1. PICK l \in 1..b : l < z /\ v[l] = Par(v[z])
        BY <3>2
      <4>2. a + 1 + l \in 1..n /\ q[a + 1 + l] = v[l]
        BY <1>1, <1>6
      <4>3. x = a + 1 + l
        BY <1>12, <1>19, <2>3, <4>1, <4>2
      <4>4. k > a + 1
        BY <2>0, <4>1, <4>3
      <4>5. k - (a + 1) \in 1..b /\ q[k] = v[k - (a + 1)]
        BY <1>5, <2>0, <4>4
      <4>6. k - (a + 1) \in (l + 1)..z
        BY <2>0, <4>3
      <4>7. Deep(v[k - (a + 1)]) > Deep(v[l])
        BY <2>3, <4>1, <4>5, <4>6 DEF InWalk, b
      <4> QED
        BY <4>2, <4>3, <4>5, <4>7
    <3> QED
      BY <1>8, <2>3, <3>1, <3>2
  <2> QED
    BY <1>5, <2>1, <2>2, <2>3
<1>20. Under(q, p, i)
  BY <1>1, <1>11, <1>12, <1>13, <1>14 DEF Under, n, T
<1>21. InWalk(q, p)
  BY <1>16, <1>18, <1>19 DEF InWalk, n
<1> QED
  BY <1>20, <1>21 DEF q

(* The children of a span are found from the walks of later spans alone.   *)
LEMMA ChildrenSame ==
  ASSUME NEW p, NEW w, NEW v, \A i \in p..Len(spans) : i # p => w[i] = v[i]
  PROVE  Children(w, p) = Children(v, p)
<1> DEFINE N == Len(spans)
           Next(b, a) == [i \in p..N |-> IF i = p THEN <<>>
                            ELSE IF spans[i].parent # p THEN b[i - 1]
                            ELSE b[i - 1] \o <<i>> \o a[i]]
           P(b) == b = Next(b, w)
           Q(b) == b = Next(b, v)
<1>1. \A b : Next(b, w) = Next(b, v)
  OBVIOUS
<1>2. (CHOOSE b : P(b)) = (CHOOSE b : Q(b))
  <2>1. \A b : P(b) <=> Q(b)
    <3> HIDE DEF Next
    <3> QED
      BY <1>1
  <2> HIDE DEF P, Q
  <2> QED
    BY <2>1
<1>3. Children(w, p) = (CHOOSE b : P(b))[N]
  BY DEF Children
<1>4. Children(v, p) = (CHOOSE b : Q(b))[N]
  BY DEF Children
<1> QED
  BY <1>2, <1>3, <1>4

(* The loop over the later spans that gathers the children of p.           *)
Gathers(b, w, p) ==
  /\ b[p] = <<>>
  /\ \A i \in 1..Len(spans) : p < i =>
       b[i] = IF spans[i].parent # p THEN b[i - 1] ELSE b[i - 1] \o <<i>> \o w[i]
  /\ Children(w, p) = b[Len(spans)]

LEMMA ChildrenAre ==
  ASSUME SpansRecorded, NEW p \in 0..Len(spans), NEW w,
         \A i \in 1..Len(spans) : p < i => w[i] \in Seq(1..Len(spans))
  PROVE  \E b : Gathers(b, w, p)
<1> DEFINE N == Len(spans)
           V == Seq(1..N)
           Grown(x, i) == IF spans[i].parent # p THEN x ELSE x \o <<i>> \o w[i]
           step == [k \in 1..(N - p) |-> [x \in V |-> Grown(x, p + k)]]
           Next(b) == [i \in p..N |-> IF i = p THEN <<>>
                            ELSE IF spans[i].parent # p THEN b[i - 1]
                            ELSE b[i - 1] \o <<i>> \o w[i]]
<1>1. N \in Nat /\ N - p \in Nat /\ p \in Nat
  BY SpanFields
<1>2. \A k \in 1..(N - p) : p + k \in 1..N /\ p < p + k
  BY <1>1
<1>3. ASSUME NEW x \in V, NEW i \in 1..N, p < i
      PROVE  Grown(x, i) \in V
  <2>1. w[i] \in V /\ i \in 1..N
    BY <1>3
  <2>2. x \o <<i>> \o w[i] \in V
    BY <2>1, JoinIs
  <2> QED
    BY <2>2
<1>4. <<>> \in V
  BY EmptyIs
<1>5. step \in [1..(N - p) -> [V -> V]]
  <2> HIDE DEF V, Grown, N
  <2> QED
    BY <1>2, <1>3
<1>6. PICK f : IsLoop(f, <<>>, step, N - p, V)
  <2> HIDE DEF V, step, N
  <2> QED
    BY <1>1, <1>4, <1>5, LoopExists
<1> DEFINE g == [i \in p..N |-> f[i - p]]
<1>7. \A k \in 1..(N - p) : f[k] = Grown(f[k - 1], p + k)
  <2> SUFFICES ASSUME NEW k \in 1..(N - p) PROVE f[k] = Grown(f[k - 1], p + k)
    OBVIOUS
  <2>1. f[k] = step[k][f[k - 1]] /\ f[k - 1] \in V
    <3>1. k - 1 \in 0..(N - p)
      BY <1>1
    <3> HIDE DEF V, step
    <3> QED
      BY <1>6, <3>1 DEF IsLoop
  <2> HIDE DEF V, Grown
  <2> QED
    BY <2>1
<1>8. g[p] = <<>>
  BY <1>1, <1>6 DEF IsLoop
<1>9. ASSUME NEW i \in p..N, i # p
      PROVE  g[i] = Grown(g[i - 1], i)
  <2>1. i - p \in 1..(N - p) /\ p + (i - p) = i /\ i - 1 \in p..N /\ (i - p) - 1 = (i - 1) - p
    BY <1>1, <1>9
  <2>2. g[i] = f[i - p] /\ g[i - 1] = f[(i - p) - 1]
    BY <2>1
  <2> HIDE DEF Grown, g
  <2> QED
    BY <1>7, <2>1, <2>2
<1>10. g = Next(g)
  <2>1. g = [i \in p..N |-> g[i]]
    OBVIOUS
  <2> HIDE DEF g
  <2> QED
    BY <1>8, <1>9, <2>1
<1> HIDE DEF g
<1> DEFINE b == CHOOSE x : x = Next(x)
<1>11. b = Next(b)
  <2>1. \E x : x = Next(x)
    BY <1>10
  <2> HIDE DEF Next
  <2> QED
    BY <2>1
<1>12. Children(w, p) = b[N]
  BY DEF Children
<1> HIDE DEF b
<1>13. p \in p..N /\ \A i \in 1..N : p < i => i \in p..N /\ i # p
  BY <1>1
<1>14. Gathers(b, w, p)
  BY <1>11, <1>12, <1>13 DEF Gathers
<1> QED
  BY <1>14

(* The walk exists: it is found from the last span back to the first.      *)
LEMMA WalkExists ==
  ASSUME SpansRecorded
  PROVE  \E w : /\ \A p \in 0..Len(spans) : w[p] = Children(w, p)
                /\ Walked = w[0]
<1> DEFINE N == Len(spans)
           Rest(k) == {p \in 0..N : p > N - k}
           Ready(w, k) == DOMAIN w = 0..N /\ \A p \in Rest(k) : w[p] = Children(w, p)
           Good == {k \in 0..(N + 1) : \E w : Ready(w, k)}
<1>1. N \in Nat
  BY SpanFields
<1>2. 0 \in Good
  <2>1. Ready([p \in 0..N |-> <<>>], 0)
    BY <1>1
  <2> HIDE DEF Ready
  <2> QED
    BY <1>1, <2>1
<1>3. ASSUME NEW k \in 0..((N + 1) - 1), k \in Good
      PROVE  k + 1 \in Good
  <2>1. PICK w : Ready(w, k)
    BY <1>3
  <2> DEFINE c == N - k
             v == [w EXCEPT ![c] = Children(w, c)]
  <2>2. c \in 0..N /\ Rest(k + 1) = Rest(k) \cup {c} /\ c \notin Rest(k)
    BY <1>1
  <2>3. DOMAIN v = 0..N /\ v[c] = Children(w, c) /\ \A p \in 0..N : p # c => v[p] = w[p]
    BY <2>1, <2>2
  <2>4. ASSUME NEW p \in Rest(k + 1)
        PROVE  Children(v, p) = Children(w, p)
    <3>1. \A i \in p..N : i # p => i # c /\ i \in 0..N
      BY <1>1
    <3> HIDE DEF v
    <3>2. \A i \in p..N : i # p => v[i] = w[i]
      BY <2>3, <3>1
    <3> QED
      BY <3>2, ChildrenSame
  <2>5. Ready(v, k + 1)
    <3> SUFFICES ASSUME NEW p \in Rest(k + 1) PROVE v[p] = Children(v, p)
      BY <2>3
    <3>1. p = c \/ (p \in Rest(k) /\ p # c /\ p \in 0..N)
      BY <2>2
    <3>2. p \in Rest(k) => w[p] = Children(w, p)
      BY <2>1
    <3> HIDE DEF v
    <3> QED
      BY <2>3, <2>4, <3>1, <3>2
  <2> HIDE DEF Ready, v
  <2> QED
    BY <1>1, <2>5
<1>4. N + 1 \in Good
  <2> HIDE DEF Good
  <2>1. \A k \in 0..(N + 1) : k \in Good
    BY <1>1, <1>2, <1>3, UpTo
  <2> QED
    BY <1>1, <2>1
<1>5. PICK u : Ready(u, N + 1)
  BY <1>4
<1>6. u = [p \in 0..N |-> Children(u, p)]
  <2>1. \A p \in 0..N : p \in Rest(N + 1)
    BY <1>1
  <2>2. DOMAIN u = 0..N /\ \A p \in 0..N : u[p] = Children(u, p)
    BY <1>5, <2>1
  <2> QED
    BY <2>2
<1> DEFINE Next(w) == [p \in 0..N |-> Children(w, p)]
           walk == CHOOSE w : w = Next(w)
<1>7. walk = Next(walk)
  <2>1. \E w : w = Next(w)
    BY <1>6
  <2> HIDE DEF Next
  <2> QED
    BY <2>1
<1>8. Walked = walk[0]
  BY DEF Walked
<1> HIDE DEF walk
<1> QED
  BY <1>7, <1>8

LEMMA WalkedIs ==
  ASSUME SpansRecorded
  PROVE  Under(Walked, 0, Len(spans)) /\ InWalk(Walked, 0)
<1> DEFINE N == Len(spans)
<1>1. N \in Nat
  BY SpanFields
<1>2. PICK w : /\ \A p \in 0..N : w[p] = Children(w, p)
               /\ Walked = w[0]
  BY WalkExists
<1> DEFINE Done(p) == Under(w[p], p, N) /\ InWalk(w[p], p)
           Good == {k \in 0..(N + 1) : \A p \in 0..N : p > N - k => Done(p)}
<1>3. 0 \in Good
  BY <1>1
<1>4. ASSUME NEW k \in 0..((N + 1) - 1), k \in Good
      PROVE  k + 1 \in Good
  <2> DEFINE p == N - k
  <2>1. p \in 0..N /\ p \in Nat
    BY <1>1
  <2>2. \A i \in 1..N : p < i => i \in 0..N /\ Done(i)
    <3> HIDE DEF Done
    <3> QED
      BY <1>1, <1>4
  <2>3. \A i \in 1..N : p < i => w[i] \in Seq(1..N)
    BY <2>2 DEF Under
  <2> HIDE DEF p
  <2>0. PICK b : Gathers(b, w, p)
    BY <2>1, <2>3, ChildrenAre
  <2>4. /\ b[p] = <<>>
        /\ \A i \in 1..N : p < i =>
             b[i] = IF spans[i].parent # p THEN b[i - 1] ELSE b[i - 1] \o <<i>> \o w[i]
        /\ Children(w, p) = b[N]
    BY <2>0 DEF Gathers
  <2> DEFINE Far(l) == Under(b[p + l], p, p + l) /\ InWalk(b[p + l], p)
             Grown == {l \in 0..(N - p) : Far(l)}
  <2>5. 0 \in Grown
    <3>1. Under(b[p], p, p) /\ InWalk(b[p], p)
      BY <2>1, <2>4, UnderNone
    <3> QED
      BY <1>1, <2>1, <3>1
  <2>6. ASSUME NEW l \in 0..((N - p) - 1), l \in Grown
        PROVE  l + 1 \in Grown
    <3> DEFINE i == p + (l + 1)
    <3>1. i \in 1..N /\ p < i /\ i - 1 = p + l /\ l + 1 \in 0..(N - p)
      BY <1>1, <2>1
    <3>2. Under(b[i - 1], p, i - 1) /\ InWalk(b[i - 1], p)
      BY <2>6, <3>1
    <3> HIDE DEF i
    <3>3. Under(b[i], p, i) /\ InWalk(b[i], p)
      <4>1. CASE spans[i].parent # p
        BY <2>1, <2>4, <3>1, <3>2, <4>1, UnderOther
      <4>2. CASE spans[i].parent = p
        <5>1. b[i] = b[i - 1] \o <<i>> \o w[i]
          BY <2>4, <3>1, <4>2
        <5>2. Under(w[i], i, N) /\ InWalk(w[i], i)
          BY <2>2, <3>1
        <5> QED
          BY <2>1, <3>1, <3>2, <4>2, <5>1, <5>2, UnderChild
      <4> QED
        BY <4>1, <4>2
    <3> QED
      BY <3>1, <3>3 DEF i
  <2>7. \A l \in 0..(N - p) : l \in Grown
    <3>1. N - p \in Nat
      BY <1>1, <2>1
    <3> HIDE DEF Grown
    <3> QED
      BY <2>5, <2>6, <3>1, UpTo
  <2>8. Under(b[N], p, N) /\ InWalk(b[N], p)
    <3>1. N - p \in 0..(N - p) /\ p + (N - p) = N
      BY <1>1, <2>1
    <3> QED
      BY <2>7, <3>1
  <2>9. Done(p)
    BY <1>2, <2>1, <2>4, <2>8
  <2>10. ASSUME NEW x \in 0..N, x > N - (k + 1)
         PROVE  Done(x)
    <3>1. x = p \/ x > N - k
      BY <1>1, <2>10 DEF p
    <3> HIDE DEF Done
    <3> QED
      BY <1>4, <2>9, <3>1
  <2> HIDE DEF Done
  <2> QED
    BY <1>1, <2>10
<1>5. \A k \in 0..(N + 1) : k \in Good
  <2> HIDE DEF Good
  <2> QED
    BY <1>1, <1>3, <1>4, UpTo
<1>6. Done(0)
  <2>1. N + 1 \in 0..(N + 1) /\ 0 \in 0..N /\ 0 > N - (N + 1)
    BY <1>1
  <2> HIDE DEF Done
  <2> QED
    BY <1>5, <2>1
<1> QED
  BY <1>2, <1>6

-----------------------------------------------------------------------------
(* The memory graph. *)

(* The points of the graph: q lists the spans with a reading in the order  *)
(* they were taken.                                                        *)
Plots(q, pts) ==
  /\ pts \in Seq([x : Int, bytes : Nat])
  /\ \A n \in 1..Len(pts) :
       q[n] \in Readings /\ pts[n] = [x |-> To(q[n]), bytes |-> spans[q[n]].memory]
  /\ \A i \in Readings : \E n \in 1..Len(pts) : q[n] = i
  /\ \A m, n \in 1..Len(pts) : m < n => Taken(q[m]) <= Taken(q[n])

Plotted(pts) == pts = <<>> \/ \E q : Plots(q, pts)

LEMMA ReadingFields ==
  ASSUME SpansRecorded
  PROVE  \A i \in Readings :
           /\ i \in 1..Len(spans) /\ spans[i].memory \in Nat
           /\ To(i) \in Int /\ To(i) <= Length /\ End(i) \in Int
           /\ To(i) <= End(i) /\ (To(i) < End(i) => To(i) = Length)
<1> SUFFICES ASSUME NEW i \in Readings
             PROVE  /\ i \in 1..Len(spans) /\ spans[i].memory \in Nat
                    /\ To(i) \in Int /\ To(i) <= Length /\ End(i) \in Int
                    /\ To(i) <= End(i) /\ (To(i) < End(i) => To(i) = Length)
  OBVIOUS
<1>1. i \in 1..Len(spans) /\ spans[i].memory \in Nat
  BY SpanFields DEF Readings
<1>2. Length \in Int /\ End(i) \in Int
  BY <1>1, DrawnTimes, TimelineAssumption
<1> QED
  BY <1>1, <1>2 DEF To

LEMMA PeakIs ==
  ASSUME SpansRecorded
  PROVE  Peak \in Nat /\ \A i \in Readings : spans[i].memory <= Peak
<1> DEFINE found == {0} \cup {spans[i].memory : i \in Readings}
           S == 0..Len(spans)
           f == [i \in S |-> IF i \in Readings THEN spans[i].memory ELSE 0]
           IsPeak(p) == p \in found /\ \A bytes \in found : bytes <= p
<1>0. Len(spans) \in Nat /\ \A i \in Readings : i \in 1..Len(spans)
  BY SpanFields, ReadingFields
<1>1. /\ Len(spans) \in Nat /\ IsFiniteSet(S) /\ 0 \in S /\ 0 \notin Readings
      /\ Readings \subseteq S
  BY <1>0, FS_Interval
<1>2. f \in [S -> Int]
  BY ReadingFields
<1>3. PICK x \in S : \A y \in S : f[y] <= f[x]
  <2> HIDE DEF S, f
  <2> QED
    BY <1>1, <1>2, GreatestValue
<1>4. f[0] = 0 /\ \A i \in Readings : f[i] = spans[i].memory
  BY <1>1
<1>5. f[x] \in found
  <2>1. f[x] = 0 \/ (x \in Readings /\ f[x] = spans[x].memory)
    OBVIOUS
  <2> QED
    BY <2>1
<1>6. ASSUME NEW bytes \in found
      PROVE  bytes <= f[x]
  <2>1. \E y \in S : bytes = f[y]
    BY <1>1, <1>4
  <2> QED
    BY <1>3, <2>1
<1>7. IsPeak(CHOOSE p : IsPeak(p))
  <2>1. IsPeak(f[x])
    BY <1>5, <1>6
  <2> HIDE DEF IsPeak
  <2> QED
    BY <2>1
<1>8. Peak = CHOOSE p : IsPeak(p)
  <2>1. Peak = CHOOSE peak \in found : \A bytes \in found : bytes <= peak
    BY DEF Peak
  <2> HIDE DEF found
  <2> QED
    BY <2>1, Zenon
<1>9. IsPeak(Peak)
  BY <1>7, <1>8
<1>10. \A bytes \in found : bytes \in Nat
  BY ReadingFields
<1> QED
  BY <1>9, <1>10

(* The level at x is that of the newest point up to x.                     *)
LEMMA LevelIs ==
  ASSUME SpansRecorded, NEW q, Plots(q, points), points # <<>>, NEW x \in 0..Length
  PROVE  \E n \in 1..Len(points) :
           /\ LevelAt(x) = points[n].bytes
           /\ \A l \in 1..Len(points) : points[l].x <= x =>
                points[n].x <= x /\ l <= n
           /\ x = Length => n = Len(points)
<1> DEFINE c == Len(points)
           beyond == {n \in DOMAIN points : points[n].x > x}
           Least(m) == m \in beyond /\ \A k \in beyond : m <= k
           first == CHOOSE m : Least(m)
<1>1. /\ c \in Nat /\ DOMAIN points = 1..c /\ c # 0
      /\ \A n \in 1..c : points[n].x = To(q[n]) /\ q[n] \in Readings
  <2>1. c \in Nat /\ DOMAIN points = 1..c
    BY DEF Plots
  <2>2. ASSUME NEW n \in 1..c
        PROVE  points[n].x = To(q[n]) /\ q[n] \in Readings
    <3>1. points[n] = [x |-> To(q[n]), bytes |-> spans[q[n]].memory] /\ q[n] \in Readings
      BY DEF Plots
    <3> QED
      BY <3>1
  <2>4. c # 0
    <3>1. points \in Seq([x : Int, bytes : Nat])
      BY DEF Plots
    <3> QED
      BY <3>1
  <2> QED
    BY <2>1, <2>2, <2>4
<1>2. \A n \in 1..c : points[n].x \in Int /\ points[n].x <= Length
  BY <1>1, ReadingFields
<1>3. \A m, n \in 1..c : m < n => points[m].x <= points[n].x
  <2> SUFFICES ASSUME NEW m \in 1..c, NEW n \in 1..c, m < n
               PROVE  points[m].x <= points[n].x
    OBVIOUS
  <2>1. End(q[m]) <= End(q[n])
    BY DEF Plots, Taken
  <2>2. /\ To(q[m]) \in Int /\ To(q[m]) <= Length /\ End(q[m]) \in Int
        /\ To(q[m]) <= End(q[m])
        /\ To(q[n]) \in Int /\ End(q[n]) \in Int
        /\ (To(q[n]) < End(q[n]) => To(q[n]) = Length)
        /\ To(q[n]) <= End(q[n])
    BY <1>1, ReadingFields
  <2>3. Length \in Int
    BY TimelineAssumption
  <2> QED
    BY <1>1, <2>1, <2>2, <2>3
  
<1>4. LevelAt(x) = points[IF (IF beyond = {} THEN c ELSE first - 1) = 0 THEN 1
                          ELSE IF beyond = {} THEN c ELSE first - 1].bytes
  <2>1. (CHOOSE m \in beyond : \A k \in beyond : m <= k) = first
    <3> HIDE DEF beyond
    <3> QED
      BY Zenon
  <2> DEFINE least == CHOOSE m \in beyond : \A k \in beyond : m <= k
             at == IF beyond = {} THEN Len(points) ELSE least - 1
  <2>2. LevelAt(x) = points[IF at = 0 THEN 1 ELSE at].bytes
    BY DEF LevelAt
  <2> HIDE DEF first, least, beyond
  <2> QED
    BY <2>1, <2>2 DEF least
<1>5. CASE beyond = {}
  <2>1. LevelAt(x) = points[c].bytes /\ c \in 1..c
    BY <1>1, <1>4, <1>5
  <2>2. \A l \in 1..c : ~(points[l].x > x)
    BY <1>1, <1>5
  <2>3. points[c].x <= x
    BY <1>1, <1>2, <2>2
  <2> QED
    BY <2>1, <2>3
<1>6. CASE beyond # {}
  <2>1. Least(first)
    <3>1. beyond \in SUBSET Nat
      BY <1>1
    <3>2. \E m : Least(m)
      <4> HIDE DEF beyond
      <4> QED
        BY <1>6, <3>1, LeastNumber
    <3> HIDE DEF Least
    <3> QED
      BY <3>2
  <2> HIDE DEF first
  <2>2. first \in 1..c /\ points[first].x > x
    BY <1>1, <2>1
  <2>3. x # Length
    BY <1>2, <2>2
  <2>4. CASE first = 1
    <3>1. LevelAt(x) = points[1].bytes
      BY <1>4, <1>6, <2>4
    <3>2. \A l \in 1..c : ~(points[l].x <= x)
      <4> SUFFICES ASSUME NEW l \in 1..c PROVE ~(points[l].x <= x)
        OBVIOUS
      <4>1. l = 1 \/ points[1].x <= points[l].x
        BY <1>1, <1>3, <2>2, <2>4
      <4>2. points[l].x \in Int /\ points[1].x \in Int
        BY <1>2, <2>2, <2>4
      <4> QED
        BY <2>2, <2>4, <4>1, <4>2
    <3> QED
      BY <2>2, <2>3, <2>4, <3>1, <3>2
  <2>5. CASE first # 1
    <3> DEFINE n == first - 1
    <3>1. n \in 1..c /\ n < first /\ n # 0
      BY <1>1, <2>2, <2>5
    <3>2. LevelAt(x) = points[n].bytes
      BY <1>4, <1>6, <3>1
    <3>3. points[n].x <= x
      <4>1. n \notin beyond
        BY <1>1, <2>1, <3>1
      <4> QED
        BY <1>1, <1>2, <3>1, <4>1
    <3>4. ASSUME NEW l \in 1..c, points[l].x <= x
          PROVE  l <= n
      <4>1. ~(first < l) /\ first # l
        <5>1. points[l].x \in Int /\ points[first].x \in Int
          BY <1>2, <2>2
        <5>2. first < l => points[first].x <= points[l].x
          BY <1>3, <2>2
        <5> QED
          BY <2>2, <3>4, <5>1, <5>2
      <4> QED
        BY <1>1, <2>2, <4>1
    <3> QED
      BY <2>3, <3>1, <3>2, <3>3, <3>4
  <2> QED
    BY <2>4, <2>5
<1> QED
  BY <1>5, <1>6

LEMMA ReadingsShown ==
  ASSUME SpansRecorded, Plotted(points)
  PROVE  ReadingsPlaced
<1>1. /\ Peak \in Nat /\ \A i \in Readings : spans[i].memory <= Peak
      /\ limit \in Int /\ Length \in Nat
  BY PeakIs, TimelineAssumption DEF SpansRecorded
<1>2. Ceiling \in Nat /\ Peak <= Ceiling
  BY <1>1 DEF Ceiling, Limited
<1>3. Graph.limit <= Ceiling
  <2>1. Graph.limit = IF Limited THEN limit ELSE NoReading
    BY DEF Graph
  <2>2. CASE Limited
    BY <1>1, <2>1, <2>2 DEF Ceiling
  <2>3. CASE ~Limited
    BY <1>2, <2>1, <2>3 DEF NoReading
  <2> QED
    BY <2>2, <2>3
<1>4. CASE points = <<>>
  <2>1. Len(points) = 0 /\ DOMAIN points = {}
    BY <1>4
  <2> QED
    BY <1>3, <1>4, <2>1 DEF ReadingsPlaced
<1>5. CASE points # <<>>
  <2>1. PICK q : Plots(q, points)
    BY <1>5 DEF Plotted
  <2> DEFINE c == Len(points)
  <2>2. /\ c \in Nat /\ DOMAIN points = 1..c /\ c # 0
        /\ \A n \in 1..c : /\ points[n].x = To(q[n]) /\ q[n] \in Readings
                           /\ points[n].bytes = spans[q[n]].memory
        /\ \A i \in Readings : \E n \in 1..c : q[n] = i
        /\ \A m, n \in 1..c : m < n => End(q[m]) <= End(q[n])
    <3>1. /\ points \in Seq([x : Int, bytes : Nat])
          /\ \A n \in 1..c : /\ q[n] \in Readings
                             /\ points[n] = [x |-> To(q[n]), bytes |-> spans[q[n]].memory]
          /\ \A i \in Readings : \E n \in 1..c : q[n] = i
          /\ \A m, n \in 1..c : m < n => End(q[m]) <= End(q[n])
      BY <2>1 DEF Plots, Taken
    <3>2. c \in Nat /\ DOMAIN points = 1..c /\ c # 0
      BY <1>5, <3>1
    <3>3. \A n \in 1..c : /\ points[n].x = To(q[n]) /\ q[n] \in Readings
                          /\ points[n].bytes = spans[q[n]].memory
      <4> SUFFICES ASSUME NEW n \in 1..c
                   PROVE  /\ points[n].x = To(q[n]) /\ q[n] \in Readings
                          /\ points[n].bytes = spans[q[n]].memory
        OBVIOUS
      <4>1. points[n] = [x |-> To(q[n]), bytes |-> spans[q[n]].memory] /\ q[n] \in Readings
        BY <3>1
      <4> QED
        BY <4>1
    <3> QED
      BY <3>1, <3>2, <3>3
  <2>0. c \in Nat /\ \A n \in 1..c : n # c => n + 1 \in 1..c /\ n + 1 # 1 /\ (n + 1) - 1 = n
    <3>1. c \in Nat
      BY <2>2
    <3> HIDE DEF c
    <3> QED
      BY <3>1
  <2>3. \A n \in 1..c : /\ points[n].x \in Int /\ points[n].x <= Length
                        /\ points[n].bytes \in Nat
    BY <2>2, ReadingFields
  <2>4. ASSUME NEW m \in 1..c, NEW n \in 1..c, m < n
        PROVE  points[m].x <= points[n].x
    <3>1. End(q[m]) <= End(q[n])
      BY <2>2, <2>4
    <3>2. /\ To(q[m]) \in Int /\ To(q[m]) <= Length /\ End(q[m]) \in Int
          /\ To(q[m]) <= End(q[m])
          /\ To(q[n]) \in Int /\ End(q[n]) \in Int
          /\ (To(q[n]) < End(q[n]) => To(q[n]) = Length)
          /\ To(q[n]) <= End(q[n])
      BY <2>2, ReadingFields
    <3> QED
      BY <1>1, <2>2, <3>1, <3>2
  <2>5. \A n \in 1..(c - 1) : points[n].x <= points[n + 1].x
    <3> SUFFICES ASSUME NEW n \in 1..(c - 1) PROVE points[n].x <= points[n + 1].x
      OBVIOUS
    <3>1. n \in 1..c /\ n + 1 \in 1..c /\ n < n + 1
      BY <2>2
    <3> QED
      BY <2>4, <3>1
  <2>6. \A n \in 1..c : points[n].bytes <= Ceiling
    <3> SUFFICES ASSUME NEW n \in 1..c PROVE points[n].bytes <= Ceiling
      OBVIOUS
    <3>1. points[n].bytes \in Nat /\ points[n].bytes <= Peak
      BY <1>1, <2>2, <2>3
    <3> QED
      BY <1>1, <1>2, <3>1
  <2>7. ASSUME \A n \in 1..c : points[n].x >= 0, NEW n \in 1..c
        PROVE  LET hit == Graph.hits[n] IN
               hit.x + hit.width = (IF n = c THEN Length ELSE Graph.hits[n + 1].x)
    <3> DEFINE left == IF n = 1 THEN 0 ELSE points[n - 1].x
               right == IF n = c THEN Length ELSE points[n].x
    <3>1. \A m \in 1..c : Graph.hits[m].x = HitX(m) /\ Graph.hits[m].width = HitWidth(m)
      <4> SUFFICES ASSUME NEW m \in 1..c
                   PROVE  Graph.hits[m].x = HitX(m) /\ Graph.hits[m].width = HitWidth(m)
        OBVIOUS
      <4>1. Graph.hits[m] = [x |-> HitX(m), width |-> HitWidth(m)]
        BY <2>2 DEF Graph
      <4> QED
        BY <4>1
    <3>2. /\ Graph.hits[n].x = HitX(n) /\ Graph.hits[n].width = HitWidth(n)
          /\ n # c => Graph.hits[n + 1].x = HitX(n + 1)
      <4>1. n # c => n + 1 \in 1..c
        BY <2>0
      <4> QED
        BY <3>1, <4>1
    <3>3. left \in 0..Length /\ right \in 0..Length /\ left <= right
      <4>1. n # 1 => n - 1 \in 1..c /\ points[n - 1].x <= points[n].x
        BY <2>2, <2>4
      <4>2. points[n].x \in 0..Length
        BY <1>1, <2>3, <2>7
      <4>3. n # 1 => points[n - 1].x \in 0..Length
        BY <1>1, <2>3, <2>7, <4>1
      <4> QED
        BY <1>1, <4>1, <4>2, <4>3
    <3>4. HitX(n) = left
      <4>1. n # 1 => Clamped(points[n - 1].x) = points[n - 1].x
        BY <1>1, <3>3 DEF Clamped
      <4> QED
        BY <4>1 DEF HitX
    <3>5. HitWidth(n) = right - left
      <4>1. HitWidth(n) = Clamped(right - left)
        BY DEF HitWidth
      <4>2. right - left \in 0..Length
        BY <1>1, <3>3
      <4> HIDE DEF left, right
      <4> QED
        BY <1>1, <4>1, <4>2 DEF Clamped
    <3>6. n # c => HitX(n + 1) = right
      <4>1. n # c => n + 1 # 1 /\ (n + 1) - 1 = n
        BY <2>0
      <4>2. n # c => Clamped(points[n].x) = points[n].x
        BY <1>1, <3>3 DEF Clamped
      <4> QED
        BY <4>1, <4>2 DEF HitX
    <3>7. n = c => right = Length
      OBVIOUS
    <3> HIDE DEF left, right
    <3> QED
      BY <1>1, <3>2, <3>3, <3>4, <3>5, <3>6, <3>7
  <2>8. ASSUME NEW x \in 0..Length, {i \in Readings : To(i) <= x} # {}
        PROVE  \E i \in {j \in Readings : To(j) <= x} :
                 /\ spans[i].memory = LevelAt(x)
                 /\ \A j \in {l \in Readings : To(l) <= x} : End(j) <= End(i)
    <3>1. PICK n \in 1..c :
            /\ LevelAt(x) = points[n].bytes
            /\ \A l \in 1..c : points[l].x <= x => points[n].x <= x /\ l <= n
      BY <1>5, <2>1, LevelIs
    <3>2. ASSUME NEW j \in Readings, To(j) <= x
          PROVE  points[n].x <= x /\ End(j) <= End(q[n])
      <4>1. PICK l \in 1..c : q[l] = j
        BY <2>2
      <4>2. points[n].x <= x /\ l <= n
        BY <2>2, <3>1, <3>2, <4>1
      <4>3. l = n \/ l < n
        BY <2>2, <4>2
      <4>4. End(q[n]) \in Int
        BY <2>2, ReadingFields
      <4> QED
        BY <2>2, <4>1, <4>2, <4>3, <4>4
    <3>3. q[n] \in Readings /\ To(q[n]) <= x
      BY <2>2, <2>8, <3>2
    <3>4. spans[q[n]].memory = LevelAt(x)
      BY <2>2, <3>1
    <3> QED
      BY <3>2, <3>3, <3>4
  <2>9. Graph.end = points[c].bytes /\ Graph.start \in {p.bytes : p \in Range(points)}
    <3>1. Graph.end = LevelAt(Length) /\ Graph.start = LevelAt(0)
      BY DEF Graph
    <3>2. Length \in 0..Length /\ 0 \in 0..Length
      BY <1>1
    <3>3. LevelAt(Length) = points[c].bytes
      BY <1>5, <2>1, <3>2, LevelIs
    <3>4. PICK n \in 1..c : LevelAt(0) = points[n].bytes
      BY <1>5, <2>1, <3>2, LevelIs
    <3>5. points[n] \in Range(points)
      BY <2>2, <3>4 DEF Range
    <3> QED
      BY <3>1, <3>3, <3>4, <3>5
  <2> QED
    BY <1>3, <2>2, <2>5, <2>6, <2>7, <2>8, <2>9 DEF ReadingsPlaced
<1> QED
  BY <1>4, <1>5

LEMMA PointsFound ==
  ASSUME SpansRecorded, NEW drawn \in Seq(1..Len(spans)),
         \A i \in 1..Len(spans) : \E n \in 1..Len(drawn) : drawn[n] = i
  PROVE  Plotted(MemorySeries(drawn))
<1> DEFINE T == 1..Len(spans)
           read == Sifted(drawn, Readings)
           n == Len(read)
           order == StableSort(read, LAMBDA i, j : Taken(i) < Taken(j))
           f == [k \in 1..n |-> Taken(read[k])]
           p == Placed(Sooner(f, n), 1..n)
           B == Sooner(f, n)
           Before(i) == {j \in 1..n : Taken(read[j]) < Taken(read[i])
                           \/ (~(Taken(read[i]) < Taken(read[j])) /\ j < i)}
<1>1. read \in Seq(T) /\ \E h : Chosen(read, h, drawn, Readings, Len(drawn))
  <2>1. drawn \in Seq(T)
    OBVIOUS
  <2> HIDE DEF T
  <2> QED
    BY <2>1, KeptOrder
<1>2. /\ n \in Nat /\ DOMAIN read = 1..n
      /\ \A k \in 1..n : read[k] \in Readings
      /\ \A i \in Readings : \E k \in 1..n : read[k] = i
  <2>1. PICK h : Chosen(read, h, drawn, Readings, Len(drawn))
    BY <1>1
  <2>2. \A k \in 1..n : read[k] \in Readings
    BY <2>1 DEF Chosen
  <2>3. ASSUME NEW i \in Readings
        PROVE  \E k \in 1..n : read[k] = i
    <3>1. PICK d \in 1..Len(drawn) : drawn[d] = i
      BY ReadingFields
    <3>2. PICK k \in 1..n : h[k] = d
      BY <2>1, <3>1 DEF Chosen
    <3>3. read[k] = drawn[h[k]]
      BY <2>1 DEF Chosen
    <3> QED
      BY <3>1, <3>2, <3>3
  <2>4. n \in Nat /\ DOMAIN read = 1..n
    <3> HIDE DEF T, read
    <3> QED
      BY <1>1
  <2> QED
    BY <2>2, <2>3, <2>4
<1> HIDE DEF read
<1>3. \A k \in 1..n : Taken(read[k]) \in Int /\ f[k] = Taken(read[k])
  BY <1>2, ReadingFields DEF Taken
<1>4. InOrder(p, f, n)
  <2>1. \A k \in 1..n : f[k] \in Int
    BY <1>3
  <2> HIDE DEF f, n
  <2> QED
    BY <1>2, <2>1, NumbersPlaced
<1>5. order = [k \in 1..n |-> read[CHOOSE i \in 1..n : Cardinality(Before(i)) + 1 = k]]
  BY <1>2 DEF StableSort
<1>6. \A i \in 1..n : Before(i) = B[i]
  <2> HIDE DEF f, n
  <2> QED
    BY <1>3 DEF Sooner
<1>7. ASSUME NEW k \in 1..n
      PROVE  order[k] = read[p[k]]
  <2> DEFINE P(i) == i \in 1..n /\ Cardinality(Before(i)) + 1 = k
             Q(i) == i \in 1..n /\ Cardinality(B[i]) + 1 = k
  <2>1. \A i : P(i) <=> Q(i)
    <3> HIDE DEF Before, B, n
    <3> QED
      BY <1>6
  <2>2. (CHOOSE i : P(i)) = (CHOOSE i : Q(i))
    <3> HIDE DEF P, Q
    <3> QED
      BY <2>1
  <2>3. Cardinality(1..n) = n
    <3> HIDE DEF n
    <3> QED
      BY <1>2, FS_Interval
  <2> HIDE DEF Before, B, n, order, f, P, Q
  <2>4. p[k] = CHOOSE i \in 1..n : Cardinality(B[i]) + 1 = k
    BY <2>3 DEF Placed, B
  <2>5. (CHOOSE i : P(i)) = CHOOSE i \in 1..n : Cardinality(Before(i)) + 1 = k
    BY Zenon DEF P
  <2>6. (CHOOSE i : Q(i)) = CHOOSE i \in 1..n : Cardinality(B[i]) + 1 = k
    BY Zenon DEF Q
  <2>7. order[k] = read[CHOOSE i \in 1..n : Cardinality(Before(i)) + 1 = k]
    BY <1>5
  <2> QED
    BY <2>2, <2>4, <2>5, <2>6, <2>7, Zenon
<1>8. DOMAIN order = 1..n
  BY <1>5
<1> DEFINE q == [k \in 1..n |-> read[p[k]]]
           Point(i) == [x |-> To(i), bytes |-> spans[i].memory]
           out == [k \in DOMAIN order |-> Point(order[k])]
<1>9. MemorySeries(drawn) = IF Peak <= 0 THEN <<>> ELSE out
  <2>1. read = Sifted(drawn, Readings)
    BY DEF read
  <2> QED
    BY <2>1 DEF MemorySeries
<1>10. CASE Peak <= 0
  BY <1>9, <1>10 DEF Plotted
<1>11. CASE ~(Peak <= 0)
  <2> HIDE DEF order
  <2>1. p \in [1..n -> 1..n] /\ \A i \in 1..n : \E k \in 1..n : p[k] = i
    BY <1>4 DEF InOrder
  <2>2. \A k, l \in 1..n : k < l => f[p[k]] <= f[p[l]]
    BY <1>4 DEF InOrder
  <2> HIDE DEF f, p
  <2>3. \A k \in 1..n : q[k] = read[p[k]] /\ p[k] \in 1..n /\ q[k] \in Readings /\ order[k] = q[k]
    BY <1>2, <1>7, <2>1
  <2>4. \A k, l \in 1..n : k < l => Taken(q[k]) <= Taken(q[l])
    BY <1>3, <2>2, <2>3
  <2>5. \A i \in Readings : \E k \in 1..n : q[k] = i
    <3> SUFFICES ASSUME NEW i \in Readings PROVE \E k \in 1..n : q[k] = i
      OBVIOUS
    <3>1. PICK j \in 1..n : read[j] = i
      BY <1>2
    <3>2. PICK k \in 1..n : p[k] = j
      BY <2>1
    <3> QED
      BY <2>3, <3>1, <3>2
  <2> HIDE DEF q
  <2>6. out = [k \in 1..n |-> Point(q[k])]
    BY <1>8, <2>3
  <2>7. \A i \in Readings : Point(i) \in [x : Int, bytes : Nat]
    BY ReadingFields
  <2> HIDE DEF Point
  <2>8. /\ out \in Seq([x : Int, bytes : Nat]) /\ Len(out) = n
        /\ \A k \in 1..n : out[k] = Point(q[k])
    <3> HIDE DEF n
    <3> DEFINE R == [x : Int, bytes : Nat]
    <3>1. \A k \in 1..n : Point(q[k]) \in R
      BY <2>3, <2>7
    <3> HIDE DEF R
    <3>2. out \in [1..n -> R] /\ \A k \in 1..n : out[k] = Point(q[k])
      BY <2>6, <3>1
    <3>3. out \in Seq(R) /\ Len(out) = n
      BY <1>2, <3>2
    <3> QED
      BY <3>2, <3>3 DEF R
  <2> HIDE DEF out
  <2>9. Plots(q, out)
    BY <2>3, <2>4, <2>5, <2>8 DEF Plots, Point
  <2> QED
    BY <1>9, <1>11, <2>9 DEF Plotted
<1> QED
  BY <1>10, <1>11

-----------------------------------------------------------------------------
(* The rows of the page. *)

(* The list is the walk from the root and then the other spans as recorded. *)
RowsAre(u, v, list) ==
  /\ list = u \o v
  /\ Under(u, 0, Len(spans)) /\ InWalk(u, 0)
  /\ v \in Seq(1..Len(spans))
  /\ \A m, n \in 1..Len(v) : m < n => v[m] < v[n]
  /\ \A i \in 1..Len(spans) :
       (\E m \in 1..Len(v) : v[m] = i) <=> ~\E m \in 1..Len(u) : u[m] = i

LEMMA RowsFound ==
  ASSUME SpansRecorded
  PROVE  \E u, v : RowsAre(u, v, SpanRows)
<1> DEFINE N == Len(spans)
           T == 1..N
           id == [i \in DOMAIN spans |-> i]
           u == Walked
           S == DOMAIN spans \ Range(u)
           v == Sifted(id, S)
<1>1. N \in Nat /\ DOMAIN spans = T
  BY SpanFields
<1>2. id \in Seq(T) /\ Len(id) = N /\ \A k \in T : id[k] = k
  BY <1>1
<1>3. Under(u, 0, N) /\ InWalk(u, 0)
  BY WalkedIs
<1> HIDE DEF id, u
<1>4. u \in Seq(T) /\ Len(u) \in Nat /\ DOMAIN u = 1..Len(u)
  <2>1. u \in Seq(T)
    BY <1>3 DEF Under
  <2> HIDE DEF T
  <2> QED
    BY <2>1
<1>5. \A i \in T : i \in S <=> ~\E m \in 1..Len(u) : u[m] = i
  BY <1>1, <1>4 DEF Range
<1> HIDE DEF S
<1>6. v \in Seq(T) /\ \E h : Chosen(v, h, id, S, N)
  <2> HIDE DEF T, N
  <2> QED
    BY <1>2, KeptOrder
<1>7. PICK h : Chosen(v, h, id, S, N)
  BY <1>6
<1> HIDE DEF v
<1>8. \A k \in 1..Len(v) : v[k] = h[k] /\ v[k] \in S /\ h[k] \in T
  <2>1. \A k \in 1..Len(v) : h[k] \in 1..N /\ v[k] = id[h[k]] /\ v[k] \in S
    BY <1>7 DEF Chosen
  <2> QED
    BY <1>2, <2>1
<1>9. \A m, n \in 1..Len(v) : m < n => v[m] < v[n]
  BY <1>7, <1>8 DEF Chosen
<1>10. \A i \in T : (\E m \in 1..Len(v) : v[m] = i) <=> i \in S
  <2>1. \A i \in T : id[i] \in S => \E m \in 1..Len(v) : h[m] = i
    BY <1>7 DEF Chosen
  <2> QED
    BY <1>2, <1>8, <2>1
<1>11. SpanRows = u \o v
  <2>1. /\ u = Walked /\ v = Sifted([i \in DOMAIN spans |-> i], S)
        /\ S = DOMAIN spans \ Range(u)
    BY DEF u, v, id, S
  <2> QED
    BY <2>1 DEF SpanRows
<1>12. RowsAre(u, v, SpanRows)
  BY <1>3, <1>5, <1>6, <1>9, <1>10, <1>11 DEF RowsAre
<1> QED
  BY <1>12

LEMMA RowFields ==
  ASSUME SpansRecorded, NEW u, NEW v, NEW list, RowsAre(u, v, list)
  PROVE  /\ list \in Seq(1..Len(spans)) /\ Len(list) = Len(spans)
         /\ \A i \in 1..Len(spans) : \E n \in 1..Len(spans) : list[n] = i
         /\ Len(u) \in Nat /\ Len(u) <= Len(spans)
         /\ \A m \in 1..Len(u) : list[m] = u[m] /\ m \in 1..Len(spans)
         /\ \A n \in 1..Len(spans) :
              n > Len(u) => n - Len(u) \in 1..Len(v) /\ list[n] = v[n - Len(u)]
<1> DEFINE N == Len(spans)
           T == 1..N
           a == Len(u)
           b == Len(v)
<1>1. N \in Nat /\ DOMAIN spans = T
  BY SpanFields
<1>2. u \in Seq(T) /\ v \in Seq(T) /\ list = u \o v
  BY DEF RowsAre, Under
<1>3. /\ list \in Seq(T) /\ a \in Nat /\ b \in Nat /\ Len(list) = a + b
      /\ DOMAIN list = 1..(a + b)
      /\ \A m \in 1..a : list[m] = u[m]
      /\ \A m \in 1..b : list[a + m] = v[m]
      /\ \A m \in 1..(a + b) : list[m] \in T
  <2> HIDE DEF T
  <2> QED
    BY <1>2
<1>4. \A n \in 1..(a + b) : n > a => n - a \in 1..b /\ list[n] = v[n - a]
  <2> SUFFICES ASSUME NEW n \in 1..(a + b), n > a
               PROVE  n - a \in 1..b /\ list[n] = v[n - a]
    OBVIOUS
  <2>1. n - a \in 1..b /\ a + (n - a) = n
    BY <1>3
  <2> QED
    BY <1>3, <2>1
<1>5. \A i \in T : \E n \in 1..(a + b) : list[n] = i
  <2> SUFFICES ASSUME NEW i \in T PROVE \E n \in 1..(a + b) : list[n] = i
    OBVIOUS
  <2>1. (\E m \in 1..b : v[m] = i) \/ \E m \in 1..a : u[m] = i
    BY DEF RowsAre
  <2>2. CASE \E m \in 1..b : v[m] = i
    <3>1. PICK m \in 1..b : v[m] = i
      BY <2>2
    <3>2. a + m \in 1..(a + b) /\ list[a + m] = i
      BY <1>3, <3>1
    <3> QED
      BY <3>2
  <2>3. CASE \E m \in 1..a : u[m] = i
    <3>1. PICK m \in 1..a : u[m] = i
      BY <2>3
    <3>2. m \in 1..(a + b) /\ list[m] = i
      BY <1>3, <3>1
    <3> QED
      BY <3>2
  <2> QED
    BY <2>1, <2>2, <2>3
<1>6. ASSUME NEW m \in 1..(a + b), NEW n \in 1..(a + b), m # n
      PROVE  list[m] # list[n]
  <2>1. \A k, l \in 1..a : k # l => u[k] # u[l]
    BY DEF RowsAre, Under
  <2>2. \A k, l \in 1..b : k # l => v[k] # v[l]
    <3> SUFFICES ASSUME NEW k \in 1..b, NEW l \in 1..b, k # l, v[k] = v[l] PROVE FALSE
      OBVIOUS
    <3>1. v[k] \in Int
      BY <1>1, <1>2
    <3>2. k < l \/ l < k
      BY <1>3
    <3>3. v[k] < v[l] \/ v[l] < v[k]
      BY <3>2 DEF RowsAre
    <3> QED
      BY <3>1, <3>3
  <2>3. \A k \in 1..a, l \in 1..b : u[k] # v[l]
    <3>1. \A l \in 1..b : v[l] \in T
      BY <1>2
    <3> QED
      BY <3>1 DEF RowsAre
  <2>4. (m \in 1..a \/ m > a) /\ (n \in 1..a \/ n > a)
    BY <1>3
  <2>5. CASE m \in 1..a /\ n \in 1..a
    BY <1>3, <1>6, <2>1, <2>5
  <2>6. CASE m > a /\ n > a
    <3>1. m - a # n - a
      BY <1>3, <1>6
    <3> QED
      BY <1>4, <2>2, <2>6, <3>1
  <2>7. CASE m \in 1..a /\ n > a
    <3>1. list[m] = u[m] /\ n - a \in 1..b /\ list[n] = v[n - a]
      BY <1>3, <1>4, <2>7
    <3> QED
      BY <2>3, <2>7, <3>1
  <2>8. CASE m > a /\ n \in 1..a
    <3>1. list[n] = u[n] /\ m - a \in 1..b /\ list[m] = v[m - a]
      BY <1>3, <1>4, <2>8
    <3> QED
      BY <2>3, <2>8, <3>1
  <2> QED
    BY <2>4, <2>5, <2>6, <2>7, <2>8
<1>7. Len(list) = N
  <2>1. Distinct(list)
    BY <1>3, <1>6 DEF Distinct
  <2>2. Range(list) = T
    BY <1>3, <1>5 DEF Range
  <2>3. Cardinality(Range(list)) = Len(list)
    <3> HIDE DEF T
    <3> QED
      BY <1>3, <2>1, DistinctCount
  <2>4. Cardinality(1..N) = N
    <3> HIDE DEF N
    <3> QED
      BY <1>1, FS_Interval
  <2> QED
    BY <2>2, <2>3, <2>4
<1>8. list \in Seq(T) /\ Len(list) = N /\ \A i \in T : \E n \in T : list[n] = i
  BY <1>3, <1>5, <1>7
<1>9. a + b = N
  BY <1>3, <1>7
<1>10. a <= N /\ \A m \in 1..a : m \in T
  BY <1>3, <1>9
<1> QED
  BY <1>3, <1>4, <1>8, <1>9, <1>10

(* A span that is not below a lost parent is in the walk.                  *)
LEMMA RootedWalked ==
  ASSUME SpansRecorded, NEW u, NEW v, RowsAre(u, v, rows),
         NEW i \in 1..Len(spans), Rooted[i]
  PROVE  \E m \in 1..Len(u) : u[m] = i
<1> DEFINE N == Len(spans)
           T == 1..N
           root == [k \in T |-> \E m \in 1..Len(u) : u[m] = k]
           Next(r) == [k \in DOMAIN spans |->
                         spans[k].parent = 0
                         \/ (spans[k].parent # Lost /\ r[spans[k].parent])]
           Fix(r) == r = Next(r)
<1>1. N \in Nat /\ DOMAIN spans = T /\ \A k \in T : k \in Nat
  BY SpanFields
<1>2. \A k \in T : spans[k].parent = Lost \/ spans[k].parent \in 0..(k - 1)
  BY DEF SpansRecorded
<1>3. /\ \A m \in 1..Len(u) : \/ spans[u[m]].parent = 0
                              \/ \E l \in 1..Len(u) : l < m /\ u[l] = spans[u[m]].parent
      /\ \A c \in T : \/ spans[c].parent = 0
                      \/ \E l \in 1..Len(u) : u[l] = spans[c].parent
                      => \E m \in 1..Len(u) : u[m] = c
      /\ \A m \in 1..Len(u) : u[m] \in T
  <2>1. \A c \in T : c <= Len(spans)
    BY <1>1
  <2>2. Under(u, 0, Len(spans))
    BY DEF RowsAre
  <2> QED
    BY <2>1, <2>2 DEF Under
<1>4. Fix(root)
  <2>1. ASSUME NEW k \in T
        PROVE  root[k] = (spans[k].parent = 0
                          \/ (spans[k].parent # Lost /\ root[spans[k].parent]))
    <3>1. CASE spans[k].parent = 0
      BY <1>3, <3>1
    <3>2. CASE spans[k].parent = Lost
      <4>1. \A m \in 1..Len(u) : u[m] # Lost
        BY <1>1, <1>3 DEF Lost
      <4>0. Lost # 0
        BY DEF Lost
      <4>2. ASSUME NEW m \in 1..Len(u), u[m] = k
            PROVE  FALSE
        <5>1. spans[u[m]].parent = Lost
          BY <3>2, <4>2
        <5> QED
          BY <1>3, <4>0, <4>1, <5>1
      <4>3. root[k] = FALSE
        BY <4>2
      <4>4. (spans[k].parent = 0 \/ (spans[k].parent # Lost /\ root[spans[k].parent])) = FALSE
        <5> HIDE DEF root
        <5> QED
          BY <3>2, <4>0
      <4> QED
        BY <4>3, <4>4
    <3>3. CASE spans[k].parent # 0 /\ spans[k].parent # Lost
      <4>1. spans[k].parent \in T
        BY <1>1, <1>2, <3>3
      <4>2. root[spans[k].parent] = \E m \in 1..Len(u) : u[m] = spans[k].parent
        BY <4>1
      <4>3. (\E m \in 1..Len(u) : u[m] = spans[k].parent) <=> \E m \in 1..Len(u) : u[m] = k
        BY <1>3, <3>3
      <4> QED
        BY <3>3, <4>2, <4>3
    <3> QED
      BY <3>1, <3>2, <3>3
  <2> HIDE DEF root
  <2>2. root = [k \in T |-> root[k]]
    BY DEF root
  <2> QED
    BY <1>1, <2>1, <2>2
<1>5. Rooted = CHOOSE r : Fix(r)
  BY DEF Rooted
<1>6. Fix(Rooted)
  <2> HIDE DEF Fix, root
  <2> QED
    BY <1>4, <1>5
<1>7. \A k \in T : Rooted[k] => spans[k].parent = 0
                                \/ (spans[k].parent # Lost /\ Rooted[spans[k].parent])
  BY <1>1, <1>6
<1> HIDE DEF Fix, root
<1> DEFINE Bad == {k \in T : Rooted[k] /\ ~\E m \in 1..Len(u) : u[m] = k}
<1> SUFFICES ASSUME Bad # {} PROVE FALSE
  OBVIOUS
<1>8. PICK k \in Bad : \A l \in Bad : k <= l
  <2>1. Bad \in SUBSET Nat
    BY <1>1
  <2> HIDE DEF Bad
  <2> QED
    BY <2>1, LeastNumber
<1>9. k \in T /\ Rooted[k] /\ ~\E m \in 1..Len(u) : u[m] = k
  OBVIOUS
<1>10. spans[k].parent # 0 /\ spans[k].parent # Lost /\ Rooted[spans[k].parent]
  BY <1>3, <1>7, <1>9
<1>11. spans[k].parent \in T /\ spans[k].parent < k
  BY <1>1, <1>2, <1>9, <1>10
<1>12. spans[k].parent \in Bad
  BY <1>3, <1>9, <1>10, <1>11
<1>13. k <= spans[k].parent
  <2> HIDE DEF Bad
  <2> QED
    BY <1>8, <1>12
<1> QED
  BY <1>1, <1>9, <1>11, <1>13

LEMMA RowsShown ==
  ASSUME SpansRecorded, NEW u, NEW v, RowsAre(u, v, rows)
  PROVE  RowsComplete
<1> DEFINE N == Len(spans)
           T == 1..N
           a == Len(u)
           b == Len(v)
           In(i) == \E m \in 1..a : u[m] = i
           Par(i) == spans[i].parent
<1>1. /\ N \in Nat /\ DOMAIN spans = T
      /\ \A i \in T : i \in Nat /\ (Par(i) = Lost \/ Par(i) \in 0..(i - 1))
  BY SpanFields DEF SpansRecorded
<1>2. rows \in Seq(T) /\ \A i \in T : \E n \in T : rows[n] = i
  BY RowFields
<1>3. /\ a \in Nat /\ a <= N
      /\ \A m \in 1..a : rows[m] = u[m] /\ m \in T
      /\ \A n \in T : n > a => n - a \in 1..b /\ rows[n] = v[n - a]
  BY RowFields
<1>4. /\ DOMAIN rows = T /\ Len(rows) = N
      /\ \A m \in T : rows[m] \in T
      /\ \A i \in T : \E n \in T : rows[n] = i
  <2>1. rows \in Seq(T) /\ Len(rows) = N /\ \A i \in T : \E n \in T : rows[n] = i
    BY <1>2, RowFields
  <2>2. DOMAIN rows = 1..N /\ \A m \in 1..N : rows[m] \in T
    <3> HIDE DEF T
    <3> QED
      BY <2>1
  <2> QED
    BY <2>1, <2>2
<1>5. Range(rows) = DOMAIN spans
  BY <1>1, <1>4 DEF Range
<1>6. /\ \A m \in 1..a : u[m] \in T
      /\ \A m \in 1..a : Par(u[m]) = 0 \/ \E l \in 1..a : l < m /\ u[l] = Par(u[m])
      /\ \A c \in T : Par(c) = 0 \/ In(Par(c)) => In(c)
      /\ \A m, n \in 1..a : m # n => u[m] # u[n]
      /\ \A m, n \in 1..a : Par(u[m]) = Par(u[n]) /\ u[m] < u[n] => m < n
      /\ \A m, n \in 1..a : Par(u[n]) = u[m] =>
           \A k \in (m + 1)..n : spans[u[k]].depth > spans[u[m]].depth
  <2>1. Under(u, 0, N) /\ InWalk(u, 0)
    BY DEF RowsAre
  <2>2. \A c \in T : c <= N
    BY <1>1
  <2> QED
    BY <2>1, <2>2 DEF Under, InWalk
<1>7. /\ \A m, n \in 1..b : m < n => v[m] < v[n]
      /\ \A m \in 1..b : v[m] \in T /\ ~In(v[m])
  <2>1. v \in Seq(T)
    BY DEF RowsAre
  <2>2. \A m \in 1..b : v[m] \in T
    BY <2>1
  <2> QED
    BY <2>2 DEF RowsAre
(* A row is walked exactly when its number is of the walk.                 *)
<1>8. \A n \in T : In(rows[n]) <=> n \in 1..a
  <2> SUFFICES ASSUME NEW n \in T PROVE In(rows[n]) <=> n \in 1..a
    OBVIOUS
  <2>1. CASE n \in 1..a
    BY <1>3, <2>1
  <2>2. CASE n > a
    <3>1. ~In(rows[n])
      BY <1>3, <1>7, <2>2
    <3> QED
      BY <2>2, <3>1, <1>3
  <2> QED
    BY <1>1, <1>3, <2>1, <2>2
<1>9. \A c \in T : In(c) => Par(c) = 0 \/ In(Par(c))
  BY <1>6
<1> HIDE DEF a, b
<1>10. ASSUME NEW m \in T, NEW n \in T, m \notin 1..a, n \notin 1..a, rows[m] < rows[n]
       PROVE  m < n
  <2> SUFFICES ASSUME ~(m < n) PROVE FALSE
    OBVIOUS
  <2>1. m > a /\ n > a
    BY <1>1, <1>3, <1>10
  <2>2. /\ m - a \in 1..b /\ rows[m] = v[m - a]
        /\ n - a \in 1..b /\ rows[n] = v[n - a]
    BY <1>3, <2>1
  <2>3. m = n \/ n - a < m - a
    BY <1>1, <1>3
  <2>4. m = n \/ rows[n] < rows[m]
    BY <1>7, <2>2, <2>3
  <2>5. rows[m] \in Nat /\ rows[n] \in Nat
    BY <1>1, <1>4
  <2> QED
    BY <1>10, <2>4, <2>5
<1>11. ASSUME NEW m \in T, NEW n \in T, Par(rows[n]) = rows[m]
       PROVE  m < n
  <2>1. rows[m] \in T /\ rows[n] \in T /\ rows[m] # 0
    BY <1>1, <1>4
  <2>2. In(rows[m]) <=> In(rows[n])
    BY <1>6, <1>9, <1>11, <2>1
  <2>3. CASE In(rows[m])
    <3>1. m \in 1..a /\ n \in 1..a
      BY <1>8, <2>2, <2>3
    <3>2. PICK l \in 1..a : l < n /\ u[l] = rows[m]
      BY <1>3, <1>6, <1>11, <2>1, <3>1
    <3>3. l = m
      BY <1>3, <1>6, <3>1, <3>2
    <3> QED
      BY <3>2, <3>3
  <2>4. CASE ~In(rows[m])
    <3>1. m \notin 1..a /\ n \notin 1..a
      BY <1>8, <2>2, <2>4
    <3>2. rows[m] < rows[n]
      BY <1>1, <1>11, <2>1 DEF Lost
    <3> QED
      BY <1>10, <3>1, <3>2
  <2> QED
    BY <2>3, <2>4
<1>12. ASSUME NEW m \in T, NEW n \in T, Par(rows[m]) = Par(rows[n]), rows[m] < rows[n]
       PROVE  m < n
  <2>1. rows[m] \in T /\ rows[n] \in T
    BY <1>4
  <2>2. In(rows[m]) <=> In(rows[n])
    <3>1. \A i, j \in T : Par(i) = Par(j) /\ In(i) => In(j)
      <4> HIDE DEF In
      <4> QED
        BY <1>6, <1>9
    <3> HIDE DEF In
    <3> QED
      BY <1>12, <2>1, <3>1
  <2>3. CASE In(rows[m])
    BY <1>3, <1>6, <1>8, <1>12, <2>2, <2>3
  <2>4. CASE ~In(rows[m])
    BY <1>8, <1>10, <1>12, <2>2, <2>4
  <2> QED
    BY <2>3, <2>4
<1>13. ASSUME NEW m \in T, NEW n \in T, Par(rows[n]) = rows[m], Rooted[rows[m]],
              NEW k \in (m + 1)..n
       PROVE  spans[rows[k]].depth > spans[rows[m]].depth
  <2>1. rows[m] \in T /\ rows[n] \in T
    BY <1>4
  <2>2. In(rows[m])
    BY <1>13, <2>1, RootedWalked DEF a
  <2>3. In(rows[n])
    BY <1>6, <1>13, <2>1, <2>2
  <2>4. m \in 1..a /\ n \in 1..a
    BY <1>8, <2>2, <2>3
  <2>5. k \in 1..a
    BY <1>3, <2>4
  <2>6. rows[m] = u[m] /\ rows[n] = u[n] /\ rows[k] = u[k]
    BY <1>3, <2>4, <2>5
  <2> QED
    BY <1>6, <1>13, <2>4, <2>6
<1> QED
  BY <1>4, <1>5, <1>11, <1>12, <1>13 DEF RowsComplete

-----------------------------------------------------------------------------
(* What the page of a trace shows is found from spans that do not change   *)
(* once it is shown.                                                       *)
TimelineInv ==
  /\ SpansRecorded
  /\ shown => /\ Draws(segments, Length)
              /\ \E u, v : RowsAre(u, v, rows)
              /\ Plotted(points)

LEMMA TimelineInvHolds ==
  ASSUME TimelineInv
  PROVE  TimelineHolds
<1> SUFFICES ASSUME shown PROVE MomentsAttributed /\ RowsComplete /\ ReadingsPlaced
  BY DEF TimelineHolds
<1>1. SpansRecorded /\ Draws(segments, Length) /\ Plotted(points)
  BY DEF TimelineInv
<1>2. PICK u, v : RowsAre(u, v, rows)
  BY DEF TimelineInv
<1>3. Listed
  BY <1>1, <1>2, RowFields DEF Listed
<1>4. MomentsAttributed
  BY <1>1, <1>3, MomentsShown DEF Drawn
<1> QED
  BY <1>1, <1>2, <1>4, RowsShown, ReadingsShown

LEMMA TimelineStart ==
  ASSUME TimelineInit
  PROVE  TimelineInv
<1>1. spans \in Seq(SpanRecords) /\ Len(spans) = 0
  <2>1. <<>> \in Seq(SpanRecords) /\ Len(<<>>) = 0
    BY EmptyIs
  <2> QED
    BY <2>1 DEF TimelineInit
<1>2. limit \in Int /\ shown = FALSE
  BY TimelineAssumption DEF TimelineInit
<1> QED
  BY <1>1, <1>2 DEF TimelineInv, SpansRecorded

LEMMA SpanAdded ==
  ASSUME SpansRecorded, NEW kind \in SpanKinds, NEW parent \in {0, Lost} \cup DOMAIN spans,
         NEW shape \in Shapes, AddSpan(kind, parent, shape)
  PROVE  SpansRecorded'
<1> DEFINE depth == IF parent = 0 THEN 0 ELSE ParentDepth(parent) + 1
           span == [kind |-> kind, parent |-> parent, start |-> shape.start,
                    duration |-> shape.duration, memory |-> shape.memory, depth |-> depth]
           n == Len(spans)
<1>1. /\ n \in Nat /\ DOMAIN spans = 1..n
      /\ \A i \in 1..n : spans[i].depth \in Nat
  BY SpanFields
<1>2. depth \in Nat /\ parent \in Int
  BY <1>1 DEF ParentDepth, Lost
<1>3. /\ shape.start \in Int /\ shape.duration \in Nat
      /\ shape.memory \in Nat \cup {NoReading}
  BY TimelineAssumption
<1>4. spans' = Append(spans, span)
  BY DEF AddSpan
<1>5. /\ span.parent = parent /\ span.depth = depth /\ span \in SpanRecords
  <2> HIDE DEF depth
  <2> QED
    BY <1>2, <1>3 DEF SpanRecords
<1>6. parent = Lost \/ (parent \in 0..n /\ (parent # 0 => spans[parent].depth < depth))
  <2>1. CASE parent \in DOMAIN spans
    <3>1. parent \in 1..n /\ parent # 0 /\ spans[parent].depth \in Nat
      BY <1>1, <2>1
    <3> QED
      BY <2>1, <3>1 DEF ParentDepth
  <2>2. CASE parent = 0
    BY <1>1, <2>2
  <2> QED
    BY <2>1, <2>2
<1> HIDE DEF span, depth
<1>7. /\ spans' \in Seq(SpanRecords) /\ Len(spans') = n + 1
      /\ \A i \in 1..n : spans'[i] = spans[i]
      /\ spans'[n + 1] = span
  BY <1>4, <1>5, AppendIs DEF SpansRecorded
<1>8. ASSUME NEW i \in 1..(n + 1)
      PROVE  \/ spans'[i].parent = Lost
             \/ /\ spans'[i].parent \in 0..(i - 1)
                /\ spans'[i].parent # 0 => spans'[spans'[i].parent].depth < spans'[i].depth
  <2>1. CASE i \in 1..n
    <3>1. \/ spans[i].parent = Lost
          \/ /\ spans[i].parent \in 0..(i - 1)
             /\ spans[i].parent # 0 => spans[spans[i].parent].depth < spans[i].depth
      BY <2>1 DEF SpansRecorded
    <3>2. spans[i].parent \in 0..(i - 1) /\ spans[i].parent # 0 => spans[i].parent \in 1..n
      BY <1>1, <2>1
    <3> QED
      BY <1>7, <2>1, <3>1, <3>2
  <2>2. CASE i = n + 1
    <3>1. parent \in 0..n => parent \in 0..(i - 1)
      BY <1>1, <2>2
    <3>2. parent \in 0..n /\ parent # 0 => parent \in 1..n
      BY <1>1
    <3> QED
      BY <1>5, <1>6, <1>7, <2>2, <3>1, <3>2
  <2> QED
    BY <1>1, <2>1, <2>2
<1>9. limit' \in Int
  BY DEF AddSpan, SpansRecorded
<1> QED
  BY <1>7, <1>8, <1>9 DEF SpansRecorded

(* The picture of spans that stay is theirs after the step.                *)
LEMMA PictureStays ==
  ASSUME spans' = spans
  PROVE  /\ \A segs : segments' = segs /\ Draws(segs, Length) => Draws(segments, Length)'
         /\ \A u, v, list : rows' = list /\ RowsAre(u, v, list) => RowsAre(u, v, rows)'
         /\ \A pts : points' = pts /\ Plotted(pts) => Plotted(points)'
<1>1. ASSUME NEW segs, segments' = segs, Draws(segs, Length)
      PROVE  Draws(segments, Length)'
  BY <1>1 DEF Draws, ActiveAt, Intervals, Inner, From, To, End, Covers
<1>2. ASSUME NEW u, NEW v, NEW list, rows' = list, RowsAre(u, v, list)
      PROVE  RowsAre(u, v, rows)'
  BY <1>2 DEF RowsAre, Under, InWalk
<1>3. ASSUME NEW pts, points' = pts, Plotted(pts)
      PROVE  Plotted(points)'
  BY <1>3 DEF Plotted, Plots, Readings, Taken, To, End
<1> QED
  BY <1>1, <1>2, <1>3

LEMMA TimelineStep ==
  ASSUME TimelineInv, [TimelineNext]_timelineVars
  PROVE  TimelineInv'
<1> SUFFICES ASSUME TimelineInv, [TimelineNext]_timelineVars
             PROVE  TimelineInv'
  OBVIOUS
<1>1. ASSUME NEW kind \in SpanKinds, NEW parent \in {0, Lost} \cup DOMAIN spans,
             NEW shape \in Shapes, AddSpan(kind, parent, shape)
      PROVE  TimelineInv'
  <2>1. SpansRecorded'
    BY <1>1, SpanAdded DEF TimelineInv
  <2>2. ~shown'
    BY <1>1 DEF AddSpan
  <2> QED
    BY <2>1, <2>2 DEF TimelineInv
<1>2. ASSUME Show
      PROVE  TimelineInv'
  <2>1. /\ spans' = spans /\ limit' = limit /\ segments' = Timeline
        /\ rows' = SpanRows /\ points' = MemorySeries(SpanRows)
    BY <1>2 DEF Show
  <2>2. SpansRecorded /\ SpansRecorded'
    BY <2>1 DEF TimelineInv, SpansRecorded
  <2>3. Draws(segments, Length)'
    BY <2>1, <2>2, PictureStays, TimelineDraws
  <2>4. PICK u, v : RowsAre(u, v, SpanRows)
    BY <2>2, RowsFound
  <2>5. RowsAre(u, v, rows)'
    BY <2>1, <2>4, PictureStays
  <2>6. /\ SpanRows \in Seq(1..Len(spans)) /\ Len(SpanRows) = Len(spans)
        /\ \A i \in 1..Len(spans) : \E n \in 1..Len(spans) : SpanRows[n] = i
    BY <2>2, <2>4, RowFields
  <2>7. Plotted(points)'
    <3>1. /\ SpanRows \in Seq(1..Len(spans))
          /\ \A i \in 1..Len(spans) : \E n \in 1..Len(SpanRows) : SpanRows[n] = i
      BY <2>6
    <3>2. Plotted(MemorySeries(SpanRows))
      BY <2>2, <3>1, PointsFound
    <3> QED
      BY <2>1, <3>2, PictureStays
  <2> QED
    BY <2>2, <2>3, <2>5, <2>7 DEF TimelineInv
<1>3. CASE UNCHANGED timelineVars
  <2>1. /\ spans' = spans /\ limit' = limit /\ segments' = segments /\ shown' = shown
        /\ rows' = rows /\ points' = points
    BY <1>3 DEF timelineVars
  <2>2. SpansRecorded'
    BY <2>1 DEF TimelineInv, SpansRecorded
  <2>3. shown => /\ Draws(segments, Length)'
                 /\ \E u, v : RowsAre(u, v, rows)'
                 /\ Plotted(points)'
    BY <2>1, PictureStays DEF TimelineInv
  <2> QED
    BY <2>1, <2>2, <2>3 DEF TimelineInv
<1> QED
  BY <1>1, <1>2, <1>3 DEF TimelineNext

(* What the detail page of any trace shows is right, for traces of any     *)
(* length, spans of any shape, in any number and below any parents: each   *)
(* moment is drawn once, with a span that was innermost then; the rows are *)
(* complete and depth first; the readings are where they were taken.       *)
THEOREM PagesRight == TimelineSpec => []TimelineHolds
<1>1. TimelineInit => TimelineInv
  BY TimelineStart
<1>2. TimelineInv /\ [TimelineNext]_timelineVars => TimelineInv'
  BY TimelineStep
<1>3. TimelineInv => TimelineHolds
  BY TimelineInvHolds
<1> QED
  BY <1>1, <1>2, <1>3, PTL DEF TimelineSpec
=============================================================================

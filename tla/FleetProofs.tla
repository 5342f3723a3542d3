------------------------------ MODULE FleetProofs ------------------------------
(***************************************************************************)
(* The definitions and the Schedulers' maps, for any number of files with  *)
(* any definitions, any number of refreshes and of Schedulers. A Scheduler *)
(* that has had the present definitions has the maps of its shard. A host  *)
(* that is known to be DOWN is so at the Scheduler its place among the     *)
(* registered hosts deals it to, and its place depends on the files up to  *)
(* its own, which every refresh under way has read as they are.            *)
(***************************************************************************)
EXTENDS Fleet, ArbiterConfigProofs

ShardOf(raw, k) == Partition(Process(raw), n)[k]
Front(f) == Joining(files)[f].hosts

Typed ==
  /\ files \in Seq(Config) /\ writing \subseteq DOMAIN files /\ n \in Nat \ {0}
  /\ refresh \in [Refreshers -> [read : 0 .. Len(files), raw : Config]]
  /\ fresh \subseteq Schedulers /\ \A down \in steady : down.file \in DOMAIN files
  /\ inventory = [k \in Schedulers |-> [hosts |-> inventory[k].hosts,
                                        services |-> inventory[k].services]]

\* A Scheduler that has had the present definitions has what is in its shard.
FreshHasShard ==
  \A k \in fresh :
    /\ Pushable(Joined)
    /\ DOMAIN inventory[k].hosts = {h.id : h \in ShardOf(Joined, k).hosts}
    /\ inventory[k].services = MergedServices(Process(Joined), ShardOf(Joined, k))

\* Where a host is dealt to depends on its place, and its place on the definitions
\* in front of it: what DownStaysKnown needs to be inductive.
DownAtHome(down, i, k) ==
  /\ Front(down.file)[i].register /\ Front(down.file)[i].id = down.id
  /\ InShard(Place(Front(down.file), i), k, n)
  /\ down.id \in DOMAIN inventory[k].hosts /\ ~inventory[k].hosts[down.id]

SteadyAtHome ==
  \A down \in steady :
    /\ Intact(down.file)
    /\ \E i \in DOMAIN Front(down.file), k \in Schedulers : DownAtHome(down, i, k)

FleetInv == Typed /\ FreshHasShard /\ SteadyAtHome

-----------------------------------------------------------------------------
(* A shard and the places of its hosts.                                     *)

LEMMA ShardHosts ==
  ASSUME NEW cfg \in Config, NEW m \in Nat \ {0}, NEW k \in 1 .. m
  PROVE  Partition(cfg, m)[k].hosts
           = {cfg.hosts[i] : i \in {j \in DOMAIN cfg.hosts : InShard(j, k, m)}}
<1>1. CASE m > 1
  BY <1>1 DEF Partition
<1>2. CASE m = 1
  <2>1. k = 1 /\ Partition(cfg, m)[1].hosts = Elements(cfg.hosts)
    BY <1>2 DEF Partition
  <2>2. \A j \in DOMAIN cfg.hosts : InShard(j, 1, 1)
    <3>1. \A j \in DOMAIN cfg.hosts : j \in Nat
      BY DEF Config
    <3>2. \A j \in Nat : (j - 1) % 1 = 0
      OBVIOUS
    <3>. QED
      BY <3>1, <3>2 DEF InShard
  <2>. QED
    BY <1>2, <2>1, <2>2 DEF Elements
<1>. QED
  BY <1>1, <1>2

\* A registered host is in the shard its place deals it to.
LEMMA HomeHasHost ==
  ASSUME NEW raw \in Config, NEW m \in Nat \ {0}, NEW i \in DOMAIN raw.hosts, raw.hosts[i].register,
         NEW k \in 1 .. m, InShard(Place(raw.hosts, i), k, m)
  PROVE  raw.hosts[i].id \in {h.id : h \in Partition(Process(raw), m)[k].hosts}
<1>. DEFINE cfg == Process(raw)
            p == Place(raw.hosts, i)
<1>1. cfg \in Config /\ cfg.hosts = Resolve(raw.hosts) /\ raw.hosts \in Seq(HostDef)
  BY ProcessType DEF Process, Config
<1>2. p \in DOMAIN cfg.hosts /\ cfg.hosts[p].id = raw.hosts[i].id
  BY <1>1, Definitions, ResolveIs
<1>3. Partition(cfg, m)[k].hosts
        = {cfg.hosts[j] : j \in {l \in DOMAIN cfg.hosts : InShard(l, k, m)}}
  BY <1>1, ShardHosts
<1>. HIDE DEF cfg, p
<1>4. InShard(p, k, m)
  BY DEF p
<1>5. raw.hosts[i].id \in {h.id : h \in Partition(cfg, m)[k].hosts}
  BY <1>2, <1>3, <1>4
<1>. QED
  BY <1>5 DEF cfg

\* And what is in a shard is a registered host at a place that deals it there.
LEMMA HostHasHome ==
  ASSUME NEW raw \in Config, NEW m \in Nat \ {0}, NEW k \in 1 .. m,
         NEW h \in Partition(Process(raw), m)[k].hosts
  PROVE  \E i \in DOMAIN raw.hosts :
           raw.hosts[i].register /\ raw.hosts[i].id = h.id /\ InShard(Place(raw.hosts, i), k, m)
<1>. DEFINE cfg == Process(raw)
<1>1. cfg \in Config /\ cfg.hosts = Resolve(raw.hosts) /\ raw.hosts \in Seq(HostDef)
  BY ProcessType DEF Process, Config
<1>2. Partition(cfg, m)[k].hosts
        = {cfg.hosts[j] : j \in {l \in DOMAIN cfg.hosts : InShard(l, k, m)}}
  BY <1>1, ShardHosts
<1>3. h \in Partition(cfg, m)[k].hosts
  OBVIOUS
<1>. HIDE DEF cfg
<1>4. PICK p \in DOMAIN cfg.hosts : InShard(p, k, m) /\ h = cfg.hosts[p]
  BY <1>2, <1>3
<1>5. PICK i \in DOMAIN raw.hosts :
        raw.hosts[i].register /\ Place(raw.hosts, i) = p /\ cfg.hosts[p].id = raw.hosts[i].id
  BY <1>1, <1>4, Definitions, ResolveIs
<1>. QED
  BY <1>4, <1>5

\* The place of a host is settled by the definitions in front.
LEMMA SamePlace ==
  ASSUME NEW front \in Seq(HostDef), NEW hosts \in Seq(HostDef), Begins(hosts, front),
         NEW i \in DOMAIN front
  PROVE  i \in DOMAIN hosts /\ hosts[i] = front[i] /\ Place(hosts, i) = Place(front, i)
<1>. DEFINE last == Len(front)
<1>1. last \in Nat /\ Len(hosts) \in Nat /\ DOMAIN front = 1 .. last /\ DOMAIN hosts = 1 .. Len(hosts)
  OBVIOUS
<1>2. \A j \in 1 .. last : j \in DOMAIN hosts /\ hosts[j] = front[j]
  BY <1>1 DEF Begins
<1>. HIDE DEF last
<1>3. last <= Len(hosts)
  BY <1>1, <1>2
<1>4. \A j \in 0 .. last : Place(front, j) = Place(hosts, j)
  <2>1. last <= Len(front) /\ \A j \in 1 .. last : front[j].register = hosts[j].register
    BY <1>1, <1>2 DEF last
  <2>. QED
    BY <1>1, <1>3, <2>1, Definitions, PlacesAlike
<1>5. i \in 1 .. last /\ i \in 0 .. last
  BY <1>1
<1>. QED
  BY <1>2, <1>4, <1>5

LEMMA FrontType ==
  ASSUME Typed, NEW f \in 0 .. Len(files)
  PROVE  Front(f) \in Seq(HostDef) /\ Joining(files)[f] \in Config
BY JoiningUnfolds DEF Typed, Front, Config

LEMMA JoinedType ==
  ASSUME Typed
  PROVE  Joined \in Config /\ Joined.hosts = Front(Len(files))
<1>1. Len(files) \in 0 .. Len(files)
  BY DEF Typed
<1>. QED
  BY <1>1, FrontType DEF Joined, Front

-----------------------------------------------------------------------------
(* Reading.                                                                 *)

LEMMA CutsType ==
  ASSUME NEW Def, NEW defs \in Seq(Def), NEW half, \A i \in DOMAIN defs : half[i] \subseteq Def
  PROVE  Cuts(defs, half) \subseteq Seq(Def)
<1>1. ASSUME NEW i \in DOMAIN defs, NEW d \in half[i]
      PROVE  Append(SubSeq(defs, 1, i - 1), d) \in Seq(Def)
  <2>1. d \in Def
    BY <1>1
  <2>2. SubSeq(defs, 1, i - 1) \in Seq(Def)
    OBVIOUS
  <2>. QED
    BY <2>1, <2>2
<1>2. << >> \in Seq(Def)
  OBVIOUS
<1>. SUFFICES ASSUME NEW seq \in Cuts(defs, half), seq # << >> PROVE seq \in Seq(Def)
  BY <1>2
<1>3. \E i \in DOMAIN defs : seq \in {Append(SubSeq(defs, 1, i - 1), d) : d \in half[i]}
  BY DEF Cuts
<1>. QED
  BY <1>1, <1>3

LEMMA BeginningsType ==
  ASSUME NEW cfg \in Config
  PROVE  Beginnings(cfg) \subseteq Config
<1>. DEFINE halfHost == [i \in DOMAIN cfg.hosts |-> HalfHost(cfg.hosts[i])]
            halfService == [i \in DOMAIN cfg.services |-> HalfService(cfg.services[i])]
<1>1. cfg.hosts \in Seq(HostDef) /\ cfg.services \in Seq(ServiceDef)
  BY DEF Config
<1>2. \A h \in HostDef : HalfHost(h) \subseteq HostDef
  BY FleetAssumption, ArbiterConfigAssumption DEF HalfHost, HostDef
<1>3. \A s \in ServiceDef : HalfService(s) \subseteq ServiceDef
  BY FleetAssumption, ArbiterConfigAssumption DEF HalfService, ServiceDef
<1>4. \A i \in DOMAIN cfg.hosts : halfHost[i] \subseteq HostDef
  BY <1>1, <1>2
<1>5. \A i \in DOMAIN cfg.services : halfService[i] \subseteq ServiceDef
  BY <1>1, <1>3
<1>. HIDE DEF halfHost, halfService
<1>6. /\ Cuts(cfg.hosts, halfHost) \subseteq Seq(HostDef)
      /\ Cuts(cfg.services, halfService) \subseteq Seq(ServiceDef)
  BY <1>1, <1>4, <1>5, CutsType
<1>. DEFINE hosts == Cuts(cfg.hosts, halfHost)
            services == Cuts(cfg.services, halfService)
<1>7. Beginnings(cfg) = [hosts : hosts, services : {<< >>, cfg.services}]
                          \cup [hosts : {<< >>, cfg.hosts}, services : services]
  BY DEF Beginnings, halfHost, halfService
<1>. HIDE DEF hosts, services
<1>8. hosts \subseteq Seq(HostDef) /\ services \subseteq Seq(ServiceDef)
  BY <1>6 DEF hosts, services
<1>9. << >> \in Seq(HostDef) /\ << >> \in Seq(ServiceDef)
  OBVIOUS
<1>. QED
  BY <1>1, <1>7, <1>8, <1>9 DEF Config

LEMMA ReadingsType ==
  ASSUME Typed, NEW f \in DOMAIN files
  PROVE  Readings(f) \subseteq Config /\ (f \notin writing => Readings(f) = {files[f]})
<1>1. files[f] \in Config
  BY DEF Typed
<1>. QED
  BY <1>1, BeginningsType DEF Readings

-----------------------------------------------------------------------------
(* The steps.                                                               *)

LEMMA InitFleet == Init => FleetInv
<1>. SUFFICES ASSUME Init PROVE FleetInv
  OBVIOUS
<1>1. inventory = [k \in Schedulers |-> [hosts |-> << >>, services |-> << >>]]
  BY DEF Init, Unpushed, Nothing
<1>2. /\ fresh = {} /\ steady = {} /\ writing = {} /\ files \in Seq(Config) /\ n \in Nat \ {0}
      /\ refresh = [r \in Refreshers |-> Unread]
  BY DEF Init, Unpushed
<1>3. Unread \in [read : 0 .. Len(files), raw : Config]
  BY <1>2, NoConfigType DEF Unread
<1>. QED
  BY <1>1, <1>2, <1>3 DEF FleetInv, Typed, FreshHasShard, SteadyAtHome

\* What refresher r has read of the files up to f is what they hold.
HasRead(r, f) ==
  LET g == IF refresh[r].read < f THEN refresh[r].read ELSE f
  IN  /\ Begins(refresh[r].raw.hosts, Front(g))
      /\ g < f => refresh[r].raw.hosts = Front(g)

LEMMA IntactIs ==
  ASSUME NEW f
  PROVE  Intact(f) <=> (\A g \in writing : g > f) /\ \A r \in Refreshers : HasRead(r, f)
BY DEF Intact, HasRead, Begins, Front

\* A step that leaves the files, the Schedulers and what is known alone.
LEMMA ElsewhereInv ==
  ASSUME FleetInv, Typed', UNCHANGED << files, n, inventory, fresh, steady >>,
         \A down \in steady : Intact(down.file)'
  PROVE  FleetInv'
<1>1. FreshHasShard'
  BY DEF FleetInv, FreshHasShard, ShardOf, Joined, Schedulers
<1>2. SteadyAtHome'
  BY DEF FleetInv, SteadyAtHome, DownAtHome, Front, Schedulers
<1>. QED
  BY <1>1, <1>2 DEF FleetInv

LEMMA ReadInv ==
  ASSUME FleetInv, NEW r \in Refreshers, ReadFile(r)
  PROVE  FleetInv'
<1>1. PICK f : f = refresh[r].read + 1
  OBVIOUS
<1>2. /\ f \in DOMAIN files /\ UNCHANGED << files, writing, n, inventory, fresh, steady >>
      /\ files \in Seq(Config)
  BY <1>1 DEF ReadFile, FleetInv, Typed
<1>3. /\ refresh \in [Refreshers -> [read : 0 .. Len(files), raw : Config]]
      /\ refresh[r].raw \in Config /\ refresh[r].read \in 0 .. Len(files)
  BY DEF FleetInv, Typed
<1>4. f \in 1 .. Len(files) /\ f - 1 = refresh[r].read /\ f \in 0 .. Len(files)
  BY <1>1, <1>2, <1>3
<1>0. PICK tmp \in Readings(f) :
        refresh' = [refresh EXCEPT ![r] = [read |-> f, raw |-> Appended(@.raw, tmp)]]
  BY <1>1 DEF ReadFile
<1>5. PICK raw : /\ raw = Appended(refresh[r].raw, tmp)
                 /\ refresh' = [refresh EXCEPT ![r] = [read |-> f, raw |-> raw]]
  BY <1>0
<1>6. tmp \in Config /\ raw \in Config /\ Begins(raw.hosts, refresh[r].raw.hosts)
  BY <1>2, <1>3, <1>5, ReadingsType, AppendedType, AppendedHosts DEF FleetInv
<1>7. /\ refresh'[r] = [read |-> f, raw |-> raw]
      /\ \A x \in Refreshers \ {r} : refresh'[x] = refresh[x]
      /\ refresh' \in [Refreshers -> [read : 0 .. Len(files), raw : Config]]
  BY <1>3, <1>4, <1>5, <1>6
<1>8. Typed'
  BY <1>2, <1>7 DEF FleetInv, Typed, Schedulers
<1>9. ASSUME NEW e \in 1 .. Len(files), Intact(e)
      PROVE  Intact(e)'
  <2>1. (\A g \in writing : g > e) /\ \A x \in Refreshers : HasRead(x, e)
    BY <1>9, IntactIs
  <2>2. e \in Nat
    BY <1>2
  <2>3. ASSUME NEW x \in Refreshers \ {r}
        PROVE  HasRead(x, e)'
    BY <1>2, <1>7, <2>1 DEF HasRead, Front
  <2>4. ASSUME f <= e PROVE HasRead(r, e)'
    <3>1. refresh[r].read < e
      BY <1>4, <2>2, <2>4
    <3>2. refresh[r].raw.hosts = Front(f - 1)
      BY <1>4, <2>1, <3>1 DEF HasRead
    <3>3. f \notin writing
      BY <1>4, <2>1, <2>2, <2>4 DEF FleetInv, Typed
    <3>4. tmp = files[f]
      BY <1>2, <3>3, ReadingsType DEF FleetInv
    <3>5. Front(f) = raw.hosts
      <4>1. Joining(files)[f] = Appended(Joining(files)[f - 1], files[f])
        BY <1>2, <1>4, JoiningUnfolds
      <4>2. \A x, y : Appended(x, y).hosts = x.hosts \o y.hosts
        BY DEF Appended
      <4>3. raw.hosts = Front(f - 1) \o files[f].hosts
        BY <1>5, <3>2, <3>4, <4>2
      <4>. QED
        BY <4>1, <4>2, <4>3 DEF Front
    <3>6. Front(f)' = Front(f) /\ Begins(Front(f), Front(f))
      BY <1>2 DEF Front, Begins
    <3>7. (IF f < e THEN f ELSE e) = f
      BY <1>4, <2>2, <2>4
    <3>8. refresh'[r].read = f /\ refresh'[r].raw = raw
      BY <1>7
    <3>. QED
      BY <3>5, <3>6, <3>7, <3>8 DEF HasRead
  <2>5. ASSUME f > e PROVE HasRead(r, e)'
    <3>1. ~(refresh[r].read < e) /\ ~(f < e)
      BY <1>4, <2>2, <2>5
    <3>2. Begins(refresh[r].raw.hosts, Front(e))
      BY <2>1, <3>1 DEF HasRead
    <3>3. Begins(raw.hosts, Front(e))
      BY <1>6, <3>2 DEF Begins
    <3>4. Front(e)' = Front(e) /\ refresh'[r].read = f /\ refresh'[r].raw = raw
      BY <1>2, <1>7 DEF Front
    <3>5. ~(e < e)
      BY <2>2
    <3>. QED
      BY <3>1, <3>3, <3>4, <3>5 DEF HasRead
  <2>6. HasRead(r, e)'
    BY <1>4, <2>2, <2>4, <2>5
  <2>7. \A g \in writing' : g > e
    BY <1>2, <2>1
  <2>8. \A x \in Refreshers : HasRead(x, e)'
    BY <2>3, <2>6
  <2>. QED
    BY <2>7, <2>8 DEF Intact, HasRead, Begins, Front
<1>10. \A down \in steady : down.file \in 1 .. Len(files) /\ Intact(down.file)
  BY <1>2 DEF FleetInv, Typed, SteadyAtHome
<1>. QED
  BY <1>2, <1>8, <1>9, <1>10, ElsewhereInv

LEMMA ReturnInv ==
  ASSUME FleetInv, NEW r \in Refreshers, Return(r)
  PROVE  FleetInv'
<1>1. /\ refresh' = [refresh EXCEPT ![r] = Unread]
      /\ UNCHANGED << files, writing, n, inventory, fresh, steady >>
  BY DEF Return
<1>2. /\ refresh \in [Refreshers -> [read : 0 .. Len(files), raw : Config]]
      /\ files \in Seq(Config) /\ Unread \in [read : 0 .. Len(files), raw : Config]
  BY NoConfigType DEF FleetInv, Typed, Unread
<1>3. Typed'
  <2>1. refresh' \in [Refreshers -> [read : 0 .. Len(files), raw : Config]]
    BY <1>1, <1>2
  <2>. QED
    BY <1>1, <2>1 DEF FleetInv, Typed, Schedulers
<1>4. ASSUME NEW e \in 1 .. Len(files), Intact(e)
      PROVE  Intact(e)'
  <2>1. (\A g \in writing : g > e) /\ \A x \in Refreshers : HasRead(x, e)
    BY <1>4, IntactIs
  <2>2. \A x \in Refreshers \ {r} : HasRead(x, e)'
    BY <1>1, <1>2, <2>1 DEF HasRead, Front
  <2>3. HasRead(r, e)'
    <3>1. refresh'[r].read = 0 /\ refresh'[r].raw.hosts = << >>
      BY <1>1, <1>2 DEF Unread, NoConfig
    <3>2. Front(0)' = << >>
      BY <1>1, <1>2, JoiningUnfolds DEF Front, NoConfig
    <3>3. 0 < e
      BY <1>2
    <3>. QED
      BY <3>1, <3>2, <3>3 DEF HasRead, Begins
  <2>. QED
    BY <1>1, <2>1, <2>2, <2>3 DEF Intact, HasRead, Begins, Front
<1>5. \A down \in steady : down.file \in 1 .. Len(files) /\ Intact(down.file)
  BY <1>2 DEF FleetInv, Typed, SteadyAtHome
<1>. QED
  BY <1>1, <1>3, <1>4, <1>5, ElsewhereInv

LEMMA EditEndsInv ==
  ASSUME FleetInv, NEW f \in DOMAIN files, EditEnds(f)
  PROVE  FleetInv'
<1>1. writing' = writing \ {f} /\ UNCHANGED << files, refresh, n, inventory, fresh, steady >>
  BY DEF EditEnds
<1>2. Typed'
  BY <1>1 DEF FleetInv, Typed, Schedulers
<1>3. \A down \in steady : Intact(down.file)'
  BY <1>1 DEF FleetInv, SteadyAtHome, Intact
<1>. QED
  BY <1>1, <1>2, <1>3, ElsewhereInv

\* What is written behind a host leaves what is read in front of it.
LEMMA EditBeginsInv ==
  ASSUME FleetInv, NEW f \in DOMAIN files, EditBegins(f)
  PROVE  FleetInv'
<1>1. /\ UNCHANGED << refresh, n, inventory >> /\ Schedulers' = Schedulers
      /\ writing' = writing \cup {f} /\ fresh' = {}
      /\ steady' = {down \in steady : down.file < f}
  BY DEF EditBegins, Schedulers
<1>2. PICK cfg \in Config : files' = [files EXCEPT ![f] = cfg]
  BY FleetAssumption DEF EditBegins
<1>3. files \in Seq(Config) /\ f \in 1 .. Len(files)
  BY DEF FleetInv, Typed
<1>4. /\ files' \in Seq(Config) /\ Len(files') = Len(files)
      /\ \A g \in 1 .. Len(files) : g # f => files'[g] = files[g]
  BY <1>2, <1>3
<1>5. \A e \in 0 .. f - 1 : Joining(files')[e] = Joining(files)[e]
  <2>1. f - 1 \in Nat /\ f - 1 <= Len(files) /\ \A g \in 1 .. f - 1 : files'[g] = files[g]
    BY <1>3, <1>4
  <2>. QED
    BY <1>3, <1>4, <2>1, JoiningAlike
<1>6. Typed'
  <2>1. DOMAIN files' = DOMAIN files
    BY <1>3, <1>4
  <2>. QED
    BY <1>1, <1>4, <2>1 DEF FleetInv, Typed
<1>7. ASSUME NEW down \in steady'
      PROVE  Intact(down.file)'
  <2>1. /\ down \in steady /\ down.file \in 1 .. f - 1
        /\ \A g \in writing : g > down.file
        /\ \A x \in Refreshers : HasRead(x, down.file)
    <3>1. down \in steady /\ down.file < f /\ down.file \in 1 .. Len(files)
      BY <1>1, <1>3 DEF FleetInv, Typed
    <3>2. Intact(down.file)
      BY <3>1 DEF FleetInv, SteadyAtHome
    <3>. QED
      BY <1>3, <3>1, <3>2, IntactIs
  <2>2. \A g \in writing' : g > down.file
    BY <1>1, <1>3, <2>1
  <2>3. ASSUME NEW x \in Refreshers
        PROVE  HasRead(x, down.file)'
    <3>1. refresh[x].read \in Nat
      BY DEF FleetInv, Typed
    <3>2. (IF refresh[x].read < down.file THEN refresh[x].read ELSE down.file) \in 0 .. f - 1
      BY <1>3, <2>1, <3>1
    <3>. QED
      BY <1>1, <1>5, <2>1, <3>2 DEF HasRead, Front
  <2>. QED
    BY <2>2, <2>3 DEF Intact, HasRead, Begins, Front
<1>8. ASSUME NEW down \in steady'
      PROVE  \E i \in DOMAIN Front(down.file)', k \in Schedulers : DownAtHome(down, i, k)'
  <2>1. down \in steady /\ down.file \in 0 .. f - 1
    BY <1>1, <1>3 DEF FleetInv, Typed
  <2>2. PICK i \in DOMAIN Front(down.file), k \in Schedulers : DownAtHome(down, i, k)
    BY <2>1 DEF FleetInv, SteadyAtHome
  <2>3. Front(down.file)' = Front(down.file)
    BY <1>5, <2>1 DEF Front
  <2>4. DownAtHome(down, i, k)'
    BY <1>1, <2>2, <2>3 DEF DownAtHome
  <2>. QED
    BY <2>2, <2>3, <2>4
<1>9. FreshHasShard'
  BY <1>1 DEF FreshHasShard
<1>. QED
  BY <1>1, <1>6, <1>7, <1>8, <1>9 DEF FleetInv, SteadyAtHome

\* What a push leaves in the maps of the Scheduler and in the others'.
LEMMA PushedMaps ==
  ASSUME Typed, NEW k \in Schedulers, NEW r \in Refreshers, Push(k, r)
  PROVE  /\ Typed'
         /\ inventory'[k].hosts = MergedHosts(inventory[k].hosts, ShardOf(refresh[r].raw, k))
         /\ inventory'[k].services
              = MergedServices(Process(refresh[r].raw), ShardOf(refresh[r].raw, k))
         /\ \A l \in Schedulers \ {k} : inventory'[l] = inventory[l]
<1>. DEFINE shard == ShardOf(refresh[r].raw, k)
            maps == [hosts |-> MergedHosts(inventory[k].hosts, shard),
                     services |-> MergedServices(Process(refresh[r].raw), shard)]
<1>1. /\ inventory' = [inventory EXCEPT ![k] = maps]
      /\ UNCHANGED << files, writing, refresh, n, steady >> /\ fresh' \subseteq fresh \cup {k}
  BY DEF Push, ShardOf
<1>2. DOMAIN inventory = Schedulers /\ Schedulers' = Schedulers
  BY <1>1 DEF Typed, Schedulers
<1>3. inventory'[k] = maps /\ \A l \in Schedulers \ {k} : inventory'[l] = inventory[l]
  <2>. HIDE DEF maps
  <2>. QED
    BY <1>1, <1>2
<1>4. maps = [hosts |-> maps.hosts, services |-> maps.services]
  OBVIOUS
<1>. HIDE DEF maps
<1>5. Typed'
  <2>1. \A l \in Schedulers : inventory[l] = [hosts |-> inventory[l].hosts, services |-> inventory[l].services]
    BY DEF Typed
  <2>2. \A l \in Schedulers :
          inventory'[l] = [hosts |-> inventory'[l].hosts, services |-> inventory'[l].services]
    BY <1>3, <1>4, <2>1
  <2>3. inventory' = [l \in Schedulers |-> inventory'[l]]
    BY <1>1, <1>2 DEF Typed
  <2>4. inventory' = [l \in Schedulers |-> [hosts |-> inventory'[l].hosts, services |-> inventory'[l].services]]
    BY <2>2, <2>3
  <2>. QED
    BY <1>1, <1>2, <2>4 DEF Typed
<1>. QED
  BY <1>3, <1>5 DEF maps

\* Whatever was read behind a host's file, a push has the host at its place.
LEMMA SteadyIsPushed ==
  ASSUME FleetInv, NEW k \in Schedulers, NEW r \in Refreshers, Push(k, r),
         NEW down \in steady, NEW i \in DOMAIN Front(down.file), DownAtHome(down, i, k)
  PROVE  down.id \in {h.id : h \in ShardOf(refresh[r].raw, k).hosts}
<1>. DEFINE f == down.file
            raw == refresh[r].raw
<1>1. /\ files \in Seq(Config) /\ f \in 1 .. Len(files) /\ n \in Nat \ {0} /\ raw \in Config
      /\ refresh[r].read = Len(files)
  BY DEF FleetInv, Typed, Push
<1>2. HasRead(r, f)
  BY IntactIs DEF FleetInv, SteadyAtHome
<1>3. Begins(raw.hosts, Front(f))
  <2>1. ~(refresh[r].read < f)
    BY <1>1
  <2>. QED
    BY <1>2, <2>1 DEF HasRead
<1>4. Front(f) \in Seq(HostDef) /\ raw.hosts \in Seq(HostDef)
  BY <1>1, FrontType DEF FleetInv, Config
<1>. HIDE DEF raw
<1>5. /\ i \in DOMAIN raw.hosts /\ raw.hosts[i] = Front(f)[i]
      /\ Place(raw.hosts, i) = Place(Front(f), i)
  BY <1>3, <1>4, SamePlace
<1>6. raw.hosts[i].register /\ raw.hosts[i].id = down.id /\ InShard(Place(raw.hosts, i), k, n)
  BY <1>5 DEF DownAtHome
<1>7. raw.hosts[i].id \in {h.id : h \in Partition(Process(raw), n)[k].hosts}
  BY <1>1, <1>5, <1>6, HomeHasHost DEF Schedulers
<1>. QED
  BY <1>6, <1>7 DEF ShardOf, raw

LEMMA PushInv ==
  ASSUME FleetInv, NEW k \in Schedulers, NEW r \in Refreshers, Push(k, r)
  PROVE  FleetInv'
<1>. DEFINE raw == refresh[r].raw
<1>1. /\ Typed /\ Typed'
      /\ inventory'[k].hosts = MergedHosts(inventory[k].hosts, ShardOf(raw, k))
      /\ inventory'[k].services = MergedServices(Process(raw), ShardOf(raw, k))
      /\ \A l \in Schedulers \ {k} : inventory'[l] = inventory[l]
  BY PushedMaps DEF FleetInv
<1>2. /\ UNCHANGED << files, writing, refresh, n, steady >> /\ Pushable(raw)
      /\ Schedulers' = Schedulers
      /\ fresh' = IF raw = Joined THEN fresh \cup {k} ELSE fresh \ {k}
  BY DEF Push, Schedulers
<1>3. DOMAIN inventory'[k].hosts = {h.id : h \in ShardOf(raw, k).hosts}
  BY <1>1 DEF MergedHosts
<1>. HIDE DEF raw
<1>4. Joined' = Joined /\ \A x, l : ShardOf(x, l)' = ShardOf(x, l)
  BY <1>2 DEF Joined, ShardOf
<1>5. FreshHasShard'
  <2>1. ASSUME NEW l \in fresh'
        PROVE  /\ Pushable(Joined)
               /\ DOMAIN inventory'[l].hosts = {h.id : h \in ShardOf(Joined, l).hosts}
               /\ inventory'[l].services = MergedServices(Process(Joined), ShardOf(Joined, l))
    <3>1. CASE l = k
      <4>1. raw = Joined
        BY <1>2, <3>1
      <4>. QED
        BY <1>1, <1>2, <1>3, <3>1, <4>1
    <3>2. CASE l # k
      <4>1. l \in fresh /\ l \in Schedulers \ {k}
        BY <1>1, <1>2, <3>2 DEF Typed
      <4>2. inventory'[l] = inventory[l]
        BY <1>1, <4>1
      <4>. QED
        BY <4>1, <4>2 DEF FleetInv, FreshHasShard
    <3>. QED
      BY <3>1, <3>2
  <2>. QED
    BY <1>2, <1>4, <2>1 DEF FreshHasShard, ShardOf
<1>6. SteadyAtHome'
  <2>. SUFFICES ASSUME NEW down \in steady
                PROVE  /\ Intact(down.file)'
                       /\ \E i \in DOMAIN Front(down.file), l \in Schedulers : DownAtHome(down, i, l)'
    BY <1>2 DEF SteadyAtHome, Front
  <2>1. Intact(down.file)'
    BY <1>2 DEF FleetInv, SteadyAtHome, Intact
  <2>2. PICK i \in DOMAIN Front(down.file), l \in Schedulers : DownAtHome(down, i, l)
    BY DEF FleetInv, SteadyAtHome
  <2>3. Front(down.file)' = Front(down.file)
    BY <1>2 DEF Front
  <2>4. CASE l # k
    <3>1. inventory'[l] = inventory[l]
      BY <1>1, <2>4
    <3>2. DownAtHome(down, i, l)'
      BY <1>2, <2>2, <2>3, <3>1 DEF DownAtHome
    <3>. QED
      BY <2>1, <2>2, <3>2
  <2>5. CASE l = k
    <3>1. down.id \in {h.id : h \in ShardOf(raw, k).hosts}
      BY <2>2, <2>5, SteadyIsPushed DEF raw
    <3>2. down.id \in DOMAIN inventory[k].hosts
      BY <2>2, <2>5 DEF DownAtHome
    <3>3. /\ down.id \in DOMAIN inventory'[k].hosts
          /\ inventory'[k].hosts[down.id] = inventory[k].hosts[down.id]
      BY <1>1, <3>1, <3>2 DEF MergedHosts
    <3>4. DownAtHome(down, i, l)'
      BY <1>2, <2>2, <2>3, <2>5, <3>3 DEF DownAtHome
    <3>. QED
      BY <2>1, <2>2, <3>4
  <2>. QED
    BY <2>4, <2>5
<1>. QED
  BY <1>1, <1>5, <1>6 DEF FleetInv

\* What a result changes: one field of one map.
LEMMA ResultMaps ==
  ASSUME Typed, NEW k \in Schedulers, NEW id \in DOMAIN inventory[k].hosts, NEW up \in BOOLEAN,
         HostResult(k, id, up)
  PROVE  /\ Typed'
         /\ \A l \in Schedulers :
              /\ DOMAIN inventory'[l].hosts = DOMAIN inventory[l].hosts
              /\ inventory'[l].services = inventory[l].services
              /\ \A x \in DOMAIN inventory[l].hosts :
                   l # k \/ x # id => inventory'[l].hosts[x] = inventory[l].hosts[x]
         /\ inventory'[k].hosts[id] = up
<1>. DEFINE hosts == [inventory[k].hosts EXCEPT ![id] = up]
            maps == [inventory[k] EXCEPT !.hosts = hosts]
<1>1. inventory' = [inventory EXCEPT ![k] = maps] /\ UNCHANGED << files, writing, refresh, n, fresh >>
  BY DEF HostResult
<1>2. DOMAIN inventory = Schedulers /\ Schedulers' = Schedulers
  BY <1>1 DEF Typed, Schedulers
<1>3. /\ DOMAIN hosts = DOMAIN inventory[k].hosts /\ hosts[id] = up
      /\ \A x \in DOMAIN inventory[k].hosts : x # id => hosts[x] = inventory[k].hosts[x]
  OBVIOUS
<1>. HIDE DEF hosts
<1>4. \A l \in Schedulers : inventory[l] = [hosts |-> inventory[l].hosts, services |-> inventory[l].services]
  BY DEF Typed
<1>5. maps = [hosts |-> hosts, services |-> inventory[k].services]
  <2>1. PICK a, b : inventory[k] = [hosts |-> a, services |-> b]
    BY <1>4
  <2>. QED
    BY <2>1
<1>. HIDE DEF maps
<1>6. inventory'[k] = maps /\ \A l \in Schedulers \ {k} : inventory'[l] = inventory[l]
  BY <1>1, <1>2
<1>7. inventory'[k].hosts = hosts /\ inventory'[k].services = inventory[k].services
  BY <1>5, <1>6
<1>8. Typed'
  <2>1. \A l \in Schedulers :
          inventory'[l] = [hosts |-> inventory'[l].hosts, services |-> inventory'[l].services]
    BY <1>4, <1>5, <1>6, <1>7
  <2>2. inventory' = [l \in Schedulers |-> inventory'[l]]
    BY <1>1, <1>2 DEF Typed
  <2>3. inventory' = [l \in Schedulers |-> [hosts |-> inventory'[l].hosts, services |-> inventory'[l].services]]
    BY <2>1, <2>2
  <2>4. \A down \in steady' : down.file \in DOMAIN files
    BY DEF HostResult, Typed
  <2>. QED
    BY <1>1, <1>2, <2>3, <2>4 DEF Typed
<1>9. ASSUME NEW l \in Schedulers
      PROVE  /\ DOMAIN inventory'[l].hosts = DOMAIN inventory[l].hosts
             /\ inventory'[l].services = inventory[l].services
             /\ \A x \in DOMAIN inventory[l].hosts :
                  l # k \/ x # id => inventory'[l].hosts[x] = inventory[l].hosts[x]
  <2>1. CASE l = k
    BY <1>3, <1>7, <2>1
  <2>2. CASE l # k
    BY <1>6, <2>2
  <2>. QED
    BY <2>1, <2>2
<1>. QED
  BY <1>3, <1>7, <1>8, <1>9

\* A host that is in the present shard is so on account of a line up to the last of its id.
LEMMA HomeInFront ==
  ASSUME FleetInv, NEW k \in fresh, NEW id \in DOMAIN inventory[k].hosts,
         NEW f \in DOMAIN files, f = FileOf(id)
  PROVE  \E i \in DOMAIN Front(f) :
           /\ Front(f)[i].register /\ Front(f)[i].id = id
           /\ InShard(Place(Front(f), i), k, n)
<1>1. /\ files \in Seq(Config) /\ f \in 1 .. Len(files) /\ f \in 0 .. Len(files)
      /\ n \in Nat \ {0} /\ k \in 1 .. n /\ Joined \in Config
      /\ Joined = Joining(files)[Len(files)]
  BY JoinedType DEF FleetInv, Typed, Schedulers, Joined
<1>2. PICK h \in Partition(Process(Joined), n)[k].hosts : h.id = id
  BY DEF FleetInv, FreshHasShard, ShardOf
<1>3. PICK i \in DOMAIN Joined.hosts :
        /\ Joined.hosts[i].register /\ Joined.hosts[i].id = id
        /\ InShard(Place(Joined.hosts, i), k, n)
  BY <1>1, <1>2, HostHasHome
<1>. DEFINE Has(g) == \E x \in Elements(files[g].hosts) : x.id = id /\ x.register
<1>4. \A g \in DOMAIN files : Has(g) => g <= f
  <2>. DEFINE S == {g \in DOMAIN files : Has(g)}
  <2>1. f = Latest(S)
    BY DEF FileOf
  <2>2. S \subseteq 0 .. Len(files) /\ Len(files) \in Nat
    <3>. HIDE DEF Has
    <3>. QED
      BY <1>1
  <2>3. S # {} => \A g \in S : g <= f
    <3>. HIDE DEF S
    <3>. QED
      BY <2>1, <2>2, LatestIsLast
  <2>. QED
    BY <2>3
<1>5. /\ Begins(Joined.hosts, Front(f))
      /\ \/ i \in DOMAIN Front(f)
         \/ \E g \in f + 1 .. Len(files) : Joined.hosts[i] \in Elements(files[g].hosts)
  BY <1>1, LaterFilesBehind DEF Front
<1>6. i \in DOMAIN Front(f)
  <2>. SUFFICES ASSUME NEW g \in f + 1 .. Len(files), Joined.hosts[i] \in Elements(files[g].hosts)
                PROVE  FALSE
    BY <1>5
  <2>1. g \in DOMAIN files /\ ~(g <= f)
    BY <1>1
  <2>2. Has(g)
    BY <1>3
  <2>. QED
    BY <1>4, <2>1, <2>2
<1>7. Front(f) \in Seq(HostDef) /\ Joined.hosts \in Seq(HostDef)
  BY <1>1, FrontType DEF FleetInv, Config
<1>8. Joined.hosts[i] = Front(f)[i] /\ Place(Joined.hosts, i) = Place(Front(f), i)
  BY <1>5, <1>6, <1>7, SamePlace
<1>. QED
  BY <1>3, <1>6, <1>8

LEMMA ResultInv ==
  ASSUME FleetInv, NEW k \in Schedulers, NEW id \in DOMAIN inventory[k].hosts, NEW up \in BOOLEAN,
         HostResult(k, id, up)
  PROVE  FleetInv'
<1>1. /\ Typed /\ Typed'
      /\ \A l \in Schedulers :
           /\ DOMAIN inventory'[l].hosts = DOMAIN inventory[l].hosts
           /\ inventory'[l].services = inventory[l].services
           /\ \A x \in DOMAIN inventory[l].hosts :
                l # k \/ x # id => inventory'[l].hosts[x] = inventory[l].hosts[x]
      /\ inventory'[k].hosts[id] = up
  BY ResultMaps DEF FleetInv
<1>2. /\ UNCHANGED << files, writing, refresh, n, fresh >> /\ Schedulers' = Schedulers
      /\ fresh \subseteq Schedulers /\ Joined' = Joined
      /\ \A f : Front(f)' = Front(f) /\ Intact(f)' = Intact(f)
  BY <1>1 DEF HostResult, Schedulers, Typed, Joined, Front, Intact
<1>3. FreshHasShard'
  <2>1. \A x, l : ShardOf(x, l)' = ShardOf(x, l)
    BY <1>2 DEF ShardOf
  <2>2. \A l \in fresh : /\ DOMAIN inventory'[l].hosts = DOMAIN inventory[l].hosts
                         /\ inventory'[l].services = inventory[l].services
    BY <1>1, <1>2
  <2>. QED
    BY <1>2, <2>1, <2>2 DEF FleetInv, FreshHasShard, ShardOf
<1>. DEFINE Home(down) == \E i \in DOMAIN Front(down.file), l \in Schedulers : DownAtHome(down, i, l)'
<1>4. ASSUME NEW down \in steady, down.id # id \/ ~up
      PROVE  Home(down)
  <2>1. PICK i \in DOMAIN Front(down.file), l \in Schedulers : DownAtHome(down, i, l)
    BY DEF FleetInv, SteadyAtHome
  <2>2. /\ down.id \in DOMAIN inventory'[l].hosts
        /\ ~inventory'[l].hosts[down.id]
    <3>1. CASE l # k \/ down.id # id
      BY <1>1, <2>1, <3>1 DEF DownAtHome
    <3>2. CASE l = k /\ down.id = id
      BY <1>1, <1>4, <2>1, <3>2 DEF DownAtHome
    <3>. QED
      BY <3>1, <3>2
  <2>3. DownAtHome(down, i, l)'
    BY <1>2, <2>1, <2>2 DEF DownAtHome
  <2>. QED
    BY <2>1, <2>3
<1>5. ASSUME ~up, fresh = Schedulers, NEW down \in [id : {id}, file : DOMAIN files],
             down.file = FileOf(id)
      PROVE  Home(down)
  <2>1. down.id = id /\ down.file \in DOMAIN files /\ k \in fresh
    BY <1>5
  <2>2. PICK i \in DOMAIN Front(down.file) :
          /\ Front(down.file)[i].register /\ Front(down.file)[i].id = id
          /\ InShard(Place(Front(down.file), i), k, n)
    BY <1>5, <2>1, HomeInFront
  <2>3. id \in DOMAIN inventory'[k].hosts /\ ~inventory'[k].hosts[id]
    BY <1>1, <1>5
  <2>4. DownAtHome(down, i, k)'
    BY <1>2, <2>1, <2>2, <2>3 DEF DownAtHome
  <2>. QED
    BY <2>2, <2>4
<1>. HIDE DEF Home
<1>6. ASSUME NEW down \in steady'
      PROVE  Intact(down.file) /\ Home(down)
  <2>1. CASE down \in steady /\ (down.id # id \/ ~up)
    BY <1>4, <2>1 DEF FleetInv, SteadyAtHome
  <2>2. CASE /\ ~up /\ fresh = Schedulers /\ down \in [id : {id}, file : DOMAIN files]
             /\ down.file = FileOf(id) /\ Intact(down.file)
    BY <1>5, <2>2
  <2>. QED
    BY <2>1, <2>2 DEF HostResult
<1>7. SteadyAtHome'
  BY <1>2, <1>6 DEF SteadyAtHome, Home
<1>. QED
  BY <1>1, <1>3, <1>7 DEF FleetInv

LEMMA NextFleet == FleetInv /\ [Next]_vars => FleetInv'
<1>. SUFFICES ASSUME FleetInv, [Next]_vars PROVE FleetInv'
  OBVIOUS
<1>1. ASSUME NEW r \in Refreshers, ReadFile(r) \/ Return(r) PROVE FleetInv'
  BY <1>1, ReadInv, ReturnInv
<1>2. ASSUME NEW k \in Schedulers, NEW r \in Refreshers, Push(k, r) PROVE FleetInv'
  BY <1>2, PushInv
<1>3. ASSUME NEW k \in Schedulers, NEW id \in DOMAIN inventory[k].hosts, NEW up \in BOOLEAN,
             HostResult(k, id, up)
      PROVE  FleetInv'
  BY <1>3, ResultInv
<1>4. ASSUME NEW f \in DOMAIN files, EditBegins(f) \/ EditEnds(f) PROVE FleetInv'
  BY <1>4, EditBeginsInv, EditEndsInv
<1>5. CASE UNCHANGED vars
  <2>1. UNCHANGED << files, writing, refresh, n, inventory, fresh, steady >>
    BY <1>5 DEF vars
  <2>2. Typed' /\ \A down \in steady : Intact(down.file)'
    BY <2>1 DEF FleetInv, Typed, SteadyAtHome, Intact, Schedulers
  <2>. QED
    BY <2>1, <2>2, ElsewhereInv
<1>. QED
  BY <1>1, <1>2, <1>3, <1>4, <1>5 DEF Next

-----------------------------------------------------------------------------
(* What follows.                                                            *)

LEMMA InheritanceHolds == FleetInv => Inheritance
<1>1. FleetInv => Joined.hosts \in Seq(HostDef)
  BY JoinedType DEF FleetInv, Config
<1>. QED
  BY <1>1, Definitions, NearestIsInherited DEF Inheritance

LEMMA ShardingHolds == FleetInv => Sharding
<1>1. FleetInv => Process(Joined) \in Config /\ n \in Nat
  BY JoinedType, ProcessType DEF FleetInv, Typed
<1>. QED
  BY <1>1, ShardsPartition DEF Sharding

LEMMA SameShardHolds == FleetInv => SameShard
<1>. DEFINE cfg == Process(Joined)
<1>. SUFFICES ASSUME FleetInv, Accepted(cfg), NEW k \in DOMAIN Partition(cfg, n)
              PROVE  WithTheirHosts(Partition(cfg, n)[k])
  BY DEF SameShard
<1>1. cfg \in Config /\ n \in Nat \ {0}
  BY JoinedType, ProcessType DEF FleetInv, Typed
<1>. HIDE DEF cfg
<1>2. k \in 1 .. n
  BY <1>1, PartitionType
<1>. QED
  BY <1>1, <1>2, ShardsTogether

\* The maps of a Scheduler that has had the present definitions.
LEMMA FreshMaps ==
  ASSUME FleetInv, NEW k \in fresh
  PROVE  LET cfg == Process(Joined)
         IN  /\ k \in DOMAIN Partition(cfg, n)
             /\ DOMAIN inventory[k].hosts = {h.id : h \in Partition(cfg, n)[k].hosts}
             /\ DOMAIN inventory[k].services = {s.id : s \in Partition(cfg, n)[k].services}
             /\ \A id \in DOMAIN inventory[k].services :
                  \E s \in Elements(cfg.services) :
                    s.id = id /\ s.hostName = inventory[k].services[id]
<1>. DEFINE cfg == Process(Joined)
            shard == Partition(cfg, n)[k]
<1>1. cfg \in Config /\ n \in Nat \ {0} /\ k \in 1 .. n
  BY JoinedType, ProcessType DEF FleetInv, Typed, Schedulers
<1>2. k \in DOMAIN Partition(cfg, n)
  BY <1>1, PartitionType
<1>3. /\ Accepted(cfg)
      /\ DOMAIN inventory[k].hosts = {h.id : h \in shard.hosts}
      /\ inventory[k].services = MergedServices(cfg, shard)
  BY DEF FleetInv, FreshHasShard, ShardOf, Pushable
<1>4. shard.services \subseteq Elements(cfg.services)
  BY <1>1, <1>2, <1>3, ShardsPartition DEF Partitioned
<1>. HIDE DEF cfg, shard
<1>5. DOMAIN inventory[k].services = {s.id : s \in shard.services}
  BY <1>3 DEF MergedServices
<1>6. ASSUME NEW id \in DOMAIN inventory[k].services
      PROVE  \E s \in Elements(cfg.services) :
               s.id = id /\ s.hostName = inventory[k].services[id]
  <2>. DEFINE here == {i \in DOMAIN cfg.services :
                         cfg.services[i].id = id /\ cfg.services[i] \in shard.services}
  <2>1. PICK t \in shard.services : t.id = id
    BY <1>5
  <2>2. PICK i \in DOMAIN cfg.services : t = cfg.services[i]
    BY <1>4, <2>1 DEF Elements
  <2>3. here \subseteq 0 .. Len(cfg.services) /\ Len(cfg.services) \in Nat /\ i \in here
    <3>1. cfg.services \in Seq(ServiceDef)
      BY <1>1 DEF Config
    <3>2. DOMAIN cfg.services \subseteq 0 .. Len(cfg.services) /\ Len(cfg.services) \in Nat
      BY <3>1
    <3>. QED
      BY <2>1, <2>2, <3>2
  <2>4. Latest(here) \in here
    <3>. HIDE DEF here
    <3>. QED
      BY <2>3, LatestIsLast
  <2>5. /\ cfg.services[Latest(here)] \in Elements(cfg.services)
        /\ cfg.services[Latest(here)].id = id
    BY <2>4 DEF Elements
  <2>6. inventory[k].services[id] = cfg.services[Latest(here)].hostName
    BY <1>3, <1>5 DEF MergedServices, LastOf
  <2>. HIDE DEF here
  <2>. QED
    BY <2>5, <2>6
<1>. QED
  BY <1>2, <1>3, <1>5, <1>6 DEF cfg, shard

LEMMA MonitoredHolds == FleetInv => Monitored
<1>. DEFINE cfg == Process(Joined)
            shards == Partition(cfg, n)
            At(id) == {k \in Schedulers : id \in DOMAIN inventory[k].hosts}
<1>. SUFFICES ASSUME FleetInv, fresh = Schedulers
              PROVE  /\ \A h \in Elements(cfg.hosts) : \E k \in Schedulers : At(h.id) = {k}
                     /\ \A i \in DOMAIN cfg.services :
                          LET s == cfg.services[i]
                          IN  (\A j \in DOMAIN cfg.services : cfg.services[j].id = s.id => j = i)
                                => \A k \in Schedulers :
                                     s.id \in DOMAIN inventory[k].services <=> k \in At(s.hostName)
                     /\ \A k \in Schedulers :
                          /\ DOMAIN inventory[k].hosts \subseteq {h.id : h \in Elements(cfg.hosts)}
                          /\ \A id \in DOMAIN inventory[k].services :
                               \E s \in Elements(cfg.services) :
                                 s.id = id /\ s.hostName = inventory[k].services[id]
  BY DEF Monitored
<1>1. cfg \in Config /\ n \in Nat \ {0}
  BY JoinedType, ProcessType DEF FleetInv, Typed
<1>2. DOMAIN shards = Schedulers
  BY <1>1, PartitionType DEF Schedulers
<1>3. Accepted(cfg)
  <2>1. 1 \in Schedulers
    BY <1>1 DEF Schedulers
  <2>. QED
    BY <2>1 DEF FleetInv, FreshHasShard, Pushable
<1>4. \A k \in Schedulers :
        /\ DOMAIN inventory[k].hosts = {h.id : h \in shards[k].hosts}
        /\ DOMAIN inventory[k].services = {s.id : s \in shards[k].services}
        /\ \A id \in DOMAIN inventory[k].services :
             \E s \in Elements(cfg.services) :
               s.id = id /\ s.hostName = inventory[k].services[id]
  BY FreshMaps
<1>5. Partitioned(cfg, shards)
  BY <1>1, <1>3, ShardsPartition
<1>6. \A k \in Schedulers : WithTheirHosts(shards[k])
  BY <1>1, <1>3, ShardsTogether DEF Schedulers
<1>. HIDE DEF cfg, shards
<1>7. ASSUME NEW h \in Elements(cfg.hosts)
      PROVE  \E k \in Schedulers : At(h.id) = {k}
  <2>1. PICK i \in DOMAIN cfg.hosts : h = cfg.hosts[i]
    BY DEF Elements
  <2>2. PICK k \in Schedulers :
          /\ h \in shards[k].hosts
          /\ \A l \in Schedulers \ {k} : \A g \in shards[l].hosts : g.id # h.id
    BY <1>2, <1>5, <2>1 DEF Partitioned
  <2>3. k \in At(h.id)
    BY <1>4, <2>2
  <2>4. \A l \in Schedulers \ {k} : l \notin At(h.id)
    BY <1>4, <2>2
  <2>. QED
    BY <2>3, <2>4
<1>8. ASSUME NEW i \in DOMAIN cfg.services,
             \A j \in DOMAIN cfg.services : cfg.services[j].id = cfg.services[i].id => j = i,
             NEW k \in Schedulers
      PROVE  cfg.services[i].id \in DOMAIN inventory[k].services
               <=> k \in At(cfg.services[i].hostName)
  <2>. DEFINE s == cfg.services[i]
  <2>1. s \in Elements(cfg.services)
    BY DEF Elements
  <2>2. s.id \in DOMAIN inventory[k].services <=> s \in shards[k].services
    <3>1. \A t \in shards[k].services : t.id = s.id => t = s
      BY <1>2, <1>5, <1>8 DEF Partitioned, Elements
    <3>. QED
      BY <1>4, <3>1
  <2>. HIDE DEF s
  <2>3. \A l \in Schedulers : s \in shards[l].services => l \in At(s.hostName)
    BY <1>4, <1>6 DEF WithTheirHosts
  <2>4. ASSUME k \in At(s.hostName)
        PROVE  s \in shards[k].services
    <3>1. PICK l \in Schedulers : s \in shards[l].services
      BY <1>2, <1>5, <2>1 DEF Partitioned
    <3>2. l \in At(s.hostName)
      BY <2>3, <3>1
    <3>3. PICK h \in shards[k].hosts : h.id = s.hostName
      BY <1>4, <2>4
    <3>4. h \in Elements(cfg.hosts)
      BY <1>2, <1>5, <3>3 DEF Partitioned
    <3>5. PICK m \in Schedulers : At(s.hostName) = {m}
      BY <1>7, <3>3, <3>4
    <3>6. l = k
      <4>. HIDE DEF At
      <4>. QED
        BY <2>4, <3>2, <3>5
    <3>. QED
      BY <3>1, <3>6
  <2>. QED
    BY <2>2, <2>3, <2>4 DEF s
<1>9. ASSUME NEW k \in Schedulers
      PROVE  DOMAIN inventory[k].hosts \subseteq {h.id : h \in Elements(cfg.hosts)}
  <2>1. shards[k].hosts \subseteq Elements(cfg.hosts)
    BY <1>2, <1>5 DEF Partitioned
  <2>. QED
    BY <1>4, <2>1
<1>. QED
  <2>. HIDE DEF At
  <2>. QED
    BY <1>4, <1>7, <1>8, <1>9, Zenon

LEMMA DownStaysKnownHolds == FleetInv => DownStaysKnown
BY DEF FleetInv, SteadyAtHome, DownAtHome, DownStaysKnown

\* In whatever files an operator writes, a field left empty comes from the nearest
\* template that has it, chains cut at any depth and templates in a circle included.
THEOREM InheritanceIsNearest == Spec => []Inheritance
BY InitFleet, NextFleet, InheritanceHolds, PTL DEF Spec

\* What is pushed is a partition of what is defined, for any number of Schedulers.
THEOREM ShardsArePartition == Spec => []Sharding
BY InitFleet, NextFleet, ShardingHolds, PTL DEF Spec

\* A service is pushed to the Scheduler that has its host.
THEOREM ServicesGoWithHosts == Spec => []SameShard
BY InitFleet, NextFleet, SameShardHolds, PTL DEF Spec

\* While the last push to every Scheduler is of the present definitions, each host is
\* monitored by one of them and nothing of older definitions is left in any of their maps.
THEOREM AllIsMonitored == Spec => []Monitored
BY InitFleet, NextFleet, MonitoredHolds, PTL DEF Spec

\* A host found DOWN stays known to be so while no file up to its own is written, through
\* edits of those behind, half of which is read, and pushes of whatever was read of them.
THEOREM DownIsKept == Spec => []DownStaysKnown
BY InitFleet, NextFleet, DownStaysKnownHolds, PTL DEF Spec
=============================================================================

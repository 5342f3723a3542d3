--------------------------------- MODULE Fleet ---------------------------------
(***************************************************************************)
(* The definition files of an Arbiter and what becomes of them in the      *)
(* Schedulers it feeds: refreshes that read file after file, some of them  *)
(* being written, composed with partitionConfig and with syncAllHandler of *)
(* cmd/scheduler, which rebuilds its maps from a shard and keeps what it   *)
(* knows of the ids it has seen. A refresh may push to any Scheduler in any *)
(* order and again and again: who pushes when is in Arbiter.               *)
(***************************************************************************)
EXTENDS ArbiterConfig

CONSTANTS
  Contents,       \* what an editor changes a file from and to
  Words,          \* what a word may read as whose end is not written yet
  Refreshers,     \* bound: refreshes at one time, the goroutines that push included
  MaxEdits        \* bound

ASSUME FleetAssumption ==
  Contents \subseteq Config /\ Words \subseteq Ids /\ Unset \in Words /\ MaxEdits \in Nat

VARIABLES
  files,          \* what each file holds, or will hold once it is written
  writing,        \* files that are being written
  refresh,        \* per refresher: number of files read, the definitions in them
  n,              \* number of scheduler_urls
  inventory,      \* per Scheduler: its maps
  fresh,          \* history: Schedulers whose last push was of the present definitions
  steady,         \* history: hosts found DOWN with the file they are defined in, where no
                  \* file up to that one has been written since
  edits           \* count

vars == << files, writing, refresh, n, inventory, fresh, steady, edits >>

Schedulers == 1 .. n
Nothing == [hosts |-> << >>, services |-> << >>]        \* empty maps
Unread == [read |-> 0, raw |-> NoConfig]

Joined == Joining(files)[Len(files)]
Pushable(raw) == Accepted(Process(raw))

-----------------------------------------------------------------------------
(* A file of which only the beginning is written, in either order of hosts  *)
(* and services: the last definition has lost fields, and where it ends in  *)
(* the middle of a word that word reads otherwise.                          *)

HalfHost(h) ==
  [id : Words \cup {h.id}, use : Words \cup {h.use},
   register : {TRUE, h.register}, value : {Unset, h.value}]
HalfService(s) ==
  [id : Words \cup {s.id}, hostName : Words \cup {s.hostName}, use : Words \cup {s.use},
   register : {TRUE, s.register}, value : {Unset, s.value}]

\* half[i] is what definition i may be read as
Cuts(defs, half) ==
  {<< >>} \cup UNION {{Append(SubSeq(defs, 1, i - 1), d) : d \in half[i]} : i \in DOMAIN defs}

Beginnings(cfg) ==
  LET hosts    == Cuts(cfg.hosts, [i \in DOMAIN cfg.hosts |-> HalfHost(cfg.hosts[i])])
      services == Cuts(cfg.services, [i \in DOMAIN cfg.services |-> HalfService(cfg.services[i])])
  IN  [hosts : hosts, services : {<< >>, cfg.services}]
        \cup [hosts : {<< >>, cfg.hosts}, services : services]

\* what os.ReadFile and yaml.Unmarshal make of a file, nothing if it does not parse
Readings(f) == IF f \in writing THEN Beginnings(files[f]) ELSE {files[f]}

ReadFile(r) ==
  LET f == refresh[r].read + 1
  IN  /\ f \in DOMAIN files
      /\ \E tmp \in Readings(f) :
           refresh' = [refresh EXCEPT ![r] = [read |-> f, raw |-> Appended(@.raw, tmp)]]
      /\ UNCHANGED << files, writing, n, inventory, fresh, steady, edits >>

\* the walk fails, the linter has errors, or the last push has succeeded or failed
Return(r) ==
  /\ refresh' = [refresh EXCEPT ![r] = Unread]
  /\ UNCHANGED << files, writing, n, inventory, fresh, steady, edits >>

EditBegins(f) ==
  /\ edits < MaxEdits /\ edits' = edits + 1
  /\ f \notin writing /\ writing' = writing \cup {f}
  /\ files[f] \in Contents
  /\ \E cfg \in Contents \ {files[f]} : files' = [files EXCEPT ![f] = cfg]
  /\ fresh' = {}
  /\ steady' = {down \in steady : down.file < f}
  /\ UNCHANGED << refresh, n, inventory >>

EditEnds(f) ==
  /\ f \in writing /\ writing' = writing \ {f}
  /\ UNCHANGED << files, refresh, n, inventory, fresh, steady, edits >>

-----------------------------------------------------------------------------
(* syncAllHandler: maps by the id of the host and the bare id of the        *)
(* service, of which the last one stays.                                    *)

HostsAnew(old, shard) == [id \in {h.id : h \in shard.hosts} |-> TRUE]        \* mutant
HostsAdded(old, shard) ==                                  \* mutant: none is removed
  [id \in DOMAIN old \cup {h.id : h \in shard.hosts} |->
     IF id \in DOMAIN old THEN old[id] ELSE TRUE]
MergedHosts(old, shard) ==
  [id \in {h.id : h \in shard.hosts} |-> IF id \in DOMAIN old THEN old[id] ELSE TRUE]

LastOf(cfg, shard, id) ==
  cfg.services[Latest({i \in DOMAIN cfg.services :
                         cfg.services[i].id = id /\ cfg.services[i] \in shard.services})]

MergedServices(cfg, shard) ==
  [id \in {s.id : s \in shard.services} |-> LastOf(cfg, shard, id).hostName]

\* refresher r pushes what it read, now or long ago, to Scheduler k
Push(k, r) ==
  LET raw   == refresh[r].raw
      cfg   == Process(raw)
      shard == Partition(cfg, n)[k]
  IN  /\ refresh[r].read = Len(files) /\ Pushable(raw)
      /\ inventory' = [inventory EXCEPT ![k] =
                         [hosts |-> MergedHosts(@.hosts, shard),
                          services |-> MergedServices(cfg, shard)]]
      /\ fresh' = IF raw = Joined THEN fresh \cup {k} ELSE fresh \ {k}
      /\ UNCHANGED << files, writing, refresh, n, steady, edits >>

-----------------------------------------------------------------------------
(* Results.                                                                 *)

\* no file up to f is being written, nor has anybody read it otherwise
Intact(f) ==
  /\ \A g \in writing : g > f
  /\ \A r \in Refreshers :
       LET g     == IF refresh[r].read < f THEN refresh[r].read ELSE f
           front == Joining(files)[g].hosts
           hosts == refresh[r].raw.hosts
       IN  /\ \A i \in DOMAIN front : i \in DOMAIN hosts /\ hosts[i] = front[i]
           /\ g < f => hosts = front

\* the last file with a host of that id
FileOf(id) ==
  Latest({f \in DOMAIN files : \E h \in Elements(files[f].hosts) : h.id = id /\ h.register})

\* a result at Scheduler k
HostResult(k, id, up) ==
  /\ id \in DOMAIN inventory[k].hosts
  /\ inventory' = [inventory EXCEPT ![k].hosts[id] = up]
  /\ steady' = IF up THEN {down \in steady : down.id # id}
               ELSE steady \cup {down \in [id : {id}, file : DOMAIN files] :
                                   /\ fresh = Schedulers
                                   /\ down.file = FileOf(id) /\ Intact(down.file)}
  /\ UNCHANGED << files, writing, refresh, n, fresh, edits >>

-----------------------------------------------------------------------------
Unpushed ==
  /\ writing = {} /\ refresh = [r \in Refreshers |-> Unread]
  /\ inventory = [k \in Schedulers |-> Nothing]
  /\ fresh = {} /\ steady = {} /\ edits = 0

Init == files \in Seq(Config) /\ n \in Nat \ {0} /\ Unpushed

Next ==
  \/ \E r \in Refreshers : ReadFile(r) \/ Return(r)
  \/ \E k \in Schedulers :
       \/ \E r \in Refreshers : Push(k, r)
       \/ \E id \in DOMAIN inventory[k].hosts, up \in BOOLEAN : HostResult(k, id, up)
  \/ \E f \in DOMAIN files : EditBegins(f) \/ EditEnds(f)

Spec == Init /\ [][Next]_vars

-----------------------------------------------------------------------------
\* resolveHostInheritance (watcher.go:271): a field left empty comes from the nearest
\* template of the chain that has it, within the depth of the cut, in whatever is read.
Inheritance == InheritsNearest(Joined.hosts)

\* partitionConfig (watcher.go:105) of what the linter lets through: every host and
\* service goes to one Scheduler and one only, and nothing else does.
Sharding ==
  LET cfg == Process(Joined) IN Accepted(cfg) => Partitioned(cfg, Partition(cfg, n))

\* watcher.go:130: a service goes to the Scheduler of its host, for one Scheduler or many.
SameShard ==
  LET cfg == Process(Joined)
      shards == Partition(cfg, n)
  IN  Accepted(cfg) => \A k \in DOMAIN shards : WithTheirHosts(shards[k])

\* While the Schedulers have what the files define now, and until one of them is pushed
\* something else (an old or a torn reading), every host is monitored by one of them and
\* one only, and so is every service whose id no other service has, by the Scheduler of
\* its host. Nothing that was defined before is left.
Monitored ==
  LET cfg == Process(Joined)
      At(id) == {k \in Schedulers : id \in DOMAIN inventory[k].hosts}
  IN  fresh = Schedulers =>
        /\ \A h \in Elements(cfg.hosts) : \E k \in Schedulers : At(h.id) = {k}
        /\ \A i \in DOMAIN cfg.services :
             LET s == cfg.services[i]
             IN  (\A j \in DOMAIN cfg.services : cfg.services[j].id = s.id => j = i)
                   => \A k \in Schedulers :
                        s.id \in DOMAIN inventory[k].services <=> k \in At(s.hostName)
        /\ \A k \in Schedulers :
             /\ DOMAIN inventory[k].hosts \subseteq {h.id : h \in Elements(cfg.hosts)}
             /\ \A id \in DOMAIN inventory[k].services :
                  \E s \in Elements(cfg.services) :
                    s.id = id /\ s.hostName = inventory[k].services[id]

\* A host that was found DOWN is known to be DOWN as long as no file up to its own is
\* written, whatever happens to the files behind: they may be edited, read half written
\* or skipped, and be pushed as they were read then at any later time. (watcher.go:202
\* skips what does not parse. A write to the host's own file may lose it to such a reading
\* and a write in front may also move it to another Scheduler; either takes it for UP.)
DownStaysKnown ==
  \A down \in steady : \E k \in Schedulers :
    down.id \in DOMAIN inventory[k].hosts /\ ~inventory[k].hosts[down.id]
=============================================================================

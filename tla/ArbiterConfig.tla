----------------------------- MODULE ArbiterConfig -----------------------------
(***************************************************************************)
(* What the Arbiter computes from the definition files (cmd/arbiter):      *)
(* loadAndProcess with its inheritance, RunLinter's errors, and            *)
(* partitionConfig. Hosts and services are inherited by the same code, one *)
(* field at a time and independently, so one field, "value", stands for    *)
(* address, check_command and the others. Commands, contacts and periods   *)
(* are copied as they are; the groups reach no Scheduler.                  *)
(***************************************************************************)
EXTENDS Integers, Sequences

CONSTANTS
  Ids,            \* what id, use and host_name may hold, Unset included
  Values,         \* what an inherited field may hold, Unset included
  MaxDepth        \* the depth at which inheritance is cut (5 in the code)

Unset == ""       \* of a field that the file leaves out

ASSUME ArbiterConfigAssumption ==
  Unset \in Ids /\ Unset \in Values /\ MaxDepth \in Nat

HostDef    == [id : Ids, use : Ids, register : BOOLEAN, value : Values]
ServiceDef == [id : Ids, hostName : Ids, use : Ids, register : BOOLEAN, value : Values]
Config     == [hosts : Seq(HostDef), services : Seq(ServiceDef)]
NoConfig   == [hosts |-> << >>, services |-> << >>]

Elements(seq) == {seq[i] : i \in DOMAIN seq}
Latest(S) == CHOOSE i \in S : \A j \in S \ {i} : j < i

-----------------------------------------------------------------------------
(* loadAndProcess: the files one after the other, then the inheritance.     *)

Appended(raw, tmp) == [hosts |-> raw.hosts \o tmp.hosts, services |-> raw.services \o tmp.services]

\* what is read once that many of the files are
Joining(contents) ==
  LET upTo[f \in 0 .. Len(contents)] ==
        IF f = 0 THEN NoConfig ELSE Appended(upTo[f - 1], contents[f])
  IN  upTo

\* the template a definition uses, 0 if there is none: the map of templates
\* keeps the last one of an id
AnyDefinition(defs, i) == {j \in DOMAIN defs : defs[j].id = defs[i].use}     \* mutant
Candidates(defs, i) == {j \in DOMAIN defs : ~defs[j].register /\ defs[j].id = defs[i].use}
Parent(defs, i) ==
  IF defs[i].use = Unset \/ Candidates(defs, i) = {} THEN 0 ELSE Latest(Candidates(defs, i))

\* the field of every definition when "left" levels of the recursion remain
Field(defs) ==
  LET field[left \in 0 .. MaxDepth + 1] ==
        [i \in DOMAIN defs |->
           IF defs[i].value # Unset \/ left = 0 \/ Parent(defs, i) = 0 THEN defs[i].value
           ELSE field[left - 1][Parent(defs, i)]]
  IN  field

Inherited(defs) == Field(defs)[MaxDepth + 1]

\* the definitions that are no templates, resolved, of the first i
Kept(defs) ==
  LET value == Inherited(defs)
      kept[i \in 0 .. Len(defs)] ==
        IF i = 0 THEN << >>
        ELSE IF defs[i].register THEN Append(kept[i - 1], [defs[i] EXCEPT !.value = value[i]])
        ELSE kept[i - 1]
  IN  kept

Resolve(defs) == Kept(defs)[Len(defs)]

Process(raw) == [hosts |-> Resolve(raw.hosts), services |-> Resolve(raw.services)]

-----------------------------------------------------------------------------
(* RunLinter: a configuration with an error is not pushed.                  *)

AnyHosts(cfg) == TRUE                              \* mutant: duplicates pass
UniqueHosts(cfg) ==
  \A i, j \in DOMAIN cfg.hosts : i # j => cfg.hosts[i].id # cfg.hosts[j].id

AttachedAnywhere(cfg) == TRUE                      \* mutant: the relationship unchecked
Attached(cfg) ==
  \A s \in Elements(cfg.services) :
    s.hostName # Unset /\ \E h \in Elements(cfg.hosts) : h.id = s.hostName

Accepted(cfg) ==
  /\ \A h \in Elements(cfg.hosts) : h.id # Unset
  /\ UniqueHosts(cfg)
  /\ \A s \in Elements(cfg.services) : s.id # Unset
  /\ Attached(cfg)

-----------------------------------------------------------------------------
(* partitionConfig: hosts by their index, services with their host.         *)

Shard == [hosts : SUBSET HostDef, services : SUBSET ServiceDef]
NoShard == [hosts |-> {}, services |-> {}]

InShard(i, k, n) == (i - 1) % n = k - 1

\* the shard of a host id: the map keeps the last host
ServicesByIndex(cfg, k, n) ==                      \* mutant: dealt out like the hosts
  {cfg.services[i] : i \in {j \in DOMAIN cfg.services : InShard(j, k, n)}}
ServicesOf(cfg, k, n) ==
  {s \in Elements(cfg.services) :
     LET here == {i \in DOMAIN cfg.hosts : cfg.hosts[i].id = s.hostName}
     IN  here # {} /\ InShard(Latest(here), k, n)}

Partition(cfg, n) ==
  IF n <= 1
  THEN << [hosts |-> Elements(cfg.hosts), services |-> Elements(cfg.services)] >>
  ELSE [k \in 1 .. n |->
          [hosts |-> {cfg.hosts[i] : i \in {j \in DOMAIN cfg.hosts : InShard(j, k, n)}},
           services |-> ServicesOf(cfg, k, n)]]

-----------------------------------------------------------------------------
(* What they are for.                                                       *)

\* The field of a definition comes from the nearest of itself, its template, the
\* template's template and so on that has one, up to the cut.
InheritsNearest(defs) ==
  \A i \in DOMAIN defs :
    \E n \in 0 .. MaxDepth + 1 : \E path \in [0 .. n -> DOMAIN defs] :
      /\ path[0] = i
      /\ \A k \in 0 .. n - 1 :
           /\ defs[path[k]].value = Unset /\ defs[path[k]].use # Unset
           /\ ~defs[path[k + 1]].register /\ defs[path[k + 1]].id = defs[path[k]].use
           /\ \A j \in DOMAIN defs : defs[j].id = defs[path[k]].use /\ ~defs[j].register
                                       => j <= path[k + 1]
      /\ Inherited(defs)[i] = defs[path[n]].value
      /\ \/ defs[path[n]].value # Unset \/ defs[path[n]].use = Unset \/ n = MaxDepth + 1
         \/ \A j \in DOMAIN defs : defs[j].register \/ defs[j].id # defs[path[n]].use

\* A service and its host go to the same Scheduler, which then knows the host's
\* downtime (watcher.go:130).
WithTheirHosts(shard) ==
  \A s \in shard.services : \E h \in shard.hosts : h.id = s.hostName

\* Every host is in one shard and one only, every service in one, and the shards
\* have nothing else.
Partitioned(cfg, shards) ==
  /\ \A i \in DOMAIN cfg.hosts : \E k \in DOMAIN shards :
       /\ cfg.hosts[i] \in shards[k].hosts
       /\ \A l \in DOMAIN shards \ {k} : \A h \in shards[l].hosts : h.id # cfg.hosts[i].id
  /\ \A s \in Elements(cfg.services) : \E k \in DOMAIN shards :
       /\ s \in shards[k].services
       /\ \A l \in DOMAIN shards \ {k} : s \notin shards[l].services
  /\ \A k \in DOMAIN shards : /\ shards[k].hosts \subseteq Elements(cfg.hosts)
                              /\ shards[k].services \subseteq Elements(cfg.services)
=============================================================================

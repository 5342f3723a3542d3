-------------------------- MODULE ArbiterConfigProofs --------------------------
(***************************************************************************)
(* What the Arbiter computes, for every set of definitions: the nearest    *)
(* value is inherited, what is registered is kept in its order, and the    *)
(* shards are a partition. Recursion is unfolded by induction, and         *)
(* induction is the well-foundedness of the naturals.                      *)
(***************************************************************************)
EXTENDS ArbiterConfig, TLAPS, WellFoundedInduction

LEMMA Least ==
  ASSUME NEW T, T \subseteq Nat, T # {}
  PROVE  \E n \in T : \A m \in T : n <= m
<1>. DEFINE R == OpToRel(<, Nat)
<1>1. IsWellFoundedOn(R, Nat)
  BY NatLessThanWellFounded
<1>2. \A i, j \in Nat : i < j => << i, j >> \in R
  BY DEF OpToRel
<1>. HIDE DEF R
<1>3. PICK n \in T : \A m \in T : ~ (<< m, n >> \in R)
  BY <1>1, WFMin
<1>4. \A m \in T : ~ (m < n)
  BY <1>2, <1>3
<1>. QED
  BY <1>3, <1>4

\* A set that has 0 and the successor of each of its numbers up to max.
LEMMA Induction ==
  ASSUME NEW max \in Nat, NEW S, 0 \in S, \A n \in 0 .. max - 1 : n \in S => n + 1 \in S
  PROVE  0 .. max \subseteq S
<1>. DEFINE Missing == (0 .. max) \ S
<1>. SUFFICES ASSUME Missing # {} PROVE FALSE
  OBVIOUS
<1>1. PICK n \in Missing : \A m \in Missing : n <= m
  <2>1. Missing \subseteq Nat
    OBVIOUS
  <2>. HIDE DEF Missing
  <2>. QED
    BY <2>1, Least
<1>2. n # 0 /\ n - 1 \in 0 .. max - 1 /\ n - 1 \in S /\ (n - 1) + 1 = n
  BY <1>1
<1>. QED
  BY <1>1, <1>2

\* A function over 0 .. max whose value at i is computed from that at i - 1 exists.
Iterates(f, max, S, start, step) ==
  /\ f \in [0 .. max -> S] /\ f[0] = start
  /\ \A i \in 1 .. max : f[i] = step[i][f[i - 1]]

LEMMA Iteration ==
  ASSUME NEW max \in Nat, NEW S, NEW start \in S, NEW step \in [1 .. max -> [S -> S]]
  PROVE  \E f : Iterates(f, max, S, start, step)
<1>. DEFINE Reached == {m \in 0 .. max : \E f : Iterates(f, m, S, start, step)}
<1>1. 0 \in Reached
  <2>1. Iterates([i \in 0 .. 0 |-> start], 0, S, start, step)
    BY DEF Iterates
  <2>2. 0 \in 0 .. max
    OBVIOUS
  <2>. QED
    BY <2>1, <2>2
<1>2. ASSUME NEW m \in 0 .. max - 1, m \in Reached
      PROVE  m + 1 \in Reached
  <2>1. PICK f : Iterates(f, m, S, start, step)
    BY <1>2
  <2>. DEFINE g == [i \in 0 .. m + 1 |-> IF i = m + 1 THEN step[m + 1][f[m]] ELSE f[i]]
  <2>2. m + 1 \in 0 .. max /\ m + 1 \in 1 .. max /\ m \in 0 .. m /\ 0 # m + 1
    OBVIOUS
  <2>3. g \in [0 .. m + 1 -> S] /\ g[0] = start
    BY <2>1, <2>2 DEF Iterates
  <2>4. ASSUME NEW i \in 1 .. m + 1
        PROVE  g[i] = step[i][g[i - 1]]
    <3>1. CASE i = m + 1
      <4>1. g[i] = step[m + 1][f[m]] /\ g[i - 1] = f[m]
        BY <2>2, <3>1
      <4>. QED
        BY <3>1, <4>1
    <3>2. CASE i # m + 1
      <4>1. i \in 1 .. m /\ g[i] = f[i] /\ g[i - 1] = f[i - 1]
        BY <3>2
      <4>. QED
        BY <2>1, <4>1 DEF Iterates
    <3>. QED
      BY <3>1, <3>2
  <2>5. Iterates(g, m + 1, S, start, step)
    BY <2>3, <2>4 DEF Iterates
  <2>. QED
    BY <2>2, <2>5
<1>3. max \in Reached
  <2>. HIDE DEF Reached
  <2>1. 0 .. max \subseteq Reached
    BY <1>1, <1>2, Induction
  <2>. QED
    BY <2>1
<1>. QED
  BY <1>3

\* The last of some positions of a sequence.
LEMMA LatestIsLast ==
  ASSUME NEW max \in Nat, NEW S, S \subseteq 0 .. max, S # {}
  PROVE  Latest(S) \in S /\ \A i \in S : i <= Latest(S)
<1>. DEFINE D == {max - i : i \in S}
<1>1. D \subseteq Nat /\ D # {}
  <2>1. \A i \in S : max - i \in Nat
    OBVIOUS
  <2>. QED
    BY <2>1
<1>2. PICK d \in D : \A e \in D : d <= e
  BY <1>1, Least
<1>3. PICK n \in S : d = max - n
  BY <1>2
<1>4. \A i \in S : max - n <= max - i
  BY <1>2, <1>3
<1>5. \A i \in S \ {n} : i < n
  BY <1>3, <1>4
<1>6. Latest(S) \in S /\ \A i \in S \ {Latest(S)} : i < Latest(S)
  BY <1>3, <1>5 DEF Latest
<1>. HIDE DEF D
<1>7. \A i \in S : i \in Nat
  OBVIOUS
<1>. QED
  <2>1. ASSUME NEW i \in S
        PROVE  i <= Latest(S)
    <3>1. i \in Nat /\ Latest(S) \in Nat
      BY <1>6, <1>7
    <3>2. i = Latest(S) \/ i < Latest(S)
      BY <1>6
    <3>. QED
      BY <3>1, <3>2
  <2>. QED
    BY <1>6, <2>1

-----------------------------------------------------------------------------
(* Inheritance. Hosts and services are definitions alike.                   *)

IsDefinition(Def) ==
  \A d \in Def :
    /\ d.register \in BOOLEAN /\ d.value \in Values
    /\ \A v \in Values :
         LET resolved == [d EXCEPT !.value = v]
         IN  resolved \in Def /\ resolved.id = d.id /\ resolved.value = v

LEMMA Definitions == IsDefinition(HostDef) /\ IsDefinition(ServiceDef)
BY DEF IsDefinition, HostDef, ServiceDef

LEMMA DefinitionsIn ==
  ASSUME NEW Def, IsDefinition(Def), NEW defs \in Seq(Def)
  PROVE  \A i \in DOMAIN defs :
           defs[i] \in Def /\ defs[i].register \in BOOLEAN /\ defs[i].value \in Values
<1>1. \A i \in DOMAIN defs : defs[i] \in Def
  OBVIOUS
<1>. QED
  BY <1>1, Zenon DEF IsDefinition

LEMMA ParentIsLast ==
  ASSUME NEW Def, NEW defs \in Seq(Def), NEW i \in DOMAIN defs
  PROVE  /\ Parent(defs, i) = 0 => defs[i].use = Unset \/ Candidates(defs, i) = {}
         /\ Parent(defs, i) # 0 =>
              /\ defs[i].use # Unset /\ Parent(defs, i) \in Candidates(defs, i)
              /\ \A j \in Candidates(defs, i) : j <= Parent(defs, i)
<1>1. /\ Candidates(defs, i) \subseteq 0 .. Len(defs) /\ Len(defs) \in Nat
      /\ 0 \notin Candidates(defs, i)
  BY DEF Candidates
<1>2. CASE defs[i].use = Unset \/ Candidates(defs, i) = {}
  BY <1>2 DEF Parent
<1>3. CASE ~(defs[i].use = Unset \/ Candidates(defs, i) = {})
  BY <1>1, <1>3, LatestIsLast DEF Parent
<1>. QED
  BY <1>2, <1>3

\* One level of the recursion: a definition's own field or that of its template.
Level(defs, left, above) ==
  [i \in DOMAIN defs |->
     IF defs[i].value # Unset \/ left = 0 \/ Parent(defs, i) = 0 THEN defs[i].value
     ELSE above[Parent(defs, i)]]

LEMMA FieldUnfolds ==
  ASSUME NEW Def, IsDefinition(Def), NEW defs \in Seq(Def)
  PROVE  Field(defs) = [left \in 0 .. MaxDepth + 1 |-> Level(defs, left, Field(defs)[left - 1])]
<1>. DEFINE Column == [DOMAIN defs -> Values]
            own == [i \in DOMAIN defs |-> defs[i].value]
            resolve == [left \in 1 .. MaxDepth + 1 |-> [above \in Column |-> Level(defs, left, above)]]
<1>1. /\ \A i \in DOMAIN defs : defs[i].value \in Values
      /\ MaxDepth + 1 \in Nat
  <2>1. \A i \in DOMAIN defs : defs[i].value \in Values
    BY DefinitionsIn, Zenon
  <2>. QED
    BY <2>1, ArbiterConfigAssumption
<1>2. own \in Column
  BY <1>1
<1>3. ASSUME NEW left, NEW above \in Column
      PROVE  Level(defs, left, above) \in Column
  <2>1. \A i \in DOMAIN defs : Parent(defs, i) # 0 => Parent(defs, i) \in DOMAIN defs
    BY ParentIsLast DEF Candidates
  <2>. QED
    BY <1>1, <2>1 DEF Level
<1>4. resolve \in [1 .. MaxDepth + 1 -> [Column -> Column]]
  BY <1>3
<1>. HIDE DEF Column
<1>5. PICK f : Iterates(f, MaxDepth + 1, Column, own, resolve)
  <2>. DEFINE top == MaxDepth + 1
  <2>1. top \in Nat /\ resolve \in [1 .. top -> [Column -> Column]]
    BY <1>1, <1>4
  <2>. HIDE DEF own, resolve, top
  <2>2. \E f : Iterates(f, top, Column, own, resolve)
    BY <1>2, <2>1, Iteration
  <2>. QED
    BY <2>2 DEF top
<1>6. ASSUME NEW left \in 0 .. MaxDepth + 1
      PROVE  f[left] = Level(defs, left, f[left - 1])
  <2>1. CASE left = 0
    <3>1. f[left] = own
      BY <1>5, <2>1 DEF Iterates
    <3>. QED
      BY <2>1, <3>1 DEF Level
  <2>2. CASE left # 0
    <3>1. left \in 1 .. MaxDepth + 1 /\ left - 1 \in 0 .. MaxDepth + 1
      BY <1>1, <2>2
    <3>2. f[left] = resolve[left][f[left - 1]] /\ f[left - 1] \in Column
      <4>. HIDE DEF resolve, own
      <4>. QED
        BY <1>5, <2>2, <3>1 DEF Iterates
    <3>. QED
      BY <3>1, <3>2
  <2>. QED
    BY <2>1, <2>2
<1>7. f = [left \in 0 .. MaxDepth + 1 |-> Level(defs, left, f[left - 1])]
  <2>1. f = [left \in 0 .. MaxDepth + 1 |-> f[left]]
    <3>. HIDE DEF resolve, own
    <3>. QED
      BY <1>5 DEF Iterates
  <2>. QED
    BY <1>6, <2>1
<1>. QED
  BY <1>7 DEF Field, Level

LEMMA FieldType ==
  ASSUME NEW Def, IsDefinition(Def), NEW defs \in Seq(Def)
  PROVE  Field(defs) \in [0 .. MaxDepth + 1 -> [DOMAIN defs -> Values]]
<1>. DEFINE Column == [DOMAIN defs -> Values]
            Typed == {left \in 0 .. MaxDepth + 1 : Field(defs)[left] \in Column}
<1>1. \A left \in 0 .. MaxDepth + 1 : Field(defs)[left] = Level(defs, left, Field(defs)[left - 1])
  BY FieldUnfolds
<1>2. /\ \A i \in DOMAIN defs : /\ defs[i].value \in Values
                                /\ Parent(defs, i) # 0 => Parent(defs, i) \in DOMAIN defs
      /\ MaxDepth + 1 \in Nat
  <2>1. \A i \in DOMAIN defs : defs[i].value \in Values
    BY DefinitionsIn, Zenon
  <2>2. \A i \in DOMAIN defs : Parent(defs, i) # 0 => Parent(defs, i) \in DOMAIN defs
    BY ParentIsLast DEF Candidates
  <2>. QED
    BY <2>1, <2>2, ArbiterConfigAssumption
<1>3. 0 \in Typed
  <2>1. Field(defs)[0] = Level(defs, 0, Field(defs)[0 - 1]) /\ 0 \in 0 .. MaxDepth + 1
    BY <1>1, <1>2
  <2>. QED
    BY <1>2, <2>1 DEF Level
<1>4. ASSUME NEW left \in 0 .. (MaxDepth + 1) - 1, left \in Typed
      PROVE  left + 1 \in Typed
  <2>1. left + 1 \in 0 .. MaxDepth + 1 /\ (left + 1) - 1 = left
    BY <1>2
  <2>2. Field(defs)[left + 1] = Level(defs, left + 1, Field(defs)[left])
    BY <1>1, <2>1
  <2>. QED
    BY <1>2, <1>4, <2>1, <2>2 DEF Level
<1>5. 0 .. MaxDepth + 1 \subseteq Typed
  <2>. HIDE DEF Typed
  <2>. QED
    BY <1>2, <1>3, <1>4, Induction
<1>. QED
  BY <1>5, FieldUnfolds

\* One link of a chain of templates, its end, and the chain a field comes from.
Uses(defs, i, j) ==
  /\ defs[i].value = Unset /\ defs[i].use # Unset
  /\ ~defs[j].register /\ defs[j].id = defs[i].use
  /\ \A l \in DOMAIN defs : defs[l].id = defs[i].use /\ ~defs[l].register => l <= j

Ends(defs, i, links, left) ==
  \/ defs[i].value # Unset \/ defs[i].use = Unset \/ links = left
  \/ \A j \in DOMAIN defs : defs[j].register \/ defs[j].id # defs[i].use

ChainOf(defs, left, i, links, path) ==
  /\ path[0] = i
  /\ \A k \in 0 .. links - 1 : Uses(defs, path[k], path[k + 1])
  /\ Field(defs)[left][i] = defs[path[links]].value
  /\ Ends(defs, path[links], links, left)

Nearest(defs, left) ==
  \A i \in DOMAIN defs : \E links \in 0 .. left : \E path \in [0 .. links -> DOMAIN defs] :
    ChainOf(defs, left, i, links, path)

LEMMA FieldOf ==
  ASSUME NEW Def, IsDefinition(Def), NEW defs \in Seq(Def),
         NEW left \in 0 .. MaxDepth + 1, NEW i \in DOMAIN defs
  PROVE  /\ defs[i].value # Unset \/ left = 0 \/ Parent(defs, i) = 0
              => Field(defs)[left][i] = defs[i].value
         /\ ~ (defs[i].value # Unset \/ left = 0 \/ Parent(defs, i) = 0)
              => Field(defs)[left][i] = Field(defs)[left - 1][Parent(defs, i)]
<1>1. Field(defs)[left] = Level(defs, left, Field(defs)[left - 1])
  BY FieldUnfolds
<1>. QED
  BY <1>1 DEF Level

\* A definition whose own field is taken is a chain of its own.
LEMMA NearestItself ==
  ASSUME NEW Def, IsDefinition(Def), NEW defs \in Seq(Def),
         NEW left \in 0 .. MaxDepth + 1, NEW i \in DOMAIN defs,
         defs[i].value # Unset \/ left = 0 \/ Parent(defs, i) = 0
  PROVE  \E links \in 0 .. left : \E path \in [0 .. links -> DOMAIN defs] :
           ChainOf(defs, left, i, links, path)
<1>. DEFINE path == [k \in 0 .. 0 |-> i]
<1>1. path \in [0 .. 0 -> DOMAIN defs] /\ path[0] = i /\ 0 \in 0 .. left
  BY ArbiterConfigAssumption
<1>. HIDE DEF path
<1>2. Ends(defs, i, 0, left)
  <2>1. CASE Parent(defs, i) = 0
    BY <2>1, ParentIsLast DEF Ends, Candidates
  <2>. QED
    BY <2>1 DEF Ends
<1>3. Field(defs)[left][i] = defs[i].value
  BY FieldOf
<1>4. ChainOf(defs, left, i, 0, path)
  BY <1>1, <1>2, <1>3 DEF ChainOf
<1>. QED
  BY <1>1, <1>4

\* The chain of a template with its user in front.
LEMMA NearestThroughTemplate ==
  ASSUME NEW Def, IsDefinition(Def), NEW defs \in Seq(Def),
         NEW left \in Nat, left + 1 \in 0 .. MaxDepth + 1, Nearest(defs, left),
         NEW i \in DOMAIN defs, defs[i].value = Unset, Parent(defs, i) # 0
  PROVE  \E links \in 0 .. left + 1 : \E path \in [0 .. links -> DOMAIN defs] :
           ChainOf(defs, left + 1, i, links, path)
<1>. DEFINE p == Parent(defs, i)
<1>1. p \in DOMAIN defs /\ Uses(defs, i, p)
  BY ParentIsLast DEF Uses, Candidates
<1>2. Field(defs)[left + 1][i] = Field(defs)[left][p]
  <2>1. left + 1 # 0 /\ (left + 1) - 1 = left
    OBVIOUS
  <2>. QED
    BY <2>1, FieldOf
<1>. HIDE DEF p
<1>3. PICK links \in 0 .. left : \E path \in [0 .. links -> DOMAIN defs] :
        ChainOf(defs, left, p, links, path)
  BY <1>1 DEF Nearest
<1>12. PICK path \in [0 .. links -> DOMAIN defs] : ChainOf(defs, left, p, links, path)
  BY <1>3
<1>. DEFINE longer == [k \in 0 .. links + 1 |-> IF k = 0 THEN i ELSE path[k - 1]]
<1>4. /\ links + 1 \in 0 .. left + 1 /\ links \in Nat
      /\ \A k \in 1 .. links + 1 : k - 1 \in 0 .. links
  OBVIOUS
<1>5. longer \in [0 .. links + 1 -> DOMAIN defs]
  <2>1. \A k \in 0 .. links + 1 : k # 0 => k - 1 \in 0 .. links
    BY <1>4
  <2>. QED
    BY <1>4, <2>1
<1>6. /\ longer[0] = i
      /\ \A k \in 1 .. links + 1 : longer[k] = path[k - 1]
  BY <1>4
<1>. HIDE DEF longer
<1>7. ASSUME NEW k \in 0 .. (links + 1) - 1
      PROVE  Uses(defs, longer[k], longer[k + 1])
  <2>1. CASE k = 0
    <3>1. longer[k] = i /\ longer[k + 1] = p
      <4>1. longer[1] = path[1 - 1] /\ path[0] = p
        BY <1>12, <1>6 DEF ChainOf
      <4>. QED
        BY <1>6, <2>1, <4>1
    <3>. QED
      BY <1>1, <3>1
  <2>2. CASE k # 0
    <3>1. /\ k \in 1 .. links + 1 /\ k + 1 \in 1 .. links + 1
          /\ k - 1 \in 0 .. links - 1 /\ (k - 1) + 1 = k /\ (k + 1) - 1 = k
      BY <1>4, <2>2
    <3>2. longer[k] = path[k - 1] /\ longer[k + 1] = path[k]
      BY <1>6, <3>1
    <3>3. Uses(defs, path[k - 1], path[k])
      BY <1>12, <3>1 DEF ChainOf
    <3>. QED
      BY <3>2, <3>3
  <2>. QED
    BY <2>1, <2>2
<1>8. longer[links + 1] = path[links]
  <2>1. links + 1 \in 1 .. links + 1 /\ (links + 1) - 1 = links
    BY <1>4
  <2>. QED
    BY <1>6, <2>1
<1>9. Ends(defs, path[links], links + 1, left + 1)
  BY <1>12, <1>4 DEF ChainOf, Ends
<1>10. Field(defs)[left][p] = defs[path[links]].value
  BY <1>12 DEF ChainOf
<1>11. ChainOf(defs, left + 1, i, links + 1, longer)
  BY <1>2, <1>6, <1>7, <1>8, <1>9, <1>10 DEF ChainOf
<1>. QED
  BY <1>4, <1>5, <1>11

LEMMA NearestAtAllLevels ==
  ASSUME NEW Def, IsDefinition(Def), NEW defs \in Seq(Def)
  PROVE  Nearest(defs, MaxDepth + 1)
<1>. DEFINE Proved == {left \in 0 .. MaxDepth + 1 : Nearest(defs, left)}
<1>1. MaxDepth + 1 \in Nat /\ 0 \in 0 .. MaxDepth + 1
  BY ArbiterConfigAssumption
<1>2. 0 \in Proved
  BY <1>1, NearestItself DEF Nearest
<1>3. ASSUME NEW left \in 0 .. (MaxDepth + 1) - 1, left \in Proved
      PROVE  left + 1 \in Proved
  <2>1. left \in Nat /\ left + 1 \in 0 .. MaxDepth + 1 /\ Nearest(defs, left)
    BY <1>1, <1>3
  <2>2. ASSUME NEW i \in DOMAIN defs
        PROVE  \E links \in 0 .. left + 1 : \E path \in [0 .. links -> DOMAIN defs] :
                 ChainOf(defs, left + 1, i, links, path)
    <3>1. CASE defs[i].value # Unset \/ Parent(defs, i) = 0
      BY <2>1, <3>1, NearestItself
    <3>2. CASE defs[i].value = Unset /\ Parent(defs, i) # 0
      BY <2>1, <3>2, NearestThroughTemplate
    <3>. QED
      BY <3>1, <3>2
  <2>. QED
    BY <2>1, <2>2 DEF Nearest
<1>4. 0 .. MaxDepth + 1 \subseteq Proved
  <2>. HIDE DEF Proved
  <2>. QED
    BY <1>1, <1>2, <1>3, Induction
<1>. QED
  BY <1>1, <1>4

\* resolveHostInheritance (watcher.go:271): in any definitions, templates that use each
\* other included, a field left out comes from the nearest template that has it.
THEOREM NearestIsInherited ==
  ASSUME NEW Def, IsDefinition(Def), NEW defs \in Seq(Def)
  PROVE  InheritsNearest(defs)
<1>1. ASSUME NEW i \in DOMAIN defs
      PROVE  \E links \in 0 .. MaxDepth + 1 : \E path \in [0 .. links -> DOMAIN defs] :
               ChainOf(defs, MaxDepth + 1, i, links, path)
  BY NearestAtAllLevels DEF Nearest
<1>. QED
  BY <1>1, Zenon DEF InheritsNearest, ChainOf, Uses, Ends, Inherited

-----------------------------------------------------------------------------
(* What is kept of the definitions, and where it is.                        *)

Resolved(defs, i) == [defs[i] EXCEPT !.value = Inherited(defs)[i]]

LEMMA ResolvedIs ==
  ASSUME NEW Def, IsDefinition(Def), NEW defs \in Seq(Def), NEW i \in DOMAIN defs
  PROVE  Resolved(defs, i) \in Def /\ Resolved(defs, i).id = defs[i].id
<1>1. Inherited(defs)[i] \in Values
  <2>1. MaxDepth + 1 \in 0 .. MaxDepth + 1
    BY ArbiterConfigAssumption
  <2>. QED
    BY <2>1, FieldType DEF Inherited
<1>2. defs[i] \in Def
  OBVIOUS
<1>. QED
  BY <1>1, <1>2, Zenon DEF IsDefinition, Resolved

\* One turn of the loop.
Turn(defs, i, before) == IF defs[i].register THEN Append(before, Resolved(defs, i)) ELSE before

LEMMA TurnType ==
  ASSUME NEW Def, IsDefinition(Def), NEW defs \in Seq(Def), NEW i \in DOMAIN defs,
         NEW before \in Seq(Def)
  PROVE  Turn(defs, i, before) \in Seq(Def)
<1>1. Resolved(defs, i) \in Def
  BY ResolvedIs
<1>. QED
  BY <1>1 DEF Turn

LEMMA KeptUnfolds ==
  ASSUME NEW Def, IsDefinition(Def), NEW defs \in Seq(Def)
  PROVE  Kept(defs) = [i \in 0 .. Len(defs) |->
                         IF i = 0 THEN << >> ELSE Turn(defs, i, Kept(defs)[i - 1])]
<1>. DEFINE turn == [i \in 1 .. Len(defs) |-> [before \in Seq(Def) |-> Turn(defs, i, before)]]
<1>1. Len(defs) \in Nat /\ DOMAIN defs = 1 .. Len(defs) /\ << >> \in Seq(Def)
  OBVIOUS
<1>2. ASSUME NEW i \in 1 .. Len(defs), NEW before \in Seq(Def)
      PROVE  Turn(defs, i, before) \in Seq(Def)
  BY <1>1, TurnType
<1>3. turn \in [1 .. Len(defs) -> [Seq(Def) -> Seq(Def)]]
  BY <1>2
<1>4. PICK f : Iterates(f, Len(defs), Seq(Def), << >>, turn)
  <2>. DEFINE S == Seq(Def)
              max == Len(defs)
              start == << >>
  <2>1. max \in Nat /\ start \in S /\ turn \in [1 .. max -> [S -> S]]
    BY <1>1, <1>3
  <2>. HIDE DEF S, max, start, turn
  <2>2. \E f : Iterates(f, max, S, start, turn)
    BY <2>1, Iteration
  <2>. QED
    BY <2>2 DEF S, max, start
<1>5. ASSUME NEW i \in 0 .. Len(defs)
      PROVE  f[i] = IF i = 0 THEN << >> ELSE Turn(defs, i, f[i - 1])
  <2>1. CASE i = 0
    BY <1>4, <2>1 DEF Iterates
  <2>2. CASE i # 0
    <3>1. i \in 1 .. Len(defs) /\ i - 1 \in 0 .. Len(defs)
      BY <1>1, <2>2
    <3>2. f[i] = turn[i][f[i - 1]] /\ f[i - 1] \in Seq(Def)
      <4>. HIDE DEF turn
      <4>. QED
        BY <1>4, <3>1 DEF Iterates
    <3>. QED
      BY <2>2, <3>1, <3>2
  <2>. QED
    BY <2>1, <2>2
<1>6. f = [i \in 0 .. Len(defs) |-> IF i = 0 THEN << >> ELSE Turn(defs, i, f[i - 1])]
  <2>1. f = [i \in 0 .. Len(defs) |-> f[i]]
    <3>. HIDE DEF turn
    <3>. QED
      BY <1>4 DEF Iterates
  <2>. QED
    BY <1>5, <2>1
<1>. QED
  BY <1>6, Zenon DEF Kept, Turn, Resolved

LEMMA KeptOf ==
  ASSUME NEW Def, IsDefinition(Def), NEW defs \in Seq(Def)
  PROVE  /\ Kept(defs) \in [0 .. Len(defs) -> Seq(Def)]
         /\ Kept(defs)[0] = << >>
         /\ \A i \in 0 .. Len(defs) - 1 :
              Kept(defs)[i + 1] = Turn(defs, i + 1, Kept(defs)[i])
<1>1. Len(defs) \in Nat /\ DOMAIN defs = 1 .. Len(defs) /\ << >> \in Seq(Def)
  OBVIOUS
<1>. DEFINE kept == Kept(defs)
<1>9. kept = [i \in 0 .. Len(defs) |-> IF i = 0 THEN << >> ELSE Turn(defs, i, kept[i - 1])]
  BY KeptUnfolds, Zenon
<1>. HIDE DEF kept
<1>2. Kept(defs)[0] = << >>
  <2>1. 0 \in 0 .. Len(defs)
    BY <1>1
  <2>. QED
    BY <1>9, <2>1, Zenon DEF kept
<1>3. ASSUME NEW i \in 0 .. Len(defs) - 1
      PROVE  Kept(defs)[i + 1] = Turn(defs, i + 1, Kept(defs)[i])
  <2>1. i + 1 \in 0 .. Len(defs) /\ i + 1 # 0 /\ (i + 1) - 1 = i
    BY <1>1
  <2>2. kept[i + 1] = IF i + 1 = 0 THEN << >> ELSE Turn(defs, i + 1, kept[(i + 1) - 1])
    BY <1>9, <2>1
  <2>. QED
    BY <2>1, <2>2 DEF kept
<1>. DEFINE Typed == {i \in 0 .. Len(defs) : Kept(defs)[i] \in Seq(Def)}
<1>4. 0 \in Typed
  <2>1. Kept(defs)[0] \in Seq(Def) /\ 0 \in 0 .. Len(defs)
    BY <1>1, <1>2
  <2>. QED
    BY <2>1
<1>5. ASSUME NEW i \in 0 .. Len(defs) - 1, i \in Typed
      PROVE  i + 1 \in Typed
  <2>1. i + 1 \in DOMAIN defs /\ i + 1 \in 0 .. Len(defs)
    BY <1>1
  <2>2. Kept(defs)[i] \in Seq(Def)
    BY <1>5
  <2>3. Kept(defs)[i + 1] \in Seq(Def)
    BY <1>3, <2>1, <2>2, TurnType
  <2>. QED
    BY <2>1, <2>3
<1>6. 0 .. Len(defs) \subseteq Typed
  <2>. HIDE DEF Typed
  <2>. QED
    BY <1>1, <1>4, <1>5, Induction
<1>7. Kept(defs) \in [0 .. Len(defs) -> Seq(Def)]
  BY <1>6, <1>9 DEF kept
<1>. QED
  BY <1>2, <1>3, <1>7

\* Where a definition is among what is kept: as far back as definitions before it are.
Place(defs, i) == Len(Kept(defs)[i])

\* After the first "seen" definitions, each that is registered is at its place, and
\* nothing else is there.
Placed(defs, seen) ==
  /\ \A i \in 1 .. seen : defs[i].register =>
       /\ Place(defs, i) \in 1 .. Place(defs, seen)
       /\ Kept(defs)[seen][Place(defs, i)] = Resolved(defs, i)
  /\ \A p \in 1 .. Place(defs, seen) :
       \E i \in 1 .. seen : defs[i].register /\ Place(defs, i) = p

LEMMA PlacesFilled ==
  ASSUME NEW Def, IsDefinition(Def), NEW defs \in Seq(Def)
  PROVE  Placed(defs, Len(defs))
<1>. DEFINE Filled == {seen \in 0 .. Len(defs) : Placed(defs, seen)}
<1>1. Len(defs) \in Nat /\ DOMAIN defs = 1 .. Len(defs)
  OBVIOUS
<1>2. /\ \A i \in 0 .. Len(defs) : Kept(defs)[i] \in Seq(Def) /\ Place(defs, i) \in Nat
      /\ Place(defs, 0) = 0
  <2>1. \A i \in 0 .. Len(defs) : Kept(defs)[i] \in Seq(Def)
    BY KeptOf
  <2>2. \A seq \in Seq(Def) : Len(seq) \in Nat
    OBVIOUS
  <2>3. Kept(defs)[0] = << >>
    BY KeptOf
  <2>. QED
    BY <2>1, <2>2, <2>3 DEF Place
<1>3. 0 \in Filled
  BY <1>1, <1>2 DEF Placed
<1>4. ASSUME NEW seen \in 0 .. Len(defs) - 1, seen \in Filled
      PROVE  seen + 1 \in Filled
  <2>. DEFINE before == Kept(defs)[seen]
              after  == Kept(defs)[seen + 1]
  <2>1. /\ seen \in Nat /\ seen + 1 \in 0 .. Len(defs) /\ seen + 1 \in DOMAIN defs
        /\ 1 .. seen + 1 = (1 .. seen) \cup {seen + 1}
        /\ seen \in 0 .. Len(defs)
    BY <1>1
  <2>2. /\ after = Turn(defs, seen + 1, before) /\ before \in Seq(Def)
        /\ Placed(defs, seen)
    BY <1>2, <1>4, <2>1, KeptOf
  <2>3. CASE ~defs[seen + 1].register
    <3>1. after = before /\ Place(defs, seen + 1) = Place(defs, seen)
      BY <2>2, <2>3 DEF Turn, Place
    <3>2. Placed(defs, seen + 1)
      BY <2>1, <2>2, <2>3, <3>1 DEF Placed
    <3>. QED
      BY <2>1, <3>2
  <2>4. CASE defs[seen + 1].register
    <3>. DEFINE new == Resolved(defs, seen + 1)
    <3>1. after = Append(before, new) /\ new \in Def
      BY <2>1, <2>2, <2>4, ResolvedIs DEF Turn
    <3>2. /\ Place(defs, seen + 1) = Place(defs, seen) + 1
          /\ \A p \in 1 .. Place(defs, seen) : after[p] = before[p]
          /\ after[Place(defs, seen) + 1] = new
      BY <2>2, <3>1 DEF Place
    <3>. HIDE DEF new, after, before
    <3>3. /\ Place(defs, seen) \in Nat
          /\ 1 .. Place(defs, seen + 1) = (1 .. Place(defs, seen)) \cup {Place(defs, seen + 1)}
      BY <1>2, <2>1, <3>2
    <3>4. ASSUME NEW i \in 1 .. seen + 1, defs[i].register
          PROVE  /\ Place(defs, i) \in 1 .. Place(defs, seen + 1)
                 /\ after[Place(defs, i)] = Resolved(defs, i)
      <4>1. CASE i = seen + 1
        BY <3>2, <3>3, <4>1 DEF new
      <4>2. CASE i \in 1 .. seen
        <5>1. /\ Place(defs, i) \in 1 .. Place(defs, seen)
              /\ before[Place(defs, i)] = Resolved(defs, i)
          BY <2>2, <3>4, <4>2 DEF Placed, before
        <5>. QED
          BY <3>2, <3>3, <5>1
      <4>. QED
        BY <2>1, <4>1, <4>2
    <3>5. ASSUME NEW p \in 1 .. Place(defs, seen + 1)
          PROVE  \E i \in 1 .. seen + 1 : defs[i].register /\ Place(defs, i) = p
      <4>1. CASE p = Place(defs, seen + 1)
        BY <2>1, <2>4, <4>1
      <4>2. CASE p \in 1 .. Place(defs, seen)
        BY <2>1, <2>2, <4>2 DEF Placed
      <4>. QED
        BY <3>3, <4>1, <4>2
    <3>6. Placed(defs, seen + 1)
      BY <3>4, <3>5 DEF Placed, after
    <3>. QED
      BY <2>1, <3>6
  <2>. QED
    BY <2>3, <2>4
<1>5. 0 .. Len(defs) \subseteq Filled
  <2>. HIDE DEF Filled
  <2>. QED
    BY <1>1, <1>3, <1>4, Induction
<1>. QED
  BY <1>1, <1>5

\* What Resolve returns: the registered definitions, each at its place.
LEMMA ResolveIs ==
  ASSUME NEW Def, IsDefinition(Def), NEW defs \in Seq(Def)
  PROVE  /\ Resolve(defs) \in Seq(Def)
         /\ \A i \in DOMAIN defs : defs[i].register =>
              /\ Place(defs, i) \in DOMAIN Resolve(defs)
              /\ Resolve(defs)[Place(defs, i)].id = defs[i].id
         /\ \A p \in DOMAIN Resolve(defs) :
              \E i \in DOMAIN defs :
                /\ defs[i].register /\ Place(defs, i) = p
                /\ Resolve(defs)[p].id = defs[i].id
<1>1. Len(defs) \in Nat /\ DOMAIN defs = 1 .. Len(defs) /\ Len(defs) \in 0 .. Len(defs)
  OBVIOUS
<1>2. Resolve(defs) \in Seq(Def) /\ Resolve(defs) = Kept(defs)[Len(defs)]
  BY <1>1, KeptOf DEF Resolve
<1>3. DOMAIN Resolve(defs) = 1 .. Place(defs, Len(defs))
  BY <1>2 DEF Place
<1>4. Placed(defs, Len(defs))
  BY PlacesFilled
<1>5. \A i \in DOMAIN defs : Resolved(defs, i).id = defs[i].id
  BY ResolvedIs
<1>6. \A i \in DOMAIN defs : defs[i].register =>
        /\ Place(defs, i) \in DOMAIN Resolve(defs)
        /\ Resolve(defs)[Place(defs, i)].id = defs[i].id
  BY <1>1, <1>2, <1>3, <1>4, <1>5 DEF Placed
<1>7. \A p \in DOMAIN Resolve(defs) :
        \E i \in DOMAIN defs : defs[i].register /\ Place(defs, i) = p
  BY <1>1, <1>3, <1>4 DEF Placed
<1>. QED
  BY <1>2, <1>6, <1>7

\* A place depends on which of the definitions up to it are registered, and on no more.
LEMMA PlacesAlike ==
  ASSUME NEW Def, IsDefinition(Def), NEW defs \in Seq(Def), NEW others \in Seq(Def),
         NEW last \in Nat, last <= Len(defs), last <= Len(others),
         \A i \in 1 .. last : defs[i].register = others[i].register
  PROVE  \A i \in 0 .. last : Place(defs, i) = Place(others, i)
<1>. DEFINE Alike == {i \in 0 .. last : Place(defs, i) = Place(others, i)}
<1>1. Len(defs) \in Nat /\ Len(others) \in Nat
  OBVIOUS
<1>2. 0 \in Alike
  BY KeptOf DEF Place
<1>3. ASSUME NEW i \in 0 .. last - 1, i \in Alike
      PROVE  i + 1 \in Alike
  <2>1. /\ i + 1 \in 1 .. last /\ i + 1 \in 0 .. last
        /\ i \in 0 .. Len(defs) - 1 /\ i \in 0 .. Len(others) - 1
        /\ i \in 0 .. Len(defs) /\ i \in 0 .. Len(others)
    BY <1>1
  <2>2. /\ Kept(defs)[i + 1] = Turn(defs, i + 1, Kept(defs)[i])
        /\ Kept(others)[i + 1] = Turn(others, i + 1, Kept(others)[i])
        /\ Kept(defs)[i] \in Seq(Def) /\ Kept(others)[i] \in Seq(Def)
        /\ Len(Kept(defs)[i]) = Len(Kept(others)[i])
    BY <1>3, <2>1, KeptOf DEF Place
  <2>3. \A seq \in Seq(Def) : \A d : Len(Append(seq, d)) = Len(seq) + 1
    OBVIOUS
  <2>4. defs[i + 1].register = others[i + 1].register
    BY <2>1
  <2>5. Len(Turn(defs, i + 1, Kept(defs)[i])) = Len(Turn(others, i + 1, Kept(others)[i]))
    BY <2>2, <2>3, <2>4 DEF Turn
  <2>. QED
    BY <2>1, <2>2, <2>5 DEF Place
<1>4. 0 .. last \subseteq Alike
  <2>. HIDE DEF Alike
  <2>. QED
    BY <1>2, <1>3, Induction
<1>. QED
  BY <1>4

LEMMA ProcessType ==
  ASSUME NEW raw \in Config
  PROVE  Process(raw) \in Config
<1>1. Resolve(raw.hosts) \in Seq(HostDef) /\ Resolve(raw.services) \in Seq(ServiceDef)
  BY Definitions, ResolveIs DEF Config
<1>. QED
  BY <1>1 DEF Process, Config

-----------------------------------------------------------------------------
(* What the files define together.                                          *)

LEMMA NoConfigType == NoConfig \in Config
BY DEF NoConfig, Config

LEMMA AppendedType ==
  ASSUME NEW raw \in Config, NEW tmp \in Config
  PROVE  Appended(raw, tmp) \in Config
BY DEF Appended, Config

LEMMA JoiningUnfolds ==
  ASSUME NEW contents \in Seq(Config)
  PROVE  /\ Joining(contents)[0] = NoConfig
         /\ \A f \in 1 .. Len(contents) :
              Joining(contents)[f] = Appended(Joining(contents)[f - 1], contents[f])
         /\ \A f \in 0 .. Len(contents) : Joining(contents)[f] \in Config
<1>. DEFINE max == Len(contents)
            step == [f \in 1 .. max |-> [x \in Config |-> Appended(x, contents[f])]]
            body(f, k) == IF f = 0 THEN NoConfig ELSE Appended(k[f - 1], contents[f])
<1>1. max \in Nat /\ \A f \in 1 .. max : contents[f] \in Config
  OBVIOUS
<1>2. step \in [1 .. max -> [Config -> Config]]
  BY <1>1, AppendedType
<1>3. PICK j : Iterates(j, max, Config, NoConfig, step)
  <2>. HIDE DEF step, max
  <2>. QED
    BY <1>1, <1>2, NoConfigType, Iteration
<1>. HIDE DEF max
<1>4. /\ j = [f \in 0 .. max |-> j[f]] /\ j[0] = NoConfig
      /\ \A f \in 0 .. max : j[f] \in Config
      /\ \A f \in 1 .. max : j[f] = step[f][j[f - 1]] /\ j[f - 1] \in Config
  <2>. HIDE DEF step
  <2>1. \A f \in 1 .. max : f - 1 \in 0 .. max
    BY <1>1
  <2>. QED
    BY <1>3, <2>1 DEF Iterates
<1>5. \A f \in 1 .. max : j[f] = Appended(j[f - 1], contents[f])
  BY <1>4
<1>. HIDE DEF step
<1>6. j = [f \in 0 .. max |-> body(f, j)]
  <2>1. ASSUME NEW f \in 0 .. max
        PROVE  j[f] = body(f, j)
    <3>1. CASE f = 0
      BY <1>4, <3>1
    <3>2. CASE f # 0
      <4>1. f \in 1 .. max
        BY <1>1, <3>2
      <4>. QED
        BY <1>5, <3>2, <4>1
    <3>. QED
      BY <3>1, <3>2
  <2>. HIDE DEF body
  <2>. QED
    BY <1>4, <2>1
<1>7. Joining(contents) = [f \in 0 .. max |-> body(f, Joining(contents))]
  BY <1>6 DEF Joining, max
<1>8. \A f \in 0 .. max : Joining(contents)[f] = body(f, Joining(contents))
  <2>. HIDE DEF body
  <2>. QED
    BY <1>7
<1>9. \A f \in 1 .. max : Joining(contents)[f] = Appended(Joining(contents)[f - 1], contents[f])
  <2>1. \A f \in 1 .. max : f \in 0 .. max /\ f # 0
    BY <1>1
  <2>. QED
    BY <1>8, <2>1
<1>10. Joining(contents)[0] = NoConfig
  BY <1>1, <1>8
<1>. DEFINE Right == {f \in 0 .. max : Joining(contents)[f] \in Config}
<1>11. 0 \in Right
  BY <1>1, <1>10, NoConfigType
<1>12. ASSUME NEW f \in 0 .. max - 1, f \in Right
       PROVE  f + 1 \in Right
  <2>1. f + 1 \in 1 .. max /\ f + 1 \in 0 .. max /\ (f + 1) - 1 = f
    BY <1>1
  <2>. QED
    BY <1>1, <1>9, <1>12, <2>1, AppendedType
<1>13. 0 .. max \subseteq Right
  <2>. HIDE DEF Right
  <2>. QED
    BY <1>1, <1>11, <1>12, Induction
<1>. QED
  BY <1>9, <1>10, <1>13 DEF max

\* It is settled by the files read so far.
LEMMA JoiningAlike ==
  ASSUME NEW contents \in Seq(Config), NEW others \in Seq(Config), NEW last \in Nat,
         last <= Len(contents), last <= Len(others),
         \A f \in 1 .. last : contents[f] = others[f]
  PROVE  \A f \in 0 .. last : Joining(contents)[f] = Joining(others)[f]
<1>. DEFINE Same == {f \in 0 .. last : Joining(contents)[f] = Joining(others)[f]}
<1>1. Len(contents) \in Nat /\ Len(others) \in Nat
  OBVIOUS
<1>2. 0 \in Same
  BY JoiningUnfolds
<1>3. ASSUME NEW f \in 0 .. last - 1, f \in Same
      PROVE  f + 1 \in Same
  <2>1. /\ f + 1 \in 1 .. last /\ f + 1 \in 0 .. last /\ (f + 1) - 1 = f
        /\ f + 1 \in 1 .. Len(contents) /\ f + 1 \in 1 .. Len(others)
    BY <1>1
  <2>2. /\ Joining(contents)[f + 1] = Appended(Joining(contents)[f], contents[f + 1])
        /\ Joining(others)[f + 1] = Appended(Joining(others)[f], others[f + 1])
    BY <2>1, JoiningUnfolds
  <2>. QED
    BY <1>3, <2>1, <2>2
<1>4. 0 .. last \subseteq Same
  <2>. HIDE DEF Same
  <2>. QED
    BY <1>2, <1>3, Induction
<1>. QED
  BY <1>4

\* The hosts of later files come behind.
Begins(hosts, front) == \A i \in DOMAIN front : i \in DOMAIN hosts /\ hosts[i] = front[i]

LEMMA AppendedHosts ==
  ASSUME NEW raw \in Config, NEW tmp \in Config
  PROVE  /\ Begins(Appended(raw, tmp).hosts, raw.hosts)
         /\ \A i \in DOMAIN Appended(raw, tmp).hosts :
              i \in DOMAIN raw.hosts \/ Appended(raw, tmp).hosts[i] \in Elements(tmp.hosts)
<1>1. \A s, t \in Seq(HostDef) :
        /\ \A i \in DOMAIN s : i \in DOMAIN (s \o t) /\ (s \o t)[i] = s[i]
        /\ \A i \in DOMAIN (s \o t) :
             i \in DOMAIN s \/ (i - Len(s) \in DOMAIN t /\ (s \o t)[i] = t[i - Len(s)])
  OBVIOUS
<1>2. /\ raw.hosts \in Seq(HostDef) /\ tmp.hosts \in Seq(HostDef)
      /\ Appended(raw, tmp).hosts = raw.hosts \o tmp.hosts
  BY DEF Config, Appended
<1>. DEFINE s == raw.hosts
            t == tmp.hosts
<1>. HIDE DEF s, t
<1>3. /\ \A i \in DOMAIN s : i \in DOMAIN (s \o t) /\ (s \o t)[i] = s[i]
      /\ \A i \in DOMAIN (s \o t) :
           i \in DOMAIN s \/ (i - Len(s) \in DOMAIN t /\ (s \o t)[i] = t[i - Len(s)])
  <2>1. s \in Seq(HostDef) /\ t \in Seq(HostDef)
    BY <1>2 DEF s, t
  <2>. QED
    BY <1>1, <2>1
<1>4. /\ Begins(s \o t, s)
      /\ \A i \in DOMAIN (s \o t) : i \in DOMAIN s \/ (s \o t)[i] \in Elements(t)
  <2>. HIDE DEF s, t
  <2>. QED
    BY <1>3 DEF Begins, Elements
<1>. QED
  BY <1>2, <1>4 DEF s, t

LEMMA LaterFilesBehind ==
  ASSUME NEW contents \in Seq(Config), NEW f \in 0 .. Len(contents)
  PROVE  LET front == Joining(contents)[f].hosts
             all   == Joining(contents)[Len(contents)].hosts
         IN  /\ Begins(all, front)
             /\ \A i \in DOMAIN all :
                  \/ i \in DOMAIN front
                  \/ \E g \in f + 1 .. Len(contents) : all[i] \in Elements(contents[g].hosts)
<1>. DEFINE max == Len(contents)
            At(g) == Joining(contents)[g].hosts
            Behind(g) ==
              /\ Begins(At(g), At(f))
              /\ \A i \in DOMAIN At(g) :
                   \/ i \in DOMAIN At(f)
                   \/ \E e \in f + 1 .. g : At(g)[i] \in Elements(contents[e].hosts)
            Fine == {g \in 0 .. max : g >= f => Behind(g)}
<1>1. max \in Nat /\ f \in 0 .. max
  OBVIOUS
<1>2. Behind(f)
  BY DEF Begins
<1>3. 0 \in Fine
  BY <1>1, <1>2
<1>4. ASSUME NEW g \in 0 .. max - 1, g \in Fine
      PROVE  g + 1 \in Fine
  <2>1. g + 1 \in 1 .. max /\ g + 1 \in 0 .. max /\ (g + 1) - 1 = g /\ g \in 0 .. max
    BY <1>1
  <2>2. CASE g + 1 < f
    BY <1>1, <2>1, <2>2
  <2>3. CASE g + 1 = f
    BY <1>2, <2>1, <2>3
  <2>4. CASE g >= f
    <3>1. Behind(g)
      BY <1>4, <2>4
    <3>2. /\ Joining(contents)[g + 1] = Appended(Joining(contents)[g], contents[g + 1])
          /\ Joining(contents)[g] \in Config /\ contents[g + 1] \in Config
      BY <2>1, JoiningUnfolds DEF max
    <3>3. /\ Begins(At(g + 1), At(g))
          /\ \A i \in DOMAIN At(g + 1) :
               i \in DOMAIN At(g) \/ At(g + 1)[i] \in Elements(contents[g + 1].hosts)
      BY <3>2, AppendedHosts
    <3>4. g + 1 \in f + 1 .. g + 1 /\ f + 1 .. g \subseteq f + 1 .. g + 1
      BY <1>1, <2>1, <2>4
    <3>. HIDE DEF At
    <3>5. Behind(g + 1)
      BY <3>1, <3>3, <3>4, Zenon DEF Begins
    <3>. QED
      BY <2>1, <3>5
  <2>. QED
    BY <1>1, <2>1, <2>2, <2>3, <2>4
<1>5. 0 .. max \subseteq Fine
  <2>. HIDE DEF Fine, max
  <2>. QED
    BY <1>1, <1>3, <1>4, Induction
<1>6. Behind(max)
  <2>1. max \in 0 .. max /\ max >= f
    BY <1>1
  <2>. HIDE DEF Behind
  <2>. QED
    BY <1>5, <2>1
<1>. QED
  BY <1>6

-----------------------------------------------------------------------------
(* The partition.                                                           *)

LEMMA PartitionType ==
  ASSUME NEW cfg \in Config, NEW n \in Nat \ {0}
  PROVE  /\ DOMAIN Partition(cfg, n) = 1 .. n
         /\ \A k \in 1 .. n : Partition(cfg, n)[k] \in Shard
<1>1. /\ Elements(cfg.hosts) \subseteq HostDef /\ Elements(cfg.services) \subseteq ServiceDef
      /\ \A k : {cfg.hosts[i] : i \in {j \in DOMAIN cfg.hosts : InShard(j, k, n)}} \subseteq HostDef
      /\ \A k : ServicesOf(cfg, k, n) \subseteq ServiceDef
  BY DEF Config, Elements, ServicesOf
<1>2. CASE n <= 1
  <2>1. n = 1 /\ 1 .. n = {1}
    BY <1>2
  <2>. QED
    BY <1>1, <1>2, <2>1 DEF Partition, Shard
<1>3. CASE n > 1
  BY <1>1, <1>3 DEF Partition, Shard
<1>. QED
  BY <1>2, <1>3

\* Among hosts of different ids the last of one id is the only one.
LEMMA LatestOfOne ==
  ASSUME NEW cfg, UniqueHosts(cfg), NEW name, NEW i \in DOMAIN cfg.hosts,
         cfg.hosts[i].id = name
  PROVE  /\ {j \in DOMAIN cfg.hosts : cfg.hosts[j].id = name} = {i}
         /\ Latest({j \in DOMAIN cfg.hosts : cfg.hosts[j].id = name}) = i
<1>1. {j \in DOMAIN cfg.hosts : cfg.hosts[j].id = name} = {i}
  BY DEF UniqueHosts
<1>2. Latest({i}) = i
  BY DEF Latest
<1>. QED
  BY <1>1, <1>2

\* A service and its host are in one shard (watcher.go:130).
LEMMA ServicesFollow ==
  ASSUME NEW cfg, Accepted(cfg), NEW n \in Nat, NEW k \in 1 .. n, n > 1
  PROVE  WithTheirHosts(Partition(cfg, n)[k])
<1>. DEFINE shard == Partition(cfg, n)[k]
<1>1. /\ shard.hosts = {cfg.hosts[i] : i \in {j \in DOMAIN cfg.hosts : InShard(j, k, n)}}
      /\ shard.services = ServicesOf(cfg, k, n)
  BY DEF Partition
<1>2. SUFFICES ASSUME NEW s \in ServicesOf(cfg, k, n)
               PROVE  \E h \in shard.hosts : h.id = s.hostName
  BY <1>1 DEF WithTheirHosts
<1>. DEFINE here == {i \in DOMAIN cfg.hosts : cfg.hosts[i].id = s.hostName}
<1>3. here # {} /\ InShard(Latest(here), k, n)
  BY DEF ServicesOf
<1>4. PICK i \in DOMAIN cfg.hosts : cfg.hosts[i].id = s.hostName
  BY <1>3
<1>5. Latest(here) = i
  BY <1>4, LatestOfOne DEF Accepted
<1>6. cfg.hosts[i] \in shard.hosts
  BY <1>1, <1>3, <1>5
<1>. QED
  BY <1>4, <1>6

\* With one Scheduler the linter alone sees to it.
LEMMA AllInOne ==
  ASSUME NEW cfg, Accepted(cfg), NEW n \in Nat, n <= 1
  PROVE  WithTheirHosts(Partition(cfg, n)[1])
BY DEF Partition, WithTheirHosts, Accepted, Attached

LEMMA ShardsTogether ==
  ASSUME NEW cfg, Accepted(cfg), NEW n \in Nat, NEW k \in 1 .. n
  PROVE  WithTheirHosts(Partition(cfg, n)[k])
<1>1. CASE n > 1
  BY <1>1, ServicesFollow
<1>2. CASE n <= 1
  <2>1. k = 1
    BY <1>2
  <2>. QED
    BY <1>2, <2>1, AllInOne
<1>. QED
  BY <1>1, <1>2

-----------------------------------------------------------------------------
\* partitionConfig (watcher.go:105): every host and service of an accepted
\* configuration is in one shard and one only, and nothing else is in any.
THEOREM ShardsPartition ==
  ASSUME NEW cfg \in Config, Accepted(cfg), NEW n \in Nat
  PROVE  Partitioned(cfg, Partition(cfg, n))
<1>. DEFINE shards == Partition(cfg, n)
<1>1. CASE n <= 1
  <2>1. shards = << [hosts |-> Elements(cfg.hosts), services |-> Elements(cfg.services)] >>
    BY <1>1 DEF Partition
  <2>2. DOMAIN shards = {1} /\ shards[1].hosts = Elements(cfg.hosts)
        /\ shards[1].services = Elements(cfg.services)
    BY <2>1
  <2>3. \A i \in DOMAIN cfg.hosts : cfg.hosts[i] \in Elements(cfg.hosts)
    BY DEF Elements
  <2>. QED
    BY <2>2, <2>3 DEF Partitioned
<1>2. CASE n > 1
  <2>. DEFINE dealt(k) == {cfg.hosts[i] : i \in {j \in DOMAIN cfg.hosts : InShard(j, k, n)}}
  <2>1. /\ DOMAIN shards = 1 .. n
        /\ \A k \in 1 .. n : shards[k].hosts = dealt(k) /\ shards[k].services = ServicesOf(cfg, k, n)
    BY <1>2 DEF Partition
  <2>2. DOMAIN cfg.hosts \subseteq Nat \ {0}
    BY DEF Config
  <2>3. \A i \in Nat \ {0} : \E k \in 1 .. n : InShard(i, k, n)
    <3>. SUFFICES ASSUME NEW i \in Nat \ {0}
                  PROVE  \E k \in 1 .. n : InShard(i, k, n)
      OBVIOUS
    <3>1. (i - 1) % n \in 0 .. n - 1
      BY <1>2
    <3>2. ((i - 1) % n) + 1 \in 1 .. n /\ InShard(i, ((i - 1) % n) + 1, n)
      BY <1>2, <3>1 DEF InShard
    <3>. QED
      BY <3>2
  <2>4. \A i : \A k, l \in 1 .. n : InShard(i, k, n) /\ InShard(i, l, n) => k = l
    BY DEF InShard
  <2>5. ASSUME NEW i \in DOMAIN cfg.hosts
        PROVE  \E k \in DOMAIN shards :
                 /\ cfg.hosts[i] \in shards[k].hosts
                 /\ \A l \in DOMAIN shards \ {k} : \A h \in shards[l].hosts : h.id # cfg.hosts[i].id
    <3>1. PICK k \in 1 .. n : InShard(i, k, n)
      BY <2>2, <2>3
    <3>2. cfg.hosts[i] \in dealt(k)
      BY <3>1
    <3>3. ASSUME NEW l \in 1 .. n, l # k, NEW h \in dealt(l)
          PROVE  h.id # cfg.hosts[i].id
      <4>1. PICK j \in DOMAIN cfg.hosts : InShard(j, l, n) /\ h = cfg.hosts[j]
        OBVIOUS
      <4>2. j # i
        BY <2>4, <3>1, <3>3, <4>1
      <4>. QED
        BY <4>1, <4>2 DEF Accepted, UniqueHosts
    <3>. QED
      BY <2>1, <3>2, <3>3
  <2>6. ASSUME NEW s \in Elements(cfg.services)
        PROVE  \E k \in DOMAIN shards :
                 /\ s \in shards[k].services
                 /\ \A l \in DOMAIN shards \ {k} : s \notin shards[l].services
    <3>. DEFINE here == {i \in DOMAIN cfg.hosts : cfg.hosts[i].id = s.hostName}
    <3>1. PICK i \in DOMAIN cfg.hosts : cfg.hosts[i].id = s.hostName
      BY DEF Accepted, Attached, Elements
    <3>2. here # {} /\ Latest(here) = i
      BY <3>1, LatestOfOne DEF Accepted
    <3>3. PICK k \in 1 .. n : InShard(i, k, n)
      BY <2>2, <2>3
    <3>4. \A l \in 1 .. n : s \in ServicesOf(cfg, l, n) <=> InShard(i, l, n)
      BY <3>2 DEF ServicesOf
    <3>. QED
      BY <2>1, <2>4, <3>3, <3>4
  <2>7. \A k \in DOMAIN shards : /\ shards[k].hosts \subseteq Elements(cfg.hosts)
                                 /\ shards[k].services \subseteq Elements(cfg.services)
    <3>1. ASSUME NEW k \in 1 .. n
          PROVE  /\ dealt(k) \subseteq Elements(cfg.hosts)
                 /\ ServicesOf(cfg, k, n) \subseteq Elements(cfg.services)
      BY DEF Elements, ServicesOf
    <3>. HIDE DEF shards, dealt
    <3>. QED
      BY <2>1, <3>1
  <2>. HIDE DEF shards
  <2>8. /\ \A i \in DOMAIN cfg.hosts : \E k \in DOMAIN shards :
              /\ cfg.hosts[i] \in shards[k].hosts
              /\ \A l \in DOMAIN shards \ {k} : \A h \in shards[l].hosts : h.id # cfg.hosts[i].id
        /\ \A s \in Elements(cfg.services) : \E k \in DOMAIN shards :
              /\ s \in shards[k].services
              /\ \A l \in DOMAIN shards \ {k} : s \notin shards[l].services
    BY <2>5, <2>6, Zenon
  <2>. QED
    BY <2>7, <2>8, Zenon DEF Partitioned, shards
<1>. QED
  BY <1>1, <1>2
=============================================================================

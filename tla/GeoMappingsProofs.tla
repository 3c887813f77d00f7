-------------------------- MODULE GeoMappingsProofs --------------------------
(***************************************************************************)
(* Where clients are taken to be, for any files, regions, mappings and     *)
(* networks: the load of the files loses nothing, the list and the trie    *)
(* agree, the narrowest mapping of the list decides, and what validation   *)
(* says of the configuration holds of the regions that queries resolve to. *)
(***************************************************************************)
EXTENDS GeoMappings, FiniteSetTheorems, WellFoundedInduction, TLAPS

-----------------------------------------------------------------------------
(* The inductive invariant *)

\* A call of loadWithIncludes that has not returned.
Frame == [file : File, todo : SUBSET (Nat \X DOMAIN SortedFiles), cfg : Config]

LoadTypes ==
    /\ outcome = "loading" => \A f \in File : files[f] \in Content
    /\ stack \in Seq(Frame)
    /\ visited \subseteq File
    /\ outcome \in {"idle", "loading", "loaded", "open", "depth", "circular",
                    "unreadable", "duplicate"}
    /\ config \in Config

Entries == Entry \cup {NoEntry}

GeoTypes ==
    /\ up \in BOOLEAN
    /\ regions \in Seq(Region)
    /\ booted \in Config
    /\ mappings \in [ValidCidr -> Entries]
    /\ ranger \in [Network -> Entries]
    /\ aliased \subseteq Network

\* Where one string at a time denoted a network, list and trie have the same entry.
ListedIsFound ==
    \A c \in Listed : NetworkOf[c] \notin aliased => ranger[NetworkOf[c]] = mappings[c]

\* Strings that share a network are remembered.
AliasesKnown ==
    \A c, d \in Listed : c # d /\ NetworkOf[c] = NetworkOf[d] => NetworkOf[c] \in aliased

\* What the resolver has of the configuration it was made from.
FromConfig ==
    up => /\ regions = booted.regions
          /\ \A n \in Network : ranger[n].source = "config" =>
                \E i \in DOMAIN booted.mappings : booted.mappings[i].region = ranger[n].region

IInv ==
    /\ LoadTypes /\ GeoTypes
    /\ FoundIsListed /\ ListedIsFound /\ AliasesKnown /\ FromConfig

-----------------------------------------------------------------------------
(* Sequences and sets *)

LEMMA MaxIn ==
  ASSUME NEW n \in Nat, NEW S, S \subseteq 1 .. n, S # {}
  PROVE  Max(S) \in S /\ \A y \in S : y <= Max(S)
  <1> DEFINE I == {m \in Nat : n - m \in S}
  <1>1. I \subseteq Nat /\ I # {}
    <2> PICK y \in S : TRUE
      OBVIOUS
    <2>1. n - y \in I
      OBVIOUS
    <2> QED BY <2>1
  <1>2. PICK x \in I : \A y \in I : ~(<<y, x>> \in OpToRel(<, Nat))
    BY <1>1, NatLessThanWellFounded, WFMin
  <1>3. \A y \in I : x <= y
    <2> SUFFICES ASSUME NEW y \in I, y < x PROVE FALSE
      OBVIOUS
    <2>1. <<y, x>> \in Nat \X Nat /\ <<y, x>>[1] < <<y, x>>[2]
      OBVIOUS
    <2>2. <<y, x>> \in OpToRel(<, Nat)
      BY <2>1 DEF OpToRel
    <2> QED BY <1>2, <2>2
  <1>4. n - x \in S /\ \A y \in S : n - x >= y
    <2>1. n - x \in S
      OBVIOUS
    <2>2. ASSUME NEW y \in S PROVE n - x >= y
      <3>1. n - y \in I
        OBVIOUS
      <3>2. x <= n - y
        BY <1>3, <3>1
      <3> QED BY <3>2
    <2> QED BY <2>1, <2>2
  <1>5. Max(S) \in S /\ \A y \in S : Max(S) >= y
    BY <1>4 DEF Max
  <1> QED BY <1>5

\* Of networks that share an address one lies in all the others.
LEMMA HasNarrowest ==
  ASSUME NEW a, NEW S, S # {}, \A n \in S : n \in Network /\ a \in n
  PROVE  \E n \in S : \A m \in S : n \subseteq m
  <1> DEFINE Within(n) == {c \in ValidCidr : NetworkOf[c] \subseteq n}
  <1> DEFINE I == {Cardinality(Within(n)) : n \in S}
  <1>1. ASSUME NEW n PROVE /\ IsFiniteSet(Within(n)) /\ Cardinality(Within(n)) \in Nat
    <2>1. Within(n) \in SUBSET ValidCidr
      OBVIOUS
    <2>2. IsFiniteSet(Within(n))
      BY <2>1, GeoAssumption, FS_Subset
    <2> HIDE DEF Within
    <2> QED BY <2>2, FS_CardinalityType
  <1>2. I \subseteq Nat /\ I # {}
    BY <1>1
  <1> HIDE DEF I
  <1>3. PICK x \in I : \A y \in I : ~(<<y, x>> \in OpToRel(<, Nat))
    BY <1>2, NatLessThanWellFounded, WFMin
  <1>4. PICK n \in S : x = Cardinality(Within(n))
    BY DEF I
  <1>5. ASSUME NEW m \in S, ~(n \subseteq m) PROVE FALSE
    <2>1. m \subseteq n
      BY <1>5, GeoAssumption
    <2>2. Within(m) \in SUBSET Within(n)
      BY <2>1
    <2>3. PICK c \in ValidCidr : NetworkOf[c] = n
      BY DEF Network
    <2>4. c \in Within(n) /\ c \notin Within(m)
      BY <2>3, <1>5
    <2>5. Cardinality(Within(m)) \in I
      BY DEF I
    <2> HIDE DEF Within
    <2>6. /\ Cardinality(Within(m)) <= Cardinality(Within(n))
          /\ Cardinality(Within(n)) = Cardinality(Within(m)) => Within(n) = Within(m)
      BY <1>1, <2>2, FS_Subset
    <2>7. Cardinality(Within(m)) \in Nat /\ x \in Nat
      BY <1>1, <1>4
    <2>8. Cardinality(Within(m)) < x
      BY <2>4, <2>6, <2>7, <1>4
    <2> DEFINE y == Cardinality(Within(m))
    <2>9. <<y, x>> \in Nat \X Nat /\ <<y, x>>[1] < <<y, x>>[2]
      BY <2>7, <2>8
    <2>10. <<y, x>> \in OpToRel(<, Nat)
      BY <2>9 DEF OpToRel
    <2> QED BY <2>10, <2>5, <1>3
  <1> QED BY <1>5

-----------------------------------------------------------------------------
(* The custom mappings *)

\* e is the entry of the last mapping with the name x.
IsLast(e, nameOf, ms, x) ==
    \/ e = NoEntry /\ \A i \in DOMAIN ms : nameOf[ms[i].cidr] # x
    \/ \E i \in DOMAIN ms :
          /\ nameOf[ms[i].cidr] = x
          /\ \A j \in DOMAIN ms : nameOf[ms[j].cidr] = x => j <= i
          /\ e = [region |-> ms[i].region, source |-> "config"]

\* What LoadFromConfig keeps of a name is the last mapping of that name.
LEMMA LoadedEntry ==
  ASSUME NEW nameOf, DOMAIN nameOf = ValidCidr, NEW ms \in Seq(Mapping), Parses(ms),
         NEW x \in Range(nameOf)
  PROVE  IsLast(Loaded(nameOf, ms)[x], nameOf, ms, x)
  <1> DEFINE of == {i \in DOMAIN ms : nameOf[ms[i].cidr] = x}
  <1>1. Loaded(nameOf, ms)[x] =
           IF of = {} THEN NoEntry ELSE [region |-> ms[Max(of)].region, source |-> "config"]
    BY DEF Loaded
  <1>2. CASE of = {}
    BY <1>1, <1>2 DEF IsLast
  <1>3. CASE of # {}
    <2>1. of \subseteq 1 .. Len(ms) /\ Len(ms) \in Nat
      OBVIOUS
    <2>2. Max(of) \in of /\ \A y \in of : y <= Max(of)
      BY <1>3, <2>1, MaxIn
    <2> DEFINE i == Max(of)
    <2>3. Loaded(nameOf, ms)[x] = [region |-> ms[i].region, source |-> "config"]
      BY <1>1, <1>3
    <2>4. i \in DOMAIN ms /\ nameOf[ms[i].cidr] = x
      BY <2>2
    <2>5. \A j \in DOMAIN ms : nameOf[ms[j].cidr] = x => j <= i
      BY <2>2
    <2> HIDE DEF i
    <2> QED BY <2>3, <2>4, <2>5 DEF IsLast
  <1> QED BY <1>2, <1>3

LEMMA EntryTypes ==
  /\ NoEntry.source = "none" /\ NoEntry.region = Unknown
  /\ NoEntry \notin Entry
  /\ \A e \in Entry : e.region \in Region /\ e.region # Unknown /\ e # NoEntry
  /\ \A r \in Region, s \in {"config", "api"} :
        /\ [region |-> r, source |-> s] \in Entry
        /\ [region |-> r, source |-> s].source = s /\ [region |-> r, source |-> s].region = r
  BY GeoAssumption DEF NoEntry, Entry

LEMMA Names ==
  /\ NetworkOf \in [ValidCidr -> SUBSET Address]
  /\ DOMAIN NetworkOf = ValidCidr /\ Range(NetworkOf) = Network
  /\ DOMAIN [c \in ValidCidr |-> c] = ValidCidr
  /\ Range([c \in ValidCidr |-> c]) = ValidCidr
  /\ \A c \in ValidCidr : NetworkOf[c] \in Network
  /\ \A n \in Network : \E c \in ValidCidr : NetworkOf[c] = n
  BY GeoAssumption DEF Network, Range

LEMMA MappingRegion ==
  ASSUME NEW ms \in Seq(Mapping) PROVE \A i \in DOMAIN ms : ms[i].region \in Region
  <1>1. \A i \in DOMAIN ms : ms[i] \in Mapping
    OBVIOUS
  <1> QED BY <1>1 DEF Mapping

\* After LoadFromConfig each listed string has the last mapping it was given.
LEMMA LoadedMappings ==
  ASSUME NEW ms \in Seq(Mapping), Parses(ms), LoadFromConfig(ms), NEW c \in ValidCidr
  PROVE  \/ /\ mappings'[c] = NoEntry
            /\ \A i \in DOMAIN ms : ms[i].cidr # c
         \/ \E i \in DOMAIN ms :
               /\ ms[i].cidr = c
               /\ \A j \in DOMAIN ms : ms[j].cidr = c => j <= i
               /\ mappings'[c] = [region |-> ms[i].region, source |-> "config"]
  <1> DEFINE id == [x \in ValidCidr |-> x]
  <1>1. mappings' = Loaded(id, ms)
    BY DEF LoadFromConfig
  <1>2. \A i \in DOMAIN ms : ms[i].cidr \in ValidCidr
    BY DEF Parses
  <1>3. \A i \in DOMAIN ms : id[ms[i].cidr] = ms[i].cidr
    BY <1>2
  <1>4. DOMAIN id = ValidCidr /\ c \in Range(id)
    BY Names
  <1> HIDE DEF id
  <1>5. IsLast(Loaded(id, ms)[c], id, ms, c)
    BY <1>4, LoadedEntry
  <1> QED BY <1>1, <1>3, <1>5 DEF IsLast

LEMMA LoadedRanger ==
  ASSUME NEW ms \in Seq(Mapping), Parses(ms), LoadFromConfig(ms), NEW n \in Network
  PROVE  \/ /\ ranger'[n] = NoEntry
            /\ \A i \in DOMAIN ms : NetworkOf[ms[i].cidr] # n
         \/ \E i \in DOMAIN ms :
               /\ NetworkOf[ms[i].cidr] = n
               /\ \A j \in DOMAIN ms : NetworkOf[ms[j].cidr] = n => j <= i
               /\ ranger'[n] = [region |-> ms[i].region, source |-> "config"]
  <1>1. ranger' = Loaded(NetworkOf, ms)
    BY DEF LoadFromConfig
  <1>2. DOMAIN NetworkOf = ValidCidr /\ n \in Range(NetworkOf)
    BY Names
  <1>3. IsLast(Loaded(NetworkOf, ms)[n], NetworkOf, ms, n)
    BY <1>2, LoadedEntry
  <1> QED BY <1>1, <1>3 DEF IsLast

LEMMA LoadedTypes ==
  ASSUME NEW ms \in Seq(Mapping), Parses(ms), LoadFromConfig(ms)
  PROVE  /\ mappings' \in [ValidCidr -> Entries]
         /\ ranger' \in [Network -> Entries]
  <1>1. \A i \in DOMAIN ms : [region |-> ms[i].region, source |-> "config"] \in Entry
    BY EntryTypes, MappingRegion
  <1>2. ASSUME NEW c \in ValidCidr PROVE mappings'[c] \in Entries
    <2>1. \/ mappings'[c] = NoEntry
          \/ \E i \in DOMAIN ms : mappings'[c] = [region |-> ms[i].region, source |-> "config"]
      BY LoadedMappings
    <2> QED BY <1>1, <2>1 DEF Entries
  <1>3. ASSUME NEW n \in Network PROVE ranger'[n] \in Entries
    <2>1. \/ ranger'[n] = NoEntry
          \/ \E i \in DOMAIN ms : ranger'[n] = [region |-> ms[i].region, source |-> "config"]
      BY LoadedRanger
    <2> QED BY <1>1, <2>1 DEF Entries
  <1>4. mappings' = [c \in ValidCidr |-> mappings'[c]] /\ ranger' = [n \in Network |-> ranger'[n]]
    BY Names DEF LoadFromConfig, Loaded
  <1> QED BY <1>2, <1>3, <1>4

\* The last mapping of a network is also the last one of its string.
LEMMA LoadedAgree ==
  ASSUME NEW ms \in Seq(Mapping), Parses(ms), LoadFromConfig(ms),
         NEW n \in Network, ranger'[n] # NoEntry
  PROVE  \E c \in ValidCidr : /\ NetworkOf[c] = n /\ mappings'[c] = ranger'[n]
                              /\ mappings'[c] # NoEntry
  <1>1. PICK i \in DOMAIN ms :
           /\ NetworkOf[ms[i].cidr] = n
           /\ \A j \in DOMAIN ms : NetworkOf[ms[j].cidr] = n => j <= i
           /\ ranger'[n] = [region |-> ms[i].region, source |-> "config"]
    BY LoadedRanger
  <1> DEFINE c == ms[i].cidr
  <1>2. c \in ValidCidr
    BY DEF Parses
  <1>3. PICK k \in DOMAIN ms :
           /\ ms[k].cidr = c
           /\ \A j \in DOMAIN ms : ms[j].cidr = c => j <= k
           /\ mappings'[c] = [region |-> ms[k].region, source |-> "config"]
    BY <1>2, LoadedMappings
  <1>4. i <= k /\ k <= i
    BY <1>1, <1>3
  <1>5. i = k
    BY <1>4
  <1> QED BY <1>1, <1>2, <1>3, <1>5

\* A listed string of a network with an entry in the list has one in the trie.
LEMMA LoadedBoth ==
  ASSUME NEW ms \in Seq(Mapping), Parses(ms), LoadFromConfig(ms),
         NEW c \in ValidCidr, mappings'[c] # NoEntry
  PROVE  ranger'[NetworkOf[c]] # NoEntry
  <1>1. PICK i \in DOMAIN ms : ms[i].cidr = c
    BY LoadedMappings
  <1>2. NetworkOf[ms[i].cidr] = NetworkOf[c] /\ NetworkOf[c] \in Network
    BY <1>1, Names
  <1>3. PICK k \in DOMAIN ms :
           ranger'[NetworkOf[c]] = [region |-> ms[k].region, source |-> "config"]
    BY <1>2, LoadedRanger
  <1>4. ms[k].region \in Region
    BY MappingRegion
  <1> QED BY <1>3, <1>4, EntryTypes

LEMMA TwiceKnows ==
  ASSUME NEW c \in ValidCidr, NEW d \in ValidCidr, NEW ms,
         ms[c] # NoEntry, ms[d] # NoEntry, c # d, NetworkOf[c] = NetworkOf[d]
  PROVE  NetworkOf[c] \in Twice(ms)
  BY DEF Twice

LEMMA TwiceNetworks == ASSUME NEW ms PROVE Twice(ms) \subseteq Network
  BY Names DEF Twice

-----------------------------------------------------------------------------
(* The load of the configuration *)

LEMMA NoConfigType == NoConfig \in Config /\ NoConfig.mappings = <<>>
  BY DEF NoConfig, Config

LEMMA OwnType == ASSUME NEW x \in Content PROVE x.own \in Config
  BY DEF Content

LEMMA MatchesType ==
  ASSUME NEW f, files[f] \in Content
  PROVE  Matches(f) \in SUBSET (Nat \X DOMAIN SortedFiles)
  <1>1. files[f].includes \in Seq(SUBSET File)
    BY DEF Content
  <1>2. DOMAIN files[f].includes \subseteq Nat
    BY <1>1
  <1> QED BY <1>2 DEF Matches

LEMMA SortedType == \A j \in DOMAIN SortedFiles : SortedFiles[j] \in File
  BY ConfigAssumption DEF ToSet

LEMMA MergeType ==
  ASSUME NEW c \in Config, NEW d \in Config
  PROVE  mergeConfig(c, d) \in Config
  BY DEF mergeConfig, Config

LEMMA FailedTypes ==
  ASSUME LoadTypes, NEW why, Failed(why),
         why \in {"open", "depth", "circular", "unreadable", "duplicate"}
  PROVE  LoadTypes'
  BY DEF LoadTypes, Failed

LEMMA LoadFileTypes ==
  ASSUME LoadTypes, outcome = "loading", NEW f \in File, NEW callers \in Seq(Frame),
         LoadFile(f, callers)
  PROVE  LoadTypes'
  <1>1. CASE \E why \in {"depth", "circular", "unreadable"} : Failed(why)
    BY <1>1, FailedTypes
  <1>2. CASE /\ visited' = visited \cup {f}
             /\ stack' = Append(callers, [file |-> f, todo |-> Matches(f), cfg |-> files[f].own])
             /\ UNCHANGED <<files, outcome, config>>
    <2>1. files[f] \in Content
      BY DEF LoadTypes
    <2>2. [file |-> f, todo |-> Matches(f), cfg |-> files[f].own] \in Frame
      BY <2>1, OwnType, MatchesType DEF Frame
    <2>3. stack' \in Seq(Frame)
      BY <1>2, <2>2
    <2> QED BY <1>2, <2>3 DEF LoadTypes
  <1> QED BY <1>1, <1>2 DEF LoadFile

LEMMA ReadTypes ==
  ASSUME LoadTypes, LoadStep
  PROVE  LoadTypes'
  <1>1. CASE LoadMain
    <2>1. <<>> \in Seq(Frame) /\ MainFile \in File
      BY ConfigAssumption
    <2> QED BY <1>1, <2>1, LoadFileTypes DEF LoadMain
  <1>2. CASE Include
    <2>1. PICK p \in Top.todo :
             LET f == SortedFiles[p[2]]
             IN  \/ Failed("open")
                 \/ LoadFile(f, [stack EXCEPT ![Len(stack)].todo = @ \ {p}])
      BY <1>2 DEF Include
    <2>2. stack \in Seq(Frame) /\ Len(stack) \in 1 .. Len(stack) /\ stack[Len(stack)] \in Frame
      BY <1>2 DEF Include, LoadTypes
    <2>3. Top.todo \in SUBSET (Nat \X DOMAIN SortedFiles)
      BY <2>2 DEF Top, Frame
    <2>4. SortedFiles[p[2]] \in File
      BY <2>3, SortedType
    <2> DEFINE top == [stack[Len(stack)] EXCEPT !.todo = @ \ {p}]
    <2>5. top \in Frame
      BY <2>2 DEF Frame
    <2> DEFINE callers == [stack EXCEPT ![Len(stack)].todo = @ \ {p}]
    <2>6. callers = [stack EXCEPT ![Len(stack)] = top]
      BY <2>2
    <2>7. callers \in Seq(Frame)
      <3> HIDE DEF top, callers
      <3>1. callers \in [1 .. Len(stack) -> Frame]
        BY <2>2, <2>5, <2>6
      <3> QED BY <2>2, <3>1
    <2>8. outcome = "loading"
      BY <1>2 DEF Include
    <2>9. Failed("open") \/ LoadFile(SortedFiles[p[2]], callers)
      BY <2>1
    <2> HIDE DEF callers
    <2> QED BY <2>4, <2>7, <2>8, <2>9, FailedTypes, LoadFileTypes
  <1>3. CASE Merge
    <2> DEFINE n == Len(stack) - 1
    <2>1. CASE Failed("duplicate")
      BY <2>1, FailedTypes
    <2>2. CASE /\ stack' = Append(SubSeq(stack, 1, n - 1),
                                  [stack[n] EXCEPT !.cfg = mergeConfig(@, Top.cfg)])
               /\ UNCHANGED <<files, visited, outcome, config>>
      <3>1. /\ stack \in Seq(Frame) /\ n \in 1 .. Len(stack) /\ Len(stack) \in 1 .. Len(stack)
        BY <1>3 DEF Merge, LoadTypes
      <3>2. stack[n] \in Frame /\ Top \in Frame
        BY <3>1 DEF Top
      <3>3. mergeConfig(stack[n].cfg, Top.cfg) \in Config
        BY <3>2, MergeType DEF Frame
      <3> DEFINE new == [stack[n] EXCEPT !.cfg = mergeConfig(@, Top.cfg)]
      <3>4. new \in Frame
        BY <3>2, <3>3 DEF Frame
      <3>5. SubSeq(stack, 1, n - 1) \in Seq(Frame)
        BY <3>1
      <3>6. stack' = Append(SubSeq(stack, 1, n - 1), new)
        BY <2>2
      <3>7. stack' \in Seq(Frame)
        <4> HIDE DEF new, n
        <4> QED BY <3>4, <3>5, <3>6
      <3> QED BY <2>2, <3>7 DEF LoadTypes
    <2> QED BY <1>3, <2>1, <2>2 DEF Merge
  <1>4. CASE EndLoad
    <2>1. stack \in Seq(Frame) /\ Len(stack) \in 1 .. Len(stack)
      BY <1>4 DEF EndLoad, LoadTypes
    <2>2. Top \in Frame
      BY <2>1 DEF Top
    <2>3. Top.cfg \in Config
      BY <2>2 DEF Frame
    <2> QED BY <1>4, <2>3 DEF EndLoad, LoadTypes
  <1> QED BY <1>1, <1>2, <1>3, <1>4 DEF LoadStep

-----------------------------------------------------------------------------
(* Induction *)

LEMMA EmptyMappings ==
  /\ NoMappings \in [ValidCidr -> Entries] /\ EmptyRanger \in [Network -> Entries]
  /\ \A c \in ValidCidr : NoMappings[c] = NoEntry
  /\ \A n \in Network : EmptyRanger[n] = NoEntry
  BY DEF NoMappings, EmptyRanger, Entries

LEMMA Initially == GeoInit => IInv
  <1> SUFFICES ASSUME GeoInit PROVE IInv
    OBVIOUS
  <1>1. LoadTypes
    <2>1. stack \in Seq(Frame)
      BY DEF GeoInit
    <2> QED BY <2>1, NoConfigType DEF GeoInit, LoadTypes
  <1>2. GeoTypes
    <2>1. regions \in Seq(Region)
      BY DEF GeoInit
    <2> QED BY <2>1, NoConfigType, EmptyMappings DEF GeoInit, GeoTypes
  <1>3. FoundIsListed /\ ListedIsFound /\ AliasesKnown /\ FromConfig
    BY EmptyMappings
    DEF GeoInit, FoundIsListed, ListedIsFound, AliasesKnown, FromConfig, Listed
  <1> QED BY <1>1, <1>2, <1>3 DEF IInv

\* A step that leaves the resolver alone.
LEMMA GeoUnchanged ==
  ASSUME IInv, UNCHANGED geoVars
  PROVE  GeoTypes' /\ FoundIsListed' /\ ListedIsFound' /\ AliasesKnown' /\ FromConfig'
  BY DEF IInv, geoVars, GeoTypes, FoundIsListed, ListedIsFound, AliasesKnown, FromConfig, Listed

LEMMA LoadOverTypes ==
  ASSUME LoadTypes, LoadOver, config' \in Config PROVE LoadTypes'
  <1>1. stack' \in Seq(Frame)
    BY DEF LoadOver
  <1> QED BY <1>1 DEF LoadTypes, LoadOver

LEMMA BootKeeps ==
  ASSUME IInv, NewResolver(config), up' = TRUE, booted' = config,
         aliased' = Twice(mappings')
  PROVE  GeoTypes' /\ FoundIsListed' /\ ListedIsFound' /\ AliasesKnown' /\ FromConfig'
  <1> DEFINE ms == config.mappings
  <1>1. config \in Config
    BY DEF IInv, LoadTypes
  <1>2. ms \in Seq(Mapping) /\ config.regions \in Seq(Region)
    BY <1>1 DEF Config
  <1>3. Parses(ms) /\ LoadFromConfig(ms) /\ regions' = config.regions
    BY DEF NewResolver
  <1> HIDE DEF ms
  <1>4. mappings' \in [ValidCidr -> Entries] /\ ranger' \in [Network -> Entries]
    BY <1>2, <1>3, LoadedTypes
  <1>5. GeoTypes'
    BY <1>1, <1>2, <1>3, <1>4, TwiceNetworks DEF GeoTypes
  <1>6. FoundIsListed'
    BY <1>2, <1>3, LoadedAgree DEF FoundIsListed, Listed
  <1>7. AliasesKnown'
    BY TwiceKnows DEF AliasesKnown, Listed
  <1>8. ListedIsFound'
    <2> SUFFICES ASSUME NEW c \in ValidCidr, mappings'[c] # NoEntry,
                        NetworkOf[c] \notin aliased'
                 PROVE  ranger'[NetworkOf[c]] = mappings'[c]
      BY DEF ListedIsFound, Listed
    <2>1. NetworkOf[c] \in Network
      BY Names
    <2>2. ranger'[NetworkOf[c]] # NoEntry
      BY <1>2, <1>3, LoadedBoth
    <2>3. PICK d \in ValidCidr : /\ NetworkOf[d] = NetworkOf[c]
                                 /\ mappings'[d] = ranger'[NetworkOf[c]]
                                 /\ mappings'[d] # NoEntry
      BY <1>2, <1>3, <2>1, <2>2, LoadedAgree
    <2>4. c = d
      BY <2>3, <1>7 DEF AliasesKnown, Listed
    <2> QED BY <2>3, <2>4
  <1>9. FromConfig'
    <2>1. ASSUME NEW n \in Network, ranger'[n].source = "config"
          PROVE  \E i \in DOMAIN ms : ms[i].region = ranger'[n].region
      <3>1. ranger'[n] # NoEntry
        BY <2>1, EntryTypes
      <3>2. PICK i \in DOMAIN ms : ranger'[n] = [region |-> ms[i].region, source |-> "config"]
        BY <1>2, <1>3, <3>1, LoadedRanger
      <3> QED BY <3>2
    <2> QED BY <1>3, <2>1 DEF FromConfig, ms
  <1> QED BY <1>5, <1>6, <1>7, <1>8, <1>9

LEMMA AddKeeps ==
  ASSUME IInv, NEW c \in Cidr, NEW r \in Region, AddMapping(c, r)
  PROVE  GeoTypes' /\ FoundIsListed' /\ ListedIsFound' /\ AliasesKnown' /\ FromConfig'
  <1> DEFINE e == [region |-> r, source |-> "api"]
  <1>1. e \in Entry /\ e # NoEntry /\ e.source = "api"
    BY EntryTypes
  <1>2. c \in ValidCidr /\ NetworkOf[c] \in Network
    BY Names DEF AddMapping
  <1>3. /\ mappings \in [ValidCidr -> Entries] /\ ranger \in [Network -> Entries]
        /\ mappings' = [mappings EXCEPT ![c] = e]
        /\ ranger' = [ranger EXCEPT ![NetworkOf[c]] = e]
        /\ aliased' = aliased \cup Twice(mappings')
        /\ UNCHANGED <<up, regions, booted>>
    BY DEF IInv, GeoTypes, AddMapping, Add
  <1> HIDE DEF e
  <1>4. GeoTypes'
    <2>1. mappings' \in [ValidCidr -> Entries] /\ ranger' \in [Network -> Entries]
      BY <1>1, <1>2, <1>3 DEF Entries
    <2> QED BY <1>3, <2>1, TwiceNetworks DEF IInv, GeoTypes
  <1>5. /\ mappings'[c] = e /\ ranger'[NetworkOf[c]] = e
        /\ \A d \in ValidCidr : d # c => mappings'[d] = mappings[d]
        /\ \A n \in Network : n # NetworkOf[c] => ranger'[n] = ranger[n]
    BY <1>2, <1>3
  <1>6. FoundIsListed'
    BY <1>1, <1>2, <1>5 DEF IInv, FoundIsListed, Listed
  <1>7. AliasesKnown'
    BY <1>3, TwiceKnows DEF AliasesKnown, Listed
  <1>8. ListedIsFound'
    <2> SUFFICES ASSUME NEW d \in ValidCidr, mappings'[d] # NoEntry,
                        NetworkOf[d] \notin aliased'
                 PROVE  ranger'[NetworkOf[d]] = mappings'[d]
      BY DEF ListedIsFound, Listed
    <2>1. CASE d = c
      BY <1>5, <2>1
    <2>2. CASE d # c
      <3>1. NetworkOf[d] # NetworkOf[c]
        BY <1>1, <1>2, <1>5, <1>7, <2>2 DEF AliasesKnown, Listed
      <3>2. NetworkOf[d] \in Network /\ NetworkOf[d] \notin aliased
        BY <1>3, Names
      <3>3. ranger[NetworkOf[d]] = mappings[d]
        BY <1>5, <2>2, <3>2 DEF IInv, ListedIsFound, Listed
      <3> QED BY <1>5, <2>2, <3>1, <3>2, <3>3
    <2> QED BY <2>1, <2>2
  <1>9. FromConfig'
    BY <1>1, <1>2, <1>3, <1>5 DEF IInv, FromConfig
  <1> QED BY <1>4, <1>6, <1>7, <1>8, <1>9

LEMMA DeleteKeeps ==
  ASSUME IInv, NEW c \in Cidr, DeleteMapping(c)
  PROVE  GeoTypes' /\ FoundIsListed' /\ ListedIsFound' /\ AliasesKnown' /\ FromConfig'
  <1>1. c \in ValidCidr /\ NetworkOf[c] \in Network /\ c \in Listed
    BY Names DEF DeleteMapping, RemoveMapping, Listed
  <1>2. /\ mappings \in [ValidCidr -> Entries] /\ ranger \in [Network -> Entries]
        /\ mappings' = [mappings EXCEPT ![c] = NoEntry]
        /\ ranger' = [ranger EXCEPT ![NetworkOf[c]] = NoEntry]
        /\ UNCHANGED <<up, regions, booted, aliased>>
    BY DEF IInv, GeoTypes, DeleteMapping, RemoveMapping
  <1>3. GeoTypes'
    <2>1. mappings' \in [ValidCidr -> Entries] /\ ranger' \in [Network -> Entries]
      BY <1>1, <1>2 DEF Entries
    <2> QED BY <1>2, <2>1 DEF IInv, GeoTypes
  <1>4. /\ mappings'[c] = NoEntry /\ ranger'[NetworkOf[c]] = NoEntry
        /\ \A d \in ValidCidr : d # c => mappings'[d] = mappings[d]
        /\ \A n \in Network : n # NetworkOf[c] => ranger'[n] = ranger[n]
    BY <1>1, <1>2
  <1>5. FoundIsListed'
    BY <1>1, <1>4 DEF IInv, FoundIsListed, Listed
  <1>6. AliasesKnown'
    BY <1>2, <1>4 DEF IInv, AliasesKnown, Listed
  <1>7. ListedIsFound'
    <2> SUFFICES ASSUME NEW d \in ValidCidr, mappings'[d] # NoEntry,
                        NetworkOf[d] \notin aliased'
                 PROVE  ranger'[NetworkOf[d]] = mappings'[d]
      BY DEF ListedIsFound, Listed
    <2>1. d # c /\ d \in Listed
      BY <1>4 DEF Listed
    <2>2. NetworkOf[d] # NetworkOf[c]
      BY <1>1, <1>2, <2>1 DEF IInv, AliasesKnown
    <2>3. NetworkOf[d] \in Network
      BY Names
    <2>4. ranger[NetworkOf[d]] = mappings[d]
      BY <1>2, <2>1 DEF IInv, ListedIsFound
    <2> QED BY <1>4, <2>1, <2>2, <2>3, <2>4
  <1>8. FromConfig'
    BY <1>1, <1>2, <1>4, EntryTypes DEF IInv, FromConfig
  <1> QED BY <1>3, <1>5, <1>6, <1>7, <1>8

LEMMA ExitKeeps ==
  ASSUME IInv, Exit
  PROVE  IInv'
  <1>1. LoadTypes'
    BY LoadOverTypes, NoConfigType DEF IInv, Exit
  <1>2. GeoTypes'
    <2>1. regions' \in Seq(Region)
      BY DEF Exit
    <2> QED BY <2>1, NoConfigType, EmptyMappings DEF Exit, GeoTypes
  <1>3. FoundIsListed' /\ ListedIsFound' /\ AliasesKnown' /\ FromConfig'
    BY EmptyMappings
    DEF Exit, FoundIsListed, ListedIsFound, AliasesKnown, FromConfig, Listed
  <1> QED BY <1>1, <1>2, <1>3 DEF IInv

LEMMA Inductive == IInv /\ [GeoNext]_geoAll => IInv'
  <1> SUFFICES ASSUME IInv, [GeoNext]_geoAll PROVE IInv'
    OBVIOUS
  <1> USE DEF IInv
  <1>1. CASE StartLoad
    <2>1. PICK tree \in Trees : BeginLoad(tree)
      BY <1>1, GeoAssumption DEF StartLoad
    <2>2. LoadTypes'
      <3>1. stack' \in Seq(Frame)
        BY <2>1 DEF BeginLoad
      <3>2. \A f \in File : files'[f] \in Content
        BY <2>1, ConfigAssumption DEF BeginLoad
      <3> QED BY <2>1, <3>1, <3>2 DEF LoadTypes, BeginLoad
    <2> QED BY <1>1, <2>2, GeoUnchanged DEF StartLoad
  <1>2. CASE ReadFiles
    BY <1>2, ReadTypes, GeoUnchanged DEF ReadFiles
  <1>3. CASE GiveUp
    <2>1. LoadTypes'
      BY <1>3, LoadOverTypes DEF GiveUp, LoadTypes
    <2> QED BY <1>3, <2>1, GeoUnchanged DEF GiveUp
  <1>4. CASE initializeGeoResolver
    <2>1. CASE /\ NewResolver(config) /\ up' = TRUE /\ booted' = config
               /\ aliased' = Twice(mappings') /\ UNCHANGED config
      <3>1. LoadTypes'
        BY <1>4, <2>1, LoadOverTypes DEF initializeGeoResolver, LoadTypes
      <3> QED BY <2>1, <3>1, BootKeeps
    <2>2. CASE config' = NoConfig /\ UNCHANGED geoVars
      <3>1. LoadTypes'
        BY <1>4, <2>2, LoadOverTypes, NoConfigType DEF initializeGeoResolver
      <3> QED BY <2>2, <3>1, GeoUnchanged
    <2> QED BY <1>4, <2>1, <2>2 DEF initializeGeoResolver
  <1>5. CASE Reload
    <2>1. LoadTypes'
      BY <1>5, LoadOverTypes DEF Reload, LoadTypes
    <2> QED BY <1>5, <2>1, GeoUnchanged DEF Reload
  <1>6. ASSUME NEW c \in Cidr, NEW r \in Region, AddMapping(c, r) PROVE IInv'
    <2>1. LoadTypes'
      BY <1>6 DEF AddMapping, LoadTypes, configVars
    <2> QED BY <1>6, <2>1, AddKeeps
  <1>7. ASSUME NEW c \in Cidr, DeleteMapping(c) PROVE IInv'
    <2>1. LoadTypes'
      BY <1>7 DEF DeleteMapping, LoadTypes, configVars
    <2> QED BY <1>7, <2>1, DeleteKeeps
  <1>8. CASE Exit
    BY <1>8, ExitKeeps
  <1>9. CASE UNCHANGED geoAll
    <2>1. LoadTypes' /\ UNCHANGED geoVars
      BY <1>9 DEF geoAll, LoadTypes, configVars
    <2> QED BY <2>1, GeoUnchanged
  <1> QED BY <1>1, <1>2, <1>3, <1>4, <1>5, <1>6, <1>7, <1>8, <1>9 DEF GeoNext

-----------------------------------------------------------------------------
(* Theorems *)

\* The invariant of the load and of the resolver (includes.go, custom.go, app.go):
\* the types of all variables, and how list, trie and configuration hang together.
THEOREM ListAndTrie == GeoSpec => []IInv
  BY Initially, Inductive, PTL DEF GeoSpec

\* Whatever is configured, added, replaced and removed under whatever strings, every
\* entry of the trie (CustomMappings.ranger) is one that the API lists.
THEOREM NothingUnseen == GeoSpec => []FoundIsListed
  <1>1. IInv => FoundIsListed
    BY DEF IInv
  <1> QED BY <1>1, ListAndTrie, PTL

\* A query resolves to the region of the narrowest mapping that is listed around the
\* client (CustomMappings.Lookup, Resolver.Resolve), as long as no network around it
\* was listed under two strings.
THEOREM NarrowestDecides == GeoSpec => []AnswersFollowList
  <1>1. IInv => AnswersFollowList
    <2> SUFFICES ASSUME IInv, NEW q \in Query, \A n \in aliased : GetClientIP(q) \notin n,
                        NEW c \in Listed, GetClientIP(q) \in NetworkOf[c],
                        \A d \in Listed : GetClientIP(q) \in NetworkOf[d] =>
                                              NetworkOf[c] \subseteq NetworkOf[d]
                 PROVE  Resolve(GetClientIP(q)) = mappings[c].region
      BY DEF AnswersFollowList
    <2> DEFINE a == GetClientIP(q)
    <2> DEFINE n == NetworkOf[c]
    <2> HIDE DEF a
    <2>1. c \in ValidCidr /\ mappings[c] # NoEntry /\ n \in Network
      BY Names DEF Listed
    <2>2. ranger[n] = mappings[c]
      BY DEF IInv, ListedIsFound, a
    <2>3. n \in ContainingNetworks(a)
      BY <2>1, <2>2 DEF ContainingNetworks, a
    <2>4. ASSUME NEW m \in ContainingNetworks(a) PROVE n \subseteq m
      <3>1. m \in Network /\ a \in m /\ ranger[m] # NoEntry
        BY DEF ContainingNetworks
      <3>2. PICK d \in Listed : NetworkOf[d] = m
        BY <3>1 DEF IInv, FoundIsListed
      <3> QED BY <3>1, <3>2 DEF a
    <2> HIDE DEF n
    <2> DEFINE k == CHOOSE k \in ContainingNetworks(a) :
                       \A m \in ContainingNetworks(a) : k \subseteq m
    <2>5. k \in ContainingNetworks(a) /\ \A m \in ContainingNetworks(a) : k \subseteq m
      BY <2>3, <2>4
    <2>6. Lookup(a) = ranger[k]
      BY <2>3 DEF Lookup
    <2> HIDE DEF k
    <2>7. k = n
      BY <2>3, <2>4, <2>5
    <2>8. mappings[c] \in Entry
      BY <2>1 DEF IInv, GeoTypes, Entries
    <2>9. Lookup(a).region = mappings[c].region /\ mappings[c].region # Unknown
      BY <2>2, <2>6, <2>7, <2>8, EntryTypes
    <2>10. Resolve(a) = mappings[c].region
      BY <2>9 DEF Resolve
    <2> QED BY <2>10 DEF a
  <1> QED BY <1>1, ListAndTrie, PTL

\* loadRegions finds a region of the configuration, or none.
LEMMA RegionForType ==
  ASSUME NEW code, NEW CodesOf, regions \in Seq(Region)
  PROVE  RegionFor(code, CodesOf) = Unknown \/ RegionFor(code, CodesOf) \in ToSet(regions)
  <1> DEFINE listing == {i \in DOMAIN regions : code \in CodesOf[regions[i]]}
  <1>1. CASE code = Unknown \/ listing = {}
    BY <1>1 DEF RegionFor
  <1>2. CASE code # Unknown /\ listing # {}
    <2>1. listing \subseteq 1 .. Len(regions) /\ Len(regions) \in Nat
      OBVIOUS
    <2>2. Max(listing) \in listing
      BY <1>2, <2>1, MaxIn
    <2>3. RegionFor(code, CodesOf) = regions[Max(listing)]
      BY <1>2 DEF RegionFor
    <2> HIDE DEF listing
    <2>4. Max(listing) \in DOMAIN regions
      BY <2>2 DEF listing
    <2> QED BY <2>3, <2>4 DEF ToSet
  <1> QED BY <1>1, <1>2

LEMMA LookupEntry ==
  ASSUME NEW a, ranger \in [Network -> Entries]
  PROVE  Lookup(a) = NoEntry \/ \E n \in Network : Lookup(a) = ranger[n] /\ ranger[n] # NoEntry
  <1>1. CASE ContainingNetworks(a) = {}
    BY <1>1 DEF Lookup
  <1>2. CASE ContainingNetworks(a) # {}
    <2>1. \A n \in ContainingNetworks(a) : n \in Network /\ a \in n
      BY DEF ContainingNetworks
    <2>2. \E n \in ContainingNetworks(a) : \A m \in ContainingNetworks(a) : n \subseteq m
      <3> DEFINE S == ContainingNetworks(a)
      <3>1. S # {} /\ \A n \in S : n \in Network /\ a \in n
        BY <1>2, <2>1
      <3> HIDE DEF S
      <3>2. \E n \in S : \A m \in S : n \subseteq m
        BY <3>1, HasNarrowest
      <3> QED BY <3>2 DEF S
    <2> DEFINE k == CHOOSE n \in ContainingNetworks(a) :
                       \A m \in ContainingNetworks(a) : n \subseteq m
    <2>3. k \in ContainingNetworks(a)
      BY <2>2
    <2>4. Lookup(a) = ranger[k]
      BY <1>2 DEF Lookup
    <2> HIDE DEF k
    <2>5. k \in Network /\ ranger[k] # NoEntry
      BY <2>3 DEF ContainingNetworks
    <2> QED BY <2>4, <2>5
  <1> QED BY <1>1, <1>2

\* Validate (validator.go) is worth what it should be: in a process started with a
\* configuration that it accepts and that routes by geolocation, no client without a
\* mapping of the API is taken to be in a region that the configuration does not have,
\* or that has no servers.
THEOREM ValidationSuffices == GeoSpec => []ValidatedRegionsExist
  <1>1. IInv => ValidatedRegionsExist
    <2> SUFFICES ASSUME IInv, up, Validate(booted), ToSet(booted.domains) \cap GeoDomain # {},
                        NEW a, Lookup(a).source # "api"
                 PROVE  Resolve(a) \in ToSet(booted.regions) /\ Services[Resolve(a)] # {}
      BY DEF ValidatedRegionsExist
    <2>1. /\ regions \in Seq(Region) /\ regions = booted.regions
          /\ ranger \in [Network -> Entries]
      BY DEF IInv, GeoTypes, FromConfig
    <2>2. /\ DefaultRegion \in ToSet(booted.regions)
          /\ \A m \in ToSet(booted.mappings) : m.region \in ToSet(booted.regions)
          /\ \A r \in ToSet(booted.regions) : Services[r] # {}
      BY DEF Validate, validateGeolocation, validateRegions
    <2>3. Lookup(a).region = Unknown \/ Lookup(a).region \in ToSet(booted.regions)
      <3>1. CASE Lookup(a) = NoEntry
        BY <3>1, EntryTypes
      <3>2. ASSUME NEW n \in Network, Lookup(a) = ranger[n], ranger[n] # NoEntry
            PROVE  Lookup(a).region \in ToSet(booted.regions)
        <4>1. ranger[n] \in Entry
          BY <2>1, <3>2 DEF Entries
        <4>2. ranger[n].source = "config"
          BY <3>2, <4>1 DEF Entry
        <4>3. PICK i \in DOMAIN booted.mappings : booted.mappings[i].region = ranger[n].region
          BY <4>2 DEF IInv, FromConfig
        <4>4. booted.mappings[i] \in ToSet(booted.mappings)
          BY DEF ToSet
        <4> QED BY <2>2, <3>2, <4>3, <4>4
      <3> QED BY <2>1, <3>1, <3>2, LookupEntry
    <2> DEFINE country == RegionFor(DatabaseLookup(a).country, CountriesOf)
    <2> DEFINE continent == RegionFor(DatabaseLookup(a).continent, ContinentsOf)
    <2>4. country = Unknown \/ country \in ToSet(booted.regions)
      BY <2>1, RegionForType
    <2>5. continent = Unknown \/ continent \in ToSet(booted.regions)
      BY <2>1, RegionForType
    <2>6. Resolve(a) = LET custom == Lookup(a).region
                       IN  CASE custom # Unknown -> custom
                             [] custom = Unknown /\ country # Unknown -> country
                             [] /\ custom = Unknown /\ country = Unknown
                                /\ continent # Unknown -> continent
                             [] OTHER -> DefaultRegion
      BY DEF Resolve
    <2> HIDE DEF country, continent
    <2>7. Resolve(a) \in ToSet(booted.regions)
      BY <2>2, <2>3, <2>4, <2>5, <2>6
    <2> QED BY <2>2, <2>7
  <1> QED BY <1>1, ListAndTrie, PTL

-----------------------------------------------------------------------------
(* Loads *)

\* The match p of file f is still to be included.
Pending(f, p) == \E k \in DOMAIN stack : stack[k].file = f /\ p \in stack[k].todo

\* A file has a lower number than the files it has included, and all are below m: the
\* order in which they were visited.
RankedBy(rank, m) ==
    /\ \A f \in visited : rank[f] < m
    /\ \A f \in visited : \A p \in Matches(f) :
          \/ Pending(f, p)
          \/ SortedFiles[p[2]] \in visited /\ rank[f] < rank[SortedFiles[p[2]]]

Ranked == \E m \in Nat : \E rank \in [visited -> Nat] : RankedBy(rank, m)

\* The configuration c is that of the files in S together.
Holds(c, S) ==
    \A x \in Section :
        /\ IsFiniteSet(Places(S, x)) /\ Len(c[x]) = Cardinality(Places(S, x))
        /\ ToSet(c[x]) = UNION {ToSet(files[f].own[x]) : f \in S}

\* The visited files for whom the call at place k of the stack answers.
Under(owner, k) == {f \in visited : owner[f] = k}

OwnedBy(owner) == \A k \in DOMAIN stack : Holds(stack[k].cfg, Under(owner, k))

Owned == \E owner \in [visited -> DOMAIN stack] : OwnedBy(owner)

\* A load that goes on, or has just succeeded.
Reading ==
    outcome \in {"loading", "loaded"} =>
        /\ \A f \in File : files[f] \in Content
        /\ visited \subseteq Reached(MainFile)
        /\ stack = <<>> => visited = {}
        /\ stack # <<>> => MainFile \in visited
        /\ \A k \in DOMAIN stack : /\ stack[k].file \in visited
                                   /\ stack[k].todo \subseteq Matches(stack[k].file)
        /\ Ranked /\ Owned
        /\ outcome = "loaded" => Len(stack) = 1 /\ Top.todo = {} /\ config = Top.cfg

\* What Reached is: it has f, it is closed, and it is in every such set.
LEMMA ReachedFacts ==
  ASSUME NEW f \in File
  PROVE  /\ Reached(f) \subseteq File /\ f \in Reached(f)
         /\ \A g \in Reached(f) : \A h \in File : h \in IncludesOf(g) => h \in Reached(f)
         /\ \A S \in SUBSET File : f \in S /\ (\A h \in S : IncludesOf(h) \subseteq S) => Reached(f) \subseteq S
  BY DEF Reached

\* The patterns of a file match the files that it includes.
LEMMA IncludesMatch ==
  ASSUME NEW f, files[f] \in Content
  PROVE  /\ IncludesOf(f) \subseteq File
         /\ \A g \in IncludesOf(f) : \E p \in Matches(f) : SortedFiles[p[2]] = g
         /\ \A p \in Matches(f) : SortedFiles[p[2]] \in IncludesOf(f) /\ SortedFiles[p[2]] \in File
  <1> DEFINE inc == files[f].includes
  <1>1. inc \in Seq(SUBSET File)
    BY DEF Content
  <1>2. \A i \in DOMAIN inc : inc[i] \subseteq File
    BY <1>1
  <1>3. IncludesOf(f) \subseteq File
    BY <1>2 DEF IncludesOf, ToSet
  <1>4. ASSUME NEW g \in IncludesOf(f) PROVE \E p \in Matches(f) : SortedFiles[p[2]] = g
    <2>1. PICK i \in DOMAIN inc : g \in inc[i]
      BY DEF IncludesOf, ToSet
    <2>2. g \in File
      BY <1>3
    <2>3. PICK j \in DOMAIN SortedFiles : SortedFiles[j] = g
      BY <2>2, ConfigAssumption DEF ToSet
    <2> DEFINE p == <<i, j>>
    <2>4. p \in (DOMAIN inc) \X (DOMAIN SortedFiles) /\ p[1] = i /\ p[2] = j
      OBVIOUS
    <2> HIDE DEF p
    <2>5. p \in Matches(f)
      BY <2>1, <2>3, <2>4 DEF Matches
    <2> QED BY <2>3, <2>4, <2>5
  <1>5. ASSUME NEW p \in Matches(f)
        PROVE  SortedFiles[p[2]] \in IncludesOf(f) /\ SortedFiles[p[2]] \in File
    <2>1. p[1] \in DOMAIN inc /\ SortedFiles[p[2]] \in inc[p[1]]
      BY DEF Matches
    <2> QED BY <1>3, <2>1 DEF IncludesOf, ToSet
  <1> QED BY <1>3, <1>4, <1>5

LEMMA SectionType ==
  ASSUME NEW c \in Config, NEW x \in Section
  PROVE  \E E : c[x] \in Seq(E)
  <1>1. CASE x = "regions"
    <2>1. c["regions"] \in Seq(Region)
      BY DEF Config
    <2> QED BY <1>1, <2>1
  <1>2. CASE x = "domains"
    <2>1. c["domains"] \in Seq(Domain)
      BY DEF Config
    <2> QED BY <1>2, <2>1
  <1>3. CASE x = "mappings"
    <2>1. c["mappings"] \in Seq(Mapping)
      BY DEF Config
    <2> QED BY <1>3, <2>1
  <1> QED BY <1>1, <1>2, <1>3 DEF Section

LEMMA MergeSection ==
  ASSUME NEW c \in Config, NEW d \in Config, NEW x \in Section
  PROVE  /\ mergeConfig(c, d)[x] = c[x] \o d[x]
         /\ Len(c[x]) \in Nat /\ Len(d[x]) \in Nat
         /\ Len(mergeConfig(c, d)[x]) = Len(c[x]) + Len(d[x])
         /\ ToSet(mergeConfig(c, d)[x]) = ToSet(c[x]) \cup ToSet(d[x])
  <1>1. ASSUME NEW E, NEW s \in Seq(E), NEW t \in Seq(E)
        PROVE  /\ Len(s) \in Nat /\ Len(t) \in Nat /\ Len(s \o t) = Len(s) + Len(t)
               /\ ToSet(s \o t) = ToSet(s) \cup ToSet(t)
    <2>1. s \o t \in Seq(E) /\ Len(s \o t) = Len(s) + Len(t)
      OBVIOUS
    <2>2. \A i \in 1 .. Len(s) : (s \o t)[i] = s[i]
      OBVIOUS
    <2>3. \A i \in 1 .. Len(t) : (s \o t)[Len(s) + i] = t[i]
      OBVIOUS
    <2>4. \A i \in 1 .. Len(s) + Len(t) : i \in 1 .. Len(s) \/ \E j \in 1 .. Len(t) : i = Len(s) + j
      <3>1. ASSUME NEW i \in 1 .. Len(s) + Len(t), i \notin 1 .. Len(s)
            PROVE  \E j \in 1 .. Len(t) : i = Len(s) + j
        <4>1. i - Len(s) \in 1 .. Len(t) /\ i = Len(s) + (i - Len(s))
          BY <3>1
        <4> QED BY <4>1
      <3> QED BY <3>1
    <2>5. DOMAIN (s \o t) = 1 .. Len(s) + Len(t) /\ DOMAIN s = 1 .. Len(s) /\ DOMAIN t = 1 .. Len(t)
      BY <2>1
    <2>6. ToSet(s \o t) \subseteq ToSet(s) \cup ToSet(t)
      BY <2>2, <2>3, <2>4, <2>5 DEF ToSet
    <2>7. ToSet(s) \subseteq ToSet(s \o t)
      <3>1. \A i \in 1 .. Len(s) : i \in 1 .. Len(s) + Len(t)
        OBVIOUS
      <3> QED BY <2>2, <2>5, <3>1 DEF ToSet
    <2>8. ToSet(t) \subseteq ToSet(s \o t)
      <3>1. \A i \in 1 .. Len(t) : Len(s) + i \in 1 .. Len(s) + Len(t)
        OBVIOUS
      <3> QED BY <2>3, <2>5, <3>1 DEF ToSet
    <2> QED BY <2>1, <2>6, <2>7, <2>8
  <1>2. CASE x = "regions"
    <2>1. /\ c["regions"] \in Seq(Region) /\ d["regions"] \in Seq(Region)
          /\ mergeConfig(c, d)["regions"] = c["regions"] \o d["regions"]
      BY DEF Config, mergeConfig
    <2> QED BY <1>1, <1>2, <2>1
  <1>3. CASE x = "domains"
    <2>1. /\ c["domains"] \in Seq(Domain) /\ d["domains"] \in Seq(Domain)
          /\ mergeConfig(c, d)["domains"] = c["domains"] \o d["domains"]
      BY DEF Config, mergeConfig
    <2> QED BY <1>1, <1>3, <2>1
  <1>4. CASE x = "mappings"
    <2>1. /\ c["mappings"] \in Seq(Mapping) /\ d["mappings"] \in Seq(Mapping)
          /\ mergeConfig(c, d)["mappings"] = c["mappings"] \o d["mappings"]
      BY DEF Config, mergeConfig
    <2> QED BY <1>1, <1>4, <2>1
  <1> QED BY <1>2, <1>3, <1>4 DEF Section

\* A file has its own part.
LEMMA HoldsOwn ==
  ASSUME NEW f, files[f] \in Content
  PROVE  Holds(files[f].own, {f})
  <1>1. files[f].own \in Config
    BY OwnType
  <1> SUFFICES ASSUME NEW x \in Section
               PROVE  /\ IsFiniteSet(Places({f}, x))
                      /\ Len(files[f].own[x]) = Cardinality(Places({f}, x))
                      /\ ToSet(files[f].own[x]) = UNION {ToSet(files[g].own[x]) : g \in {f}}
    BY DEF Holds
  <1> DEFINE s == files[f].own[x]
  <1> DEFINE n == Len(s)
  <1>2. n \in Nat /\ DOMAIN s = 1 .. n
    BY <1>1, SectionType
  <1>3. Places({f}, x) = {f} \X (1 .. n)
    BY <1>2 DEF Places
  <1>4. UNION {ToSet(files[g].own[x]) : g \in {f}} = ToSet(s)
    OBVIOUS
  <1> HIDE DEF n, s
  <1>5. IsFiniteSet(1 .. n) /\ Cardinality(1 .. n) = n
    BY <1>2, FS_Interval
  <1>6. IsFiniteSet({f}) /\ Cardinality({f}) = 1
    BY FS_Singleton
  <1>7. IsFiniteSet({f} \X (1 .. n)) /\ Cardinality({f} \X (1 .. n)) = Cardinality({f}) * Cardinality(1 .. n)
    BY <1>5, <1>6, FS_Product
  <1>8. Cardinality({f} \X (1 .. n)) = n
    BY <1>2, <1>5, <1>6, <1>7
  <1> QED BY <1>3, <1>4, <1>7, <1>8 DEF n, s

\* Merged, two configurations hold what they held, if they have no file in common.
LEMMA HoldsMerged ==
  ASSUME NEW c \in Config, NEW d \in Config, NEW S, NEW T, Holds(c, S), Holds(d, T), S \cap T = {}
  PROVE  Holds(mergeConfig(c, d), S \cup T)
  <1> SUFFICES ASSUME NEW x \in Section
               PROVE  /\ IsFiniteSet(Places(S \cup T, x))
                      /\ Len(mergeConfig(c, d)[x]) = Cardinality(Places(S \cup T, x))
                      /\ ToSet(mergeConfig(c, d)[x]) = UNION {ToSet(files[f].own[x]) : f \in S \cup T}
    BY DEF Holds
  <1>1. /\ Len(c[x]) \in Nat /\ Len(d[x]) \in Nat
        /\ Len(mergeConfig(c, d)[x]) = Len(c[x]) + Len(d[x])
        /\ ToSet(mergeConfig(c, d)[x]) = ToSet(c[x]) \cup ToSet(d[x])
    BY MergeSection
  <1>2. /\ IsFiniteSet(Places(S, x)) /\ Len(c[x]) = Cardinality(Places(S, x))
        /\ ToSet(c[x]) = UNION {ToSet(files[f].own[x]) : f \in S}
    BY DEF Holds
  <1>3. /\ IsFiniteSet(Places(T, x)) /\ Len(d[x]) = Cardinality(Places(T, x))
        /\ ToSet(d[x]) = UNION {ToSet(files[f].own[x]) : f \in T}
    BY DEF Holds
  <1>4. Places(S \cup T, x) = Places(S, x) \cup Places(T, x)
    BY DEF Places
  <1>5. Places(S, x) \cap Places(T, x) = {}
    BY DEF Places
  <1>6. /\ IsFiniteSet(Places(S, x) \cup Places(T, x))
        /\ Cardinality(Places(S, x) \cup Places(T, x))
           = Cardinality(Places(S, x)) + Cardinality(Places(T, x)) - Cardinality({})
    BY <1>2, <1>3, <1>5, FS_Union
  <1>7. Cardinality(Places(S \cup T, x)) = Len(c[x]) + Len(d[x])
    <2> DEFINE u == Cardinality(Places(S \cup T, x))
    <2> DEFINE m == Len(c[x])
    <2> DEFINE n == Len(d[x])
    <2>1. m \in Nat /\ n \in Nat /\ u = m + n - Cardinality({})
      BY <1>1, <1>2, <1>3, <1>4, <1>6
    <2>2. Cardinality({}) = 0
      BY FS_EmptySet
    <2> HIDE DEF u, m, n
    <2>3. u = m + n
      BY <2>1, <2>2
    <2> QED BY <2>3 DEF u, m, n
  <1>8. UNION {ToSet(files[f].own[x]) : f \in S \cup T}
        = (UNION {ToSet(files[f].own[x]) : f \in S}) \cup (UNION {ToSet(files[f].own[x]) : f \in T})
    OBVIOUS
  <1> QED BY <1>1, <1>2, <1>3, <1>4, <1>6, <1>7, <1>8

\* A file is visited: the call for it goes on top of the others, of which the last
\* has nothing less to include than it.
Push(f, callers) ==
    /\ visited' = visited \cup {f}
    /\ stack' = Append(callers, [file |-> f, todo |-> Matches(f), cfg |-> files[f].own])
    /\ UNCHANGED <<files, outcome, config>>

SameCalls(callers, f) ==
    /\ Len(callers) = Len(stack)
    /\ \A k \in 1 .. Len(stack) :
          /\ callers[k].file = stack[k].file /\ callers[k].cfg = stack[k].cfg
          /\ callers[k].todo \subseteq stack[k].todo
          /\ \A p \in stack[k].todo : p \in callers[k].todo \/ SortedFiles[p[2]] = f

LEMMA PushedStack ==
  ASSUME NEW f, NEW callers \in Seq(Frame), stack \in Seq(Frame), SameCalls(callers, f), Push(f, callers),
         [file |-> f, todo |-> Matches(f), cfg |-> files[f].own] \in Frame
  PROVE  /\ Len(stack) \in Nat /\ DOMAIN stack = 1 .. Len(stack)
         /\ DOMAIN stack' = 1 .. Len(stack) + 1 /\ stack' # <<>>
         /\ \A k \in 1 .. Len(stack) : stack'[k] = callers[k]
         /\ stack'[Len(stack) + 1] = [file |-> f, todo |-> Matches(f), cfg |-> files[f].own]
         /\ \A k \in DOMAIN stack' : k \in 1 .. Len(stack) \/ k = Len(stack) + 1
  <1> DEFINE new == [file |-> f, todo |-> Matches(f), cfg |-> files[f].own]
  <1>1. new \in Frame /\ stack' = Append(callers, new) /\ Len(callers) = Len(stack)
    BY DEF Push, SameCalls
  <1> HIDE DEF new
  <1>2. /\ Len(stack) \in Nat /\ DOMAIN stack = 1 .. Len(stack)
        /\ DOMAIN stack' = 1 .. Len(stack) + 1 /\ stack' # <<>>
        /\ \A k \in 1 .. Len(stack) : stack'[k] = callers[k]
        /\ stack'[Len(stack) + 1] = new
    BY <1>1
  <1>3. \A k \in 1 .. Len(stack) + 1 : k \in 1 .. Len(stack) \/ k = Len(stack) + 1
    BY <1>2
  <1> QED BY <1>2, <1>3 DEF new

LEMMA PushedRanked ==
  ASSUME Ranked, NEW f \in File, f \notin visited,
         NEW callers \in Seq(Frame), stack \in Seq(Frame), SameCalls(callers, f), Push(f, callers),
         [file |-> f, todo |-> Matches(f), cfg |-> files[f].own] \in Frame
  PROVE  Ranked'
  <1>1. PICK m \in Nat, rank \in [visited -> Nat] : RankedBy(rank, m)
    BY DEF Ranked
  <1>2. visited' = visited \cup {f} /\ files' = files
    BY DEF Push
  <1>3. PICK new \in [visited' -> Nat] : new = [g \in visited' |-> IF g = f THEN m ELSE rank[g]]
    BY <1>2
  <1>4. new[f] = m /\ \A g \in visited : new[g] = rank[g] /\ rank[g] \in Nat /\ g # f
    BY <1>2, <1>3
  <1>5. \A g : Matches(g)' = Matches(g)
    BY <1>2 DEF Matches
  <1>6. \A g \in visited' : new[g] < m + 1
    BY <1>1, <1>2, <1>4 DEF RankedBy
  <1>7. ASSUME NEW g \in visited', NEW p \in Matches(g)
        PROVE  \/ Pending(g, p)'
               \/ SortedFiles[p[2]] \in visited' /\ new[g] < new[SortedFiles[p[2]]]
    <2>1. CASE g = f
      <3>1. /\ Len(stack) + 1 \in DOMAIN stack'
            /\ stack'[Len(stack) + 1].file = f /\ stack'[Len(stack) + 1].todo = Matches(f)
        BY PushedStack
      <3> QED BY <1>7, <2>1, <3>1 DEF Pending
    <2>2. CASE g \in visited /\ Pending(g, p)
      <3>1. PICK k \in 1 .. Len(stack) : stack[k].file = g /\ p \in stack[k].todo
        BY <2>2, PushedStack DEF Pending
      <3>2. k \in DOMAIN stack' /\ stack'[k].file = g /\ stack'[k].todo = callers[k].todo
        <4>1. k \in 1 .. Len(stack) + 1
          BY PushedStack
        <4> QED BY <3>1, <4>1, PushedStack DEF SameCalls
      <3>3. CASE p \in callers[k].todo
        BY <3>2, <3>3 DEF Pending
      <3>4. CASE SortedFiles[p[2]] = f
        <4>1. rank[g] < m
          BY <1>1, <2>2 DEF RankedBy
        <4> QED BY <1>2, <1>4, <2>2, <3>4, <4>1
      <3> QED BY <3>1, <3>3, <3>4 DEF SameCalls
    <2>3. CASE g \in visited /\ SortedFiles[p[2]] \in visited /\ rank[g] < rank[SortedFiles[p[2]]]
      BY <1>2, <1>4, <2>3
    <2> QED BY <1>1, <1>2, <1>7, <2>1, <2>2, <2>3 DEF RankedBy
  <1>8. RankedBy(new, m + 1)'
    BY <1>5, <1>6, <1>7 DEF RankedBy
  <1>9. m + 1 \in Nat
    OBVIOUS
  <1> QED BY <1>8, <1>9 DEF Ranked

\* As long as the files stay, a call holds what it held.
LEMMA HoldsKept ==
  ASSUME NEW c, NEW S, NEW owner, NEW k, Holds(c, S), files' = files,
         stack'[k].cfg = c, Under(owner, k)' = S
  PROVE  Holds(stack[k].cfg, Under(owner, k))'
  <1>1. \A x : Places(Under(owner, k), x)' = Places(S, x)
    BY DEF Places
  <1>2. \A x : (UNION {ToSet(files[f].own[x]) : f \in Under(owner, k)})' = UNION {ToSet(files[f].own[x]) : f \in S}
    OBVIOUS
  <1>3. (stack[k].cfg)' = c
    OBVIOUS
  <1> QED BY <1>1, <1>2, <1>3 DEF Holds

LEMMA PushedOwned ==
  ASSUME Owned, NEW f \in File, f \notin visited, files[f] \in Content,
         NEW callers \in Seq(Frame), stack \in Seq(Frame), SameCalls(callers, f), Push(f, callers),
         [file |-> f, todo |-> Matches(f), cfg |-> files[f].own] \in Frame
  PROVE  Owned'
  <1>1. PICK owner \in [visited -> DOMAIN stack] : OwnedBy(owner)
    BY DEF Owned
  <1>2. visited' = visited \cup {f} /\ files' = files
    BY DEF Push
  <1>n. PICK n \in Nat : n = Len(stack)
    BY PushedStack
  <1>3. \A g \in visited : owner[g] \in 1 .. n
    BY <1>n, PushedStack
  <1>5. PICK new \in [visited' -> DOMAIN stack'] :
           new = [g \in visited' |-> IF g = f THEN n + 1 ELSE owner[g]]
    <2>1. \A k \in 1 .. n : k \in 1 .. n + 1
      OBVIOUS
    <2>2. n + 1 \in 1 .. n + 1
      OBVIOUS
    <2>3. DOMAIN stack' = 1 .. n + 1
      BY <1>n, PushedStack
    <2> QED BY <1>2, <1>3, <2>1, <2>2, <2>3
  <1>4. new[f] = n + 1 /\ \A g \in visited : new[g] = owner[g] /\ g # f
    BY <1>2, <1>5
  <1>6. ASSUME NEW k \in 1 .. n PROVE Holds(stack[k].cfg, Under(new, k))'
    <2>1. k # n + 1
      OBVIOUS
    <2>2. Under(new, k)' = Under(owner, k)
      BY <1>2, <1>4, <2>1 DEF Under
    <2>3. Holds(stack[k].cfg, Under(owner, k))
      BY <1>1, <1>n, PushedStack DEF OwnedBy
    <2>4. stack'[k].cfg = stack[k].cfg
      BY <1>n, PushedStack DEF SameCalls
    <2> QED BY <1>2, <2>2, <2>3, <2>4, HoldsKept
  <1>7. Holds(stack[n + 1].cfg, Under(new, n + 1))'
    <2>1. \A g \in visited : owner[g] # n + 1
      BY <1>3
    <2>2. Under(new, n + 1)' = {f}
      BY <1>2, <1>4, <2>1 DEF Under
    <2>3. stack'[n + 1].cfg = files[f].own
      BY <1>n, PushedStack
    <2>4. Holds(files[f].own, {f})
      BY HoldsOwn
    <2> QED BY <1>2, <2>2, <2>3, <2>4, HoldsKept
  <1>8. OwnedBy(new)'
    BY <1>n, <1>6, <1>7, PushedStack DEF OwnedBy
  <1> QED BY <1>8 DEF Owned

LEMMA SameFiles ==
  ASSUME files' = files
  PROVE  Reached(MainFile)' = Reached(MainFile) /\ \A f : Matches(f)' = Matches(f)
  BY DEF Reached, IncludesOf, Matches

LEMMA PushedReading ==
  ASSUME Reading, LoadTypes, outcome = "loading", NEW f \in File, f \notin visited,
         f \in Reached(MainFile), stack = <<>> => f = MainFile,
         NEW callers \in Seq(Frame), SameCalls(callers, f), Push(f, callers)
  PROVE  Reading'
  <1>1. /\ \A g \in File : files[g] \in Content
        /\ visited \subseteq Reached(MainFile)
        /\ stack # <<>> => MainFile \in visited
        /\ \A k \in DOMAIN stack : /\ stack[k].file \in visited
                                   /\ stack[k].todo \subseteq Matches(stack[k].file)
        /\ Ranked /\ Owned
    BY DEF Reading
  <1>2. /\ stack \in Seq(Frame)
        /\ [file |-> f, todo |-> Matches(f), cfg |-> files[f].own] \in Frame
    <2>1. files[f] \in Content
      BY <1>1
    <2> QED BY <2>1, OwnType, MatchesType DEF Frame, LoadTypes
  <1>3. visited' = visited \cup {f} /\ UNCHANGED <<files, outcome, config>>
    BY DEF Push
  <1>4. Ranked' /\ Owned'
    BY <1>1, <1>2, PushedRanked, PushedOwned
  <1>5. ASSUME NEW k \in DOMAIN stack'
        PROVE  stack'[k].file \in visited' /\ stack'[k].todo \subseteq Matches(stack'[k].file)
    <2>1. CASE k \in 1 .. Len(stack)
      <3>1. /\ stack'[k].file = stack[k].file /\ stack'[k].todo \subseteq stack[k].todo
            /\ k \in DOMAIN stack
        BY <1>2, <2>1, PushedStack DEF SameCalls
      <3> QED BY <1>1, <1>3, <3>1
    <2>2. CASE k = Len(stack) + 1
      <3>1. stack'[k].file = f /\ stack'[k].todo = Matches(f)
        BY <1>2, <2>2, PushedStack
      <3> QED BY <1>3, <3>1
    <2> QED BY <1>2, <1>5, <2>1, <2>2, PushedStack
  <1>6. MainFile \in visited' /\ stack' # <<>>
    BY <1>1, <1>2, <1>3, PushedStack
  <1>7. visited' \subseteq Reached(MainFile)'
    BY <1>1, <1>3, SameFiles
  <1>8. (\A k \in DOMAIN stack : /\ stack[k].file \in visited
                                 /\ stack[k].todo \subseteq Matches(stack[k].file))'
    BY <1>3, <1>5 DEF Matches
  <1> QED BY <1>1, <1>3, <1>4, <1>6, <1>7, <1>8 DEF Reading

\* The call on top returns to the one below, which merges what it has.
Pop ==
    /\ Len(stack) > 1 /\ Top.todo = {}
    /\ stack' = Append(SubSeq(stack, 1, Len(stack) - 2),
                       [stack[Len(stack) - 1] EXCEPT !.cfg = mergeConfig(@, Top.cfg)])
    /\ UNCHANGED <<files, visited, outcome, config>>

LEMMA PoppedStack ==
  ASSUME stack \in Seq(Frame), Pop, NEW n, n = Len(stack) - 1
  PROVE  /\ n \in Nat \ {0} /\ DOMAIN stack = 1 .. n + 1 /\ DOMAIN stack' = 1 .. n /\ Top = stack[n + 1]
         /\ \A k \in 1 .. n - 1 : stack'[k] = stack[k]
         /\ stack[n].cfg \in Config /\ Top.cfg \in Config
         /\ stack'[n].file = stack[n].file /\ stack'[n].todo = stack[n].todo
         /\ stack'[n].cfg = mergeConfig(stack[n].cfg, Top.cfg)
         /\ stack' # <<>>
  <1>1. n \in Nat \ {0} /\ Len(stack) = n + 1 /\ Len(stack) - 2 = n - 1 /\ n - 1 \in Nat
    BY DEF Pop
  <1>2. DOMAIN stack = 1 .. n + 1 /\ Top = stack[n + 1] /\ n \in 1 .. n + 1 /\ n + 1 \in 1 .. n + 1
    BY <1>1 DEF Top
  <1>3. stack[n] \in Frame /\ stack[n + 1] \in Frame
    BY <1>2
  <1> DEFINE last == [stack[n] EXCEPT !.cfg = mergeConfig(@, Top.cfg)]
  <1> DEFINE rest == SubSeq(stack, 1, n - 1)
  <1>4. stack[n].cfg \in Config /\ Top.cfg \in Config
    BY <1>2, <1>3 DEF Frame
  <1>5. /\ last \in Frame /\ last.file = stack[n].file /\ last.todo = stack[n].todo
        /\ last.cfg = mergeConfig(stack[n].cfg, Top.cfg)
    BY <1>3, <1>4, MergeType DEF Frame
  <1>6. stack' = Append(rest, last)
    BY <1>1 DEF Pop
  <1>7. rest \in Seq(Frame) /\ Len(rest) = n - 1 /\ \A k \in 1 .. n - 1 : rest[k] = stack[k]
    BY <1>1
  <1> HIDE DEF last, rest
  <1>8. Len(stack') = n /\ stack' \in Seq(Frame) /\ stack'[n] = last /\ \A k \in 1 .. n - 1 : stack'[k] = stack[k]
    BY <1>1, <1>5, <1>6, <1>7
  <1> QED BY <1>1, <1>2, <1>4, <1>5, <1>8

LEMMA PoppedRanked == ASSUME stack \in Seq(Frame), Pop, Ranked PROVE Ranked'
  <1>1. PICK m \in Nat, rank \in [visited -> Nat] : RankedBy(rank, m)
    BY DEF Ranked
  <1>2. files' = files /\ visited' = visited
    BY DEF Pop
  <1>3. \A g : Matches(g)' = Matches(g)
    BY <1>2 DEF Matches
  <1> DEFINE n == Len(stack) - 1
  <1>4. ASSUME NEW g, NEW p, Pending(g, p) PROVE Pending(g, p)'
    <2>1. PICK k \in 1 .. n + 1 : stack[k].file = g /\ p \in stack[k].todo
      BY <1>4, PoppedStack DEF Pending
    <2>2. k # n + 1
      BY <2>1, PoppedStack DEF Pop
    <2>3. k \in 1 .. n /\ (k # n => k \in 1 .. n - 1)
      BY <2>1, <2>2, PoppedStack
    <2>4. stack'[k].file = stack[k].file /\ stack'[k].todo = stack[k].todo /\ k \in DOMAIN stack'
      BY <2>3, PoppedStack
    <2> QED BY <2>1, <2>4 DEF Pending
  <1>5. RankedBy(rank, m)'
    BY <1>1, <1>2, <1>3, <1>4 DEF RankedBy
  <1>6. rank \in [visited' -> Nat]
    BY <1>2
  <1> QED BY <1>5, <1>6 DEF Ranked

LEMMA PoppedOwned == ASSUME stack \in Seq(Frame), Pop, Owned PROVE Owned'
  <1>1. PICK owner \in [visited -> DOMAIN stack] : OwnedBy(owner)
    BY DEF Owned
  <1>2. files' = files /\ visited' = visited
    BY DEF Pop
  <1>3. PICK n \in Nat \ {0} : n = Len(stack) - 1
    BY PoppedStack
  <1>4. DOMAIN stack = 1 .. n + 1 /\ DOMAIN stack' = 1 .. n
    BY <1>3, PoppedStack
  <1>5. PICK new \in [visited' -> DOMAIN stack'] :
           new = [g \in visited' |-> IF owner[g] = n + 1 THEN n ELSE owner[g]]
    <2>1. \A k \in 1 .. n + 1 : k # n + 1 => k \in 1 .. n
      OBVIOUS
    <2>2. n \in 1 .. n
      OBVIOUS
    <2>3. \A g \in visited : owner[g] \in 1 .. n + 1
      BY <1>4
    <2> QED BY <1>2, <1>4, <2>1, <2>2, <2>3
  <1>6. \A g \in visited : new[g] = IF owner[g] = n + 1 THEN n ELSE owner[g]
    BY <1>2, <1>5
  <1>7. ASSUME NEW k \in 1 .. n - 1 PROVE Holds(stack[k].cfg, Under(new, k))'
    <2>1. k # n /\ k # n + 1 /\ k \in 1 .. n + 1
      OBVIOUS
    <2>2. Under(new, k)' = Under(owner, k)
      BY <1>2, <1>6, <2>1 DEF Under
    <2>3. Holds(stack[k].cfg, Under(owner, k))
      BY <1>1, <1>4, <2>1 DEF OwnedBy
    <2>4. stack'[k].cfg = stack[k].cfg
      BY <1>3, PoppedStack
    <2> QED BY <1>2, <2>2, <2>3, <2>4, HoldsKept
  <1>8. Holds(stack[n].cfg, Under(new, n))'
    <2>1. n # n + 1 /\ n \in 1 .. n + 1 /\ n + 1 \in 1 .. n + 1
      OBVIOUS
    <2>2. Holds(stack[n].cfg, Under(owner, n)) /\ Holds(stack[n + 1].cfg, Under(owner, n + 1))
      BY <1>1, <1>4, <2>1 DEF OwnedBy
    <2>3. stack[n].cfg \in Config /\ Top.cfg \in Config /\ Top = stack[n + 1]
      BY <1>3, PoppedStack
    <2>4. Under(owner, n) \cap Under(owner, n + 1) = {}
      BY <2>1 DEF Under
    <2>5. Holds(mergeConfig(stack[n].cfg, Top.cfg), Under(owner, n) \cup Under(owner, n + 1))
      BY <2>2, <2>3, <2>4, HoldsMerged
    <2>6. Under(new, n)' = Under(owner, n) \cup Under(owner, n + 1)
      BY <1>2, <1>6, <2>1 DEF Under
    <2>7. stack'[n].cfg = mergeConfig(stack[n].cfg, Top.cfg)
      BY <1>3, PoppedStack
    <2> QED BY <1>2, <2>5, <2>6, <2>7, HoldsKept
  <1>9. \A k \in 1 .. n : k = n \/ k \in 1 .. n - 1
    OBVIOUS
  <1>10. OwnedBy(new)'
    BY <1>4, <1>7, <1>8, <1>9 DEF OwnedBy
  <1> QED BY <1>10 DEF Owned

LEMMA PoppedReading ==
  ASSUME Reading, LoadTypes, outcome = "loading", Pop
  PROVE  Reading'
  <1>1. /\ \A g \in File : files[g] \in Content
        /\ visited \subseteq Reached(MainFile)
        /\ stack # <<>> => MainFile \in visited
        /\ \A k \in DOMAIN stack : /\ stack[k].file \in visited
                                   /\ stack[k].todo \subseteq Matches(stack[k].file)
        /\ Ranked /\ Owned /\ stack \in Seq(Frame)
    BY DEF Reading, LoadTypes
  <1>2. UNCHANGED <<files, visited, outcome, config>>
    BY DEF Pop
  <1>3. Ranked' /\ Owned'
    BY <1>1, PoppedRanked, PoppedOwned
  <1>4. visited' \subseteq Reached(MainFile)'
    BY <1>1, <1>2, SameFiles
  <1>5. stack # <<>> /\ stack' # <<>>
    BY <1>1, PoppedStack DEF Pop
  <1> DEFINE n == Len(stack) - 1
  <1>6. ASSUME NEW k \in DOMAIN stack'
        PROVE  stack'[k].file \in visited' /\ stack'[k].todo \subseteq Matches(stack'[k].file)
    <2>1. k \in DOMAIN stack /\ (k = n \/ k \in 1 .. n - 1)
      BY <1>1, <1>6, PoppedStack
    <2>2. stack'[k].file = stack[k].file /\ stack'[k].todo = stack[k].todo
      BY <1>1, <2>1, PoppedStack
    <2> QED BY <1>1, <1>2, <2>1, <2>2
  <1>7. (\A k \in DOMAIN stack : /\ stack[k].file \in visited
                                 /\ stack[k].todo \subseteq Matches(stack[k].file))'
    BY <1>2, <1>6 DEF Matches
  <1> QED BY <1>1, <1>2, <1>3, <1>4, <1>5, <1>7 DEF Reading

\* A step of the load that does not fail is one of these; EndLoad leaves all but the result.
LEMMA LoadFileReading ==
  ASSUME Reading, LoadTypes, outcome = "loading", NEW f \in File,
         f \in Reached(MainFile), stack = <<>> => f = MainFile,
         NEW callers \in Seq(Frame), SameCalls(callers, f), LoadFile(f, callers)
  PROVE  Reading'
  <1>1. CASE \E why \in {"depth", "circular", "unreadable"} : Failed(why)
    BY <1>1 DEF Failed, Reading
  <1>2. CASE f \notin visited /\ Push(f, callers)
    BY <1>2, PushedReading
  <1> QED BY <1>1, <1>2 DEF LoadFile, Push

LEMMA IncludeReading == ASSUME Reading, LoadTypes, Include PROVE Reading'
  <1>1. outcome = "loading" /\ stack # <<>> /\ stack \in Seq(Frame)
    BY DEF Include, LoadTypes
  <1> DEFINE n == Len(stack)
  <1>2. n \in Nat \ {0} /\ DOMAIN stack = 1 .. n /\ n \in 1 .. n /\ Top = stack[n] /\ stack[n] \in Frame
    BY <1>1 DEF Top
  <1>3. PICK p \in stack[n].todo :
           \/ Failed("open")
           \/ LoadFile(SortedFiles[p[2]], [stack EXCEPT ![Len(stack)].todo = @ \ {p}])
    BY <1>2 DEF Include
  <1>4. CASE Failed("open")
    BY <1>4 DEF Failed, Reading
  <1>5. CASE LoadFile(SortedFiles[p[2]], [stack EXCEPT ![Len(stack)].todo = @ \ {p}])
    <2> DEFINE f == SortedFiles[p[2]]
    <2> DEFINE callers == [stack EXCEPT ![Len(stack)].todo = @ \ {p}]
    <2>1. /\ files[stack[n].file] \in Content /\ stack[n].file \in Reached(MainFile)
          /\ p \in Matches(stack[n].file)
      BY <1>1, <1>2, ReachedFacts, ConfigAssumption DEF Reading
    <2>2. f \in IncludesOf(stack[n].file) /\ f \in File
      BY <2>1, IncludesMatch
    <2>3. f \in Reached(MainFile)
      BY <2>1, <2>2, ReachedFacts, ConfigAssumption
    <2>4. [stack[n] EXCEPT !.todo = @ \ {p}] \in Frame
      BY <1>2 DEF Frame
    <2>5. callers = [stack EXCEPT ![n] = [stack[n] EXCEPT !.todo = @ \ {p}]]
      OBVIOUS
    <2>6. callers \in Seq(Frame) /\ Len(callers) = n
      BY <1>1, <1>2, <2>4, <2>5
    <2>7. ASSUME NEW k \in 1 .. n
          PROVE  /\ callers[k].file = stack[k].file /\ callers[k].cfg = stack[k].cfg
                 /\ callers[k].todo \subseteq stack[k].todo
                 /\ \A q \in stack[k].todo : q \in callers[k].todo \/ SortedFiles[q[2]] = f
      <3>1. CASE k = n
        <4>1. callers[k] = [stack[n] EXCEPT !.todo = @ \ {p}]
          BY <1>2, <2>5, <3>1
        <4>2. /\ callers[k].file = stack[n].file /\ callers[k].cfg = stack[n].cfg
              /\ callers[k].todo = stack[n].todo \ {p}
          BY <1>2, <4>1 DEF Frame
        <4> QED BY <3>1, <4>2
      <3>2. CASE k # n
        <4>1. callers[k] = stack[k]
          BY <1>2, <2>5, <3>2
        <4> QED BY <4>1
      <3> QED BY <3>1, <3>2
    <2>8. LoadFile(f, callers)
      BY <1>5
    <2> HIDE DEF callers, f
    <2>9. SameCalls(callers, f)
      BY <2>6, <2>7 DEF SameCalls
    <2> QED BY <1>1, <2>2, <2>3, <2>6, <2>8, <2>9, LoadFileReading
  <1> QED BY <1>3, <1>4, <1>5

LEMMA OwnedKept == ASSUME Owned, UNCHANGED <<files, stack, visited>> PROVE Owned'
  <1>1. PICK owner \in [visited -> DOMAIN stack] : OwnedBy(owner)
    BY DEF Owned
  <1>2. ASSUME NEW k \in DOMAIN stack PROVE Holds(stack[k].cfg, Under(owner, k))'
    <2>1. Holds(stack[k].cfg, Under(owner, k))
      BY <1>1 DEF OwnedBy
    <2>2. Under(owner, k)' = Under(owner, k) /\ stack'[k].cfg = stack[k].cfg
      BY DEF Under
    <2> QED BY <2>1, <2>2, HoldsKept
  <1>3. OwnedBy(owner)'
    BY <1>2 DEF OwnedBy
  <1>4. owner \in [visited' -> DOMAIN stack']
    OBVIOUS
  <1> QED BY <1>3, <1>4 DEF Owned

LEMMA LoadStepReading == ASSUME Reading, LoadTypes, LoadStep PROVE Reading'
  <1>1. CASE LoadMain
    <2>1. outcome = "loading" /\ stack = <<>> /\ LoadFile(MainFile, <<>>)
      BY <1>1 DEF LoadMain
    <2>2. MainFile \in File /\ MainFile \in Reached(MainFile)
      BY ConfigAssumption, ReachedFacts
    <2>3. <<>> \in Seq(Frame) /\ SameCalls(<<>>, MainFile)
      BY <2>1 DEF SameCalls
    <2> QED BY <2>1, <2>2, <2>3, LoadFileReading
  <1>2. CASE Include
    BY <1>2, IncludeReading
  <1>3. CASE Merge
    <2>1. CASE Failed("duplicate")
      BY <2>1 DEF Failed, Reading
    <2>2. CASE ~Failed("duplicate")
      <3>1. outcome = "loading" /\ Len(stack) \in Nat
        BY <1>3 DEF Merge, LoadTypes
      <3>2. Len(stack) - 1 - 1 = Len(stack) - 2
        BY <3>1
      <3>3. Pop
        BY <1>3, <2>2, <3>2 DEF Merge, Pop
      <3> QED BY <3>1, <3>3, PoppedReading
    <2> QED BY <2>1, <2>2
  <1>4. CASE EndLoad
    <2>1. /\ outcome = "loading" /\ Len(stack) = 1 /\ Top.todo = {} /\ config' = Top.cfg
          /\ UNCHANGED <<files, stack, visited>>
      BY <1>4 DEF EndLoad
    <2>2. Ranked' /\ Owned'
      <3>1. Ranked /\ Owned
        BY <2>1 DEF Reading
      <3>2. Ranked'
        BY <2>1, <3>1 DEF Ranked, RankedBy, Pending, Matches
      <3>3. Owned'
        BY <2>1, <3>1, OwnedKept
      <3> QED BY <3>2, <3>3
    <2>3. Reached(MainFile)' = Reached(MainFile) /\ (Top.todo = {})' /\ (config = Top.cfg)'
      BY <2>1, SameFiles DEF Top
    <2>4. (\A k \in DOMAIN stack : /\ stack[k].file \in visited
                                   /\ stack[k].todo \subseteq Matches(stack[k].file))'
      BY <2>1 DEF Reading, Matches
    <2> QED BY <2>1, <2>2, <2>3, <2>4 DEF Reading
  <1> QED BY <1>1, <1>2, <1>3, <1>4 DEF LoadStep

LEMMA ReadingKept == ASSUME Reading, UNCHANGED configVars PROVE Reading'
  <1>1. files' = files /\ stack' = stack /\ visited' = visited /\ outcome' = outcome /\ config' = config
    BY DEF configVars
  <1>2. Ranked => Ranked'
    BY <1>1 DEF Ranked, RankedBy, Pending, Matches
  <1>3. Owned => Owned'
    BY <1>1, OwnedKept
  <1>4. Reached(MainFile)' = Reached(MainFile) /\ Top' = Top
    BY <1>1, SameFiles DEF Top
  <1>5. (\A k \in DOMAIN stack : /\ stack[k].file \in visited
                                 /\ stack[k].todo \subseteq Matches(stack[k].file)) =>
        (\A k \in DOMAIN stack : /\ stack[k].file \in visited
                                 /\ stack[k].todo \subseteq Matches(stack[k].file))'
    BY <1>1 DEF Matches
  <1> QED BY <1>1, <1>2, <1>3, <1>4, <1>5 DEF Reading

LEMMA BeginReading == ASSUME NEW tree \in Trees, BeginLoad(tree) PROVE Reading'
  <1>1. stack' = <<>> /\ visited' = {} /\ outcome' # "loaded" /\ \A f \in File : files'[f] \in Content
    BY ConfigAssumption DEF BeginLoad
  <1>2. Ranked'
    <2>1. PICK rank \in [visited' -> Nat] : TRUE
      <3>1. [f \in visited' |-> 0] \in [visited' -> Nat]
        OBVIOUS
      <3> QED BY <3>1
    <2>2. RankedBy(rank, 0)'
      BY <1>1 DEF RankedBy
    <2>3. 0 \in Nat
      OBVIOUS
    <2> QED BY <2>2, <2>3 DEF Ranked
  <1>3. Owned'
    <2>1. PICK owner \in [visited' -> DOMAIN stack'] : TRUE
      <3>1. [f \in visited' |-> 0] \in [visited' -> DOMAIN stack']
        BY <1>1
      <3> QED BY <3>1
    <2>2. OwnedBy(owner)'
      BY <1>1 DEF OwnedBy
    <2> QED BY <2>2 DEF Owned
  <1> QED BY <1>1, <1>2, <1>3 DEF Reading

LEMMA ReadingInductive == IInv /\ Reading /\ [GeoNext]_geoAll => Reading'
  <1> SUFFICES ASSUME IInv, Reading, [GeoNext]_geoAll PROVE Reading'
    OBVIOUS
  <1>1. CASE StartLoad
    <2>1. PICK tree \in Trees : BeginLoad(tree)
      BY <1>1, GeoAssumption DEF StartLoad
    <2> QED BY <2>1, BeginReading
  <1>2. CASE ReadFiles
    BY <1>2, LoadStepReading DEF ReadFiles, IInv
  <1>3. ASSUME LoadOver PROVE Reading'
    BY <1>3 DEF LoadOver, Reading
  <1>4. CASE GiveUp \/ initializeGeoResolver \/ Reload \/ Exit
    BY <1>3, <1>4 DEF GiveUp, initializeGeoResolver, Reload, Exit
  <1>5. ASSUME NEW c \in Cidr, NEW r \in Region, AddMapping(c, r) PROVE Reading'
    BY <1>5, ReadingKept DEF AddMapping
  <1>6. ASSUME NEW c \in Cidr, DeleteMapping(c) PROVE Reading'
    BY <1>6, ReadingKept DEF DeleteMapping
  <1>7. CASE UNCHANGED geoAll
    BY <1>7, ReadingKept DEF geoAll
  <1> QED BY <1>1, <1>2, <1>4, <1>5, <1>6, <1>7 DEF GeoNext

\* At the end all that is reached was visited, and the order of visits has no cycle.
LEMMA ReadingComplete == ASSUME IInv, Reading PROVE LoadedComplete
  <1> SUFFICES ASSUME outcome = "loaded" PROVE LoadedComplete
    BY DEF LoadedComplete
  <1>1. /\ \A f \in File : files[f] \in Content
        /\ visited \subseteq Reached(MainFile) /\ visited \subseteq File
        /\ stack # <<>> => MainFile \in visited
        /\ Ranked /\ Owned
        /\ Len(stack) = 1 /\ Top.todo = {} /\ config = Top.cfg /\ stack \in Seq(Frame)
    BY DEF Reading, IInv, LoadTypes
  <1>2. DOMAIN stack = {1} /\ Top = stack[1] /\ stack # <<>>
    BY <1>1 DEF Top
  <1>3. PICK m \in Nat, rank \in [visited -> Nat] : RankedBy(rank, m)
    BY <1>1 DEF Ranked
  <1>4. ASSUME NEW f \in visited, NEW g \in IncludesOf(f)
        PROVE  g \in visited /\ rank[f] < rank[g]
    <2>1. PICK p \in Matches(f) : SortedFiles[p[2]] = g
      BY <1>1, <1>4, IncludesMatch
    <2>2. ~Pending(f, p)
      BY <1>1, <1>2 DEF Pending
    <2> QED BY <1>3, <2>1, <2>2 DEF RankedBy
  <1>5. Reached(MainFile) = visited
    <2>1. MainFile \in visited /\ MainFile \in File
      BY <1>1, <1>2, ConfigAssumption
    <2>2. Reached(MainFile) \subseteq visited
      BY <1>1, <1>4, <2>1, ReachedFacts
    <2> QED BY <1>1, <2>2
  <1>6. ASSUME NEW f \in visited, NEW g \in IncludesOf(f) PROVE f \notin Reached(g)
    <2> DEFINE S == {h \in visited : rank[g] <= rank[h]}
    <2>1. g \in visited /\ rank[f] < rank[g] /\ rank[f] \in Nat /\ rank[g] \in Nat
      BY <1>4, <1>6
    <2>2. S \in SUBSET File /\ g \in S
      BY <1>1, <2>1
    <2>3. ASSUME NEW h \in S, NEW i \in IncludesOf(h) PROVE i \in S
      <3>1. i \in visited /\ rank[h] < rank[i]
        BY <1>4, <2>3
      <3>2. rank[h] \in Nat /\ rank[i] \in Nat /\ rank[g] <= rank[h]
        BY <2>3, <3>1
      <3> QED BY <2>1, <3>1, <3>2
    <2>4. f \notin S
      BY <2>1
    <2>5. g \in File
      BY <1>1, <2>1
    <2> HIDE DEF S
    <2>6. Reached(g) \subseteq S
      BY <2>2, <2>3, <2>5, ReachedFacts
    <2> QED BY <2>4, <2>6
  <1>7. Holds(config, visited)
    <2>1. PICK owner \in [visited -> DOMAIN stack] : OwnedBy(owner)
      BY <1>1 DEF Owned
    <2>2. Under(owner, 1) = visited
      BY <1>2, <2>1 DEF Under
    <2> QED BY <1>1, <1>2, <2>1, <2>2 DEF OwnedBy
  <1> QED BY <1>5, <1>6, <1>7 DEF LoadedComplete, Holds

\* A load that loadWithIncludes ends without an error has followed every include, has met
\* no cycle, and has merged each file once: for any files, patterns, order of names and
\* depth, nothing is lost or counted twice.
THEOREM NothingLost == GeoSpec => []LoadedComplete
  <1>1. GeoInit => Reading
    BY DEF GeoInit, Reading
  <1>2. IInv /\ Reading => LoadedComplete
    BY ReadingComplete
  <1> QED BY <1>1, <1>2, Initially, Inductive, ReadingInductive, PTL DEF GeoSpec

=============================================================================

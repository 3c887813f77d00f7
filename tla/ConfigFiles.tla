----------------------------- MODULE ConfigFiles -----------------------------
(***************************************************************************)
(* How the configuration is read (pkg/config): the main file and what it   *)
(* includes, depth first, merged into one (includes.go), and what the      *)
(* validator would say of it (validator.go).  The program loads, and does  *)
(* not validate; only the command-line client calls Validate.              *)
(*                                                                         *)
(* The mode is overwatch.  A region or a domain is its name: what its      *)
(* section says is a constant, except for where it stands.  Backends of an *)
(* agent are merged like mappings, so they are left out; so are agent      *)
(* tokens, which nothing reads, and the scalar sections, which are the     *)
(* main file's and are taken to be in order.                               *)
(***************************************************************************)
EXTENDS Integers, FiniteSets, SequencesExt

CONSTANTS
    File,             \* the names of the files
    MainFile,         \* the one given with --config
    SortedFiles,      \* all of them in the order of sort.Strings
    MaxIncludeDepth,
    Region,           \* the names of regions
    Domain,           \* the names of domains
    Cidr,             \* CIDR strings, as an operator may write them
    Trees,            \* what may be on the disk: a content for every file
    Services,         \* Region -> the domains its servers belong to
    RegionsOf,        \* Domain -> the regions it lists
    GeoDomain,        \* the domains that route by geolocation
    ValidCidr,        \* the strings that net.ParseCIDR accepts
    DefaultRegion     \* geolocation.default_region

Mapping == [cidr : Cidr, region : Region]

\* A configuration.  What matters of a file is its own part of one, the patterns it
\* includes, each as the set of files it matches, and whether the file is "good",
\* "open" (world-writable) or "broken" (unreadable, or no YAML).
Config == [regions : Seq(Region), domains : Seq(Domain), mappings : Seq(Mapping)]

Content == [own : Config, includes : Seq(SUBSET File), state : {"good", "open", "broken"}]

NoConfig == [regions |-> <<>>, domains |-> <<>>, mappings |-> <<>>]

ASSUME ConfigAssumption ==
    /\ MainFile \in File
    /\ ToSet(SortedFiles) = File /\ IsInjective(SortedFiles)
    /\ MaxIncludeDepth \in Nat
    /\ \A tree \in Trees : \A f \in File : tree[f] \in Content
    /\ Services \in [Region -> SUBSET Domain]
    /\ RegionsOf \in [Domain -> SUBSET Region]
    /\ GeoDomain \subseteq Domain /\ ValidCidr \subseteq Cidr
    /\ DefaultRegion \in Region

VARIABLES
    files,    \* the files, as they are while they are read
    stack,    \* the calls of loadWithIncludes: file, files still to include, config
    visited,  \* includeContext.visited
    outcome,  \* "idle", "loading", "loaded", or why the load failed
    config    \* the result of the last load that succeeded

configVars == <<files, stack, visited, outcome, config>>

NoFiles == <<>>

-----------------------------------------------------------------------------
(* One file *)

\* What the patterns of f match: the places of a pattern and of a file, in their lists.
Matches(f) ==
    {p \in (DOMAIN files[f].includes) \X (DOMAIN SortedFiles) :
        SortedFiles[p[2]] \in files[f].includes[p[1]]}

\* Patterns are taken in their order, and the files of one in the order of their names.
IsNext(p, todo) ==
    /\ p \in todo
    /\ \A q \in todo : p[1] < q[1] \/ (p[1] = q[1] /\ p[2] <= q[2])

Failed(why) ==
    /\ outcome' = why
    /\ stack' = <<>> /\ visited' = {} /\ files' = NoFiles
    /\ UNCHANGED config

\* loadWithIncludes up to its first include, called by the last of callers.  visited only
\* grows: the second include of a file is an error, whether or not it closes a cycle.
LoadFile(f, callers) ==
    \/ /\ Len(stack) > MaxIncludeDepth
       /\ Failed("depth")
    \/ /\ Len(stack) <= MaxIncludeDepth
       /\ f \in visited
       /\ Failed("circular")
    \/ /\ Len(stack) <= MaxIncludeDepth
       /\ f \notin visited
       /\ files[f].state = "broken"
       /\ Failed("unreadable")
    \/ /\ Len(stack) <= MaxIncludeDepth
       /\ f \notin visited
       /\ files[f].state # "broken"
       /\ visited' = visited \cup {f}
       /\ stack' = Append(callers, [file |-> f, todo |-> Matches(f), cfg |-> files[f].own])
       /\ UNCHANGED <<files, outcome, config>>

Top == stack[Len(stack)]

-----------------------------------------------------------------------------
(* The load *)

\* checkConfigPermissions looks at the main file before it is read.
BeginLoad(tree) ==
    /\ outcome = "idle"
    /\ files' = tree
    /\ stack' = <<>> /\ visited' = {}
    /\ outcome' = IF tree[MainFile].state = "open" THEN "open" ELSE "loading"
    /\ UNCHANGED config

LoadMain ==
    /\ outcome = "loading"
    /\ stack = <<>>
    /\ LoadFile(MainFile, <<>>)

\* The next file of processIncludePattern.
Include ==
    /\ outcome = "loading"
    /\ stack # <<>>
    /\ \E p \in Top.todo :
          /\ IsNext(p, Top.todo)
          /\ LET f == SortedFiles[p[2]]
             IN  \/ /\ files[f].state = "open"
                    /\ Failed("open")
                 \/ /\ files[f].state # "open"
                    /\ LoadFile(f, [stack EXCEPT ![Len(stack)].todo = @ \ {p}])

Overlap(s, t) == ToSet(s) \cap ToSet(t) # {}

\* The names mergeConfig refuses.
Conflict(main, included) ==
    \/ Overlap(main.regions, included.regions)
    \/ Overlap(main.domains, included.domains)

\* Faulty: the mappings of an included file replace those read before.
MergeLast(main, included) ==
    [regions  |-> main.regions \o included.regions,
     domains  |-> main.domains \o included.domains,
     mappings |-> IF included.mappings = <<>> THEN main.mappings ELSE included.mappings]

mergeConfig(main, included) ==
    [regions  |-> main.regions \o included.regions,
     domains  |-> main.domains \o included.domains,
     mappings |-> main.mappings \o included.mappings]

\* An included file and all that it includes are read: it goes into its includer.
Merge ==
    /\ outcome = "loading"
    /\ Len(stack) > 1 /\ Top.todo = {}
    /\ LET n == Len(stack) - 1
       IN  \/ /\ Conflict(stack[n].cfg, Top.cfg)
              /\ Failed("duplicate")
           \/ /\ ~Conflict(stack[n].cfg, Top.cfg)
              /\ stack' = Append(SubSeq(stack, 1, n - 1),
                                 [stack[n] EXCEPT !.cfg = mergeConfig(@, Top.cfg)])
              /\ UNCHANGED <<files, visited, outcome, config>>

\* The main file has all its includes.
EndLoad ==
    /\ outcome = "loading"
    /\ Len(stack) = 1 /\ Top.todo = {}
    /\ config' = Top.cfg
    /\ outcome' = "loaded"
    /\ UNCHANGED <<files, stack, visited>>

LoadStep == LoadMain \/ Include \/ Merge \/ EndLoad

\* The files are the operator's again.
LoadOver ==
    /\ outcome' = "idle"
    /\ files' = NoFiles /\ stack' = <<>> /\ visited' = {}

-----------------------------------------------------------------------------
(* The validator *)

validateRegions(c) ==
    /\ IsInjective(c.regions)
    /\ \A r \in ToSet(c.regions) : Services[r] # {}

validateDomains(c) ==
    /\ IsInjective(c.domains)
    /\ \A d \in ToSet(c.domains) : RegionsOf[d] # {} /\ RegionsOf[d] \subseteq ToSet(c.regions)

validateServerServiceReferences(c) ==
    \A r \in ToSet(c.regions) : Services[r] \subseteq ToSet(c.domains)

\* Faulty: nobody asks whether the default region exists.
validateMappingsOnly(c) ==
    ToSet(c.domains) \cap GeoDomain # {} =>
        \A m \in ToSet(c.mappings) : m.cidr \in ValidCidr /\ m.region \in ToSet(c.regions)

validateGeolocation(c) ==
    ToSet(c.domains) \cap GeoDomain # {} =>
        /\ DefaultRegion \in ToSet(c.regions)
        /\ \A m \in ToSet(c.mappings) : m.cidr \in ValidCidr /\ m.region \in ToSet(c.regions)

Validate(c) ==
    /\ validateRegions(c)
    /\ validateDomains(c)
    /\ validateServerServiceReferences(c)
    /\ validateGeolocation(c)

-----------------------------------------------------------------------------
(* Properties *)

IncludesOf(f) == UNION ToSet(files[f].includes)

\* The files that a path of includes leads to, f itself among them: those in every set
\* that has f and, with a file, all that it includes.
Reached(f) ==
    {g \in File : \A S \in SUBSET File :
        (f \in S /\ \A h \in S : IncludesOf(h) \subseteq S) => g \in S}

Section == {"regions", "domains", "mappings"}

\* What a section of the files of S lists: the places in the lists of these files.
Places(S, x) == UNION {{f} \X DOMAIN files[f].own[x] : f \in S}

\* A load that succeeds (includes.go) has read every file that includes lead to, from
\* a graph without a cycle, and each of them once: the configuration has as many
\* regions, domains and mappings as these files have together, and the same ones.
LoadedComplete ==
    outcome = "loaded" =>
        LET reached == Reached(MainFile)
        IN  /\ \A f \in reached : \A g \in IncludesOf(f) : f \notin Reached(g)
            /\ \A x \in Section :
                  /\ Len(config[x]) = Cardinality(Places(reached, x))
                  /\ ToSet(config[x]) = UNION {ToSet(files[f].own[x]) : f \in reached}

=============================================================================

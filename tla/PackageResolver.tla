---------------------------- MODULE PackageResolver ----------------------------
(***************************************************************************)
(* SimpleApiPackageResolver of packageResolver.js: the depth-first search  *)
(* for a set of packages that satisfies requirements, their extras and     *)
(* the dependencies these bring, and the reference it is held against.     *)
(*                                                                         *)
(* The recursion of #search is an explicit trail of choice points. Version *)
(* and marker expressions are abstracted to what they accept: a            *)
(* requirement allows a set of versions, and holds always, never in this   *)
(* environment, or under one extra. A version is one wheel.                *)
(***************************************************************************)
EXTENDS Naturals, Sequences, FiniteSets, SequencesExt

CONSTANTS
    Names,        \* projects
    Versions,     \* versions, newer ones greater
    Prereleases,  \* those of them that are prereleases
    Extras,
    Registries    \* what Init chooses from: [indexes, depends, barred, policy, roots]

ASSUME VersionAssumption == Versions \subseteq Nat /\ Prereleases \subseteq Versions

\* A requirement: of any project, and its marker holds always, never or under an extra.
Requirements ==
    [name : Names, allows : SUBSET Versions, extras : SUBSET Extras,
     when : Extras \cup {"always", "never"}]

ASSUME RegistryAssumption ==
    \A r \in Registries :
        /\ r.roots \in Seq(Requirements)
        /\ \A i \in DOMAIN r.indexes : \A n \in DOMAIN r.indexes[i] : \A v \in r.indexes[i][n] :
               v \in Versions /\ r.depends[<<n, v>>] \in Seq(Requirements)

VARIABLES
    registry,   \* indexes: per index the files of each project it owns; depends: the
                \* dependencies of a wheel; barred: wheels that are yanked or do not
                \* fit this Python; policy: for prereleases; roots: what is asked for
    search,     \* [pending, selected, expanded]: the arguments of #search
    trail,      \* the choice points above it, the outermost first
    outcome     \* "searching", "backtracking", or what resolve() came to

searchVars == <<registry, search, trail, outcome>>

NoPackages == [n \in {} |-> 0]

SearchInit ==
    /\ registry \in Registries
    /\ search = [pending |-> registry.roots, selected |-> NoPackages, expanded |-> NoPackages]
    /\ trail = <<>>
    /\ outcome = "searching"

-----------------------------------------------------------------------------
(* What the index offers, and what a wheel depends on *)

Holds(req, extras) == req.when = "always" \/ req.when \in extras

\* dependencyRequirements: the marker of a dependency is decided here, for good. One
\* that does not hold is left in the list and passed over when its turn comes.
Dependencies(n, v, extras) ==
    LET depends == registry.depends[<<n, v>>]
    IN  [k \in 1 .. Len(depends) |->
            [depends[k] EXCEPT !.when = IF Holds(depends[k], extras) THEN "always" ELSE "never"]]

OwnersOf(n) == {i \in DOMAIN registry.indexes : n \in DOMAIN registry.indexes[i]}

\* #simpleProject: the first index that owns the project is the only one that counts.
Usable(n) ==
    {v \in Versions :
        /\ \E first \in OwnersOf(n) :
              (\A i \in OwnersOf(n) : first <= i) /\ v \in registry.indexes[first][n]
        /\ <<n, v>> \notin registry.barred
        /\ registry.policy = "forbid" => v \notin Prereleases}

\* explicitlyRequestsPrerelease: an exact pin.
Pinned(req, v) == req.allows = {v}

Candidates(req) ==
    {v \in Usable(req.name) \cap req.allows : v \in Prereleases => Pinned(req, v)}

-----------------------------------------------------------------------------
(* #search *)

Asked == Head(search.pending)
Rest == Tail(search.pending)
Searching == outcome = "searching" /\ search.pending # <<>>
IsSelected(n) == n \in DOMAIN search.selected
Fails == outcome' = "backtracking" /\ UNCHANGED <<registry, search, trail>>
Continues(next) == search' = next /\ outcome' = "searching" /\ UNCHANGED registry

SkipByMarker ==
    /\ Searching /\ ~Holds(Asked, {})
    /\ Continues([search EXCEPT !.pending = Rest]) /\ UNCHANGED trail

Refuse ==
    /\ Searching /\ Holds(Asked, {}) /\ IsSelected(Asked.name)
    /\ search.selected[Asked.name] \notin Asked.allows
    /\ Fails

\* A plausible defect: extras that were expanded before are expanded again.
ReuseExpandsAgain ==
    LET n == Asked.name IN
    /\ Searching /\ Holds(Asked, {}) /\ IsSelected(n)
    /\ search.selected[n] \in Asked.allows
    /\ Continues([search EXCEPT
            !.pending = (IF Asked.extras = {} THEN <<>>
                         ELSE Dependencies(n, search.selected[n], Asked.extras)) \o Rest,
            !.expanded[n] = @ \cup Asked.extras])
    /\ UNCHANGED trail

\* The package is already there: only extras that are new bring dependencies.
Reuse ==
    LET n == Asked.name
        new == Asked.extras \ search.expanded[n]
    IN
    /\ Searching /\ Holds(Asked, {}) /\ IsSelected(n)
    /\ search.selected[n] \in Asked.allows
    /\ Continues([search EXCEPT
            !.pending = (IF new = {} THEN <<>> ELSE Dependencies(n, search.selected[n], new)) \o Rest,
            !.expanded[n] = @ \cup new])
    /\ UNCHANGED trail

Choose ==
    /\ Searching /\ Holds(Asked, {}) /\ ~IsSelected(Asked.name)
    /\ OwnersOf(Asked.name) # {}
    /\ trail' = Append(trail, [asked |-> Asked, left |-> Candidates(Asked), from |-> search])
    /\ outcome' = "backtracking"
    /\ UNCHANGED <<registry, search>>

\* A project that no index owns ends the whole search, not the branch.
MissingProject ==
    /\ Searching /\ Holds(Asked, {}) /\ ~IsSelected(Asked.name)
    /\ OwnersOf(Asked.name) = {}
    /\ outcome' = "noProject" /\ UNCHANGED <<registry, search, trail>>

With(f, n, x) == [m \in DOMAIN f \cup {n} |-> IF m = n THEN x ELSE f[m]]

\* A plausible defect: one map of expanded extras for the whole search, not one per branch.
TryCandidateSharesExtras ==
    LET top == trail[Len(trail)]
        n == top.asked.name
    IN
    /\ outcome = "backtracking" /\ trail # <<>>
    /\ \E v \in top.left :
         /\ \A w \in top.left : v >= w
         /\ trail' = [trail EXCEPT ![Len(trail)].left = @ \ {v}]
         /\ Continues([pending |-> Dependencies(n, v, top.asked.extras) \o Tail(top.from.pending),
                       selected |-> With(top.from.selected, n, v),
                       expanded |-> With(search.expanded, n, top.asked.extras)])

\* The loop over candidates, newest first: each is tried on copies of the maps of its
\* choice point.
TryCandidate ==
    LET top == trail[Len(trail)]
        n == top.asked.name
    IN
    /\ outcome = "backtracking" /\ trail # <<>>
    /\ \E v \in top.left :
         /\ \A w \in top.left : v >= w
         /\ trail' = [trail EXCEPT ![Len(trail)].left = @ \ {v}]
         /\ Continues([pending |-> Dependencies(n, v, top.asked.extras) \o Tail(top.from.pending),
                       selected |-> With(top.from.selected, n, v),
                       expanded |-> With(top.from.expanded, n, top.asked.extras)])

\* A plausible defect: the newest candidate decides.
GiveUpAtOnce ==
    /\ outcome = "backtracking" /\ trail # <<>>
    /\ trail' = Front(trail)
    /\ UNCHANGED <<registry, search, outcome>>

GiveUp ==
    /\ outcome = "backtracking" /\ trail # <<>> /\ trail[Len(trail)].left = {}
    /\ trail' = Front(trail)
    /\ UNCHANGED <<registry, search, outcome>>

\* resolve: nothing is pending, or no choice is left.
Lock ==
    /\ outcome = "searching" /\ search.pending = <<>>
    /\ outcome' = "locked" /\ UNCHANGED <<registry, search, trail>>

Conflict ==
    /\ outcome = "backtracking" /\ trail = <<>>
    /\ outcome' = "conflict" /\ UNCHANGED <<registry, search, trail>>

SearchNext ==
    \/ SkipByMarker \/ Refuse \/ Reuse \/ Choose \/ MissingProject
    \/ TryCandidate \/ GiveUp \/ Lock \/ Conflict

\* Every request of the search is answered or fails it.
SearchSpec == SearchInit /\ [][SearchNext]_searchVars /\ WF_searchVars(SearchNext)

-----------------------------------------------------------------------------
(* The reference: what a right selection is, with no search in it *)

Satisfied(req, selected, expanded) ==
    /\ req.name \in DOMAIN selected
    /\ selected[req.name] \in req.allows
    /\ req.extras \subseteq expanded[req.name]

\* Everything asked for, and everything the selected wheels ask for in turn.
Demanded(selected, expanded) ==
    {req \in ToSet(registry.roots)
             \cup UNION {ToSet(Dependencies(n, selected[n], expanded[n])) : n \in DOMAIN selected} :
        Holds(req, {})}

Closed(selected, expanded) ==
    \A req \in Demanded(selected, expanded) : Satisfied(req, selected, expanded)

Offered(selected) == \A n \in DOMAIN selected : OwnersOf(n) # {} /\ selected[n] \in Usable(n)

Restricted(f, S) == [n \in S |-> f[n]]

\* packageResolver.js:494 (#search): a lock is complete and holds nothing that is not
\* needed: every requirement of the roots, of the selected wheels and of their extras
\* is met by the version selected, and neither a package nor an extra can be taken away.
SelectionIsRight ==
    outcome = "locked" =>
        LET selected == search.selected
            expanded == search.expanded
        IN
        /\ Offered(selected) /\ Closed(selected, expanded)
        /\ \A S \in SUBSET DOMAIN selected :
               \A less \in [S -> SUBSET Extras] :
                   (\A n \in S : less[n] \subseteq expanded[n])
                   /\ Closed(Restricted(selected, S), less)
                   => S = DOMAIN selected /\ less = expanded

\* packageResolver.js:535 ("Package dependency conflict"): it is reported only when no
\* selection of usable wheels is right. Prereleases that are admitted by an exact pin
\* are exempt: they depend on which requirement of a project is met first.
ConflictIsReal ==
    outcome = "conflict" /\ registry.policy = "forbid" =>
        \A S \in SUBSET Names :
            \A selected \in [S -> Versions], expanded \in [S -> SUBSET Extras] :
                ~(Offered(selected) /\ Closed(selected, expanded))

\* packageResolver.js:505 (newExtras): packages that depend on one another, or on their
\* own extras, do not keep the search going for ever.
SearchEnds == <>(outcome \in {"locked", "conflict", "noProject"})

=============================================================================

--------------------------- MODULE MCPackageResolver ---------------------------
(***************************************************************************)
(* Registries of three projects with two versions each (one has a          *)
(* prerelease as well) and a fourth name nobody owns. Wheels depend on one  *)
(* another in every combination of a small pool: alternatives, pins that   *)
(* conflict, extras that bring dependencies or ask for themselves, cycles. *)
(***************************************************************************)
EXTENDS PackageResolver

MCNames == {"a", "b", "c", "lost"}
MCVersions == {1, 2, 3}
MCPrereleases == {3}
MCExtras == {"x"}

On(n, allows) == [name |-> n, allows |-> allows, extras |-> {}, when |-> "always"]
Extra(n, allows) == [On(n, allows) EXCEPT !.extras = {"x"}]
If(marker, req) == [req EXCEPT !.when = marker]
AnyOf == MCVersions

PoolA == {<<>>, <<On("b", {2}), Extra("c", AnyOf)>>, <<On("c", {1})>>, <<If("never", On("lost", AnyOf))>>}
PoolB == {<<>>, <<Extra("c", AnyOf), On("c", {1})>>, <<Extra("c", AnyOf)>>, <<On("a", {1}), On("c", {3})>>}
PoolC == {<<If("x", On("a", AnyOf))>>, <<If("x", On("b", {1})), If("x", Extra("c", AnyOf))>>,
          <<If("x", On("lost", AnyOf))>>}

Files == [a |-> {1, 2}, b |-> {1, 2}, c |-> {1, 2, 3}]
Mirror == [c |-> {1}]

Wheels == {<<n, v>> \in {"a", "b", "c"} \X MCVersions : v \in Files[n]}
Newest == <<"c", 3>>

MCRegistries ==
    {[indexes |-> indexes, barred |-> barred, policy |-> policy, roots |-> roots,
      depends |-> [w \in Wheels |-> IF w = Newest THEN <<>> ELSE
                      IF w[1] = "a" THEN (IF w[2] = 1 THEN a1 ELSE a2)
                      ELSE IF w[1] = "b" THEN (IF w[2] = 1 THEN b1 ELSE b2)
                      ELSE IF w[2] = 1 THEN c1 ELSE c2]] :
        <<indexes, barred, policy>> \in {<< <<Files>>, {}, "forbid">>, << <<Files>>, {}, "explicit">>,
                                          << <<Mirror, Files>>, {<<"b", 2>>}, "forbid">>},
        roots \in {<<On("c", AnyOf), On("b", AnyOf)>>, <<On("a", AnyOf), Extra("c", {2, 3})>>,
                   <<On("a", {1}), On("b", AnyOf), If("never", On("lost", AnyOf))>>},
        a1 \in PoolA, a2 \in PoolA, b1 \in PoolB, b2 \in PoolB, c1 \in PoolC, c2 \in PoolC}

=============================================================================

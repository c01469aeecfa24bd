---------------------------- MODULE MCGovernance ----------------------------
EXTENDS Governance, Scopes, TLC

CONSTANTS root, mine, secret, merge,  \* commits: mine and secret are merged
          main, feat, wip             \* branches

MCRefs == {main, feat, wip}
MCCommits == {root, mine, secret, merge}
MCReach == (root :> {root}) @@ (mine :> {root, mine})
  @@ (secret :> {root, secret}) @@ (merge :> MCCommits)

MCPaths == {"a/a", "a/A"}
MCTouches == (root :> {}) @@ (mine :> {"a/a"}) @@ (secret :> {"a/A"}) @@ (merge :> {})

MCGlobs == {"**/a", "a/[!a]"}
Spelling ==
  ("a/a" :> <<"a", "/", "a">>) @@ ("a/A" :> <<"a", "/", "A">>)
  @@ ("**/a" :> <<"**", "/", "a">>) @@ ("a/[!a]" :> <<"a", "/", "[!a]">>)
MCCovers == {<<"a/a", "**/a">>, <<"a/A", "a/[!a]">>}

(* What covers what here is what the matcher says. *)
ASSUME CoversAssumption ==
  MCCovers = {c \in MCPaths \X MCGlobs : Matches(Spelling[c[2]], Spelling[c[1]])}

MCClaimable == (main :> {}) @@ (feat :> {{"**/a"}}) @@ (wip :> {})
(* feat is new, or holds work of an earlier owner. *)
MCHubs == {(main :> root) @@ (feat :> old) @@ (wip :> Zero) : old \in {Zero, secret}}
MCPushable ==
  (main :> {mine, secret}) @@ (feat :> {merge, secret, Zero}) @@ (wip :> {secret})
MCRules == [refs |-> {wip}, paths |-> {"a/[!a]"}]
Sym == Permutations(Updates)

(* The overlap test of scopes, over all bounded globs and paths *)
ASSUME OverlapAssumption == OverlapIsConservative
=============================================================================

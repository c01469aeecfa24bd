------------------------------- MODULE Scopes -------------------------------
(***************************************************************************)
(* Scopes and protected paths (src/quorumgit/work.py, scope comparison):   *)
(* when a glob covers a path, and when two scopes count as overlapping.    *)
(*                                                                         *)
(* A path is a sequence of characters, a normalized glob of characters and *)
(* wildcards: "[!a]" stands for a negated character class and "[" for a    *)
(* bracket that nothing closes; "a" and "A" are one letter in two cases.   *)
(***************************************************************************)
EXTENDS Naturals, Sequences, SequencesExt

CONSTANTS MaxGlob, MaxPath  \* bounds: the longest glob and path compared

PathSymbols == {"a", "A", "/"}
Wildcards == {"*", "**", "?", "[!a]", "["}
Symbols == PathSymbols \cup Wildcards

ASSUME BoundsAssumption == MaxGlob \in Nat /\ MaxPath \in Nat

(* normalize_scope() leaves no empty component; Git has none in a path. *)
Normal(s) ==
  /\ s # <<>> /\ s[1] # "/" /\ s[Len(s)] # "/"
  /\ \A i \in 1..(Len(s) - 1) : ~(s[i] = "/" /\ s[i + 1] = "/")

(* How the code reads a glob: two stars are one wildcard, and a bracket    *)
(* that is closed further on is a class.                                   *)
AsRead(glob) ==
  /\ \A i \in 1..(Len(glob) - 1) :
       ~(glob[i] = "*" /\ glob[i + 1] \in {"*", "**"})
  /\ \A i, j \in DOMAIN glob : glob[i] = "[" /\ glob[j] = "[!a]" => j < i

----------------------------------------------------------------------------
(* _glob_regex() *)

Class(symbol) ==
  CASE symbol = "?" -> PathSymbols \ {"/"}
    [] symbol = "[!a]" -> PathSymbols \ {"a"}
    [] OTHER -> {symbol}

IsPlain(glob) == \A i \in DOMAIN glob : glob[i] \notin Wildcards

(* The regular expression has one piece for each symbol of the glob; ends   *)
(* says up to where in the path the pieces before and including a symbol    *)
(* match.                                                                   *)
Start(ends, i) == IF i = 1 THEN 0 ELSE ends[i - 1]

(* May the piece of the i-th symbol match what is between? A slash after    *)
(* two stars belongs to their piece, which may match nothing.               *)
Takes(glob, path, ends, i) ==
  LET start == Start(ends, i)
  IN /\ start <= ends[i]
     /\ \/ glob[i] = "**"
        \/ glob[i] = "*" /\ \A x \in (start + 1)..ends[i] : path[x] # "/"
        \/ ends[i] = start + 1 /\ path[ends[i]] \in Class(glob[i])
        \/ i > 1 /\ glob[i] = "/" /\ glob[i - 1] = "**" /\ ends[i] = Start(ends, i - 1)

(* A glob without wildcards also matches everything beneath it. *)
Matches(glob, path) ==
  \E ends \in [DOMAIN glob -> 0..Len(path)] :
    /\ \A i \in DOMAIN glob : Takes(glob, path, ends, i)
    /\ LET end == Start(ends, Len(glob) + 1)
       IN end = Len(path) \/ (IsPlain(glob) /\ path[end + 1] = "/")

----------------------------------------------------------------------------
(* scopes_overlap() *)

Casefold(s) == [i \in DOMAIN s |-> IF s[i] = "A" THEN "a" ELSE s[i]]

GlobPrefix(glob) ==
  LET literal == {i \in 0..Len(glob) : \A j \in 1..i : glob[j] \notin Wildcards}
  IN SubSeq(glob, 1, CHOOSE i \in literal : \A j \in literal : j <= i)

ScopesOverlap(a, b) ==
  LET pa == Casefold(GlobPrefix(a))
      pb == Casefold(GlobPrefix(b))
  IN IsPrefix(pb, pa) \/ IsPrefix(pa, pb)

----------------------------------------------------------------------------
BoundedGlobs == {s \in BoundedSeq(Symbols, MaxGlob) : Normal(s) /\ AsRead(s)}
BoundedPaths == {s \in BoundedSeq(PathSymbols, MaxPath) : Normal(s)}

(* Which globs cover which files, in whatever case a checkout spells them *)
Covering ==
  {<<c[1], Casefold(c[2])>> : c \in {d \in BoundedGlobs \X BoundedPaths : Matches(d[1], d[2])}}

(* Two scopes that cover a common file are flagged as overlapping, with    *)
(* every mix of wildcards and also when they differ in case only: the      *)
(* overlap is decided on the literal prefixes alone, the cover by a        *)
(* regular expression, and a pair missed here is a conflict nobody records.*)
OverlapIsConservative ==
  \A c, d \in Covering : c[2] = d[2] => ScopesOverlap(c[1], d[1])
=============================================================================

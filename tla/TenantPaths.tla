------------------------------ MODULE TenantPaths ------------------------------
(***************************************************************************)
(* How well a path of oidc.tenant-paths fits the path of a request, as     *)
(* path.rs scores it.                                                      *)
(*                                                                         *)
(* A path is the sequence of its segments and whether a slash ends it; "/" *)
(* has no segment and a slash.  Segments are model values, of which only   *)
(* the lengths count.  Star is a segment "*" of a pattern; a "*" inside of *)
(* a segment, in the path of a request, and slashes that follow each other *)
(* are left out.                                                           *)
(***************************************************************************)
EXTENDS Naturals, Sequences

CONSTANTS Star,    \* the segment "*" of a pattern
          Length,  \* the number of characters of each other segment
          Paths    \* paths that requests may have

DifferAt(i, x, y) ==
    /\ Len(y.segments) = Len(x.segments)
    /\ \A j \in DOMAIN x.segments : y.segments[j] = x.segments[j] <=> j # i

(* Other segments can stand where a path has one, and it has parents. *)
ASSUME PathsAssumption ==
    /\ Length \in [DOMAIN Length -> Nat \ {0}] /\ Star \notin DOMAIN Length
    /\ Paths \subseteq [segments : Seq(DOMAIN Length), slash : BOOLEAN]
    /\ \A x \in Paths : \A i \in DOMAIN x.segments :
         /\ \E y \in Paths : DifferAt(i, x, y)
         /\ \E y \in Paths : y.segments = SubSeq(x.segments, 1, i)

(* The characters of the literal segments. *)
Chars(segments) ==
    LET upTo[n \in 0 .. Len(segments)] ==
            IF n = 0 THEN 0
            ELSE upTo[n - 1] + (IF segments[n] = Star THEN 0 ELSE Length[segments[n]])
    IN upTo[Len(segments)]

(* The length of a path without stars as a string. *)
Size(path) ==
    Chars(path.segments) + Len(path.segments) + (IF path.slash THEN 1 ELSE 0)

Everything == [segments |-> <<Star>>, slash |-> FALSE]

WildcardScore(leading, total) == 100 + leading * 1000 + total

(* The path itself, and the path with a slash that the pattern has not. *)
Same(pattern, path) == pattern = path

SameButSlash(pattern, path) ==
    ~pattern.slash /\ path = [pattern EXCEPT !.slash = TRUE]

(* A pattern that ends in a star: all that is under its prefix, and the     *)
(* prefix itself.  A star in the prefix is a character like others here.    *)
PrefixOf(pattern) == SubSeq(pattern.segments, 1, Len(pattern.segments) - 1)

EndsInStar(pattern) ==
    /\ ~pattern.slash /\ pattern.segments # <<>>
    /\ pattern.segments[Len(pattern.segments)] = Star

Under(pattern, path) ==
    LET prefix == PrefixOf(pattern)
    IN /\ EndsInStar(pattern)
       /\ Len(prefix) <= Len(path.segments)
       /\ SubSeq(path.segments, 1, Len(prefix)) = prefix

(* A pattern with stars between: as many segments, and equal ones elsewhere. *)
SegmentsFit(pattern, path) ==
    /\ \E i \in DOMAIN pattern.segments : pattern.segments[i] = Star
    /\ Len(pattern.segments) = Len(path.segments)
    /\ \A i \in DOMAIN pattern.segments :
         pattern.segments[i] \in {Star, path.segments[i]}

FirstStar(segments) ==
    CHOOSE i \in DOMAIN segments :
        /\ segments[i] = Star
        /\ \A j \in 1 .. i - 1 : segments[j] # Star

Leading(pattern) == SubSeq(pattern.segments, 1, FirstStar(pattern.segments) - 1)

Fits(pattern, path) ==
    \/ Same(pattern, path) \/ SameButSlash(pattern, path)
    \/ pattern = Everything
    \/ Under(pattern, path) \/ SegmentsFit(pattern, path)

(* 0 stands for a pattern that does not fit. *)
Score(pattern, path) ==
    LET exact == Same(pattern, path) \/ SameButSlash(pattern, path)
        partly == ~exact /\ pattern # Everything
    IN CASE Same(pattern, path) -> 1000000 + Size(pattern)
         [] ~Same(pattern, path) /\ exact -> 999000 + Size(pattern)
         [] ~exact /\ ~partly -> 1
         [] partly /\ Under(pattern, path) ->
              LET chars == Chars(PrefixOf(pattern)) IN WildcardScore(chars, chars)
         [] partly /\ ~Under(pattern, path) /\ SegmentsFit(pattern, path) ->
              WildcardScore(Chars(Leading(pattern)), Chars(pattern.segments))
         [] OTHER -> 0
=============================================================================

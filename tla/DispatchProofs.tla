---------------------------- MODULE DispatchProofs ----------------------------
(* Proofs about Dispatch, for any applications, tenants, provider answers,   *)
(* tokens, roles and requests: who reaches the handler, that the token of a  *)
(* request decides alone, and that it is of the issuer of its tenant.        *)
EXTENDS Dispatch, WellFoundedInduction, FiniteSetTheorems, TLAPS

-----------------------------------------------------------------------------
(* Natural numbers. *)

LEMMA Least ==
  ASSUME NEW T, T \subseteq Nat, T # {}
  PROVE  \E x \in T : \A y \in T : x <= y
<1>1. PICK x \in T : \A y \in T : <<y, x>> \notin OpToRel(<, Nat)
  BY NatLessThanWellFounded, WFMin
<1>2. \A y \in T : y \in Nat /\ ~(y < x)
  BY <1>1 DEF OpToRel
<1>3. x \in Nat
  OBVIOUS
<1>4. QED
  BY <1>2, <1>3

LEMMA Induction ==
  ASSUME NEW S, 0 \in S, \A n \in Nat : n \in S => n + 1 \in S
  PROVE  \A n \in Nat : n \in S
<1> DEFINE T == {n \in Nat : n \notin S}
<1>1. SUFFICES ASSUME T # {} PROVE FALSE
  OBVIOUS
<1>2. PICK x \in T : \A y \in T : x <= y
  <2>1. T \subseteq Nat
    OBVIOUS
  <2> HIDE DEF T
  <2>2. QED
    BY <1>1, <2>1, Least
<1>3. x \in Nat /\ x # 0
  OBVIOUS
<1>4. x - 1 \in Nat /\ x - 1 \in S
  BY <1>2, <1>3
<1>5. QED
  BY <1>3, <1>4

LEMMA Greatest ==
  ASSUME NEW b \in Nat, NEW S, S \subseteq Nat, S # {}, \A y \in S : y <= b
  PROVE  Max(S) \in S /\ \A y \in S : y <= Max(S)
<1> DEFINE T == {b - i : i \in S}
<1>1. \A i \in S : i \in Nat /\ b - i \in Nat
  OBVIOUS
<1>2. T \subseteq Nat /\ T # {}
  BY <1>1
<1>3. PICK z \in T : \A y \in T : z <= y
  <2> HIDE DEF T
  <2>1. QED
    BY <1>2, Least
<1>4. PICK x \in S : z = b - x
  OBVIOUS
<1>5. ASSUME NEW y \in S PROVE x >= y
  <2>1. z <= b - y
    BY <1>3
  <2>2. QED
    BY <1>1, <1>4, <2>1
<1>6. \E m \in S : \A y \in S : m >= y
  BY <1>5
<1>7. Max(S) \in S /\ \A y \in S : Max(S) >= y
  BY <1>6 DEF Max
<1>8. QED
  BY <1>1, <1>7

-----------------------------------------------------------------------------
(* What the start makes of a configuration. *)

LEMMA BuiltIsTyped ==
  ASSUME NEW c, NEW p
  PROVE  /\ FromConfig(c).chain \in Chains /\ Discovered(c, p).chain \in Chains
         /\ FromConfig(c).idKeys \in {"none", "fixed", "refreshing"}
         /\ Discovered(c, p).idKeys \in {"none", "fixed", "refreshing"}
         /\ FromConfig(c).login \in BOOLEAN /\ Discovered(c, p).login \in BOOLEAN
<1>1. Policy(c) \in {"keys", "introspection", "userinfo"}
  BY DEF Policy
<1>2. Interactive(c) \in BOOLEAN
  BY DEF Interactive
<1>3. /\ PublicKeyVerifier(c).chain \in Chains
      /\ PublicKeyVerifier(c).idKeys \in {"none", "fixed"}
      /\ PublicKeyVerifier(c).login = FALSE
      /\ [PublicKeyVerifier(c) EXCEPT !.login = Interactive(c)].chain \in Chains
      /\ [PublicKeyVerifier(c) EXCEPT !.login = Interactive(c)].idKeys \in {"none", "fixed"}
      /\ [PublicKeyVerifier(c) EXCEPT !.login = Interactive(c)].login = Interactive(c)
  BY DEF PublicKeyVerifier, Blank, NoChain, Chains
<1>4. /\ Blank.chain \in Chains /\ Blank.idKeys = "none" /\ Blank.login = FALSE
  BY DEF Blank, NoChain, Chains
<1>5. ChainOf(c, p) \in Chains
  BY <1>1 DEF ChainOf, Chains, Optional
<1>6. IdKeysOf(c) \in {"none", "fixed", "refreshing"}
  BY DEF IdKeysOf
<1>7. QED
  BY <1>2, <1>3, <1>4, <1>5, <1>6 DEF FromConfig, Discovered

(* An introspection endpoint is a fallback behind keys only. *)
LEMMA FallbackIsBehindKeys ==
  ASSUME NEW c, NEW p
  PROVE  /\ FromConfig(c).chain.fallback => FromConfig(c).chain.first = "keys"
         /\ Discovered(c, p).chain.fallback => Discovered(c, p).chain.first = "keys"
<1>1. ~Blank.chain.fallback /\ ~PublicKeyVerifier(c).chain.fallback
      /\ ~[PublicKeyVerifier(c) EXCEPT !.login = Interactive(c)].chain.fallback
  BY DEF PublicKeyVerifier, Blank, NoChain
<1>2. ChainOf(c, p).fallback => ChainOf(c, p).first = "keys"
  BY DEF ChainOf
<1>3. QED
  BY <1>1, <1>2 DEF FromConfig, Discovered

(* The issuer that the chain of a tenant compares is the configured one. *)
LEMMA IssuerIsConfigured ==
  ASSUME NEW c \in Configurations, NEW p, c.enabled, Discoverable(c, p),
         Discovered(c, p).chain.first \notin {"none", "userinfo"}, ExpectedIssuer(c) # None
  PROVE  Discovered(c, p).issuer = ExpectedIssuer(c)
<1>1. CASE c.publicKey
  BY <1>1 DEF Discovered, PublicKeyVerifier, Blank, NoChain
<1>2. CASE ~c.publicKey
  <2>1. Discovered(c, p).issuer = ChainIssuer(c, p) /\ Policy(c) # "userinfo"
    BY <1>2 DEF Discovered, ChainOf
  <2>2. CASE ~(Policy(c) = "keys" /\ c.discovery)
    BY <2>1, <2>2 DEF ChainIssuer
  <2>3. CASE Policy(c) = "keys" /\ c.discovery
    <3>1. ChainIssuer(c, p) = ExpectedIssuer(WithMetadataIssuer(c, p))
      BY <2>3 DEF ChainIssuer
    <3>2. CASE c.issuer # None
      BY <2>1, <3>1, <3>2 DEF WithMetadataIssuer
    <3>3. CASE c.issuer = None
      <4>1. p.issuer = ServerUrl(c)
        BY <1>2, <2>3 DEF Discoverable, UsesMetadata, Offline, DocumentValid
      <4>2. ExpectedIssuer(c) = c.authServer /\ c.authServer # None /\ c.authServer # AnyIssuer
        BY <3>3 DEF ExpectedIssuer
      <4>3. p.issuer = c.authServer
        BY <4>1, <4>2 DEF ServerUrl
      <4>4. WithMetadataIssuer(c, p).issuer = c.authServer
        BY <3>3, <4>3 DEF WithMetadataIssuer, Configurations
      <4>5. QED
        BY <2>1, <3>1, <4>2, <4>4 DEF ExpectedIssuer
    <3>4. QED
      BY <3>2, <3>3
  <2>4. QED
    BY <2>2, <2>3
<1>3. QED
  BY <1>1, <1>2

-----------------------------------------------------------------------------
(* Selection. *)

LEMMA Extrema ==
  ASSUME NEW n \in Nat, NEW S, S \subseteq 1 .. n, S # {}
  PROVE  Min(S) \in S /\ Max(S) \in S
<1>1. S \subseteq Nat /\ \A y \in S : y <= n
  OBVIOUS
<1>2. \E x \in S : \A y \in S : x <= y
  BY <1>1, Least
<1>3. QED
  BY <1>1, <1>2, Greatest DEF Min

(* Whatever a request looks like, it selects a tenant that is installed. *)
LEMMA SelectionIsInstalled ==
  ASSUME NEW a, NEW r, a.order \in Seq(Range(a.order))
  PROVE  Select(a, r) \in Installed(a) \cup {None}
<1>1. Len(a.order) \in Nat /\ DOMAIN a.order = 1 .. Len(a.order)
  OBVIOUS
<1>2. \A i \in DOMAIN a.order : a.order[i] \in Installed(a)
  BY DEF Installed, Range
<1>3. /\ ByHeader(a, r) \subseteq DOMAIN a.order
      /\ ByIssuer(a, r) \subseteq DOMAIN a.order
      /\ ByPath(a, r) \subseteq DOMAIN a.order
  BY DEF ByHeader, ByIssuer, ByPath
<1>4. /\ ByHeader(a, r) # {} => Min(ByHeader(a, r)) \in DOMAIN a.order
      /\ ByIssuer(a, r) # {} => Min(ByIssuer(a, r)) \in DOMAIN a.order
      /\ ByPath(a, r) # {} => Max(ByPath(a, r)) \in DOMAIN a.order
  BY <1>1, <1>3, Extrema
<1>5. a.hasDefault => Default \in Installed(a)
  BY DEF Installed
<1>6. QED
  BY <1>2, <1>4, <1>5 DEF Select

-----------------------------------------------------------------------------
Segments == Seq(DOMAIN Length \cup {Star})

Weight(s, i) == IF i \in DOMAIN s /\ s[i] # Star THEN Length[s[i]] ELSE 0

LEMMA WeightType ==
  ASSUME NEW s \in Segments, NEW i
  PROVE  Weight(s, i) \in Nat /\ (i \in DOMAIN s /\ s[i] # Star => Weight(s, i) > 0)
  BY PathsAssumption DEF Weight, Segments

LEMMA CharsSum ==
  ASSUME NEW s \in Segments
  PROVE  \E f \in [Nat -> Nat] :
            /\ f[0] = 0
            /\ \A n \in Nat : f[n + 1] = f[n] + Weight(s, n + 1)
            /\ \A n \in Nat : n >= Len(s) => f[n] = Chars(s)
<1> DEFINE Sums(f) == f = [n \in 0 .. Len(s) |->
              IF n = 0 THEN 0
              ELSE f[n - 1] + (IF s[n] = Star THEN 0 ELSE Length[s[n]])]
           upTo == CHOOSE f : Sums(f)
<1>1. Len(s) \in Nat /\ DOMAIN s = 1 .. Len(s)
  BY DEF Segments
<1>2. Chars(s) = upTo[Len(s)]
  BY DEF Chars
<1> HIDE DEF upTo
<1> DEFINE Sum(k, g) == /\ g \in [0 .. k -> Nat] /\ g[0] = 0
                        /\ \A n \in 1 .. k : g[n] = g[n - 1] + Weight(s, n)
           S == {k \in Nat : \E g : Sum(k, g)}
<1>3. \A k \in Nat : k \in S
  <2>1. 0 \in S
    <3>1. Sum(0, [n \in 0 .. 0 |-> 0])
      OBVIOUS
    <3>2. QED
      BY <3>1
  <2>2. ASSUME NEW k \in Nat, k \in S PROVE k + 1 \in S
    <3>1. PICK g : Sum(k, g)
      BY <2>2
    <3> DEFINE h == [n \in 0 .. k + 1 |-> IF n = k + 1 THEN g[k] + Weight(s, k + 1) ELSE g[n]]
    <3>2. g[k] + Weight(s, k + 1) \in Nat
      BY <3>1, WeightType
    <3>3. h \in [0 .. k + 1 -> Nat] /\ h[0] = 0
      BY <3>1, <3>2
    <3>4. \A n \in 1 .. k : h[n] = h[n - 1] + Weight(s, n)
      BY <3>1
    <3>5. h[k + 1] = h[k] + Weight(s, k + 1)
      BY <3>1
    <3>6. Sum(k + 1, h)
      <4>1. \A n \in 1 .. k + 1 : n \in 1 .. k \/ n = k + 1
        OBVIOUS
      <4> HIDE DEF h
      <4>2. h[k + 1] = h[(k + 1) - 1] + Weight(s, k + 1)
        BY <3>5
      <4>3. QED
        BY <3>3, <3>4, <4>1, <4>2
    <3> HIDE DEF h, Sum
    <3>7. k + 1 \in Nat /\ \E q : Sum(k + 1, q)
      BY <3>6
    <3>8. QED
      BY <3>7
  <2> HIDE DEF S
  <2>3. QED
    BY <2>1, <2>2, Induction
<1>4. PICK g : Sum(Len(s), g)
  BY <1>1, <1>3
<1>5. Sums(g)
  <2>1. \A n \in 1 .. Len(s) :
           g[n] = g[n - 1] + (IF s[n] = Star THEN 0 ELSE Length[s[n]])
    BY <1>1, <1>4 DEF Weight
  <2>2. QED
    BY <1>4, <2>1
<1>6. Sums(upTo)
  BY <1>5 DEF upTo
<1>7. \A n \in Nat : n <= Len(s) => upTo[n] = g[n]
  <2> DEFINE E == {n \in Nat : n <= Len(s) => upTo[n] = g[n]}
  <2>1. 0 \in E
    BY <1>5, <1>6
  <2>2. ASSUME NEW n \in Nat, n \in E PROVE n + 1 \in E
    BY <1>1, <1>5, <1>6, <2>2
  <2>3. \A n \in Nat : n \in E
    <3> HIDE DEF E
    <3>1. QED
      BY <2>1, <2>2, Induction
  <2>4. QED
    BY <2>3
<1> DEFINE f == [n \in Nat |-> IF n <= Len(s) THEN g[n] ELSE g[Len(s)]]
<1>8. f \in [Nat -> Nat] /\ f[0] = 0
  BY <1>1, <1>4
<1>9. \A n \in Nat : f[n + 1] = f[n] + Weight(s, n + 1)
  BY <1>1, <1>4 DEF Weight
<1>10. \A n \in Nat : n >= Len(s) => f[n] = Chars(s)
  BY <1>1, <1>2, <1>7
<1>11. QED
  BY <1>8, <1>9, <1>10

(* A sequence of which another one has all the literals, and in the same place. *)
Covers(t, s) ==
    \A i \in DOMAIN s : s[i] # Star => i \in DOMAIN t /\ t[i] = s[i]

LEMMA CharsCompare ==
  ASSUME NEW s \in Segments, NEW t \in Segments, Covers(t, s)
  PROVE  /\ Chars(s) \in Nat /\ Chars(t) \in Nat /\ Chars(s) <= Chars(t)
         /\ (\E j \in DOMAIN t : t[j] # Star /\ ~(j \in DOMAIN s /\ s[j] # Star))
              => Chars(s) < Chars(t)
<1>1. /\ Len(s) \in Nat /\ DOMAIN s = 1 .. Len(s)
      /\ Len(t) \in Nat /\ DOMAIN t = 1 .. Len(t)
  BY DEF Segments
<1>2. PICK f \in [Nat -> Nat] :
         /\ f[0] = 0
         /\ \A n \in Nat : f[n + 1] = f[n] + Weight(s, n + 1)
         /\ \A n \in Nat : n >= Len(s) => f[n] = Chars(s)
  BY CharsSum
<1>3. PICK g \in [Nat -> Nat] :
         /\ g[0] = 0
         /\ \A n \in Nat : g[n + 1] = g[n] + Weight(t, n + 1)
         /\ \A n \in Nat : n >= Len(t) => g[n] = Chars(t)
  BY CharsSum
<1>4. \A i \in Nat : /\ Weight(s, i) \in Nat /\ Weight(t, i) \in Nat
                     /\ Weight(s, i) <= Weight(t, i)
  <2>1. \A i : Weight(s, i) \in Nat /\ Weight(t, i) \in Nat
    BY WeightType
  <2>2. \A i : Weight(s, i) <= Weight(t, i)
    BY <2>1 DEF Covers, Weight
  <2>3. QED
    BY <2>1, <2>2
<1>5. ASSUME NEW j \in Nat
      PROVE  \A n \in Nat : f[n] <= g[n] /\
                (Weight(s, j) < Weight(t, j) /\ 0 < j /\ j <= n => f[n] < g[n])
  <2> DEFINE S == {n \in Nat : f[n] <= g[n] /\
                (Weight(s, j) < Weight(t, j) /\ 0 < j /\ j <= n => f[n] < g[n])}
  <2>1. 0 \in S
    BY <1>2, <1>3
  <2>2. ASSUME NEW n \in Nat, n \in S PROVE n + 1 \in S
    <3>1. n + 1 \in Nat /\ f[n + 1] = f[n] + Weight(s, n + 1)
      BY <1>2
    <3>2. g[n + 1] = g[n] + Weight(t, n + 1)
      BY <1>3
    <3>3. /\ f[n] \in Nat /\ g[n] \in Nat /\ f[n + 1] \in Nat /\ g[n + 1] \in Nat
          /\ Weight(s, n + 1) \in Nat /\ Weight(t, n + 1) \in Nat
          /\ Weight(s, n + 1) <= Weight(t, n + 1)
      BY <1>4, <3>1
    <3>4. CASE j = n + 1
      BY <2>2, <3>1, <3>2, <3>3, <3>4
    <3>5. CASE j # n + 1
      BY <2>2, <3>1, <3>2, <3>3, <3>5
    <3>6. QED
      BY <3>4, <3>5
  <2>3. \A n \in Nat : n \in S
    <3> HIDE DEF S
    <3>1. QED
      BY <2>1, <2>2, Induction
  <2>4. QED
    BY <2>3
<1>6. PICK N \in Nat : N >= Len(s) /\ N >= Len(t)
  <2>1. \A m, n \in Nat : \E N \in Nat : N >= m /\ N >= n
    <3>1. TAKE m, n \in Nat
    <3>2. m + n \in Nat /\ m + n >= m /\ m + n >= n
      OBVIOUS
    <3>3. QED
      BY <3>2
  <2>2. QED
    BY <1>1, <2>1
<1>7. f[N] = Chars(s) /\ g[N] = Chars(t) /\ f[N] \in Nat /\ g[N] \in Nat
  BY <1>2, <1>3, <1>6
<1>8. f[N] <= g[N]
  BY <1>5, <1>6
<1>9. ASSUME NEW j \in DOMAIN t, t[j] # Star, ~(j \in DOMAIN s /\ s[j] # Star)
      PROVE  f[N] < g[N]
  <2>1. Weight(s, j) = 0 /\ Weight(t, j) \in Nat /\ Weight(t, j) > 0
    BY <1>9, WeightType DEF Weight
  <2>2. j \in Nat /\ 0 < j /\ j <= N
    <3>1. \A n \in Nat : j \in 1 .. n /\ N >= n => j \in Nat /\ 0 < j /\ j <= N
      OBVIOUS
    <3>2. QED
      BY <1>1, <1>6, <3>1
  <2>3. QED
    BY <1>5, <1>6, <2>1, <2>2
<1>10. QED
  BY <1>7, <1>8, <1>9

-----------------------------------------------------------------------------
Pattern == [segments : Segments, slash : BOOLEAN]

LEMMA SegmentsLemma ==
  ASSUME NEW p \in Pattern
  PROVE  /\ p.segments \in Segments /\ p.slash \in BOOLEAN
         /\ Len(p.segments) \in Nat /\ DOMAIN p.segments = 1 .. Len(p.segments)
         /\ \A i \in DOMAIN p.segments : p.segments[i] \in DOMAIN Length \cup {Star}
  BY DEF Pattern, Segments

(* A path has no stars, so that it is never Everything or one of those. *)
LEMMA PathLemma ==
  ASSUME NEW x \in Paths
  PROVE  /\ x \in Pattern
         /\ \A i \in DOMAIN x.segments : x.segments[i] # Star
<1>1. x \in [segments : Seq(DOMAIN Length), slash : BOOLEAN] /\ Star \notin DOMAIN Length
  BY PathsAssumption
<1>2. \A i \in DOMAIN x.segments : x.segments[i] \in DOMAIN Length
  BY <1>1
<1>3. x.segments \in Seq(DOMAIN Length \cup {Star})
  BY <1>1
<1>4. QED
  BY <1>1, <1>2, <1>3 DEF Pattern, Segments

Exact(p, x) == Same(p, x) \/ SameButSlash(p, x)

LEMMA ExactLemma ==
  ASSUME NEW p \in Pattern, NEW x \in Paths, Exact(p, x)
  PROVE  p.segments = x.segments
<1>1. CASE Same(p, x)
  BY <1>1 DEF Same
<1>2. CASE SameButSlash(p, x)
  BY <1>2 DEF SameButSlash, Pattern
<1>3. QED
  BY <1>1, <1>2 DEF Exact

(* A prefix: its segments are literals, all that the pattern has. *)
LEMMA PrefixLemma ==
  ASSUME NEW p \in Pattern, NEW x \in Paths, Under(p, x)
  PROVE  /\ Len(p.segments) > 0 /\ p.segments[Len(p.segments)] = Star
         /\ Len(PrefixOf(p)) = Len(p.segments) - 1
         /\ Len(p.segments) - 1 <= Len(x.segments)
         /\ \A i \in 1 .. Len(p.segments) - 1 : p.segments[i] = x.segments[i]
         /\ Literals(p) = 1 .. Len(p.segments) - 1
<1> DEFINE k == Len(p.segments) - 1
<1>1. /\ EndsInStar(p)
      /\ Len(PrefixOf(p)) <= Len(x.segments)
      /\ SubSeq(x.segments, 1, Len(PrefixOf(p))) = PrefixOf(p)
  BY DEF Under
<1>2. k \in Nat /\ p.segments[Len(p.segments)] = Star /\ Len(p.segments) > 0
  BY <1>1, SegmentsLemma DEF EndsInStar, Segments
<1>3. /\ Len(PrefixOf(p)) = k
      /\ \A i \in 1 .. k : PrefixOf(p)[i] = p.segments[i]
  BY <1>2, SegmentsLemma DEF PrefixOf, Segments
<1>4. x \in Pattern
  BY PathLemma
<1>5. \A i \in 1 .. k : SubSeq(x.segments, 1, k)[i] = x.segments[i] /\ i \in DOMAIN x.segments
  BY <1>1, <1>2, <1>3, <1>4, SegmentsLemma DEF Segments
<1>6. \A i \in 1 .. k : p.segments[i] = x.segments[i] /\ p.segments[i] # Star
  BY <1>1, <1>3, <1>5, PathLemma
<1>7. Literals(p) = 1 .. k
  BY <1>2, <1>6, SegmentsLemma DEF Literals
<1>8. QED
  BY <1>1, <1>2, <1>3, <1>6, <1>7

(* Where a pattern fits, its literals are segments of the path. *)
LEMMA LiteralsAgree ==
  ASSUME NEW p \in Pattern, NEW x \in Paths, Fits(p, x)
  PROVE  \A i \in Literals(p) : i \in DOMAIN x.segments /\ x.segments[i] = p.segments[i]
<1>1. CASE Exact(p, x)
  BY <1>1, ExactLemma DEF Literals
<1>2. CASE p = Everything
  BY <1>2 DEF Literals, Everything
<1>3. CASE Under(p, x)
  <2> DEFINE k == Len(p.segments) - 1
  <2>1. /\ Len(p.segments) \in Nat /\ Len(x.segments) \in Nat
        /\ DOMAIN x.segments = 1 .. Len(x.segments)
    BY PathLemma, SegmentsLemma
  <2>2. /\ k <= Len(x.segments) /\ Literals(p) = 1 .. k
        /\ \A i \in 1 .. k : p.segments[i] = x.segments[i]
    BY <1>3, PrefixLemma
  <2>3. \A i \in 1 .. k : i \in DOMAIN x.segments
    BY <2>1, <2>2
  <2>4. QED
    BY <2>2, <2>3
<1>4. CASE SegmentsFit(p, x)
  BY <1>4, PathLemma, SegmentsLemma DEF Literals, SegmentsFit
<1>5. QED
  BY <1>1, <1>2, <1>3, <1>4 DEF Fits, Exact

LEMMA CoversLemma ==
  ASSUME NEW p \in Pattern, NEW q \in Pattern, NEW x \in Paths, Fits(p, x), Fits(q, x),
         Literals(q) \subseteq Literals(p)
  PROVE  Covers(p.segments, q.segments)
  BY LiteralsAgree DEF Covers, Literals

(* A pattern that fits only paths that another one fits has all of its      *)
(* literals: otherwise there were a path with another segment, or a parent, *)
(* that only the first one fits.                                            *)
LEMMA Nested ==
  ASSUME NEW p \in Pattern, NEW q \in Pattern, NEW x \in Paths, Fits(p, x), Fits(q, x),
         MoreSpecific(p, q)
  PROVE  Literals(q) \subseteq Literals(p) /\ \E j \in Literals(p) : j \notin Literals(q)
<1>1. PICK j \in Literals(p) : j \notin Literals(q)
  <2>1. IsFiniteSet(Literals(q))
    <3>1. IsFiniteSet(1 .. Len(q.segments))
      BY SegmentsLemma, FS_Interval
    <3>2. Literals(q) \in SUBSET (1 .. Len(q.segments))
      BY SegmentsLemma DEF Literals
    <3>3. QED
      BY <3>1, <3>2, FS_Subset
  <2>2. SUFFICES ASSUME Literals(p) \in SUBSET Literals(q) PROVE FALSE
    OBVIOUS
  <2>3. Cardinality(Literals(p)) <= Cardinality(Literals(q))
    BY <2>1, <2>2, FS_Subset
  <2>4. IsFiniteSet(Literals(p))
    BY <2>1, <2>2, FS_Subset
  <2>5. Cardinality(Literals(p)) \in Nat /\ Cardinality(Literals(q)) \in Nat
    BY <2>1, <2>4, FS_CardinalityType
  <2>6. QED
    BY <2>3, <2>5 DEF MoreSpecific
<1>2. \A y \in Paths : Fits(p, y) => Fits(q, y)
  BY DEF MoreSpecific, FittingPaths
<1>3. ASSUME NEW i \in Literals(q), i \notin Literals(p) PROVE FALSE
  <2>1. i \in DOMAIN x.segments /\ x.segments[i] = q.segments[i]
    BY <1>3, LiteralsAgree
  <2>2. j \in DOMAIN x.segments
    BY LiteralsAgree
  <2>3. CASE Exact(p, x)
    BY <1>3, <2>1, <2>3, ExactLemma, PathLemma DEF Literals
  <2>4. CASE p = Everything
    BY <2>4 DEF Literals, Everything
  <2>5. CASE Under(p, x)
    <3> DEFINE m == Len(p.segments) - 1
    <3>1. m \in Nat /\ Literals(p) = 1 .. m /\ m <= Len(x.segments) /\ Len(PrefixOf(p)) = m
      BY <2>5, PrefixLemma, SegmentsLemma
    <3>2. m \in DOMAIN x.segments
      BY <2>2, <3>1, PathLemma, SegmentsLemma
    <3>3. PICK y \in Paths : y.segments = SubSeq(x.segments, 1, m)
      BY <3>2, PathsAssumption
    <3>4. x.segments \in Segments
      BY PathLemma, SegmentsLemma
    <3>5. Len(y.segments) = m /\ SubSeq(y.segments, 1, m) = SubSeq(x.segments, 1, m)
      BY <3>1, <3>2, <3>3, <3>4 DEF Segments
    <3>6. Under(p, y)
      BY <2>5, <3>1, <3>5 DEF Under
    <3>7. Fits(q, y)
      BY <1>2, <3>6 DEF Fits
    <3>8. i \in DOMAIN y.segments
      BY <1>3, <3>7, LiteralsAgree
    <3>9. QED
      BY <1>3, <3>1, <3>5, <3>8, PathLemma, SegmentsLemma
  <2>6. CASE SegmentsFit(p, x)
    <3>1. PICK y \in Paths : DifferAt(i, x, y)
      BY <2>1, PathsAssumption
    <3>2. p.segments[i] = Star /\ i \in DOMAIN p.segments
      BY <1>3, <2>1, <2>6, PathLemma, SegmentsLemma DEF SegmentsFit, Literals
    <3>3. SegmentsFit(p, y)
      BY <2>6, <3>1, <3>2, PathLemma, SegmentsLemma DEF SegmentsFit, DifferAt
    <3>4. Fits(q, y)
      BY <1>2, <3>3 DEF Fits
    <3>5. y.segments[i] = q.segments[i]
      BY <1>3, <3>4, LiteralsAgree
    <3>6. QED
      BY <2>1, <3>1, <3>5 DEF DifferAt
  <2>7. QED
    BY <2>3, <2>4, <2>5, <2>6 DEF Fits, Exact
<1>4. QED
  BY <1>1, <1>3

-----------------------------------------------------------------------------
(* Scores. *)

LEMMA FirstStarLemma ==
  ASSUME NEW s \in Segments, \E i \in DOMAIN s : s[i] = Star
  PROVE  /\ FirstStar(s) \in DOMAIN s /\ s[FirstStar(s)] = Star
         /\ \A j \in 1 .. FirstStar(s) - 1 : s[j] # Star
<1>1. DOMAIN s = 1 .. Len(s) /\ Len(s) \in Nat
  BY DEF Segments
<1> DEFINE T == {i \in DOMAIN s : s[i] = Star}
<1>2. T \subseteq Nat /\ T # {}
  BY <1>1
<1>3. PICK i \in T : \A j \in T : i <= j
  <2> HIDE DEF T
  <2>1. QED
    BY <1>2, Least
<1>4. \A j \in 1 .. i - 1 : s[j] # Star
  BY <1>1, <1>3
<1>5. \E n \in DOMAIN s : s[n] = Star /\ \A j \in 1 .. n - 1 : s[j] # Star
  BY <1>3, <1>4
<1>6. QED
  BY <1>5 DEF FirstStar

HasStar(p) == \E i \in DOMAIN p.segments : p.segments[i] = Star

LEMMA LeadingLemma ==
  ASSUME NEW p \in Pattern, HasStar(p)
  PROVE  /\ Leading(p) \in Segments
         /\ Len(Leading(p)) = FirstStar(p.segments) - 1
         /\ \A i \in 1 .. FirstStar(p.segments) - 1 :
               Leading(p)[i] = p.segments[i] /\ i \in Literals(p)
<1>1. /\ p.segments \in Segments
      /\ FirstStar(p.segments) \in 1 .. Len(p.segments)
      /\ \A j \in 1 .. FirstStar(p.segments) - 1 : p.segments[j] # Star
      /\ DOMAIN p.segments = 1 .. Len(p.segments) /\ Len(p.segments) \in Nat
  BY SegmentsLemma, FirstStarLemma DEF HasStar
<1>2. FirstStar(p.segments) - 1 \in 0 .. Len(p.segments)
  BY <1>1
<1>3. Leading(p) \in Segments
  BY <1>1, <1>2 DEF Leading, Segments
<1>4. /\ Len(Leading(p)) = FirstStar(p.segments) - 1
      /\ \A i \in 1 .. FirstStar(p.segments) - 1 : Leading(p)[i] = p.segments[i]
  BY <1>1, <1>2 DEF Leading, Segments
<1>5. \A i \in 1 .. FirstStar(p.segments) - 1 : i \in Literals(p)
  BY <1>1 DEF Literals
<1>6. QED
  BY <1>3, <1>4, <1>5

(* What comes before the first star is part of the pattern. *)
LEMMA LeadingIsPart ==
  ASSUME NEW p \in Pattern, HasStar(p)
  PROVE  /\ Chars(Leading(p)) \in Nat /\ Chars(p.segments) \in Nat
         /\ Chars(Leading(p)) <= Chars(p.segments)
<1>1. Covers(p.segments, Leading(p))
  BY LeadingLemma DEF Covers, Literals, Segments
<1>2. QED
  BY <1>1, LeadingLemma, SegmentsLemma, CharsCompare

LEMMA LeadingCompare ==
  ASSUME NEW p \in Pattern, NEW q \in Pattern, NEW x \in Paths, Fits(p, x), Fits(q, x),
         Literals(q) \subseteq Literals(p), HasStar(p), HasStar(q)
  PROVE  Chars(Leading(q)) <= Chars(Leading(p))
<1> DEFINE f == FirstStar(p.segments)
           g == FirstStar(q.segments)
<1>1. /\ f \in DOMAIN p.segments /\ p.segments[f] = Star
      /\ g \in DOMAIN q.segments
      /\ f \in Nat \ {0} /\ g \in Nat \ {0}
  BY SegmentsLemma, FirstStarLemma, SMTT(20) DEF HasStar
<1> HIDE DEF f, g
<1>2. /\ Leading(p) \in Segments /\ Leading(q) \in Segments
      /\ Len(Leading(p)) = f - 1 /\ Len(Leading(q)) = g - 1
      /\ \A i \in 1 .. f - 1 : Leading(p)[i] = p.segments[i]
      /\ \A i \in 1 .. g - 1 : Leading(q)[i] = q.segments[i] /\ i \in Literals(q)
  BY LeadingLemma DEF f, g
<1>3. f >= g
  <2>1. SUFFICES ASSUME f < g PROVE FALSE
    BY <1>1
  <2>2. f \in 1 .. g - 1
    BY <1>1, <2>1
  <2>3. f \in Literals(p)
    BY <1>2, <2>2
  <2>4. QED
    BY <1>1, <2>3 DEF Literals
<1>4. \A i \in 1 .. g - 1 : i \in 1 .. f - 1 /\ Leading(p)[i] = Leading(q)[i]
  <2>1. TAKE i \in 1 .. g - 1
  <2>2. i \in 1 .. f - 1
    BY <1>1, <1>3
  <2>3. p.segments[i] = q.segments[i]
    BY <1>2, LiteralsAgree
  <2>4. QED
    BY <1>2, <2>2, <2>3
<1>5. DOMAIN Leading(p) = 1 .. f - 1 /\ DOMAIN Leading(q) = 1 .. g - 1
  BY <1>2 DEF Segments
<1>6. Covers(Leading(p), Leading(q))
  BY <1>4, <1>5 DEF Covers
<1>7. QED
  BY <1>2, <1>6, CharsCompare

(* The two ways in which a pattern with stars fits are scored alike. *)
LEMMA WildcardLemma ==
  ASSUME NEW p \in Pattern, NEW x \in Paths, Fits(p, x), ~Exact(p, x), p # Everything
  PROVE  /\ HasStar(p)
         /\ Score(p, x) = WildcardScore(Chars(Leading(p)), Chars(p.segments))
<1>1. CASE Under(p, x)
  <2> DEFINE k == Len(p.segments) - 1
  <2>1. /\ Len(p.segments) > 0 /\ p.segments[k + 1] = Star /\ Literals(p) = 1 .. k
        /\ Len(p.segments) \in Nat /\ DOMAIN p.segments = 1 .. Len(p.segments)
        /\ k \in Nat
    BY <1>1, PrefixLemma, SegmentsLemma
  <2>2. HasStar(p)
    BY <2>1 DEF HasStar
  <2>3. FirstStar(p.segments) = k + 1
    <3>1. /\ FirstStar(p.segments) \in 1 .. k + 1
          /\ p.segments[FirstStar(p.segments)] = Star
      BY <2>1, <2>2, SegmentsLemma, FirstStarLemma DEF HasStar
    <3>2. \A i \in 1 .. k : p.segments[i] # Star
      BY <2>1 DEF Literals
    <3>3. FirstStar(p.segments) \notin 1 .. k
      BY <3>1, <3>2
    <3>4. QED
      BY <2>1, <3>1, <3>3
  <2>4. PrefixOf(p) = Leading(p)
    BY <2>1, <2>3 DEF PrefixOf, Leading
  <2>5. Chars(p.segments) = Chars(Leading(p))
    <3>1. Covers(Leading(p), p.segments)
      <4>1. /\ Leading(p) \in Segments /\ Len(Leading(p)) = k
            /\ \A i \in 1 .. k : Leading(p)[i] = p.segments[i]
        BY <2>1, <2>2, <2>3, LeadingLemma
      <4>2. DOMAIN Leading(p) = 1 .. k
        BY <4>1 DEF Segments
      <4>3. \A i \in DOMAIN p.segments : p.segments[i] # Star => i \in 1 .. k
        BY <2>1 DEF Literals
      <4>4. QED
        BY <4>1, <4>2, <4>3 DEF Covers
    <3>2. Chars(p.segments) <= Chars(Leading(p))
      BY <2>2, <3>1, LeadingLemma, SegmentsLemma, CharsCompare
    <3>3. QED
      BY <2>2, <3>2, LeadingIsPart
  <2>6. Score(p, x) = WildcardScore(Chars(PrefixOf(p)), Chars(PrefixOf(p)))
    BY <1>1 DEF Score, Exact
  <2>7. QED
    BY <2>2, <2>4, <2>5, <2>6
<1>2. CASE ~Under(p, x)
  <2>1. SegmentsFit(p, x)
    BY <1>2 DEF Fits, Exact
  <2>2. HasStar(p)
    BY <2>1 DEF SegmentsFit, HasStar
  <2>3. QED
    BY <1>2, <2>1, <2>2 DEF Score, Exact
<1>3. QED
  BY <1>1, <1>2

LEMMA ExactScore ==
  ASSUME NEW p \in Pattern, NEW x \in Paths, Exact(p, x)
  PROVE  /\ Chars(x.segments) \in Nat /\ Score(p, x) \in Nat
         /\ Score(p, x) >= 999000 + Chars(x.segments)
         /\ Score(p, x) <= 1000001 + Chars(x.segments) + Len(x.segments)
<1> DEFINE c == Chars(x.segments)
           n == Len(x.segments)
<1>1. x.segments \in Segments /\ Len(x.segments) \in Nat /\ p.segments = x.segments
  BY PathLemma, SegmentsLemma, ExactLemma
<1>2. c \in Nat /\ n \in Nat
  BY <1>1, CharsCompare DEF Covers
<1>3. Size(p) = c + n \/ Size(p) = c + n + 1
  <2>1. Size(p) = c + n + (IF p.slash THEN 1 ELSE 0)
    BY <1>1 DEF Size
  <2> HIDE DEF c, n
  <2>2. QED
    BY <1>2, <2>1
<1>4. Score(p, x) = 1000000 + Size(p) \/ Score(p, x) = 999000 + Size(p)
  BY SMT DEF Score, Exact
<1> HIDE DEF c, n
<1>5. /\ Score(p, x) \in Nat /\ Score(p, x) >= 999000 + c
      /\ Score(p, x) <= 1000001 + c + n
  BY <1>2, <1>3, <1>4, SMT
<1>6. QED
  BY <1>2, <1>5 DEF c, n

LEMMA EverythingScore ==
  ASSUME NEW x \in Paths
  PROVE  ~Exact(Everything, x) /\ Score(Everything, x) = 1
<1>1. ~Exact(Everything, x)
  <2>1. Everything.segments \in Segments /\ Everything.slash \in BOOLEAN
    BY SMT DEF Everything, Segments
  <2>2. Everything \in Pattern
    BY <2>1 DEF Everything, Pattern
  <2>3. 1 \in DOMAIN Everything.segments /\ Everything.segments[1] = Star
    BY SMT DEF Everything
  <2>4. QED
    BY <2>2, <2>3, ExactLemma, PathLemma
<1>2. \A p : p = Everything /\ ~Exact(p, x) => Score(p, x) = 1
  BY SMT DEF Score, Exact
<1>3. QED
  BY <1>1, <1>2

(* The scores of a path are bounded, so that there is a highest one. *)
Bound(x) == 1000001 + 1001 * Chars(x.segments) + Len(x.segments)

LEMMA ScoreLemma ==
  ASSUME NEW p \in Pattern, NEW x \in Paths
  PROVE  /\ Score(p, x) \in Nat
         /\ Score(p, x) > 0 <=> Fits(p, x)
         /\ Score(p, x) <= Bound(x)
<1>1. x.segments \in Segments /\ Len(x.segments) \in Nat /\ x \in Pattern
  BY PathLemma, SegmentsLemma
<1>2. Chars(x.segments) \in Nat
  BY <1>1, CharsCompare DEF Covers
<1>3. CASE ~Fits(p, x)
  <2>1. Score(p, x) = 0
    BY <1>3 DEF Score, Fits
  <2>2. QED
    BY <1>1, <1>2, <1>3, <2>1, SMT DEF Bound
<1>4. CASE Exact(p, x)
  <2>1. Fits(p, x)
    BY <1>4 DEF Exact, Fits
  <2>2. QED
    BY <1>1, <1>2, <1>4, <2>1, ExactScore, SMT DEF Bound
<1>5. CASE p = Everything
  <2>1. Fits(p, x) /\ Score(p, x) = 1
    BY <1>5, EverythingScore DEF Fits
  <2>2. QED
    BY <1>1, <1>2, <2>1, SMTT(30) DEF Bound
<1>6. CASE Fits(p, x) /\ ~Exact(p, x) /\ p # Everything
  <2>1. /\ HasStar(p)
        /\ Score(p, x) = WildcardScore(Chars(Leading(p)), Chars(p.segments))
    BY <1>6, WildcardLemma
  <2>2. Covers(x.segments, p.segments)
    BY <1>6, LiteralsAgree DEF Covers, Literals
  <2>3. Chars(p.segments) <= Chars(x.segments)
    BY <1>1, <2>2, SegmentsLemma, CharsCompare
  <2>4. QED
    BY <1>1, <1>2, <1>6, <2>1, <2>3, LeadingIsPart, SMTT(30) DEF WildcardScore, Bound
<1>7. QED
  BY <1>3, <1>4, <1>5, <1>6

(* The scores order the patterns that fit a path of less than 1000          *)
(* characters: a more specific one has the higher score.                    *)
LEMMA MoreSpecificScore ==
  ASSUME NEW p \in Pattern, NEW q \in Pattern, NEW x \in Paths, Fits(p, x), Fits(q, x),
         MoreSpecific(p, q), Chars(x.segments) < 1000
  PROVE  Score(q, x) < Score(p, x)
<1>1. PICK j \in Literals(p) : j \notin Literals(q)
  BY Nested
<1>2. Literals(q) \subseteq Literals(p)
  BY Nested
<1>3. p # Everything
  BY <1>1 DEF Literals, Everything
<1>4. ~Exact(q, x)
  <2>1. j \in DOMAIN x.segments
    BY LiteralsAgree
  <2>2. QED
    BY <1>1, <2>1, ExactLemma, PathLemma DEF Literals
<1>5. x.segments \in Segments /\ p.segments \in Segments /\ q.segments \in Segments
  BY PathLemma, SegmentsLemma
<1>6. Chars(q.segments) < Chars(p.segments)
  <2>1. Covers(p.segments, q.segments)
    BY <1>2, CoversLemma
  <2>2. QED
    BY <1>1, <1>5, <2>1, CharsCompare DEF Literals
<1>7. Chars(q.segments) \in Nat /\ Chars(p.segments) \in Nat /\ Chars(x.segments) \in Nat
  BY <1>5, CharsCompare DEF Covers
<1>8. CASE q = Everything
  <2>1. Score(q, x) = 1
    BY <1>8, EverythingScore
  <2>2. CASE Exact(p, x)
    BY <1>7, <2>1, <2>2, ExactScore
  <2>3. CASE ~Exact(p, x)
    BY <1>3, <1>7, <2>1, <2>3, WildcardLemma, LeadingIsPart DEF WildcardScore
  <2>4. QED
    BY <2>2, <2>3
<1>9. CASE q # Everything
  <2>1. /\ HasStar(q)
        /\ Score(q, x) = WildcardScore(Chars(Leading(q)), Chars(q.segments))
        /\ Chars(Leading(q)) \in Nat /\ Chars(Leading(q)) <= Chars(q.segments)
    BY <1>4, <1>9, WildcardLemma, LeadingIsPart
  <2>2. CASE Exact(p, x)
    <3>1. Chars(p.segments) = Chars(x.segments)
      BY <2>2, ExactLemma
    <3>2. Score(p, x) >= 999000 + Chars(x.segments) /\ Score(p, x) \in Nat
      BY <2>2, ExactScore
    <3>3. QED
      BY <1>6, <1>7, <2>1, <3>1, <3>2 DEF WildcardScore
  <2>3. CASE ~Exact(p, x)
    <3>1. /\ HasStar(p)
          /\ Score(p, x) = WildcardScore(Chars(Leading(p)), Chars(p.segments))
          /\ Chars(Leading(p)) \in Nat
      BY <1>3, <2>3, WildcardLemma, LeadingIsPart
    <3>2. Chars(Leading(q)) <= Chars(Leading(p))
      BY <1>2, <2>1, <3>1, LeadingCompare
    <3>3. QED
      BY <1>6, <1>7, <2>1, <3>1, <3>2 DEF WildcardScore
  <2>4. QED
    BY <2>2, <2>3
<1>10. QED
  BY <1>8, <1>9

-----------------------------------------------------------------------------
(* The inductive invariant: what is decided about a request at each stage.  *)

StartedWell ==
    stage \notin {"starting", "failed"} =>
        /\ built = [t \in Installed(app) |-> BuiltFrom(app, t, provider)]
        /\ \A t \in Installed(app) : Starts(app, t, provider)

FromAnEnvironment == \E e \in Environments : app = e.app /\ provider = e.provider

(* The selected tenant authenticates. *)
Protected == ~Unprotected /\ Config.tenantEnabled

OfTenantsIssuer ==
    Built.chain.first # "userinfo" /\ ExpectedIssuer(Config) # None =>
        principal.issuer = ExpectedIssuer(Config) \/ NamesNoIssuer

(* A principal that the tenant got in the way that the request calls for. *)
Authentic ==
    /\ Protected /\ principal.tenant = tenant
    /\ \/ principal.by = "token" /\ ~UsesLogin /\ Token # None /\ OfTenantsIssuer
       \/ /\ principal.by = "session" /\ UsesLogin
          /\ Built.login /\ ~request.callback /\ request.cookie = tenant

Decisions ==
    /\ stage \notin {"admitted", "answered"} => principal = None
    /\ principal # None => Authentic
    /\ stage = "validating" => Protected /\ ~UsesLogin /\ Token # None
    /\ stage = "session" => Protected /\ UsesLogin /\ Built.login /\ ~request.callback
    /\ stage = "admitted" /\ principal = None => Unprotected
    /\ stage = "answered" /\ principal = None /\ Protected =>
         IF UsesLogin THEN answer \in {"login", "callback", "server error"}
         ELSE answer = "unauthorized"
    /\ stage = "answered" /\ principal = None /\ ~Protected =>
         answer = "not found" \/ Unprotected
    /\ stage = "answered" /\ principal # None => answer \in {"page", "forbidden"}
    /\ answer = "page" => GuardAllows(app.guard, principal)

IInv == TypeOK /\ FromAnEnvironment /\ StartedWell /\ Decisions

LEMMA Initially == Init => IInv
  BY DispatchAssumption
  DEF Init, IInv, TypeOK, Stages, Answers, FromAnEnvironment, StartedWell, Decisions

(* A step of the request that keeps its principal. *)
LEMMA StepLemma ==
  ASSUME IInv, UNCHANGED <<outside, request, tenant, principal>>, stage' \in Stages,
         stage \in {"selected", "validating", "session", "admitted"},
         stage' \notin {"starting", "failed"},
         answer' \in Answers \cup {None}, stage' = "answered" <=> answer' # None
  PROVE  TypeOK' /\ FromAnEnvironment' /\ StartedWell'
  BY DEF IInv, TypeOK, FromAnEnvironment, StartedWell, outside

(* The terms that decisions are made from keep their values. *)
LEMMA TermsLemma ==
  ASSUME UNCHANGED <<outside, request, tenant>>
  PROVE  /\ Config' = Config /\ Built' = Built /\ Token' = Token
         /\ Unprotected' <=> Unprotected
         /\ UsesLogin' <=> UsesLogin
         /\ Protected' <=> Protected
         /\ principal' = principal => (Authentic' <=> Authentic)
<1>1. Config' = Config /\ Built' = Built /\ Token' = Token
  BY DEF outside, Config, Built, Token, TokenFor
<1>2. /\ Unprotected' <=> Unprotected
      /\ UsesLogin' <=> UsesLogin
  BY <1>1 DEF Unprotected, UsesLogin
<1>3. Protected' <=> Protected
  BY <1>1, <1>2 DEF Protected
<1>4. ASSUME principal' = principal PROVE OfTenantsIssuer' <=> OfTenantsIssuer
  BY <1>1, <1>4 DEF OfTenantsIssuer, NamesNoIssuer, ExpectedIssuer
<1>5. principal' = principal => (Authentic' <=> Authentic)
  BY <1>1, <1>2, <1>3, <1>4 DEF Authentic
<1>6. QED
  BY <1>1, <1>2, <1>3, <1>5

LEMMA Invariance == IInv /\ [Next]_vars => IInv'
<1> SUFFICES ASSUME IInv, [Next]_vars PROVE IInv'
  OBVIOUS
<1> USE DEF IInv
<1>0. /\ app.order \in Seq(Range(app.order))
      /\ \A t \in Installed(app) : app.config[t] \in Configurations
      /\ Installed(app) \subseteq TenantNames
  BY DispatchAssumption DEF FromAnEnvironment, TenantNames
<1>1. CASE Start
  <2>1. TypeOK'
    BY <1>1, BuiltIsTyped DEF Start, TypeOK, BuiltFrom, Stages
  <2>2. FromAnEnvironment' /\ StartedWell'
    BY <1>1 DEF Start, FromAnEnvironment, StartedWell, BuiltFrom, Starts
  <2>3. principal = None /\ answer = None
    BY <1>1 DEF Start, TypeOK, Decisions
  <2>4. Decisions'
    BY <1>1, <2>3, DispatchAssumption DEF Start, Decisions, Answers
  <2>5. QED
    BY <2>1, <2>2, <2>4
<1>2. CASE StartFails
  <2>1. principal = None /\ answer = None
    BY <1>2 DEF StartFails, TypeOK, Decisions
  <2>2. TypeOK' /\ FromAnEnvironment' /\ StartedWell'
    BY <1>2 DEF StartFails, TypeOK, FromAnEnvironment, StartedWell, Stages, outside
  <2>3. Decisions'
    BY <1>2, <2>1, DispatchAssumption DEF StartFails, Decisions, Answers
  <2>4. QED
    BY <2>2, <2>3
<1>3. ASSUME NEW r \in Requests, Receive(r) PROVE IInv'
  <2>1. principal = None /\ answer = None
    BY <1>3 DEF Receive, TypeOK, Decisions
  <2>2. Select(app, r) \in Installed(app) \cup {None}
    BY <1>0, SelectionIsInstalled
  <2>3. TypeOK' /\ FromAnEnvironment' /\ StartedWell'
    BY <1>3, <2>2 DEF Receive, TypeOK, FromAnEnvironment, StartedWell, Stages, outside
  <2>4. Decisions'
    BY <1>3, <2>1, DispatchAssumption DEF Receive, Decisions, Answers
  <2>5. QED
    BY <2>3, <2>4
(* Steps that give an answer without looking at the guard. *)
<1>4. ASSUME NEW a \in Answers \ {"page"}, Respond(a), principal = None,
             stage \in {"selected", "validating", "session"},
             Protected => IF UsesLogin THEN a \in {"login", "callback", "server error"}
                          ELSE a = "unauthorized",
             ~Protected => a = "not found"
      PROVE  IInv'
  <2>1. /\ UNCHANGED <<outside, request, tenant, principal>>
        /\ stage' = "answered" /\ answer' = a /\ a # None
    BY <1>4, DispatchAssumption DEF Respond
  <2>2. TypeOK' /\ FromAnEnvironment' /\ StartedWell'
    BY <1>4, <2>1, StepLemma DEF Stages
  <2>3. Decisions'
    BY <1>4, <2>1, TermsLemma DEF Decisions
  <2>4. QED
    BY <2>2, <2>3
<1>5. CASE PassThrough
  <2>1. /\ UNCHANGED <<outside, request, tenant, principal, answer>>
        /\ stage = "selected" /\ stage' = "admitted" /\ Unprotected
        /\ principal = None /\ answer = None
    BY <1>5 DEF PassThrough, Goto, Decisions, TypeOK
  <2>2. TypeOK' /\ FromAnEnvironment' /\ StartedWell'
    BY <2>1, StepLemma DEF Stages
  <2>3. Decisions'
    BY <2>1, TermsLemma, DispatchAssumption DEF Decisions, Answers
  <2>4. QED
    BY <2>2, <2>3
<1>6. CASE HideTenant
  BY <1>4, <1>6 DEF HideTenant, Protected, Decisions, Answers
<1>7. CASE RejectHeader \/ NoLogin \/ Callback
  BY <1>4, <1>7
  DEF RejectHeader, NoLogin, Callback, Authenticating, Protected, Decisions, Answers
<1>8. CASE RejectToken \/ SendToLogin \/ SessionFails
  BY <1>4, <1>8 DEF RejectToken, SendToLogin, SessionFails, Decisions, Answers
<1>9. CASE Validate \/ LookForSession
  <2>1. /\ UNCHANGED <<outside, request, tenant, principal, answer>>
        /\ stage = "selected" /\ Protected /\ principal = None /\ answer = None
        /\ \/ stage' = "validating" /\ ~UsesLogin /\ Token # None
           \/ stage' = "session" /\ UsesLogin /\ Built.login /\ ~request.callback
    BY <1>9 DEF Validate, LookForSession, Authenticating, Protected, Goto, Decisions, TypeOK
  <2>2. TypeOK' /\ FromAnEnvironment' /\ StartedWell'
    BY <2>1, StepLemma DEF Stages
  <2>3. request' = request
    BY <2>1
  <2>4. Decisions'
    BY <2>1, <2>3, TermsLemma, DispatchAssumption DEF Decisions, Answers
  <2>5. QED
    BY <2>2, <2>4
(* Steps that admit a principal. *)
<1>10. ASSUME NEW p \in Principals, Admit(p), stage \in {"validating", "session"},
              Authentic'
       PROVE  IInv'
  <2>1. /\ UNCHANGED <<outside, request, tenant, answer>>
        /\ stage' = "admitted" /\ principal' = p /\ p # None /\ answer = None
    BY <1>10, DispatchAssumption DEF Admit, TypeOK
  <2>2. TypeOK' /\ FromAnEnvironment' /\ StartedWell'
    BY <1>10, <2>1 DEF TypeOK, FromAnEnvironment, StartedWell, Stages, outside
  <2>3. Decisions'
    BY <1>10, <2>1, DispatchAssumption DEF Decisions, Answers
  <2>4. QED
    BY <2>2, <2>3
<1>11. CASE AcceptToken
  <2>1. PICK i \in Addresses \cup {None}, roles \in SUBSET Roles :
           /\ Acceptable(i)
           /\ Admit([tenant |-> tenant, by |-> "token", issuer |-> i, roles |-> roles])
    BY <1>11 DEF AcceptToken
  <2> DEFINE p == [tenant |-> tenant, by |-> "token", issuer |-> i, roles |-> roles]
  <2>2. /\ stage = "validating"
        /\ Protected /\ ~UsesLogin /\ Token # None
        /\ tenant \in Installed(app)
    BY <1>11 DEF AcceptToken, Decisions, Protected, Unprotected, TypeOK
  <2>3. p \in Principals
    BY <1>0, <2>2 DEF Principals
  <2>4. ASSUME Built.chain.first # "userinfo", ExpectedIssuer(Config) # None
        PROVE  \/ i = ExpectedIssuer(Config)
               \/ /\ Built.chain.first = "keys"
                  /\ Token.jwt /\ Token.issuer = None /\ i = None
    <3>1. Starts(app, tenant, provider) /\ Built = BuiltFrom(app, tenant, provider)
      BY <2>2 DEF StartedWell, Built
    <3>2. Config.enabled /\ Config \in Configurations
      BY <1>0, <2>2 DEF Protected, Unprotected, Config
    <3>3. Built.chain.fallback => Built.chain.first = "keys"
      BY <3>1, FallbackIsBehindKeys DEF BuiltFrom
    <3>4. Built.chain.first # "none"
      BY <2>1, <3>3 DEF Acceptable
    <3>5. Built.issuer = ExpectedIssuer(Config)
      <4>1. CASE app.discover
        BY <2>4, <3>1, <3>2, <3>4, <4>1, IssuerIsConfigured DEF Starts, BuiltFrom, Config
      <4>2. CASE ~app.discover
        <5>1. Built = FromConfig(Config)
          BY <3>1, <4>2 DEF BuiltFrom, Config
        <5>2. QED
          BY <3>2, <3>4, <5>1 DEF FromConfig, PublicKeyVerifier, Blank, NoChain
      <4>3. QED
        BY <4>1, <4>2
    <3>6. QED
      BY <2>1, <2>4, <3>5 DEF Acceptable, Matches
  <2>5. /\ principal' = p /\ UNCHANGED <<outside, request, tenant>>
    BY <2>1 DEF Admit
  <2>6. OfTenantsIssuer'
    BY <2>4, <2>5, TermsLemma DEF OfTenantsIssuer, NamesNoIssuer, ExpectedIssuer
  <2>7. tenant' = tenant
    BY <2>5
  <2>8. Authentic'
    BY <2>2, <2>5, <2>6, <2>7, TermsLemma DEF Authentic
  <2>9. QED
    BY <1>10, <2>1, <2>2, <2>3, <2>8
<1>12. CASE UseSession
  <2>1. PICK roles \in SUBSET Roles :
           Admit([tenant |-> tenant, by |-> "session", issuer |-> None, roles |-> roles])
    BY <1>12 DEF UseSession
  <2> DEFINE p == [tenant |-> tenant, by |-> "session", issuer |-> None, roles |-> roles]
  <2>2. /\ stage = "session" /\ Protected /\ UsesLogin
        /\ Built.login /\ ~request.callback /\ request.cookie = tenant
        /\ tenant \in Installed(app)
    BY <1>12 DEF UseSession, Decisions, Protected, Unprotected, TypeOK
  <2>3. p \in Principals
    BY <1>0, <2>2 DEF Principals
  <2>4. principal' = p /\ UNCHANGED <<outside, request, tenant>>
    BY <2>1 DEF Admit
  <2>5. Authentic'
    BY <2>2, <2>4, TermsLemma DEF Authentic
  <2>6. QED
    BY <1>10, <2>1, <2>2, <2>3, <2>5
<1>13. CASE Serve \/ TurnAway
  <2>1. PICK a \in {"page", "unauthorized", "forbidden"} :
           /\ Respond(a)
           /\ a = "page" => GuardAllows(app.guard, principal)
           /\ principal # None => a \in {"page", "forbidden"}
           /\ stage = "admitted"
    BY <1>13 DEF Serve, TurnAway
  <2>2. /\ UNCHANGED <<outside, request, tenant, principal>>
        /\ stage' = "answered" /\ answer' = a /\ a \in Answers /\ a # None
    BY <2>1, DispatchAssumption DEF Respond, Answers
  <2>3. TypeOK' /\ FromAnEnvironment' /\ StartedWell'
    BY <2>1, <2>2, StepLemma DEF Stages
  <2>4. principal = None => Unprotected /\ ~Protected
    BY <2>1 DEF Decisions, Protected
  <2>5. app' = app
    BY <2>2 DEF outside
  <2>6. GuardAllows(app.guard, principal)' <=> GuardAllows(app.guard, principal)
    BY <2>2, <2>5 DEF GuardAllows, RolesSuffice
  <2>7. Decisions'
    BY <2>1, <2>2, <2>4, <2>6, TermsLemma DEF Decisions
  <2>8. QED
    BY <2>3, <2>7
<1>14. CASE UNCHANGED vars
  <2>1. UNCHANGED <<outside, request, tenant, principal, stage, answer>>
    BY <1>14 DEF vars, outside
  <2>2. TypeOK' /\ FromAnEnvironment' /\ StartedWell'
    BY <2>1 DEF TypeOK, FromAnEnvironment, StartedWell, outside
  <2>3. GuardAllows(app.guard, principal)' <=> GuardAllows(app.guard, principal)
    BY <2>1 DEF GuardAllows, RolesSuffice, outside
  <2>4. request' = request
    BY <2>1
  <2>5. Decisions'
    BY <2>1, <2>3, <2>4, TermsLemma DEF Decisions
  <2>6. QED
    BY <2>2, <2>5
<1>15. QED
  BY <1>1, <1>2, <1>3, <1>5, <1>6, <1>7, <1>8, <1>9, <1>11, <1>12, <1>13, <1>14 DEF Next

THEOREM Inductive == Spec => []IInv
  BY Initially, Invariance, PTL DEF Spec

-----------------------------------------------------------------------------
(* A request is never with a tenant that is not installed, never without an *)
(* answer at its end, and the start makes only chains that there are.       *)
THEOREM TypeCorrect == Spec => []TypeOK
  BY Inductive, PTL DEF IInv

(* Without a principal a handler is reached only where nobody asks for one, *)
(* and with one only by the way, for the tenant and with the roles that the *)
(* configuration and the guard demand.                                      *)
THEOREM HandlersKnowTheCaller == Spec => []HandlerKnowsTheCaller
<1>1. IInv => HandlerKnowsTheCaller
  <2>1. SUFFICES ASSUME IInv, answer = "page"
                 PROVE  IF principal = None THEN Stranger ELSE Known
    BY DEF HandlerKnowsTheCaller
  <2>2. GuardAllows(app.guard, principal) /\ stage = "answered"
    BY <2>1, DispatchAssumption DEF IInv, Decisions, TypeOK, Answers
  <2>3. CASE principal = None
    <3>1. Unprotected
      BY <2>1, <2>2, <2>3 DEF IInv, Decisions
    <3>2. QED
      BY <2>2, <2>3, <3>1 DEF GuardAllows, Unprotected, Config, Stranger
  <2>4. CASE principal # None
    <3>1. Authentic
      BY <2>1, <2>4 DEF IInv, Decisions
    <3>2. /\ principal.tenant = tenant /\ tenant # None
          /\ app.config[tenant].enabled /\ app.config[tenant].tenantEnabled
      BY <3>1 DEF Authentic, Protected, Unprotected, Config
    <3>3. principal.by = "token" =>
            /\ request.headers[app.config[tenant].header] \in Tokens
            /\ app.config[tenant].type # "web-app"
      BY <3>1 DEF Authentic, UsesLogin, Token, TokenFor, Config
    <3>4. principal.by = "session" =>
            /\ request.cookie = tenant /\ built[tenant].login
            /\ app.config[tenant].type # "service"
      BY <3>1 DEF Authentic, UsesLogin, Built, Config
    <3>5. /\ app.guard.kind = "any" => \E role \in app.guard.roles : role \in principal.roles
          /\ app.guard.kind = "all" => \A role \in app.guard.roles : role \in principal.roles
          /\ app.guard.kind = "macro" /\ ~app.guard.anyone =>
               \E role \in app.guard.roles : role \in principal.roles
      BY <2>2 DEF GuardAllows, RolesSuffice
    <3>6. QED
      BY <2>4, <3>2, <3>3, <3>4, <3>5 DEF Known
  <2>5. QED
    BY <2>3, <2>4
<1>2. QED
  BY <1>1, Inductive, PTL

(* In a hybrid application the token alone decides how a request is         *)
(* authenticated, and what it decides is not revised.                       *)
THEOREM TokensDecideAlone == Spec => []TokenDecidesAlone
<1>1. IInv => TokenDecidesAlone
  <2>1. SUFFICES ASSUME IInv, stage = "answered", tenant # None,
                        app.config[tenant].enabled, app.config[tenant].tenantEnabled,
                        app.config[tenant].type = "hybrid", built[tenant].login,
                        ~request.callback
                 PROVE  IF request.headers[app.config[tenant].header] \in Tokens
                        THEN /\ answer \in {"page", "unauthorized", "forbidden"}
                             /\ principal # None => principal.by = "token"
                        ELSE /\ answer # "unauthorized"
                             /\ principal # None => principal.by = "session"
    BY DEF TokenDecidesAlone
  <2>2. Protected
    BY <2>1 DEF Protected, Unprotected, Config
  <2>3. UsesLogin <=> Token = None
    BY <2>1 DEF UsesLogin, Config, Built
  <2>4. Token = None <=> request.headers[app.config[tenant].header] \notin Tokens
    BY DispatchAssumption DEF Token, TokenFor
  <2>5. /\ principal # None => Authentic /\ answer \in {"page", "forbidden"}
        /\ principal = None => IF UsesLogin THEN answer \in {"login", "callback", "server error"}
                               ELSE answer = "unauthorized"
    BY <2>1, <2>2 DEF IInv, Decisions
  <2>6. QED
    BY <2>3, <2>4, <2>5 DEF Authentic
<1>2. QED
  BY <1>1, Inductive, PTL

(* Whatever selected the tenant and whatever the provider answered at the   *)
(* start, a token that is accepted is one of the issuer of the              *)
(* configuration, or a JWT that names none and is verified with the keys.   *)
THEOREM TokensAreOfTheIssuer == Spec => []TokenIsOfTenantsIssuer
<1>1. IInv => TokenIsOfTenantsIssuer
  <2>1. SUFFICES ASSUME IInv, principal # None, principal.by = "token",
                        built[tenant].chain.first # "userinfo",
                        ExpectedIssuer(app.config[tenant]) # None
                 PROVE  principal.issuer = ExpectedIssuer(app.config[tenant]) \/ NamesNoIssuer
    BY DEF TokenIsOfTenantsIssuer
  <2>2. OfTenantsIssuer
    BY <2>1 DEF IInv, Decisions, Authentic
  <2>3. QED
    BY <2>1, <2>2 DEF OfTenantsIssuer, Built, Config
<1>2. QED
  BY <1>1, Inductive, PTL

-----------------------------------------------------------------------------
(* The tenant of a path. *)

LEMMA PathScoreLemma ==
  ASSUME NEW a, NEW t, NEW r, r.path \in Paths,
         a.config[t] \in Configurations, t \in DOMAIN Length
  PROVE  /\ PathScore(a, t, r) \in Nat /\ PathScore(a, t, r) <= Bound(r.path)
         /\ Bound(r.path) \in Nat
         /\ PathsOf(a, t) \subseteq Pattern
         /\ \A p \in PathsOf(a, t) : Score(p, r.path) <= PathScore(a, t, r)
         /\ \E q \in PathsOf(a, t) : Score(q, r.path) = PathScore(a, t, r)
<1>1. PathsOf(a, t) \subseteq Pattern /\ PathsOf(a, t) # {}
  <2>1. CASE a.config[t].tenantPaths # {}
    BY <2>1 DEF PathsOf, Configurations, Pattern, Segments
  <2>2. CASE a.config[t].tenantPaths = {}
    <3>1. <<t, Star>> \in Segments
      BY SMT DEF Segments
    <3>2. QED
      BY <2>2, <3>1 DEF PathsOf, Pattern
  <2>3. QED
    BY <2>1, <2>2
<1>2. Bound(r.path) \in Nat
  <2>1. r.path.segments \in Segments /\ Len(r.path.segments) \in Nat
    BY PathLemma, SegmentsLemma
  <2>2. Chars(r.path.segments) \in Nat
    BY <2>1, CharsCompare DEF Covers
  <2>3. QED
    BY <2>1, <2>2, SMT DEF Bound
<1> DEFINE S == {Score(p, r.path) : p \in PathsOf(a, t)}
<1>3. S \subseteq Nat /\ S # {} /\ \A s \in S : s <= Bound(r.path)
  BY <1>1, ScoreLemma
<1>4. Max(S) \in S /\ \A s \in S : s <= Max(S)
  <2> HIDE DEF S
  <2>1. QED
    BY <1>2, <1>3, Greatest
<1>5. PathScore(a, t, r) = Max(S)
  BY DEF PathScore
<1>6. QED
  BY <1>1, <1>2, <1>3, <1>4, <1>5

(* Selection by path takes a tenant with the highest score. *)
LEMMA BestPathIsTaken ==
  ASSUME NEW a, NEW r, r.path \in Paths,
         a.order \in Seq(Range(a.order)), Range(a.order) \subseteq DOMAIN Length,
         \A t \in Range(a.order) : a.config[t] \in Configurations,
         ByHeader(a, r) = {}, ByIssuer(a, r) = {},
         NEW t \in Range(a.order), NEW p \in PathsOf(a, t), Fits(p, r.path)
  PROVE  /\ Select(a, r) \in Range(a.order)
         /\ \E q \in PathsOf(a, Select(a, r)) :
               Fits(q, r.path) /\ Score(q, r.path) >= Score(p, r.path)
<1> DEFINE PS(i) == PathScore(a, a.order[i], r)
<1>1. /\ Len(a.order) \in Nat /\ DOMAIN a.order = 1 .. Len(a.order)
      /\ \A i \in DOMAIN a.order : a.order[i] \in Range(a.order)
  BY DEF Range
<1>2. \A i \in DOMAIN a.order :
         /\ PS(i) \in Nat /\ PS(i) <= Bound(r.path) /\ Bound(r.path) \in Nat
         /\ PathsOf(a, a.order[i]) \subseteq Pattern
         /\ \A q \in PathsOf(a, a.order[i]) : Score(q, r.path) <= PS(i)
         /\ \E q \in PathsOf(a, a.order[i]) : Score(q, r.path) = PS(i)
  BY <1>1, PathScoreLemma
<1>3. PICK k \in DOMAIN a.order : a.order[k] = t
  BY DEF Range
<1> HIDE DEF PS
<1>4. Score(p, r.path) \in Nat /\ Score(p, r.path) > 0 /\ Score(p, r.path) <= PS(k)
  BY <1>2, <1>3, ScoreLemma
<1> DEFINE S == {PS(i) : i \in DOMAIN a.order}
<1>5. PICK m \in DOMAIN a.order : \A i \in DOMAIN a.order : PS(i) <= PS(m)
  <2>1. S \subseteq Nat /\ S # {} /\ \A s \in S : s <= Bound(r.path)
    BY <1>2, <1>3
  <2>2. Bound(r.path) \in Nat
    BY <1>2, <1>3
  <2>3. Max(S) \in S /\ \A s \in S : s <= Max(S)
    <3> HIDE DEF S
    <3>1. QED
      BY <2>1, <2>2, Greatest
  <2>4. QED
    BY <2>3
<1>6. m \in ByPath(a, r)
  BY <1>2, <1>3, <1>4, <1>5 DEF ByPath, PS
<1>7. Max(ByPath(a, r)) \in ByPath(a, r)
  <2>1. ByPath(a, r) \subseteq 1 .. Len(a.order)
    BY <1>1 DEF ByPath
  <2>2. QED
    BY <1>1, <1>6, <2>1, Extrema
<1> DEFINE w == Max(ByPath(a, r))
<1> HIDE DEF w
<1>8. /\ w \in DOMAIN a.order /\ PS(k) <= PS(w)
  BY <1>3, <1>7 DEF ByPath, PS, w
<1>9. Select(a, r) = a.order[w]
  BY <1>6 DEF Select, w
<1>10. PICK q \in PathsOf(a, a.order[w]) : Score(q, r.path) = PS(w)
  BY <1>2, <1>8
<1>11. q \in Pattern /\ PS(w) \in Nat /\ PS(k) \in Nat
  BY <1>2, <1>3, <1>8, <1>10
<1>12. Score(q, r.path) >= Score(p, r.path) /\ Score(q, r.path) > 0
  BY <1>4, <1>8, <1>10, <1>11
<1>13. Fits(q, r.path)
  BY <1>11, <1>12, ScoreLemma
<1>14. QED
  BY <1>1, <1>8, <1>9, <1>10, <1>12, <1>13

SelectedInv == stage = "selected" => tenant = Select(app, request)

LEMMA SelectedIsSelected == Spec => []SelectedInv
<1>1. Init => SelectedInv
  BY DEF Init, SelectedInv
<1>2. SelectedInv /\ [Next]_vars => SelectedInv'
  <2>1. SUFFICES ASSUME SelectedInv, [Next]_vars, stage' = "selected"
                 PROVE  tenant' = Select(app, request)'
    BY DEF SelectedInv
  <2>2. CASE UNCHANGED vars
    BY <2>1, <2>2 DEF vars, SelectedInv
  <2>3. ASSUME NEW r \in Requests, Receive(r) PROVE tenant' = Select(app, request)'
    BY <2>3 DEF Receive, outside
  <2>4. QED
    BY <2>1, <2>2, <2>3
    DEF Next, Start, StartFails, PassThrough, HideTenant, RejectHeader, Validate,
        AcceptToken, RejectToken, NoLogin, Callback, LookForSession, UseSession,
        SendToLogin, SessionFails, Serve, TurnAway, Respond, Goto, Admit
<1>3. QED
  BY <1>1, <1>2, PTL DEF Spec

(* The scores of path.rs decide as the patterns say, whatever patterns the  *)
(* tenants have and in whatever order: with no other way of selection the   *)
(* tenant of a request is one with a most specific pattern.  A literal      *)
(* counts a thousandfold, so that this is true of paths with less than a    *)
(* thousand characters between the slashes.                                 *)
THEOREM PathsDecideBySpecificity ==
  (\A r \in Requests : Chars(r.path.segments) < 1000)
    => (Spec => []PathTenantIsMostSpecific)
<1> SUFFICES ASSUME \A r \in Requests : Chars(r.path.segments) < 1000
             PROVE  Spec => []PathTenantIsMostSpecific
  OBVIOUS
<1>1. IInv /\ SelectedInv => PathTenantIsMostSpecific
  <2>1. SUFFICES ASSUME IInv, SelectedInv, stage = "selected",
                        ByHeader(app, request) = {}, ByIssuer(app, request) = {},
                        NEW t \in Range(app.order), NEW p \in PathsOf(app, t),
                        Fits(p, request.path)
                 PROVE  /\ tenant \in Range(app.order)
                        /\ \E q \in PathsOf(app, tenant) :
                              Fits(q, request.path) /\ ~MoreSpecific(p, q)
    BY DEF PathTenantIsMostSpecific
  <2>2. tenant = Select(app, request) /\ request \in Requests
    BY <2>1 DEF SelectedInv, IInv, TypeOK
  <2>3. request.path \in Paths /\ Chars(request.path.segments) < 1000
    BY <2>2, DispatchAssumption
  <2>4. /\ app.order \in Seq(Range(app.order)) /\ Range(app.order) \subseteq DOMAIN Length
        /\ \A u \in Range(app.order) : app.config[u] \in Configurations
    BY <2>1, DispatchAssumption DEF IInv, FromAnEnvironment, Installed
  <2>5. /\ tenant \in Range(app.order)
        /\ \E q \in PathsOf(app, tenant) :
              Fits(q, request.path) /\ Score(q, request.path) >= Score(p, request.path)
    BY <2>1, <2>2, <2>3, <2>4, BestPathIsTaken
  <2>6. PICK q \in PathsOf(app, tenant) :
           Fits(q, request.path) /\ Score(q, request.path) >= Score(p, request.path)
    BY <2>5
  <2>7. p \in Pattern /\ q \in Pattern
    <3>1. app.config[t] \in Configurations /\ t \in DOMAIN Length
      BY <2>1, <2>4
    <3>2. app.config[tenant] \in Configurations /\ tenant \in DOMAIN Length
      BY <2>4, <2>5
    <3>3. PathsOf(app, t) \subseteq Pattern /\ PathsOf(app, tenant) \subseteq Pattern
      BY <2>3, <3>1, <3>2, PathScoreLemma
    <3>4. QED
      BY <2>1, <2>6, <3>3
  <2>8. ASSUME MoreSpecific(p, q) PROVE FALSE
    <3>1. Score(q, request.path) < Score(p, request.path)
      BY <2>1, <2>3, <2>6, <2>7, <2>8, MoreSpecificScore
    <3>2. Score(q, request.path) \in Nat /\ Score(p, request.path) \in Nat
      BY <2>3, <2>7, ScoreLemma
    <3>3. QED
      BY <2>6, <3>1, <3>2
  <2>9. QED
    BY <2>5, <2>6, <2>8
<1>2. QED
  BY <1>1, Inductive, SelectedIsSelected, PTL

-----------------------------------------------------------------------------
(* Where the run sign_in_verifier finds none, the provider is known by its  *)
(* well-known name only and asked for nothing.  All other applications that *)
(* start with a login can verify ID tokens.                                 *)
THEOREM SignInsHaveVerifiers ==
  (\A e \in Environments : \A t \in Installed(e.app) :
      e.app.config[t].discovery \/ e.app.config[t].authServer # None)
    => (Spec => []SignInHasVerifier)
<1> SUFFICES ASSUME \A e \in Environments : \A t \in Installed(e.app) :
                       e.app.config[t].discovery \/ e.app.config[t].authServer # None
             PROVE  Spec => []SignInHasVerifier
  OBVIOUS
<1>1. ASSUME NEW c, NEW p, c.discovery \/ c.authServer # None
      PROVE  /\ FromConfig(c).login => FromConfig(c).idKeys # "none"
             /\ Discovered(c, p).login => Discovered(c, p).idKeys # "none"
  <2>1. PublicKeyVerifier(c).login = FALSE /\ Blank.login = FALSE
    BY DEF PublicKeyVerifier, Blank
  <2>2. [PublicKeyVerifier(c) EXCEPT !.login = Interactive(c)].login =>
           [PublicKeyVerifier(c) EXCEPT !.login = Interactive(c)].idKeys # "none"
    BY DEF PublicKeyVerifier, Blank
  <2>3. Interactive(c) => IdKeysOf(c) # "none"
    BY <1>1 DEF IdKeysOf
  <2>4. QED
    BY <2>1, <2>2, <2>3 DEF FromConfig, Discovered
<1>2. IInv => SignInHasVerifier
  <2>1. SUFFICES ASSUME IInv, stage \notin {"starting", "failed"},
                        NEW t \in DOMAIN built, built[t].login
                 PROVE  built[t].idKeys # "none"
    BY DEF SignInHasVerifier
  <2>2. t \in Installed(app) /\ built[t] = BuiltFrom(app, t, provider)
    BY <2>1 DEF IInv, StartedWell
  <2>3. app.config[t].discovery \/ app.config[t].authServer # None
    BY <2>1, <2>2 DEF IInv, FromAnEnvironment
  <2>4. QED
    BY <1>1, <2>1, <2>2, <2>3 DEF BuiltFrom
<1>3. QED
  BY <1>2, Inductive, PTL
=============================================================================

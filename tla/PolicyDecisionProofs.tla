------------------------- MODULE PolicyDecisionProofs -------------------------
(***************************************************************************)
(* What loading an engagement file and deciding a request under it come to,*)
(* for every file, URL, method and approval.                               *)
(***************************************************************************)
EXTENDS PolicyDecision, SequenceTheorems, WellFoundedInduction, TLAPS

-----------------------------------------------------------------------------
(* Paths and prefixes.                                                     *)

\* A non-empty set of numbers up to a bound has a largest one: their distances
\* from the bound have a least one, since < is well-founded.
LEMMA Largest ==
  ASSUME NEW b \in Nat, NEW S \in SUBSET (0..b), S # {}
  PROVE  \E n \in S : \A i \in S : i <= n
<1> DEFINE T == {b - i : i \in S}
           Less == {ss \in Nat \X Nat : ss[1] < ss[2]}
<1>1. T \subseteq Nat /\ T # {}
  <2>1. PICK i \in S : TRUE
    OBVIOUS
  <2>2. b - i \in T
    OBVIOUS
  <2>3. \A j \in S : b - j \in Nat
    OBVIOUS
  <2> QED
    BY <2>2, <2>3
<1>2. IsWellFoundedOn(Less, Nat)
  <2>1. IsWellFoundedOn(OpToRel(<, Nat), Nat)
    BY NatLessThanWellFounded
  <2> QED
    BY <2>1 DEF OpToRel
<1>3. PICK m \in T : \A x \in T : <<x, m>> \notin Less
  <2> HIDE DEF T, Less
  <2> QED
    BY <1>1, <1>2, WFMin
<1>4. PICK n \in S : m = b - n
  OBVIOUS
<1>5. ASSUME NEW i \in S PROVE i <= n
  <2>1. b - i \in T /\ <<b - i, b - n>> \notin Less
    BY <1>3, <1>4
  <2>2. ~(b - i < b - n)
    BY <1>1, <2>1
  <2> QED
    BY <2>2
<1> QED
  BY <1>5

\* RStrip and StartsWith for segments of any kind, one of which is empty.
CutAfter(p, empty) ==
  LET filled == {i \in DOMAIN p : p[i] # empty}
  IN  CHOOSE n \in filled \cup {0} : \A i \in filled : i <= n

BeginsWith(path, p, empty) ==
  \E n \in 0..Len(path) :
    /\ n <= Len(p) /\ SubSeq(path, 1, n) = SubSeq(p, 1, n)
    /\ \A i \in n+1..Len(p) : p[i] = empty

\* CutAfter finds the last segment that is not empty, if there is one.
LEMMA LastFilled ==
  ASSUME NEW Segment, NEW empty, NEW p \in Seq(Segment)
  PROVE  LET m == CutAfter(p, empty)
         IN  /\ m \in 0..Len(p)
             /\ m > 0 => p[m] # empty
             /\ \A i \in m+1..Len(p) : p[i] = empty
<1> DEFINE filled == {i \in DOMAIN p : p[i] # empty}
           all == filled \cup {0}
           m == CutAfter(p, empty)
<1>1. Len(p) \in Nat /\ all \in SUBSET (0..Len(p)) /\ all # {}
  OBVIOUS
<1>2. \E n \in all : \A i \in all : i <= n
  <2> HIDE DEF all
  <2> QED
    BY <1>1, Largest
<1>3. \E n \in all : \A i \in filled : i <= n
  BY <1>2
<1>4. m \in all /\ \A i \in filled : i <= m
  <2>1. m = CHOOSE n \in all : \A i \in filled : i <= n
    BY DEF CutAfter
  <2> HIDE DEF m
  <2> QED
    BY <1>3, <2>1, Zenon
<1> HIDE DEF m
<1>5. /\ m \in 0..Len(p)
      /\ m > 0 => p[m] # empty
      /\ \A i \in m+1..Len(p) : p[i] = empty
  BY <1>4
<1> QED
  BY <1>5 DEF m

\* Two sequences start alike when they agree element by element.
LEMMA SameStart ==
  ASSUME NEW Segment, NEW a \in Seq(Segment), NEW b \in Seq(Segment),
         NEW n \in Nat, n <= Len(a), n <= Len(b)
  PROVE  SubSeq(a, 1, n) = SubSeq(b, 1, n) <=> \A i \in 1..n : a[i] = b[i]
BY SMT

\* A path begins with p, trailing empty segments aside, when it begins with p
\* cut after its last filled segment; an empty path may stand for one empty
\* segment without changing that.
LEMMA SameBeginning ==
  ASSUME NEW Segment, NEW empty \in Segment, NEW path \in Seq(Segment), NEW p \in Seq(Segment),
         NEW full, full = IF path = <<>> THEN <<empty>> ELSE path
  PROVE  BeginsWith(path, p, empty) <=>
           LET q == SubSeq(p, 1, CutAfter(p, empty))
           IN  Len(q) <= Len(full) /\ SubSeq(full, 1, Len(q)) = q
<1> DEFINE m == CutAfter(p, empty)
<1>1. /\ m \in 0..Len(p)
      /\ m > 0 => p[m] # empty
      /\ \A i \in m+1..Len(p) : p[i] = empty
  BY LastFilled
<1> HIDE DEF m
<1>2. full \in Seq(Segment) /\ \/ full = path
                               \/ Len(path) = 0 /\ Len(full) = 1 /\ full[1] = empty
  OBVIOUS
<1>3. ASSUME NEW n \in 0..Len(path), n <= Len(p), SubSeq(path, 1, n) = SubSeq(p, 1, n),
             \A i \in n+1..Len(p) : p[i] = empty
      PROVE  m <= Len(full) /\ SubSeq(full, 1, m) = SubSeq(p, 1, m)
  <2>1. m <= n
    BY <1>1, <1>3
  <2>2. \A i \in 1..n : path[i] = p[i]
    BY <1>3, SameStart
  <2>3. m <= Len(full) /\ \A i \in 1..m : full[i] = p[i]
    BY <1>1, <1>2, <2>1, <2>2
  <2> QED
    BY <1>1, <1>2, <2>3, SameStart
<1>4. ASSUME m <= Len(full), SubSeq(full, 1, m) = SubSeq(p, 1, m)
      PROVE  m \in 0..Len(path) /\ SubSeq(path, 1, m) = SubSeq(p, 1, m)
  <2>1. \A i \in 1..m : full[i] = p[i]
    BY <1>1, <1>2, <1>4, SameStart
  <2>2. m <= Len(path) /\ \A i \in 1..m : path[i] = p[i]
    BY <1>1, <1>2, <1>4, <2>1
  <2> QED
    BY <1>1, <2>2, SameStart
<1>5. Len(SubSeq(p, 1, m)) = m
  BY <1>1
<1>6. BeginsWith(path, p, empty) => m <= Len(full) /\ SubSeq(full, 1, m) = SubSeq(p, 1, m)
  BY <1>3 DEF BeginsWith
<1>7. m <= Len(full) /\ SubSeq(full, 1, m) = SubSeq(p, 1, m) => BeginsWith(path, p, empty)
  BY <1>1, <1>4 DEF BeginsWith
<1>8. BeginsWith(path, p, empty) <=>
        LET q == SubSeq(p, 1, m) IN Len(q) <= Len(full) /\ SubSeq(full, 1, Len(q)) = q
  BY <1>5, <1>6, <1>7, Zenon
<1> QED
  BY <1>8 DEF m

\* A list is a list of the elements of any larger set.
LEMMA WiderSeq ==
  ASSUME NEW S, NEW T, S \subseteq T, NEW p \in Seq(S)
  PROVE  p \in Seq(T)
OBVIOUS

\* What the code makes of an empty path.
Requested(path) == IF path = <<>> THEN <<"">> ELSE path

\* prefix.rstrip("/") and startswith match the paths that begin with the
\* prefix, trailing slashes aside.
LEMMA PrefixMatches ==
  ASSUME NEW path \in Seq(STRING), NEW p \in Seq(STRING)
  PROVE  StartsWith(path, p) <=> LET q == RStrip(p)
                                 IN  /\ Len(q) <= Len(Requested(path))
                                     /\ SubSeq(Requested(path), 1, Len(q)) = q
<1> DEFINE Segment == STRING \cup {""}
<1>1. RStrip(p) = SubSeq(p, 1, CutAfter(p, ""))
  BY Zenon DEF RStrip, CutAfter
<1>2. StartsWith(path, p) <=> BeginsWith(path, p, "")
  BY Zenon DEF StartsWith, BeginsWith
<1>3. Requested(path) = IF path = <<>> THEN <<"">> ELSE path
  BY Zenon DEF Requested
<1>4. "" \in Segment /\ STRING \subseteq Segment
  BY Zenon
<1> HIDE DEF Segment
<1>5. path \in Seq(Segment) /\ p \in Seq(Segment)
  BY <1>4, WiderSeq, Zenon
<1>6. BeginsWith(path, p, "") <=>
        LET q == SubSeq(p, 1, CutAfter(p, ""))
        IN  Len(q) <= Len(Requested(path)) /\ SubSeq(Requested(path), 1, Len(q)) = q
  BY <1>3, <1>4, <1>5, SameBeginning, Zenon
<1> QED
  BY <1>1, <1>2, <1>6, Zenon

-----------------------------------------------------------------------------
(* Origins.                                                                *)

\* Origins whose prefixes are left out admit every path: the prefix "/" they
\* are given is cut down to nothing.
LEMMA NoPrefixMatchesAll ==
  ASSUME NEW path \in Seq(STRING)
  PROVE  PathMatches(Requested(path), {<<"">>})
<1>1. ASSUME NEW empty, NEW Segment, NEW full \in Seq(Segment)
      PROVE  LET q == SubSeq(<<empty>>, 1, CutAfter(<<empty>>, empty))
             IN  Len(q) <= Len(full) /\ SubSeq(full, 1, Len(q)) = q
  <2> DEFINE p == <<empty>>
             m == CutAfter(p, empty)
  <2>1. p \in Seq({empty}) /\ Len(p) = 1 /\ p[1] = empty
    OBVIOUS
  <2> HIDE DEF p
  <2>2. m \in 0..Len(p) /\ (m > 0 => p[m] # empty)
    BY <2>1, LastFilled
  <2> HIDE DEF m
  <2>3. m = 0
    BY <2>1, <2>2
  <2>4. SubSeq(p, 1, 0) = <<>> /\ SubSeq(full, 1, 0) = <<>> /\ Len(full) >= 0
    BY <2>1
  <2> QED
    BY <2>3, <2>4 DEF m, p
<1>2. RStrip(<<"">>) = SubSeq(<<"">>, 1, CutAfter(<<"">>, ""))
  BY Zenon DEF RStrip, CutAfter
<1> DEFINE Segment == STRING \cup {""}
<1>3. "" \in Segment /\ STRING \subseteq Segment
  BY Zenon
<1> HIDE DEF Segment
<1>4. Requested(path) \in Seq(Segment)
  <2>1. ASSUME NEW S, NEW e \in S PROVE <<e>> \in Seq(S)
    OBVIOUS
  <2>2. path \in Seq(Segment)
    BY <1>3, WiderSeq, Zenon
  <2> QED
    BY <1>3, <2>1, <2>2, Zenon DEF Requested
<1>5. LET q == RStrip(<<"">>)
      IN  Len(q) <= Len(Requested(path)) /\ SubSeq(Requested(path), 1, Len(q)) = q
  BY <1>1, <1>2, <1>4, Zenon
<1> QED
  BY <1>5, Zenon DEF PathMatches

\* The path test of an accepted origin is the operator's reading of it.
LEMMA PathsCovered ==
  ASSUME NEW prefixes, ListAccepted(prefixes),
         IsValue(prefixes) => prefixes.v \subseteq Seq(STRING),
         NEW path \in Seq(STRING)
  PROVE  PathMatches(Requested(path), ListOr(prefixes, {<<"">>})) <=>
           \/ ~IsValue(prefixes) \/ prefixes.v = {}
           \/ \E p \in prefixes.v : StartsWith(path, p)
<1>1. CASE ~IsValue(prefixes)
  <2>1. ListOr(prefixes, {<<"">>}) = {<<"">>}
    BY <1>1, Zenon DEF ListOr
  <2> QED
    BY <1>1, <2>1, NoPrefixMatchesAll, Zenon
<1>2. CASE IsValue(prefixes)
  <2>1. ListOr(prefixes, {<<"">>}) = prefixes.v
    BY <1>2, Zenon DEF ListOr
  <2>2. ASSUME NEW p \in prefixes.v
        PROVE  StartsWith(path, p) <=> LET q == RStrip(p)
                                       IN  /\ Len(q) <= Len(Requested(path))
                                           /\ SubSeq(Requested(path), 1, Len(q)) = q
    BY <1>2, PrefixMatches
  <2> QED
    BY <1>2, <2>1, <2>2, Zenon DEF PathMatches
<1> QED
  BY <1>1, <1>2

\* int() reads a whole number, quoted or not, as that number.
LEMMA PlainPort ==
  ASSUME NEW port, IsPlainPort(port)
  PROVE  IntOf(port) = port.n
BY DEF IsPlainPort, IntOf, NumberOf, IsValue

\* The ports of an accepted plain origin are those it lists, and 0 is not one.
LEMMA PortsListed ==
  ASSUME NEW o, OriginAccepted(o), IsPlainOrigin(o)
  PROVE  OriginOf(o).ports = Listed(o) /\ 0 \notin Listed(o)
<1>1. \A port \in o.ports.v : IsPlainPort(port)
  BY Zenon DEF IsPlainOrigin
<1>2. \A port \in o.ports.v : IntOf(port) = port.n
  BY <1>1, PlainPort
<1>3. OriginOf(o).ports = {IntOf(port) : port \in o.ports.v}
  BY Zenon DEF OriginOf
<1>4. Listed(o) = {IntOf(port) : port \in o.ports.v}
  BY <1>1, <1>2 DEF Listed
<1>5. \A port \in o.ports.v : IntOf(port) \in 1..MaxPort
  BY Zenon DEF OriginAccepted
<1>6. 0 \notin 1..MaxPort
  OBVIOUS
<1> QED
  BY <1>3, <1>4, <1>5, <1>6, Zenon

\* The record an accepted plain origin becomes covers what the origin covers.
LEMMA OriginCovers ==
  ASSUME NEW o, OriginAccepted(o), IsPlainOrigin(o),
         IsValue(o.path_prefixes) => o.path_prefixes.v \subseteq Seq(STRING),
         NEW url, url.path \in Seq(STRING), NEW method
  PROVE  LET c == OriginOf(o)
         IN  /\ Covers(o, url, method) <=>
                  /\ c.scheme = url.scheme /\ c.host = NormalizeHost(url.host)
                  /\ EffectivePort(url) \in c.ports
                  /\ method \in c.methods
                  /\ PathMatches(Requested(url.path), c.prefixes)
             /\ c.scheme = o.scheme /\ c.host = o.host.v.name /\ c.ports = Listed(o)
<1> DEFINE c == OriginOf(o)
<1>0. IsValue(o.host)
  BY Zenon DEF IsPlainOrigin
<1>1. /\ c.scheme = o.scheme /\ c.host = o.host.v.name /\ c.ports = Listed(o)
      /\ c.prefixes = ListOr(o.path_prefixes, {<<"">>})
      /\ c.methods = ListOr(o.methods, {"GET"})
  BY <1>0, PortsListed, Zenon DEF OriginOf, HostOf, NormalizeHost
<1> HIDE DEF c
<1>2. ListAccepted(o.path_prefixes) /\ ListAccepted(o.methods)
  BY Zenon DEF OriginAccepted
<1>3. EffectivePort(url) \in Listed(o) <=>
        \/ url.port \in Listed(o)
        \/ url.port = 0 /\ (IF url.scheme = "https" THEN 443 ELSE 80) \in Listed(o)
  BY PortsListed, Zenon DEF EffectivePort
<1>4. method \in ListOr(o.methods, {"GET"}) <=>
        IF o.methods = Absent THEN method = "GET" ELSE method \in o.methods.v
  BY <1>2 DEF ListAccepted, ListOr, IsValue, Absent
<1>5. PathMatches(Requested(url.path), c.prefixes) <=>
        \/ ~IsValue(o.path_prefixes) \/ o.path_prefixes.v = {}
        \/ \E p \in o.path_prefixes.v : StartsWith(url.path, p)
  <2> DEFINE prefixes == o.path_prefixes
  <2>1. ListAccepted(prefixes) /\ (IsValue(prefixes) => prefixes.v \subseteq Seq(STRING))
    BY <1>2
  <2> HIDE DEF prefixes
  <2>2. PathMatches(Requested(url.path), ListOr(prefixes, {<<"">>})) <=>
          \/ ~IsValue(prefixes) \/ prefixes.v = {}
          \/ \E p \in prefixes.v : StartsWith(url.path, p)
    BY <2>1, PathsCovered, Zenon
  <2> QED
    BY <1>1, <2>2, Zenon DEF prefixes
<1>6. c.host = NormalizeHost(url.host) <=> o.host.v.name = url.host.name
  BY <1>1 DEF NormalizeHost
<1>7. Covers(o, url, method) <=>
        /\ c.scheme = url.scheme /\ c.host = NormalizeHost(url.host)
        /\ EffectivePort(url) \in c.ports
        /\ method \in c.methods
        /\ PathMatches(Requested(url.path), c.prefixes)
  BY <1>0, <1>1, <1>3, <1>4, <1>5, <1>6, Zenon DEF Covers
<1> QED
  BY <1>1, <1>7, Zenon DEF c

-----------------------------------------------------------------------------
(* Scope.                                                                  *)

\* An accepted file of the documents is a list of origins OriginCovers is about.
LEMMA FileOrigins ==
  ASSUME NEW d \in Documents, Accepted(d), NEW i \in DOMAIN d.allowed_origins.v
  PROVE  LET o == d.allowed_origins.v[i]
         IN  /\ OriginAccepted(o) /\ (PlainOrigins(d) => IsPlainOrigin(o))
             /\ IsValue(o.path_prefixes) => o.path_prefixes.v \subseteq Seq(STRING)
             /\ ConfigOf(d).origins[i] = OriginOf(o)
<1>1. /\ IsValue(d.allowed_origins)
      /\ \A j \in DOMAIN d.allowed_origins.v : OriginAccepted(d.allowed_origins.v[j])
  BY Zenon DEF Accepted
<1>2. \A j \in DOMAIN d.allowed_origins.v :
        LET prefixes == d.allowed_origins.v[j].path_prefixes
        IN  IsValue(prefixes) => prefixes.v \subseteq Seq(STRING)
  BY <1>1, DecisionAssumption, Zenon DEF DocumentShape
<1>3. ConfigOf(d).origins[i] = OriginOf(d.allowed_origins.v[i])
  BY Zenon DEF ConfigOf
<1>4. PlainOrigins(d) => IsPlainOrigin(d.allowed_origins.v[i])
  BY Zenon DEF PlainOrigins
<1> QED
  BY <1>1, <1>2, <1>3, <1>4, Zenon

\* The exclusions of an accepted file are the exclusions of its record.
LEMMA FileExclusions ==
  ASSUME NEW d, Accepted(d), NEW url
  PROVE  Excluded(d, url) <=> NormalizeHost(url.host) \in ConfigOf(d).excluded
<1>1. ConfigOf(d).excluded = {NormalizeHost(host) : host \in ListOr(d.excluded_hosts, {})}
  BY Zenon DEF ConfigOf
<1>2. ListAccepted(d.excluded_hosts)
  BY Zenon DEF Accepted
<1> QED
  BY <1>1, <1>2 DEF Excluded, ListAccepted, ListOr, IsValue, Absent, NormalizeHost

\* The origins check_url has to choose from are those of the file that name the
\* scheme, the host and the port.
LEMMA FileOriginsFor ==
  ASSUME NEW d \in Documents, Accepted(d), NEW url
  PROVE  OriginsFor(ConfigOf(d), url) =
           {i \in DOMAIN d.allowed_origins.v :
              LET c == OriginOf(d.allowed_origins.v[i])
              IN  /\ c.scheme = url.scheme /\ c.host = NormalizeHost(url.host)
                  /\ EffectivePort(url) \in c.ports}
<1>1. DOMAIN ConfigOf(d).origins = DOMAIN d.allowed_origins.v
  BY Zenon DEF ConfigOf
<1>2. \A i \in DOMAIN d.allowed_origins.v :
        ConfigOf(d).origins[i] = OriginOf(d.allowed_origins.v[i])
  BY FileOrigins
<1> QED
  BY <1>1, <1>2, Zenon DEF OriginsFor

\* What check_url allows some origin of a plain file covers.
LEMMA ScopeIsCovered ==
  ASSUME NEW d \in Documents, Accepted(d), PlainOrigins(d), NEW url, url.path \in Seq(STRING), NEW method,
         CheckUrl(ConfigOf(d), url, method)
  PROVE  /\ ~Excluded(d, url)
         /\ \E i \in DOMAIN d.allowed_origins.v : Covers(d.allowed_origins.v[i], url, method)
<1>1. NormalizeHost(url.host) \notin ConfigOf(d).excluded /\ FirstOriginAllows(ConfigOf(d), url, method)
  BY Zenon DEF CheckUrl
<1>2. PICK i \in OriginsFor(ConfigOf(d), url) :
        /\ method \in ConfigOf(d).origins[i].methods
        /\ PathMatches(Requested(url.path), ConfigOf(d).origins[i].prefixes)
  BY <1>1, Zenon DEF FirstOriginAllows, Requested
<1> DEFINE o == d.allowed_origins.v[i]
<1>3. /\ i \in DOMAIN d.allowed_origins.v
      /\ OriginOf(o).scheme = url.scheme /\ OriginOf(o).host = NormalizeHost(url.host)
      /\ EffectivePort(url) \in OriginOf(o).ports
  BY FileOriginsFor, Zenon
<1>4. /\ OriginAccepted(o) /\ IsPlainOrigin(o)
      /\ IsValue(o.path_prefixes) => o.path_prefixes.v \subseteq Seq(STRING)
      /\ ConfigOf(d).origins[i] = OriginOf(o)
  BY <1>3, FileOrigins, Zenon
<1> HIDE DEF o
<1>5. Covers(o, url, method)
  BY <1>2, <1>3, <1>4, OriginCovers, Zenon
<1> QED
  BY <1>1, <1>3, <1>5, FileExclusions, Zenon DEF o

\* When no two origins of the file share scheme, host and port, the first
\* origin that names them is the only one, so check_url allows what it covers.
LEMMA CoveredIsInScope ==
  ASSUME NEW d \in Documents, Accepted(d), PlainOrigins(d),
         NEW url, url.path \in Seq(STRING), NEW method,
         DisjointOrigins(d), PlainUrl(url), ~Excluded(d, url),
         NEW i \in DOMAIN d.allowed_origins.v, Covers(d.allowed_origins.v[i], url, method)
  PROVE  CheckUrl(ConfigOf(d), url, method)
<1> DEFINE o == d.allowed_origins.v[i]
           cs == ConfigOf(d)
<1>1. /\ OriginAccepted(o) /\ IsPlainOrigin(o)
      /\ IsValue(o.path_prefixes) => o.path_prefixes.v \subseteq Seq(STRING)
      /\ cs.origins[i] = OriginOf(o)
  BY FileOrigins, Zenon
<1>2. /\ OriginOf(o).scheme = url.scheme /\ OriginOf(o).host = NormalizeHost(url.host)
      /\ EffectivePort(url) \in OriginOf(o).ports
      /\ method \in OriginOf(o).methods
      /\ PathMatches(Requested(url.path), OriginOf(o).prefixes)
  <2> HIDE DEF o
  <2>1. Covers(o, url, method)
    BY Zenon DEF o
  <2> QED
    BY <1>1, <2>1, OriginCovers, Zenon
<1>3. i \in OriginsFor(cs, url)
  BY <1>2, FileOriginsFor, Zenon
<1>4. ASSUME NEW j \in OriginsFor(cs, url) PROVE j = i
  <2> DEFINE p == d.allowed_origins.v[j]
  <2>1. /\ j \in DOMAIN d.allowed_origins.v
        /\ OriginOf(p).scheme = url.scheme /\ OriginOf(p).host = NormalizeHost(url.host)
        /\ EffectivePort(url) \in OriginOf(p).ports
    BY <1>4, FileOriginsFor, Zenon
  <2>2. OriginAccepted(p) /\ IsPlainOrigin(p)
    BY <2>1, FileOrigins, Zenon
  <2>3. j # i => \/ p.scheme # o.scheme \/ p.host.v.name # o.host.v.name
                 \/ Listed(p) \cap Listed(o) = {}
    BY <2>1, Zenon DEF DisjointOrigins
  <2> HIDE DEF o, p
  <2>4. /\ OriginOf(o).scheme = o.scheme /\ OriginOf(p).scheme = p.scheme
        /\ OriginOf(o).host = o.host.v.name /\ OriginOf(p).host = p.host.v.name
    BY <1>1, <2>2, Zenon DEF OriginOf, HostOf, NormalizeHost, IsPlainOrigin
  <2>5. OriginOf(o).ports = Listed(o) /\ OriginOf(p).ports = Listed(p)
    BY <1>1, <2>2, PortsListed, Zenon
  <2>6. EffectivePort(url) \in Listed(p) \cap Listed(o)
    BY <1>2, <2>1, <2>5, Zenon
  <2> QED
    BY <1>2, <2>1, <2>3, <2>4, <2>6, Zenon
<1>5. i <= i
  <2>1. DOMAIN d.allowed_origins.v = 1..Len(d.allowed_origins.v)
    <3>1. IsValue(d.allowed_origins)
      BY Zenon DEF Accepted
    <3> QED
      BY <3>1, DecisionAssumption, Zenon DEF DocumentShape
  <2> QED
    BY <2>1
<1>6. FirstOriginAllows(cs, url, method)
  <2>1. \A j \in OriginsFor(cs, url) : i <= j
    BY <1>4, <1>5, Zenon
  <2>2. /\ method \in cs.origins[i].methods
        /\ PathMatches(Requested(url.path), cs.origins[i].prefixes)
    BY <1>1, <1>2, Zenon
  <2> HIDE DEF cs
  <2> QED
    BY <1>3, <2>1, <2>2, Zenon DEF FirstOriginAllows, Requested
<1>7. NormalizeHost(url.host) \notin cs.excluded
  BY FileExclusions, Zenon
<1>8. NormalizeHost(url.host) # ""
  BY <1>1, <1>2, Zenon DEF OriginAccepted, OriginOf
<1> QED
  BY <1>6, <1>7, <1>8, Zenon DEF CheckUrl, PlainUrl

-----------------------------------------------------------------------------
(* The decision.                                                           *)

Verdicts == {"unread", "refused", "pending", "out_of_scope", "inactive", "unapproved", "permitted"}

\* A verdict is only ever given under the record of the accepted file, and it
\* says which of the three tests the request passed.
DecisionInv ==
  /\ doc \in Documents
  /\ request \in [url : Urls, method : Methods, approval : Approvals]
  /\ verdict \in Verdicts
  /\ verdict \notin {"unread", "refused"} => Accepted(doc) /\ cfg = ConfigOf(doc)
  /\ verdict = "out_of_scope" => ~InScope(cfg, request)
  /\ verdict \in {"inactive", "unapproved", "permitted"} => InScope(cfg, request)
  /\ verdict = "permitted" => ActiveAllowed(cfg, request) /\ IsApproved(cfg, ApprovedIds, request)

\* In every reachable state a verdict matches the tests it stands for.
THEOREM VerdictMatches == Spec => []DecisionInv
<1>1. Init => DecisionInv
  BY DEF Init, DecisionInv, Verdicts
<1>2. DecisionInv /\ [Next]_vars => DecisionInv'
  <2> SUFFICES ASSUME DecisionInv, [Next]_vars PROVE DecisionInv'
    OBVIOUS
  <2>1. CASE Load
    BY <2>1 DEF Load, DecisionInv, Verdicts
  <2>2. CASE Decide
    BY <2>2 DEF Decide, DecisionInv, Verdicts
  <2>3. CASE UNCHANGED vars
    BY <2>3 DEF vars, DecisionInv
  <2> QED
    BY <2>1, <2>2, <2>3 DEF Next
<1> QED
  BY <1>1, <1>2, PTL DEF Spec

\* Of a file whose hosts are given and whose ports are whole numbers, loading and
\* check_url together let nothing through that no origin of the file covers as a
\* whole, or whose host is excluded.
THEOREM ScopeSoundHolds == Spec => []ScopeSound
<1>1. DecisionInv => ScopeSound
  <2> SUFFICES ASSUME DecisionInv, Decided, verdict # "out_of_scope", PlainOrigins(doc)
               PROVE  CoveredByFile(doc, request)
    BY DEF ScopeSound
  <2>1. /\ doc \in Documents /\ Accepted(doc) /\ cfg = ConfigOf(doc)
        /\ request.url.path \in Seq(STRING)
        /\ InScope(cfg, request)
    BY DecisionAssumption DEF DecisionInv, Decided, Verdicts
  <2>2. CheckUrl(ConfigOf(doc), request.url, request.method)
    BY <2>1, Zenon DEF InScope
  <2> QED
    BY <2>1, <2>2, ScopeIsCovered, Zenon DEF CoveredByFile
<1> QED
  BY <1>1, VerdictMatches, PTL

\* check_url refuses nothing such a file covers when no two of its origins share
\* a scheme, a host and a port.
THEOREM ScopeCompleteHolds == Spec => []ScopeComplete
<1>1. DecisionInv => ScopeComplete
  <2> SUFFICES ASSUME DecisionInv, verdict = "out_of_scope", DisjointOrigins(doc),
                      PlainUrl(request.url), PlainOrigins(doc), CoveredByFile(doc, request)
               PROVE  FALSE
    BY DEF ScopeComplete
  <2>1. /\ doc \in Documents /\ Accepted(doc) /\ cfg = ConfigOf(doc)
        /\ request.url.path \in Seq(STRING)
        /\ ~InScope(cfg, request)
    BY DecisionAssumption DEF DecisionInv
  <2>2. CheckUrl(ConfigOf(doc), request.url, request.method)
    BY <2>1, CoveredIsInScope, Zenon DEF CoveredByFile
  <2> QED
    BY <2>1, <2>2, Zenon DEF InScope
<1> QED
  BY <1>1, VerdictMatches, PTL

\* Every limit of an accepted file, a default or a number of the file, is a
\* positive integer within the maximum the code tests it against.
LEMMA LimitBinds ==
  ASSUME NEW val, NEW most \in Nat, IntAccepted(val, most), NEW default \in 1..most
  PROVE  IntOr(val, default) \in 1..most
BY SMT DEF IntAccepted, IntOr

\* The budget, the slots and the case and payload limits a decision is made
\* under are positive integers within the maxima of the code.
THEOREM LoadedLimitsBindHolds == Spec => []LoadedLimitsBind
<1>1. DecisionInv => LoadedLimitsBind
  <2> SUFFICES ASSUME DecisionInv, Decided
               PROVE  /\ LimitsAccepted(cfg.maxRequests, cfg.maxConcurrent)
                      /\ cfg.maxPayload \in 1..MaxPayloadBytes
                      /\ cfg.maxCases \in 1..MaxCases
    BY DEF LoadedLimitsBind
  <2>1. Accepted(doc) /\ cfg = ConfigOf(doc)
    BY DEF DecisionInv, Decided
  <2>2. LimitsSectionAccepted(doc.limits) /\ ActiveAccepted(doc.active_testing)
    BY <2>1, Zenon DEF Accepted
  <2>3. /\ IntAccepted(Field(doc.limits, "max_requests"), Unlimited)
        /\ IntAccepted(Field(doc.limits, "max_concurrent_requests"), Unlimited)
        /\ IntAccepted(Field(doc.active_testing, "max_payload_bytes"), MaxPayloadBytes)
        /\ IntAccepted(Field(doc.active_testing, "max_cases"), MaxCases)
    BY <2>2, Zenon DEF LimitsSectionAccepted, ActiveAccepted
  <2>4. /\ cfg.maxRequests = IntOr(Field(doc.limits, "max_requests"), 100)
        /\ cfg.maxConcurrent = IntOr(Field(doc.limits, "max_concurrent_requests"), 1)
        /\ cfg.maxPayload = IntOr(Field(doc.active_testing, "max_payload_bytes"), 8192)
        /\ cfg.maxCases = IntOr(Field(doc.active_testing, "max_cases"), 25)
    BY <2>1 DEF ConfigOf
  <2>5. /\ cfg.maxRequests \in 1..Unlimited
        /\ cfg.maxConcurrent \in 1..Unlimited
    <3>1. Unlimited \in Nat /\ 100 <= Unlimited
      BY SMT DEF Unlimited
    <3>2. IntOr(Field(doc.limits, "max_requests"), 100) \in 1..Unlimited
      BY <2>3, <3>1, LimitBinds, SMT
    <3>3. IntOr(Field(doc.limits, "max_concurrent_requests"), 1) \in 1..Unlimited
      BY <2>3, <3>1, LimitBinds, SMT
    <3> QED
      BY <2>4, <3>2, <3>3, SMT
  <2>6. cfg.maxPayload \in 1..MaxPayloadBytes
    <3>1. MaxPayloadBytes \in Nat /\ 8192 <= MaxPayloadBytes
      BY SMT DEF MaxPayloadBytes
    <3>2. IntOr(Field(doc.active_testing, "max_payload_bytes"), 8192) \in 1..MaxPayloadBytes
      BY <2>3, <3>1, LimitBinds, SMT
    <3> QED
      BY <2>4, <3>2, SMT
  <2>7. cfg.maxCases \in 1..MaxCases
    <3>1. MaxCases \in Nat /\ 25 <= MaxCases
      BY SMT DEF MaxCases
    <3>2. IntOr(Field(doc.active_testing, "max_cases"), 25) \in 1..MaxCases
      BY <2>3, <3>1, LimitBinds, SMT
    <3> QED
      BY <2>4, <3>2, SMT
  <2>8. Unlimited \in Nat
    BY SMT DEF Unlimited
  <2> QED
    BY <2>5, <2>6, <2>7, <2>8 DEF LimitsAccepted
<1> QED
  BY <1>1, VerdictMatches, PTL

\* A flag that is loaded as something else than its default is a flag the file
\* gives, in so many words.
LEMMA FlagIsSaid ==
  ASSUME NEW section, NEW f, FlagShape(Field(section, f)), NEW b \in BOOLEAN,
         StrictBool(Field(section, f), ~b) = b
  PROVE  Says(section, f, b)
<1> DEFINE val == Field(section, f)
<1>1. IsValue(val)
  BY DEF StrictBool
<1>2. IsValue(section) /\ val = section.v[f]
  BY <1>1 DEF Field, IsValue, Absent
<1>3. val \in {Just(TRUE), Just(FALSE)} /\ val.v = b
  BY <1>1 DEF FlagShape, StrictBool
<1>4. val = Just(b)
  BY <1>3 DEF Just
<1> QED
  BY <1>2, <1>4 DEF Says

\* A loaded flag is true or false.
LEMMA FlagIsBoolean ==
  ASSUME NEW val, FlagShape(val), NEW default \in BOOLEAN
  PROVE  StrictBool(val, default) \in BOOLEAN
<1>1. CASE IsValue(val)
  <2>1. val \in {Just(TRUE), Just(FALSE)}
    BY <1>1 DEF FlagShape
  <2>2. val.v = TRUE \/ val.v = FALSE
    <3>1. CASE val = Just(TRUE)
      BY <3>1, Zenon DEF Just
    <3>2. CASE val = Just(FALSE)
      BY <3>2, Zenon DEF Just
    <3> QED
      BY <2>1, <3>1, <3>2
  <2> QED
    BY <1>1, <2>2, Zenon DEF StrictBool
<1>2. CASE ~IsValue(val)
  BY <1>2, Zenon DEF StrictBool
<1> QED
  BY <1>1, <1>2

\* A request that changes state passes only if the file itself says that active
\* testing is on and the risk allowed, and that no approval is needed unless
\* the operator gave that very id: no default opens it.
THEOREM NothingByDefaultHolds == Spec => []NothingByDefault
<1>1. DecisionInv => NothingByDefault
  <2> DEFINE risk == IF request.method = "DELETE" THEN "destructive" ELSE "state_mutation"
             approval == IF request.method = "DELETE" THEN "require_destructive_approval"
                         ELSE "require_state_change_approval"
             kind == RiskForMethod(request.method)
             acts == ActionsOf(doc.actions)
  <2> SUFFICES ASSUME DecisionInv, verdict = "permitted", request.method \notin ReadMethods
               PROVE  /\ Says(doc.active_testing, "enabled", TRUE)
                      /\ Says(doc.actions, risk, TRUE)
                      /\ Says(doc.actions, approval, FALSE) \/ request.approval \in ApprovedIds
    BY Zenon DEF NothingByDefault
  <2>1. /\ doc \in Documents /\ cfg = ConfigOf(doc)
        /\ ActiveAllowed(cfg, request) /\ IsApproved(cfg, ApprovedIds, request)
    BY DEF DecisionInv
  <2>2. kind = IF request.method = "DELETE" THEN "destructive" ELSE "state_change"
    BY DEF RiskForMethod
  <2>3. cfg.active = StrictBool(Field(doc.active_testing, "enabled"), FALSE) /\ cfg.actions = acts
    BY <2>1 DEF ConfigOf
  <2>4. /\ FlagShape(Field(doc.active_testing, "enabled"))
        /\ \A f \in Flags : FlagShape(Field(doc.actions, f))
    BY <2>1, DecisionAssumption, Zenon DEF DocumentShape
  <2>5. Says(doc.active_testing, "enabled", TRUE)
    <3>1. cfg.active
      BY <2>1, <2>2 DEF ActiveAllowed
    <3>2. StrictBool(Field(doc.active_testing, "enabled"), FALSE) \in BOOLEAN
      BY <2>4, FlagIsBoolean
    <3>3. StrictBool(Field(doc.active_testing, "enabled"), FALSE) = TRUE
      BY <2>3, <3>1, <3>2
    <3> QED
      BY <2>4, <3>3, FlagIsSaid
  <2>6. risk \in Flags /\ approval \in Flags
    BY DEF Flags
  <2>7. /\ acts[risk] = StrictBool(Field(doc.actions, risk), FALSE)
        /\ acts[approval] = StrictBool(Field(doc.actions, approval), TRUE)
    BY DEF ActionsOf, Flags
  <2>8. acts[risk] \in BOOLEAN /\ acts[approval] \in BOOLEAN
    BY <2>4, <2>6, <2>7, FlagIsBoolean
  <2>9. /\ acts[risk]
        /\ ~acts[approval] \/ request.approval \in ApprovedIds
    <3>1. Allows(acts, kind) /\ Evaluate(acts, ApprovedIds, kind, request.approval)
      BY <2>1, <2>3, Zenon DEF IsApproved, Evaluate
    <3> HIDE DEF acts, kind
    <3>2. acts[risk]
      BY <2>2, <3>1 DEF Allows
    <3>3. ~acts[approval] \/ request.approval \in ApprovedIds
      BY <2>2, <3>1, Zenon DEF Evaluate
    <3> QED
      BY <3>2, <3>3
  <2>10. Says(doc.actions, risk, TRUE)
    <3>1. StrictBool(Field(doc.actions, risk), FALSE) = TRUE
      BY <2>7, <2>8, <2>9
    <3> QED
      BY <2>4, <2>6, <3>1, FlagIsSaid
  <2>11. Says(doc.actions, approval, FALSE) \/ request.approval \in ApprovedIds
    <3>1. CASE ~acts[approval]
      <4>1. StrictBool(Field(doc.actions, approval), TRUE) = FALSE
        BY <2>7, <2>8, <3>1
      <4> QED
        BY <2>4, <2>6, <4>1, FlagIsSaid
    <3> QED
      BY <2>9, <3>1
  <2> QED
    BY <2>5, <2>10, <2>11
<1> QED
  BY <1>1, VerdictMatches, PTL
=============================================================================

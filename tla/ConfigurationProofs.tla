-------------------------- MODULE ConfigurationProofs --------------------------
(***************************************************************************)
(* For all lines, texts, numbers and bounds: the parser gives the meaning  *)
(* of the whole document, whatever its length, an accepted configuration   *)
(* survives being saved and loaded, and an undisturbed load is of the      *)
(* whole text of one version of the file.                                  *)
(*                                                                         *)
(* The parser is a recursive function.  What it returns is proved by       *)
(* induction over the lines, in the form of a set of natural numbers that  *)
(* has 0 and is closed under the successor (SetInduction): the provers     *)
(* can instantiate a set, where they cannot instantiate a predicate.       *)
(***************************************************************************)
EXTENDS Configuration, SequenceTheorems, WellFoundedInduction, TLAPS

-----------------------------------------------------------------------------
(* Induction. *)

\* A set of numbers that is not empty has a least element.
LEMMA LeastNumber ==
  ASSUME NEW T \in SUBSET Nat, T # {}
  PROVE  \E m \in T : \A k \in T : m <= k
  <1> DEFINE Less == OpToRel(<, Nat)
  <1>1. IsWellFoundedOn(Less, Nat)
    BY NatLessThanWellFounded
  <1>2. \A x, y \in Nat : <<x, y>> \in Less <=> x < y
    BY DEF OpToRel
  <1> HIDE DEF Less
  <1>3. PICK m \in T : \A k \in T : ~(<<k, m>> \in Less)
    BY <1>1, WFMin
  <1>4. \A k \in T : ~(k < m)
    BY <1>2, <1>3
  <1> QED BY <1>4

\* A set that has 0, and with every number the next one, has all of them.
LEMMA SetInduction ==
  ASSUME NEW S \in SUBSET Nat, 0 \in S, \A n \in S : n + 1 \in S
  PROVE  S = Nat
  <1> SUFFICES ASSUME S # Nat PROVE FALSE
    OBVIOUS
  <1> DEFINE T == Nat \ S
  <1>1. T \in SUBSET Nat /\ T # {}
    OBVIOUS
  <1> HIDE DEF T
  <1>2. PICK m \in T : \A k \in T : m <= k
    BY <1>1, LeastNumber
  <1> USE DEF T
  <1>3. m # 0 /\ m \in Nat
    BY <1>2
  <1>4. m - 1 \in S
    BY <1>2, <1>3
  <1> QED BY <1>2, <1>3, <1>4

\* The same up to a bound.
LEMMA BoundedInduction ==
  ASSUME NEW N \in Nat, NEW S \in SUBSET (0..N), 0 \in S,
         \A n \in S : n < N => n + 1 \in S
  PROVE  S = 0..N
  <1> DEFINE T == {n \in Nat : n <= N => n \in S}
  <1>1. T \in SUBSET Nat /\ 0 \in T
    OBVIOUS
  <1>2. \A n \in T : n + 1 \in T
    OBVIOUS
  <1> HIDE DEF T
  <1>3. T = Nat
    BY <1>1, <1>2, SetInduction
  <1>4. \A n \in 0..N : n \in T /\ n <= N
    BY <1>3
  <1>5. \A n \in 0..N : n \in S
    BY <1>4 DEF T
  <1> QED BY <1>5

\* The least element of a set of numbers is the one that FirstOf chooses.
LEMMA FirstIs ==
  ASSUME NEW S \in SUBSET Nat, NEW e \in S, \A m \in S : e <= m
  PROVE  FirstOf(S) = e
  <1>1. \A n \in S : (\A m \in S : n <= m) => n = e
    OBVIOUS
  <1> QED BY <1>1 DEF FirstOf

\* The same of the greatest.
LEMMA LastIs ==
  ASSUME NEW S \in SUBSET Nat, NEW e \in S, \A m \in S : m <= e
  PROVE  LastOf(S) = e
  <1>1. \A n \in S : (\A m \in S : m <= n) => n = e
    OBVIOUS
  <1> QED BY <1>1 DEF LastOf

-----------------------------------------------------------------------------
(* The parser. *)

\* What the lines that follow are to know of the first n lines.
FirstParsed(lines, n, g) ==
  g = [i \in 0..n |-> IF i = 0 THEN Unread ELSE ParseLine(g[i - 1], i, lines[i])]

\* The recursive function exists: it is what its equation says.
LEMMA ParsedEquation ==
  ASSUME NEW lines, Len(lines) \in Nat
  PROVE  FirstParsed(lines, Len(lines), Parsed(lines))
  <1> DEFINE S == {n \in Nat : \E g : FirstParsed(lines, n, g)}
  <1>1. S \in SUBSET Nat
    OBVIOUS
  <1>2. 0 \in S
    <2> DEFINE g == [i \in 0..0 |-> Unread]
    <2>1. g = [i \in 0..0 |-> IF i = 0 THEN Unread ELSE ParseLine(g[i - 1], i, lines[i])]
      OBVIOUS
    <2> QED BY <2>1 DEF FirstParsed
  <1>3. ASSUME NEW n \in S PROVE n + 1 \in S
    <2>1. n \in Nat
      OBVIOUS
    <2>2. PICK g : FirstParsed(lines, n, g)
      OBVIOUS
    <2> DEFINE h == [i \in 0..n + 1 |->
                       IF i <= n THEN g[i] ELSE ParseLine(g[n], n + 1, lines[n + 1])]
    <2>3. \A i \in 0..n :
            g[i] = IF i = 0 THEN Unread ELSE ParseLine(g[i - 1], i, lines[i])
      BY <2>2 DEF FirstParsed
    <2>4. ASSUME NEW i \in 0..n + 1
          PROVE  h[i] = IF i = 0 THEN Unread ELSE ParseLine(h[i - 1], i, lines[i])
      <3>1. CASE i = 0
        <4>1. h[i] = g[0] /\ g[0] = Unread
          BY <2>1, <2>3, <3>1
        <4> QED BY <3>1, <4>1
      <3>2. CASE i \in 1..n
        <4>1. h[i] = g[i] /\ h[i - 1] = g[i - 1]
          BY <2>1, <3>2
        <4>2. i # 0 /\ g[i] = ParseLine(g[i - 1], i, lines[i])
          BY <2>1, <2>3, <3>2
        <4> HIDE DEF h
        <4> QED BY <4>1, <4>2
      <3>3. CASE i = n + 1
        <4>1. h[i] = ParseLine(g[n], n + 1, lines[n + 1]) /\ h[i - 1] = g[n] /\ i # 0
          BY <2>1, <3>3
        <4> HIDE DEF h
        <4> QED BY <3>3, <4>1
      <3> QED BY <2>1, <3>1, <3>2, <3>3
    <2>5. h = [i \in 0..n + 1 |-> h[i]]
      OBVIOUS
    <2> HIDE DEF h
    <2>6. FirstParsed(lines, n + 1, h)
      BY <2>4, <2>5 DEF FirstParsed
    <2> QED BY <2>1, <2>6
  <1> HIDE DEF S
  <1>4. S = Nat
    BY <1>1, <1>2, <1>3, SetInduction
  <1>5. \E g : FirstParsed(lines, Len(lines), g)
    BY <1>4 DEF S
  <1>6. Parsed(lines) = CHOOSE g : FirstParsed(lines, Len(lines), g)
    BY DEF Parsed, FirstParsed
  <1> QED BY <1>5, <1>6

\* The keys of the format.
Known == DOMAIN DefaultConfiguration

\* What is accepted has a known key, which the mark of a comment is not.
LEMMA KeyFacts ==
  /\ Known = {"schema_version", "start_minimized", "telemetry_enabled",
              "preferred_render_endpoint_id", "log_directory",
              "minimum_log_severity"}
  /\ "schema_version" \in Known /\ Skipped \notin Known
  /\ \A key, v : Accepts(key, v) => key \in Known
  <1>1. Known = {"schema_version", "start_minimized", "telemetry_enabled",
                 "preferred_render_endpoint_id", "log_directory",
                 "minimum_log_severity"}
    BY DEF Known, DefaultConfiguration
  <1>2. Skipped \notin Known
    BY <1>1 DEF Skipped
  <1>3. \A key, v : Accepts(key, v) => key \in Known
    BY <1>1 DEF Accepts, BoolKeys, TextKeys
  <1> QED BY <1>1, <1>2, <1>3

\* The value of a field after the first n lines: that of the last line that
\* assigns it, or the default.
Holds(lines, n, key, value) ==
  \/ /\ \A i \in 1..n : lines[i].key # key
     /\ value = DefaultConfiguration[key]
  \/ \E i \in 1..n :
       /\ lines[i].key = key /\ \A j \in i+1..n : lines[j].key # key
       /\ value = ValueOf(key, Trim(lines[i].value))

\* What the parser knows after the first n lines: the first wrong one of
\* them, or else the last assignments and whether there was a schema.
KnowsPrefix(lines, n, p) ==
  /\ p = [config |-> p.config, schema_seen |-> p.schema_seen, error |-> p.error]
  /\ p.config = [key \in Known |-> p.config[key]]
  /\ p.error # 0 => /\ p.error \in 1..n /\ Wrong(lines[p.error])
                    /\ \A i \in 1..p.error - 1 : ~Wrong(lines[i])
  /\ p.error = 0 => /\ \A i \in 1..n : ~Wrong(lines[i])
                    /\ p.schema_seen <=> \E i \in 1..n : lines[i].key = "schema_version"
                    /\ \A key \in Known : Holds(lines, n, key, p.config[key])

\* It knows that before the first line.
LEMMA KnowsNothing ==
  ASSUME NEW lines
  PROVE  KnowsPrefix(lines, 0, Unread)
  <1>1. Unread.config = DefaultConfiguration /\ Unread.schema_seen = FALSE
        /\ Unread.error = 0
        /\ Unread = [config |-> Unread.config, schema_seen |-> Unread.schema_seen,
                     error |-> Unread.error]
    BY DEF Unread
  <1>2. DefaultConfiguration = [key \in Known |-> DefaultConfiguration[key]]
    BY DEF Known, DefaultConfiguration
  <1>3. \A key \in Known : Holds(lines, 0, key, DefaultConfiguration[key])
    BY DEF Holds
  <1> HIDE DEF Unread
  <1> QED BY <1>1, <1>2, <1>3 DEF KnowsPrefix

\* A line that does not assign a field leaves what it holds.
LEMMA HoldsOn ==
  ASSUME NEW lines, NEW n \in Nat, NEW key, NEW value,
         Holds(lines, n, key, value), lines[n + 1].key # key
  PROVE  Holds(lines, n + 1, key, value)
  <1>1. \A i \in 1..n + 1 : i \in 1..n \/ i = n + 1
    OBVIOUS
  <1>2. CASE (\A i \in 1..n : lines[i].key # key) /\ value = DefaultConfiguration[key]
    BY <1>1, <1>2 DEF Holds
  <1>3. ASSUME NEW i \in 1..n, lines[i].key = key,
               \A j \in i+1..n : lines[j].key # key,
               value = ValueOf(key, Trim(lines[i].value))
        PROVE  Holds(lines, n + 1, key, value)
    <2>1. i \in 1..n + 1 /\ \A j \in i+1..n+1 : lines[j].key # key
      BY <1>3
    <2> QED BY <1>3, <2>1 DEF Holds
  <1> QED BY <1>2, <1>3 DEF Holds

\* A line that assigns a field decides what it holds.
LEMMA HoldsNew ==
  ASSUME NEW lines, NEW n \in Nat
  PROVE  LET l == lines[n + 1]
         IN Holds(lines, n + 1, l.key, ValueOf(l.key, Trim(l.value)))
  <1>1. n + 1 \in 1..n + 1 /\ \A j \in n+1+1..n+1 : FALSE
    OBVIOUS
  <1> QED BY <1>1 DEF Holds

\* It knows it of every line it has parsed.
LEMMA KnowsNextLine ==
  ASSUME NEW lines, NEW n \in Nat, NEW p, KnowsPrefix(lines, n, p)
  PROVE  KnowsPrefix(lines, n + 1, ParseLine(p, n + 1, lines[n + 1]))
  <1> DEFINE l == lines[n + 1]
             v == Trim(l.value)
             q == ParseLine(p, n + 1, l)
  <1>1. /\ p = [config |-> p.config, schema_seen |-> p.schema_seen, error |-> p.error]
        /\ p.config = [key \in Known |-> p.config[key]]
        /\ p.error # 0 => /\ p.error \in 1..n /\ Wrong(lines[p.error])
                          /\ \A i \in 1..p.error - 1 : ~Wrong(lines[i])
        /\ p.error = 0 => \A i \in 1..n : ~Wrong(lines[i])
        /\ p.error = 0 => (p.schema_seen <=> \E i \in 1..n : lines[i].key = "schema_version")
        /\ p.error = 0 => \A key \in Known : Holds(lines, n, key, p.config[key])
    BY DEF KnowsPrefix
  <1>2. \A i \in 1..n + 1 : i \in 1..n \/ i = n + 1
    OBVIOUS
  <1>3. CASE p.error # 0
    <2>1. q = p
      BY <1>3 DEF ParseLine
    <2>2. p.error \in 1..n + 1
      BY <1>1, <1>3
    <2> HIDE DEF q, l
    <2>3. KnowsPrefix(lines, n + 1, p)
      BY <1>1, <1>3, <2>2 DEF KnowsPrefix
    <2> QED BY <2>1, <2>3 DEF q, l
  <1>4. CASE p.error = 0 /\ l.key = Skipped
    <2>1. q = p
      BY <1>4 DEF ParseLine
    <2>2. ~Wrong(l)
      BY <1>4 DEF Wrong
    <2>3. \A key \in Known : lines[n + 1].key # key
      BY <1>4, KeyFacts
    <2> HIDE DEF q
    <2>4. \A i \in 1..n + 1 : ~Wrong(lines[i])
      BY <1>1, <1>2, <1>4, <2>2
    <2>5. p.schema_seen <=> \E i \in 1..n + 1 : lines[i].key = "schema_version"
      BY <1>1, <1>2, <1>4, <2>3, KeyFacts
    <2>6. \A key \in Known : Holds(lines, n + 1, key, p.config[key])
      BY <1>1, <1>4, <2>3, HoldsOn
    <2>7. KnowsPrefix(lines, n + 1, p)
      BY <1>1, <1>4, <2>4, <2>5, <2>6 DEF KnowsPrefix
    <2> QED BY <2>1, <2>7 DEF q
  <1>5. CASE p.error = 0 /\ l.key # Skipped /\ ~Accepts(l.key, v)
    <2>1. q = [p EXCEPT !.error = n + 1]
      BY <1>5 DEF ParseLine
    <2>2. q = [config |-> p.config, schema_seen |-> p.schema_seen, error |-> n + 1]
      BY <1>1, <2>1
    <2>3. Wrong(lines[n + 1])
      BY <1>5 DEF Wrong
    <2> HIDE DEF q
    <2>4. /\ q = [config |-> q.config, schema_seen |-> q.schema_seen, error |-> q.error]
          /\ q.config = p.config /\ q.error = n + 1
      BY <2>2
    <2>5. q.error # 0 /\ q.error \in 1..n + 1 /\ \A i \in 1..q.error - 1 : i \in 1..n
      BY <2>4
    <2>6. KnowsPrefix(lines, n + 1, q)
      BY <1>1, <1>5, <2>3, <2>4, <2>5 DEF KnowsPrefix
    <2> QED BY <2>6 DEF q
  <1>6. CASE p.error = 0 /\ l.key # Skipped /\ Accepts(l.key, v)
    <2>1. q = [config |-> Assign(p.config, l.key, v),
               schema_seen |-> p.schema_seen \/ l.key = "schema_version", error |-> 0]
      BY <1>6 DEF ParseLine
    <2>2. ~Wrong(lines[n + 1]) /\ l.key \in Known
      BY <1>6, KeyFacts DEF Wrong
    <2> HIDE DEF q
    <2>3. /\ q = [config |-> q.config, schema_seen |-> q.schema_seen, error |-> q.error]
          /\ q.config = [p.config EXCEPT ![l.key] = ValueOf(l.key, v)]
          /\ q.schema_seen <=> (p.schema_seen \/ l.key = "schema_version")
          /\ q.error = 0
      BY <2>1 DEF Assign
    <2>4. /\ q.config = [key \in Known |-> q.config[key]]
          /\ q.config[l.key] = ValueOf(l.key, v)
          /\ \A key \in Known : key # l.key => q.config[key] = p.config[key]
      BY <1>1, <2>2, <2>3
    <2>5. \A i \in 1..n + 1 : ~Wrong(lines[i])
      BY <1>1, <1>2, <1>6, <2>2
    <2>6. q.schema_seen <=> \E i \in 1..n + 1 : lines[i].key = "schema_version"
      <3>1. n + 1 \in 1..n + 1 /\ \A i \in 1..n : i \in 1..n + 1
        OBVIOUS
      <3> QED BY <1>1, <1>2, <1>6, <2>3, <3>1
    <2>7. ASSUME NEW key \in Known
          PROVE  Holds(lines, n + 1, key, q.config[key])
      <3>1. CASE key = l.key
        BY <2>4, <3>1, HoldsNew
      <3>2. CASE key # l.key
        BY <1>1, <1>6, <2>4, <3>2, HoldsOn
      <3> QED BY <3>1, <3>2
    <2>8. KnowsPrefix(lines, n + 1, q)
      BY <2>3, <2>4, <2>5, <2>6, <2>7 DEF KnowsPrefix
    <2> QED BY <2>8 DEF q
  <1> QED BY <1>3, <1>4, <1>5, <1>6

\* After the last line it knows it of the whole document.
LEMMA KnowsDocument ==
  ASSUME NEW lines, Len(lines) \in Nat
  PROVE  KnowsPrefix(lines, Len(lines), Parsed(lines)[Len(lines)])
  <1> DEFINE N == Len(lines)
             P == Parsed(lines)
             S == {n \in 0..N : KnowsPrefix(lines, n, P[n])}
  <1>1. \A i \in 0..N :
          P[i] = IF i = 0 THEN Unread ELSE ParseLine(P[i - 1], i, lines[i])
    <2> HIDE DEF P
    <2>1. FirstParsed(lines, N, P)
      BY ParsedEquation DEF P
    <2> QED BY <2>1 DEF FirstParsed
  <1> HIDE DEF N, P
  <1>2. N \in Nat
    BY DEF N
  <1>3. S \in SUBSET (0..N) /\ 0 \in S
    <2>1. 0 \in 0..N /\ P[0] = Unread
      BY <1>1, <1>2
    <2> QED BY <2>1, KnowsNothing
  <1>4. ASSUME NEW n \in S, n < N
        PROVE  n + 1 \in S
    <2>1. n \in Nat /\ n + 1 \in 0..N /\ n + 1 # 0 /\ (n + 1) - 1 = n
      BY <1>2, <1>4
    <2>2. P[n + 1] = ParseLine(P[n], n + 1, lines[n + 1])
      BY <1>1, <2>1
    <2>3. KnowsPrefix(lines, n, P[n])
      OBVIOUS
    <2> QED BY <2>1, <2>2, <2>3, KnowsNextLine
  <1> HIDE DEF S
  <1>5. S = 0..N
    BY <1>2, <1>3, <1>4, BoundedInduction
  <1>6. N \in S
    BY <1>2, <1>5
  <1> QED BY <1>6 DEF S, N, P

\* What the parser holds of a field after the last line is what the last
\* line that assigns it says.
LEMMA FieldIsLast ==
  ASSUME NEW lines, Len(lines) \in Nat, DOMAIN lines = 1..Len(lines),
         NEW key, NEW value, Holds(lines, Len(lines), key, value)
  PROVE  value = IF Assigning(lines, key) = {} THEN DefaultConfiguration[key]
                 ELSE ValueOf(key, Trim(lines[LastOf(Assigning(lines, key))].value))
  <1> DEFINE N == Len(lines)
             A == Assigning(lines, key)
  <1>1. A = {n \in 1..N : lines[n].key = key}
    BY DEF Assigning
  <1>2. CASE (\A i \in 1..N : lines[i].key # key) /\ value = DefaultConfiguration[key]
    BY <1>1, <1>2
  <1>3. ASSUME NEW i \in 1..N, lines[i].key = key,
               \A j \in i+1..N : lines[j].key # key,
               value = ValueOf(key, Trim(lines[i].value))
        PROVE  A # {} /\ value = ValueOf(key, Trim(lines[LastOf(A)].value))
    <2>1. A \in SUBSET Nat /\ i \in A
      BY <1>1, <1>3
    <2>2. \A m \in A : m <= i
      BY <1>1, <1>3
    <2> HIDE DEF A
    <2>3. LastOf(A) = i
      BY <2>1, <2>2, LastIs
    <2> QED BY <1>3, <2>1, <2>3
  <1>4. \/ (\A i \in 1..N : lines[i].key # key) /\ value = DefaultConfiguration[key]
        \/ \E i \in 1..N : /\ lines[i].key = key /\ \A j \in i+1..N : lines[j].key # key
                           /\ value = ValueOf(key, Trim(lines[i].value))
    BY DEF Holds
  <1> QED BY <1>2, <1>3, <1>4

\* The parser, which runs through a document once and stops at the first
\* wrong line, gives the meaning of the whole of it, of whatever lines and
\* however many it consists.
THEOREM ParseIsMeaning ==
  ASSUME NEW L, NEW lines \in Seq(L)
  PROVE  Parse(lines) = Meaning(lines)
  <1> DEFINE N == Len(lines)
             end == Parsed(lines)[N]
             wrong == {n \in DOMAIN lines : Wrong(lines[n])}
             Field(key) ==
               IF Assigning(lines, key) = {} THEN DefaultConfiguration[key]
               ELSE ValueOf(key, Trim(lines[LastOf(Assigning(lines, key))].value))
  <1>1. N \in Nat /\ DOMAIN lines = 1..N
    OBVIOUS
  <1>2. KnowsPrefix(lines, N, end)
    BY <1>1, KnowsDocument
  <1>3. Parse(lines) = IF end.error # 0 THEN Error(end.error)
                       ELSE IF ~end.schema_seen THEN Error(0) ELSE Success(end.config)
    BY DEF Parse
  <1>4. Meaning(lines) =
          IF wrong # {} THEN Error(FirstOf(wrong))
          ELSE IF Assigning(lines, "schema_version") = {} THEN Error(0)
          ELSE Success([key \in DOMAIN DefaultConfiguration |-> Field(key)])
    BY DEF Meaning
  <1> HIDE DEF end
  <1>5. CASE end.error # 0
    <2> DEFINE e == end.error
    <2>1. e \in 1..N /\ Wrong(lines[e]) /\ \A i \in 1..e - 1 : ~Wrong(lines[i])
      BY <1>2, <1>5 DEF KnowsPrefix
    <2> HIDE DEF e
    <2>2. wrong \in SUBSET Nat /\ e \in wrong
      BY <1>1, <2>1
    <2>3. \A m \in wrong : e <= m
      BY <1>1, <2>1
    <2> HIDE DEF wrong
    <2>4. FirstOf(wrong) = e /\ wrong # {}
      BY <2>2, <2>3, FirstIs
    <2> QED BY <1>3, <1>4, <1>5, <2>4 DEF e
  <1>6. CASE end.error = 0
    <2>1. /\ \A i \in 1..N : ~Wrong(lines[i])
          /\ end.schema_seen <=> \E i \in 1..N : lines[i].key = "schema_version"
          /\ \A key \in Known : Holds(lines, N, key, end.config[key])
          /\ end.config = [key \in Known |-> end.config[key]]
      BY <1>2, <1>6 DEF KnowsPrefix
    <2>2. wrong = {}
      BY <1>1, <2>1
    <2>3. end.schema_seen <=> Assigning(lines, "schema_version") # {}
      BY <1>1, <2>1 DEF Assigning
    <2>4. \A key \in Known : end.config[key] = Field(key)
      BY <1>1, <2>1, FieldIsLast
    <2> HIDE DEF Field
    <2>5. end.config = [key \in Known |-> Field(key)]
      BY <2>1, <2>4
    <2> HIDE DEF wrong
    <2> QED BY <1>3, <1>4, <1>6, <2>2, <2>3, <2>5 DEF Known
  <1> QED BY <1>5, <1>6

-----------------------------------------------------------------------------
(* The values of an accepted configuration. *)

\* What Trim leaves of the values of some lines.
Texts(L) == {Trim(l.value) : l \in L}

\* The configurations that lines of L may assign.
ConfigurationsOf(L) ==
  [schema_version : {kConfigurationSchemaVersion}, start_minimized : BOOLEAN,
   telemetry_enabled : BOOLEAN,
   preferred_render_endpoint_id : Texts(L) \cup {""},
   log_directory : Texts(L) \cup {"logs"}, minimum_log_severity : Severities]

\* A field that is assigned or left has a value of its type.
LEMMA FieldTypes ==
  ASSUME NEW L, NEW lines \in Seq(L), NEW key \in Known, NEW value,
         \A i \in 1..Len(lines) : ~Wrong(lines[i]),
         Holds(lines, Len(lines), key, value)
  PROVE  /\ key = "schema_version" => value = kConfigurationSchemaVersion
         /\ key \in BoolKeys => value \in BOOLEAN
         /\ key = "preferred_render_endpoint_id" => value \in Texts(L) \cup {""}
         /\ key = "log_directory" => value \in Texts(L) \cup {"logs"}
         /\ key = "minimum_log_severity" => value \in Severities
  <1>1. CASE value = DefaultConfiguration[key]
    <2>1. /\ DefaultConfiguration["schema_version"] = kConfigurationSchemaVersion
          /\ DefaultConfiguration["start_minimized"] = FALSE
          /\ DefaultConfiguration["telemetry_enabled"] = FALSE
          /\ DefaultConfiguration["preferred_render_endpoint_id"] = ""
          /\ DefaultConfiguration["log_directory"] = "logs"
          /\ DefaultConfiguration["minimum_log_severity"] = "info"
      BY DEF DefaultConfiguration
    <2>2. "info" \in Severities
      BY DEF Severities
    <2>3. key \in BoolKeys => value = FALSE
      BY <1>1, <2>1 DEF BoolKeys
    <2> QED BY <1>1, <2>1, <2>2, <2>3
  <1>2. ASSUME NEW i \in 1..Len(lines), lines[i].key = key,
               value = ValueOf(key, Trim(lines[i].value))
        PROVE  /\ key = "schema_version" => value = kConfigurationSchemaVersion
               /\ key \in BoolKeys => value \in BOOLEAN
               /\ key \in TextKeys => value \in Texts(L)
               /\ key = "minimum_log_severity" => value \in Severities
    <2> DEFINE v == Trim(lines[i].value)
    <2>1. lines[i] \in L
      OBVIOUS
    <2>2. v \in Texts(L)
      BY <2>1 DEF Texts
    <2>3. Accepts(key, v)
      BY <1>2, KeyFacts DEF Wrong
    <2> HIDE DEF v
    <2>4. value = ValueOf(key, v)
      BY <1>2 DEF v
    <2>5. CASE key = "schema_version"
      <3>1. key \notin BoolKeys /\ key \notin TextKeys
        BY <2>5 DEF BoolKeys, TextKeys
      <3>2. v \in DOMAIN Numbers /\ Numbers[v] = kConfigurationSchemaVersion
        BY <2>3, <2>5, <3>1 DEF Accepts
      <3>3. value = Numbers[v]
        BY <2>4, <2>5 DEF ValueOf
      <3> QED BY <2>5, <3>1, <3>2, <3>3
    <2>6. CASE key \in BoolKeys
      <3>1. key # "schema_version" /\ key \notin TextKeys /\ key # "minimum_log_severity"
        BY <2>6 DEF BoolKeys, TextKeys
      <3>2. value = BoolOf(v)
        BY <2>4, <2>6, <3>1 DEF ValueOf
      <3>3. value \in BOOLEAN
        BY <3>2 DEF BoolOf
      <3> QED BY <3>1, <3>3
    <2>7. CASE key # "schema_version" /\ key \notin BoolKeys
      <3>1. value = v
        BY <2>4, <2>7 DEF ValueOf
      <3>2. key = "minimum_log_severity" => key \notin TextKeys
        BY DEF TextKeys
      <3>3. key = "minimum_log_severity" => v \in Severities
        BY <2>3, <2>7, <3>2 DEF Accepts
      <3> QED BY <2>2, <2>7, <3>1, <3>3
    <2> QED BY <2>5, <2>6, <2>7
  <1> QED BY <1>1, <1>2 DEF Holds, TextKeys

\* So an accepted configuration has values of the fields' types only, and
\* its lines had a number for the schema that is the supported version.
LEMMA ParseTypes ==
  ASSUME NEW L, NEW lines \in Seq(L)
  PROVE  \/ \E n \in 0..Len(lines) : Parse(lines) = Error(n)
         \/ \E c \in ConfigurationsOf(L) :
              /\ Parse(lines) = Success(c)
              /\ \E v \in DOMAIN Numbers : Numbers[v] = kConfigurationSchemaVersion
  <1> DEFINE N == Len(lines)
             end == Parsed(lines)[N]
  <1>1. N \in Nat
    OBVIOUS
  <1>2. KnowsPrefix(lines, N, end)
    BY <1>1, KnowsDocument
  <1>3. Parse(lines) = IF end.error # 0 THEN Error(end.error)
                       ELSE IF ~end.schema_seen THEN Error(0) ELSE Success(end.config)
    BY DEF Parse
  <1> HIDE DEF end
  <1>4. CASE end.error # 0
    <2>1. end.error \in 0..N
      BY <1>1, <1>2, <1>4 DEF KnowsPrefix
    <2> QED BY <1>3, <1>4, <2>1
  <1>5. CASE end.error = 0 /\ ~end.schema_seen
    <2>1. 0 \in 0..N
      BY <1>1
    <2> QED BY <1>3, <1>5, <2>1
  <1>6. CASE end.error = 0 /\ end.schema_seen
    <2> DEFINE c == end.config
    <2>1. /\ \A i \in 1..N : ~Wrong(lines[i])
          /\ \E i \in 1..N : lines[i].key = "schema_version"
          /\ \A key \in Known : Holds(lines, N, key, c[key])
          /\ c = [key \in Known |-> c[key]]
      BY <1>2, <1>6 DEF KnowsPrefix
    <2> HIDE DEF c
    <2>2. /\ c["schema_version"] = kConfigurationSchemaVersion
          /\ c["start_minimized"] \in BOOLEAN /\ c["telemetry_enabled"] \in BOOLEAN
          /\ c["preferred_render_endpoint_id"] \in Texts(L) \cup {""}
          /\ c["log_directory"] \in Texts(L) \cup {"logs"}
          /\ c["minimum_log_severity"] \in Severities
      BY <2>1, FieldTypes, KeyFacts DEF BoolKeys
    <2>3. c \in ConfigurationsOf(L)
      BY <2>1, <2>2, KeyFacts DEF ConfigurationsOf
    <2>4. \E v \in DOMAIN Numbers : Numbers[v] = kConfigurationSchemaVersion
      <3>1. PICK i \in 1..N : lines[i].key = "schema_version"
        BY <2>1
      <3>2. Accepts("schema_version", Trim(lines[i].value))
        BY <2>1, <3>1, KeyFacts DEF Wrong
      <3> QED BY <3>2 DEF Accepts, BoolKeys, TextKeys
    <2> QED BY <1>3, <1>6, <2>3, <2>4 DEF c
  <1> QED BY <1>4, <1>5, <1>6

-----------------------------------------------------------------------------
(* Saving and loading. *)

\* There is nothing left to trim from what was trimmed or is a word of the
\* format.
LEMMA TrimmedStays ==
  /\ \A v : Trim(Trim(v)) = Trim(v)
  /\ \A v \in {"", "logs", "true", "false"} \cup Severities \cup DOMAIN Numbers :
       Trim(v) = v
  <1> DEFINE W == {"", "logs", "true", "false"} \cup Severities \cup DOMAIN Numbers
  <1>1. /\ \A v \in DOMAIN Trimmed : Trimmed[v] \notin DOMAIN Trimmed
        /\ DOMAIN Trimmed \cap W = {}
    BY TrimAssumption
  <1> HIDE DEF W
  <1>2. \A v : Trim(Trim(v)) = Trim(v)
    BY <1>1 DEF Trim
  <1>3. \A v \in W : Trim(v) = v
    BY <1>1 DEF Trim
  <1> QED BY <1>2, <1>3 DEF W

\* The only line that assigns a field decides what it holds.
LEMMA HoldsOnly ==
  ASSUME NEW lines, NEW n \in Nat, NEW value, NEW i \in 1..n,
         Holds(lines, n, lines[i].key, value),
         \A j \in 1..n : j # i => lines[j].key # lines[i].key
  PROVE  value = ValueOf(lines[i].key, Trim(lines[i].value))
  <1>1. PICK j \in 1..n : /\ lines[j].key = lines[i].key
                          /\ value = ValueOf(lines[i].key, Trim(lines[j].value))
    BY DEF Holds
  <1>2. j = i
    BY <1>1
  <1> QED BY <1>1, <1>2

\* A line of every field, with a value that is read back as it was.
LEMMA SavedLine ==
  ASSUME NEW L, NEW c \in ConfigurationsOf(L),
         \E v \in DOMAIN Numbers : Numbers[v] = kConfigurationSchemaVersion
  PROVE  /\ Accepts("schema_version", Trim(NumberText(c.schema_version)))
         /\ ValueOf("schema_version", Trim(NumberText(c.schema_version))) = c.schema_version
         /\ \A key \in BoolKeys, b \in BOOLEAN :
              Accepts(key, Trim(BoolText(b))) /\ ValueOf(key, Trim(BoolText(b))) = b
         /\ \A key \in TextKeys, v \in Texts(L) \cup {"", "logs"} :
              Accepts(key, Trim(v)) /\ ValueOf(key, Trim(v)) = v
         /\ \A v \in Severities :
              /\ Accepts("minimum_log_severity", Trim(v))
              /\ ValueOf("minimum_log_severity", Trim(v)) = v
  <1>1. /\ Accepts("schema_version", Trim(NumberText(c.schema_version)))
        /\ ValueOf("schema_version", Trim(NumberText(c.schema_version))) = c.schema_version
    <2> DEFINE v == NumberText(c.schema_version)
    <2>1. c.schema_version = kConfigurationSchemaVersion
      BY DEF ConfigurationsOf
    <2>2. v \in DOMAIN Numbers /\ Numbers[v] = kConfigurationSchemaVersion
      BY <2>1 DEF NumberText
    <2> HIDE DEF v
    <2>3. Trim(v) = v
      BY <2>2, TrimmedStays
    <2>4. Accepts("schema_version", v) /\ ValueOf("schema_version", v) = Numbers[v]
      BY <2>2 DEF Accepts, ValueOf
    <2> QED BY <2>1, <2>2, <2>3, <2>4 DEF v
  <1>2. ASSUME NEW key \in BoolKeys, NEW b \in BOOLEAN
        PROVE  Accepts(key, Trim(BoolText(b))) /\ ValueOf(key, Trim(BoolText(b))) = b
    <2>1. BoolText(b) \in {"true", "false"}
      BY DEF BoolText
    <2>2. Trim(BoolText(b)) = BoolText(b)
      BY <2>1, TrimmedStays
    <2>3. ParsesBool(BoolText(b))
      BY <2>1 DEF ParsesBool
    <2>4. BoolOf(BoolText(b)) = b
      <3>1. CASE b = TRUE
        BY <3>1 DEF BoolText, BoolOf
      <3>2. CASE b = FALSE
        BY <3>2 DEF BoolText, BoolOf
      <3> QED BY <3>1, <3>2
    <2>5. key # "schema_version"
      BY DEF BoolKeys
    <2> QED BY <2>2, <2>3, <2>4, <2>5 DEF Accepts, ValueOf
  <1>3. ASSUME NEW key \in TextKeys, NEW v \in Texts(L) \cup {"", "logs"}
        PROVE  Accepts(key, Trim(v)) /\ ValueOf(key, Trim(v)) = v
    <2>1. Trim(v) = v
      BY TrimmedStays DEF Texts
    <2>2. key # "schema_version" /\ key \notin BoolKeys
      BY DEF BoolKeys, TextKeys
    <2> QED BY <2>1, <2>2 DEF Accepts, ValueOf
  <1>4. ASSUME NEW v \in Severities
        PROVE  /\ Accepts("minimum_log_severity", Trim(v))
               /\ ValueOf("minimum_log_severity", Trim(v)) = v
    <2>1. Trim(v) = v
      BY TrimmedStays
    <2>2. "minimum_log_severity" \notin BoolKeys
      BY DEF BoolKeys
    <2> QED BY <2>1, <2>2 DEF Accepts, ValueOf
  <1> QED BY <1>1, <1>2, <1>3, <1>4

\* Every configuration with values of the fields' types is read back from
\* what SerializeConfiguration makes of it, if the schema version can be
\* written at all.
THEOREM SavedIsRead ==
  ASSUME NEW L, NEW c \in ConfigurationsOf(L),
         \E v \in DOMAIN Numbers : Numbers[v] = kConfigurationSchemaVersion
  PROVE  Parse(SerializeConfiguration(c)) = Success(c)
  <1> DEFINE s == SerializeConfiguration(c)
             end == Parsed(s)[Len(s)]
  <1>1. /\ Len(s) = 6
        /\ s[1] = Entry("schema_version", NumberText(c.schema_version))
        /\ s[2] = Entry("start_minimized", BoolText(c.start_minimized))
        /\ s[3] = Entry("telemetry_enabled", BoolText(c.telemetry_enabled))
        /\ s[4] = Entry("preferred_render_endpoint_id", c.preferred_render_endpoint_id)
        /\ s[5] = Entry("log_directory", c.log_directory)
        /\ s[6] = Entry("minimum_log_severity", c.minimum_log_severity)
    BY DEF SerializeConfiguration
  <1>2. \A key, v : Entry(key, v).key = key /\ Entry(key, v).value = v
    BY DEF Entry
  <1>3. /\ c.start_minimized \in BOOLEAN /\ c.telemetry_enabled \in BOOLEAN
        /\ c.preferred_render_endpoint_id \in Texts(L) \cup {"", "logs"}
        /\ c.log_directory \in Texts(L) \cup {"", "logs"}
        /\ c.minimum_log_severity \in Severities
        /\ c = [key \in Known |-> c[key]]
    BY KeyFacts DEF ConfigurationsOf
  <1> HIDE DEF s
  <1>4. /\ s[1].key = "schema_version" /\ s[2].key = "start_minimized"
        /\ s[3].key = "telemetry_enabled" /\ s[4].key = "preferred_render_endpoint_id"
        /\ s[5].key = "log_directory" /\ s[6].key = "minimum_log_severity"
    BY <1>1, <1>2
  <1>5. /\ s[1].value = NumberText(c.schema_version)
        /\ s[2].value = BoolText(c.start_minimized)
        /\ s[3].value = BoolText(c.telemetry_enabled)
        /\ s[4].value = c.preferred_render_endpoint_id
        /\ s[5].value = c.log_directory /\ s[6].value = c.minimum_log_severity
    BY <1>1, <1>2
  <1>6. /\ Accepts("schema_version", Trim(NumberText(c.schema_version)))
        /\ ValueOf("schema_version", Trim(NumberText(c.schema_version))) = c.schema_version
        /\ \A key \in BoolKeys, b \in BOOLEAN :
             Accepts(key, Trim(BoolText(b))) /\ ValueOf(key, Trim(BoolText(b))) = b
        /\ \A key \in TextKeys, v \in Texts(L) \cup {"", "logs"} :
             Accepts(key, Trim(v)) /\ ValueOf(key, Trim(v)) = v
        /\ \A v \in Severities :
             /\ Accepts("minimum_log_severity", Trim(v))
             /\ ValueOf("minimum_log_severity", Trim(v)) = v
    BY SavedLine
  <1>7. /\ "start_minimized" \in BoolKeys /\ "telemetry_enabled" \in BoolKeys
        /\ "preferred_render_endpoint_id" \in TextKeys /\ "log_directory" \in TextKeys
    BY DEF BoolKeys, TextKeys
  <1>8. /\ \A i \in {1, 2, 3, 4, 5, 6} : Accepts(s[i].key, Trim(s[i].value))
        /\ ValueOf(s[1].key, Trim(s[1].value)) = c["schema_version"]
        /\ ValueOf(s[2].key, Trim(s[2].value)) = c["start_minimized"]
        /\ ValueOf(s[3].key, Trim(s[3].value)) = c["telemetry_enabled"]
        /\ ValueOf(s[4].key, Trim(s[4].value)) = c["preferred_render_endpoint_id"]
        /\ ValueOf(s[5].key, Trim(s[5].value)) = c["log_directory"]
        /\ ValueOf(s[6].key, Trim(s[6].value)) = c["minimum_log_severity"]
    <2>1. /\ Accepts(s[1].key, Trim(s[1].value))
          /\ ValueOf(s[1].key, Trim(s[1].value)) = c["schema_version"]
      BY <1>4, <1>5, <1>6
    <2>2. /\ Accepts(s[2].key, Trim(s[2].value))
          /\ ValueOf(s[2].key, Trim(s[2].value)) = c["start_minimized"]
      BY <1>3, <1>4, <1>5, <1>6, <1>7
    <2>3. /\ Accepts(s[3].key, Trim(s[3].value))
          /\ ValueOf(s[3].key, Trim(s[3].value)) = c["telemetry_enabled"]
      BY <1>3, <1>4, <1>5, <1>6, <1>7
    <2>4. /\ Accepts(s[4].key, Trim(s[4].value))
          /\ ValueOf(s[4].key, Trim(s[4].value)) = c["preferred_render_endpoint_id"]
      BY <1>3, <1>4, <1>5, <1>6, <1>7
    <2>5. /\ Accepts(s[5].key, Trim(s[5].value))
          /\ ValueOf(s[5].key, Trim(s[5].value)) = c["log_directory"]
      BY <1>3, <1>4, <1>5, <1>6, <1>7
    <2>6. /\ Accepts(s[6].key, Trim(s[6].value))
          /\ ValueOf(s[6].key, Trim(s[6].value)) = c["minimum_log_severity"]
      BY <1>3, <1>4, <1>5, <1>6
    <2> QED BY <2>1, <2>2, <2>3, <2>4, <2>5, <2>6
  <1>9. \A i \in 1..6 : i = 1 \/ i = 2 \/ i = 3 \/ i = 4 \/ i = 5 \/ i = 6
    OBVIOUS
  <1>10. \A i \in 1..6 : ~Wrong(s[i])
    BY <1>8, <1>9 DEF Wrong
  <1>11. KnowsPrefix(s, 6, end)
    <2>1. Len(s) \in Nat /\ Len(s) = 6
      BY <1>1
    <2>2. KnowsPrefix(s, Len(s), Parsed(s)[Len(s)])
      BY <2>1, KnowsDocument
    <2> QED BY <2>1, <2>2
  <1>12. Parse(s) = IF end.error # 0 THEN Error(end.error)
                    ELSE IF ~end.schema_seen THEN Error(0) ELSE Success(end.config)
    BY DEF Parse
  <1> HIDE DEF end
  <1>13. end.error = 0
    BY <1>10, <1>11 DEF KnowsPrefix
  <1>14. end.schema_seen
    <2>1. 1 \in 1..6
      OBVIOUS
    <2> QED BY <1>4, <1>11, <1>13, <2>1 DEF KnowsPrefix
  <1>15. \A key \in Known : end.config[key] = c[key]
    <2>1. \A key \in Known : Holds(s, 6, key, end.config[key])
      BY <1>11, <1>13 DEF KnowsPrefix
    <2>2. \A i \in 1..6 : s[i].key \in Known
      BY <1>4, <1>9, KeyFacts
    <2>3. \A i, j \in 1..6 : j # i => s[j].key # s[i].key
      BY <1>4, <1>9
    <2>4. \A i \in 1..6 : end.config[s[i].key] = ValueOf(s[i].key, Trim(s[i].value))
      BY <2>1, <2>2, <2>3, HoldsOnly
    <2>5. 1 \in 1..6 /\ 2 \in 1..6 /\ 3 \in 1..6 /\ 4 \in 1..6 /\ 5 \in 1..6 /\ 6 \in 1..6
      OBVIOUS
    <2>6. /\ end.config["schema_version"] = c["schema_version"]
          /\ end.config["start_minimized"] = c["start_minimized"]
          /\ end.config["telemetry_enabled"] = c["telemetry_enabled"]
          /\ end.config["preferred_render_endpoint_id"] = c["preferred_render_endpoint_id"]
          /\ end.config["log_directory"] = c["log_directory"]
          /\ end.config["minimum_log_severity"] = c["minimum_log_severity"]
      BY <1>4, <1>8, <2>4, <2>5
    <2> QED BY <2>6, KeyFacts
  <1>16. end.config = c
    BY <1>3, <1>11, <1>15 DEF KnowsPrefix
  <1> QED BY <1>12, <1>13, <1>14, <1>16 DEF s

-----------------------------------------------------------------------------
(* The loader. *)

\* What is to be parsed, or was, is the text of one version of the file, and
\* exceeds the limit by no more lines than were added.
IsLoaded == text = WholeText(version) /\ Len(text) <= SizeLimit + edits

\* The text is empty until the file is open; undisturbed, it is the beginning
\* of a file that has not ended yet, and in the end all of its text.
ReadSoFar ==
  /\ load \in {"idle", "sized"} => text = <<>>
  /\ load \in {"sized", "reading"} /\ ~disturbed => Len(file) <= SizeLimit + edits
  /\ load = "reading" /\ ~disturbed =>
       /\ Len(text) <= Len(file)
       /\ \A i \in 1..Len(text) : text[i] = file[i] /\ file[i] \notin DOMAIN ControlZ
  /\ load = "parsing" /\ ~disturbed => IsLoaded

\* The answer is an error without a configuration until the text is parsed,
\* and after that the answer to this text.
AnswersText ==
  \/ result = Error(0)
  \/ load = "done" /\ result = Parse(text) /\ (~disturbed => IsLoaded)

\* What every step of the loader and of whoever edits the file preserves.
IInv ==
  /\ file \in Documents /\ text \in Documents /\ version \in Documents
  /\ load \in {"idle", "sized", "reading", "parsing", "done"}
  /\ edits \in 0..MaxEdits /\ disturbed \in BOOLEAN
  /\ ReadSoFar /\ AnswersText

\* The documents are the sequences of lines within the bound.
LEMMA DocumentFacts ==
  \A d : d \in Documents <=> d \in Seq(Lines) /\ Len(d) <= MaxLines
  <1>0. MaxLines \in Nat
    BY ConfigurationAssumption
  <1>1. ASSUME NEW d \in Documents
        PROVE  d \in Seq(Lines) /\ Len(d) <= MaxLines
    <2>1. PICK n \in 0..MaxLines : d \in [1..n -> Lines]
      BY DEF Documents
    <2>2. d \in Seq(Lines)
      BY <1>0, <2>1, SeqDef
    <2>3. Len(d) = n
      BY <1>0, <2>1, <2>2, LenProperties
    <2> QED BY <1>0, <2>2, <2>3
  <1>2. ASSUME NEW d \in Seq(Lines), Len(d) <= MaxLines
        PROVE  d \in Documents
    <2>1. d \in [1..Len(d) -> Lines] /\ Len(d) \in 0..MaxLines
      BY <1>0, <1>2, LenProperties
    <2> QED BY <2>1 DEF Documents
  <1> QED BY <1>1, <1>2

\* A text that has every line of the document, none of which ends it, or the
\* lines up to the one that does, is the whole text.
LEMMA WholeTextIs ==
  ASSUME NEW lines \in Seq(Lines), NEW t \in Seq(Lines), Len(t) <= Len(lines),
         \A i \in 1..Len(t) : t[i] = AsRead(lines[i]),
         \A i \in 1..Len(t) : i < Len(t) => lines[i] \notin DOMAIN ControlZ,
         \/ /\ Len(t) = Len(lines)
            /\ \A i \in 1..Len(t) : lines[i] \notin DOMAIN ControlZ
         \/ Len(t) \in 1..Len(lines) /\ lines[Len(t)] \in DOMAIN ControlZ
  PROVE  t = WholeText(lines)
  <1> DEFINE n == Len(t)
             ends == {i \in DOMAIN lines : lines[i] \in DOMAIN ControlZ}
  <1>1. /\ n \in Nat /\ Len(lines) \in Nat /\ DOMAIN lines = 1..Len(lines)
        /\ t = [i \in 1..n |-> t[i]]
    OBVIOUS
  <1>2. TextEnd(lines) = IF ends = {} THEN Len(lines) ELSE FirstOf(ends)
    BY DEF TextEnd
  <1>3. TextEnd(lines) = n
    <2>1. CASE n = Len(lines) /\ \A i \in 1..n : lines[i] \notin DOMAIN ControlZ
      <3>1. ends = {}
        BY <1>1, <2>1
      <3> HIDE DEF n, ends
      <3> QED BY <1>2, <2>1, <3>1
    <2>2. CASE n \in 1..Len(lines) /\ lines[n] \in DOMAIN ControlZ
      <3>0. \A m : m \in ends <=> m \in DOMAIN lines /\ lines[m] \in DOMAIN ControlZ
        OBVIOUS
      <3> HIDE DEF ends, n
      <3>1. n \in ends /\ ends \in SUBSET Nat
        BY <1>1, <2>2, <3>0
      <3>2. \A m \in ends : n <= m
        <4>1. \A m \in ends : m \in 1..Len(lines) /\ lines[m] \in DOMAIN ControlZ
          BY <1>1, <3>0
        <4>2. ASSUME NEW m \in ends, m < n PROVE FALSE
          <5>1. m \in 1..n
            BY <1>1, <4>1, <4>2
          <5>2. \A i \in 1..n : i < n => lines[i] \notin DOMAIN ControlZ
            BY DEF n
          <5> QED BY <4>1, <4>2, <5>1, <5>2
        <4> QED BY <1>1, <3>1, <4>2
      <3>3. FirstOf(ends) = n
        BY <3>1, <3>2, FirstIs
      <3> QED BY <1>2, <3>1, <3>3
    <2> QED BY <2>1, <2>2
  <1>4. \A i \in 1..n : t[i] = AsRead(lines[i])
    OBVIOUS
  <1> HIDE DEF n
  <1>5. WholeText(lines) = [i \in 1..n |-> AsRead(lines[i])]
    BY <1>3 DEF WholeText
  <1> QED BY <1>1, <1>4, <1>5

\* What a line reads as is a line.
LEMMA AsReadType ==
  ASSUME NEW l \in Lines
  PROVE  AsRead(l) \in Lines /\ (l \notin DOMAIN ControlZ => AsRead(l) = l)
  BY ConfigurationAssumption DEF AsRead

\* The load begins with an idle loader and any file.
LEMMA InitEstablishes == Init => IInv
  <1> SUFFICES ASSUME Init PROVE IInv
    OBVIOUS
  <1>1. <<>> \in Documents /\ 0 \in 0..MaxEdits
    <2>1. MaxLines \in Nat /\ MaxEdits \in Nat
      BY ConfigurationAssumption
    <2> DEFINE d == <<>>
    <2>4. d \in Seq(Lines) /\ Len(d) <= MaxLines
      BY <2>1, EmptySeq
    <2> HIDE DEF d
    <2>5. d \in Documents
      BY <2>4, DocumentFacts
    <2>2. <<>> \in Documents
      BY <2>5 DEF d
    <2>3. 0 \in 0..MaxEdits
      BY <2>1
    <2> QED BY <2>2, <2>3
  <1> QED BY <1>1 DEF Init, IInv, ReadSoFar, AnswersText

\* Reading the next line, or the rest of the last one, keeps the invariant.
LEMMA ReadKeeps ==
  ASSUME IInv, ReadLine \/ ReadRest
  PROVE  IInv'
  <1>0. /\ file \in Documents /\ text \in Documents /\ edits \in 0..MaxEdits
        /\ disturbed \in BOOLEAN /\ ReadSoFar /\ AnswersText
        /\ file \in Seq(Lines) /\ text \in Seq(Lines) /\ edits \in Nat
        /\ Len(file) \in Nat /\ Len(text) \in Nat /\ Len(file) <= MaxLines
        /\ Len(text) <= MaxLines /\ MaxLines \in Nat /\ SizeLimit \in Nat
    BY DocumentFacts, ConfigurationAssumption DEF IInv
  <1>1. /\ load = "reading" /\ UNCHANGED <<file, result, edits, disturbed>>
        /\ \E l \in Lines : GoesOn(l)
    <2>1. CASE ReadLine
      <3>1. file[Len(text) + 1] \in Lines
        BY <1>0, <2>1 DEF ReadLine
      <3> QED BY <2>1, <3>1 DEF ReadLine
    <2>2. CASE ReadRest
      <3>1. Len(text) \in 1..Len(file)
        BY <1>0, <2>2, EmptySeq DEF ReadRest, HasRest
      <3>2. file[Len(text)] \in Lines
        BY <1>0, <3>1
      <3> QED BY <2>2, <3>2 DEF ReadRest
    <2> QED BY <2>1, <2>2
  <1>2. /\ load' \in {"reading", "parsing"} /\ version' \in Documents
        /\ result' = Error(0)
    BY <1>0, <1>1 DEF GoesOn, IInv, AnswersText
  <1>3. text' \in Documents
    <2>1. CASE ReadLine
      <3>1. file[Len(text) + 1] \in Lines /\ Len(text) < Len(file)
        BY <1>0, <2>1 DEF ReadLine
      <3>2. text' \in Seq(Lines) /\ Len(text') = Len(text) + 1
        BY <1>0, <2>1, <3>1, AsReadType DEF ReadLine
      <3>3. Len(text') <= MaxLines
        BY <1>0, <3>1, <3>2
      <3> QED BY <3>2, <3>3, DocumentFacts
    <2>2. CASE ReadRest
      <3>1. Len(text) \in 1..Len(file)
        BY <1>0, <2>2, EmptySeq DEF ReadRest, HasRest
      <3>2. AsRead(file[Len(text)]) \in Lines
        BY <1>0, <3>1, AsReadType
      <3>3. text' = [text EXCEPT ![Len(text)] = AsRead(file[Len(text)])]
        BY <2>2 DEF ReadRest
      <3>4. text' \in Seq(Lines) /\ Len(text') = Len(text)
        BY <1>0, <3>1, <3>2, <3>3
      <3> QED BY <1>0, <3>4, DocumentFacts
    <2> QED BY <1>1, <2>1, <2>2
  <1>4. ReadSoFar'
    <2> SUFFICES ASSUME ~disturbed PROVE ReadSoFar'
      BY <1>1, <1>2 DEF ReadSoFar
    <2>1. /\ Len(file) <= SizeLimit + edits /\ Len(text) <= Len(file)
          /\ \A i \in 1..Len(text) : text[i] = file[i] /\ file[i] \notin DOMAIN ControlZ
      BY <1>0, <1>1 DEF ReadSoFar
    <2>2. ~HasRest
      <3> SUFFICES ASSUME HasRest PROVE FALSE
        OBVIOUS
      <3>1. Len(text) \in 1..Len(text)
        BY <1>0, EmptySeq DEF HasRest
      <3>2. text[Len(text)] = file[Len(text)] /\ text[Len(text)] \in Lines
        BY <1>0, <2>1, <3>1
      <3> QED BY <3>2, ConfigurationAssumption DEF HasRest
    <2> DEFINE n == Len(text) + 1
    <2>3. /\ n \in 1..Len(file) /\ text' = Append(text, AsRead(file[n]))
          /\ GoesOn(file[n])
      BY <1>0, <2>2 DEF ReadLine, ReadRest
    <2>4. file[n] \in Lines /\ AsRead(file[n]) \in Lines
      BY <1>0, <2>3, AsReadType
    <2>5. /\ text' \in Seq(Lines) /\ Len(text') = n /\ text'[n] = AsRead(file[n])
          /\ \A i \in 1..Len(text) : text'[i] = text[i]
      BY <1>0, <2>3, <2>4
    <2>6. n \in Nat /\ \A i \in 1..n : i \in 1..Len(text) \/ i = n
      BY <1>0
    <2> HIDE DEF n
    <2>7. \A i \in 1..n : i < n => i \in 1..Len(text)
      BY <1>0, <2>6 DEF n
    <2>8. \A i \in 1..n : text'[i] = AsRead(file[i])
      <3> SUFFICES ASSUME NEW i \in 1..n PROVE text'[i] = AsRead(file[i])
        OBVIOUS
      <3>1. CASE i \in 1..Len(text)
        BY <2>1, <2>5, <3>1 DEF AsRead
      <3>2. CASE i = n
        BY <2>5, <3>2
      <3> QED BY <2>6, <3>1, <3>2
    <2>9. CASE file[n] \in DOMAIN ControlZ
      <3>1. load' = "parsing" /\ version' = file
        BY <2>3, <2>9 DEF GoesOn
      <3>2. text' = WholeText(file)
        <4>1. \A i \in 1..n : i < n => file[i] \notin DOMAIN ControlZ
          BY <2>1, <2>7
        <4> DEFINE t == text'
        <4>2. /\ t \in Seq(Lines) /\ Len(t) = n /\ n <= Len(file)
              /\ \A i \in 1..n : t[i] = AsRead(file[i])
          BY <1>0, <2>3, <2>5, <2>6, <2>8
        <4> HIDE DEF t
        <4>3. t = WholeText(file)
          BY <1>0, <2>3, <2>9, <4>1, <4>2, WholeTextIs
        <4> QED BY <4>3 DEF t
      <3>3. Len(text') <= SizeLimit + edits
        BY <1>0, <2>1, <2>3, <2>5, <2>6
      <3> QED BY <1>1, <3>1, <3>2, <3>3 DEF ReadSoFar, IsLoaded
    <2>10. CASE file[n] \notin DOMAIN ControlZ
      <3>1. load' = "reading"
        BY <1>1, <2>3, <2>10 DEF GoesOn
      <3>2. \A i \in 1..n : text'[i] = file[i] /\ file[i] \notin DOMAIN ControlZ
        BY <2>1, <2>5, <2>6, <2>10 DEF AsRead
      <3> QED BY <1>0, <1>1, <2>1, <2>3, <2>5, <2>6, <3>1, <3>2 DEF ReadSoFar
    <2> QED BY <2>9, <2>10
  <1> QED BY <1>0, <1>1, <1>2, <1>3, <1>4 DEF IInv, AnswersText

\* Every other step of the load keeps the invariant.
LEMMA LoadKeeps ==
  ASSUME IInv, LoadConfigurationFromFile
  PROVE  IInv'
  <1>0. /\ file \in Documents /\ text \in Documents /\ edits \in 0..MaxEdits
        /\ version \in Documents
        /\ disturbed \in BOOLEAN /\ ReadSoFar /\ AnswersText
        /\ file \in Seq(Lines) /\ text \in Seq(Lines) /\ edits \in Nat
        /\ Len(file) \in Nat /\ Len(text) \in Nat /\ Len(file) <= MaxLines
        /\ MaxLines \in Nat /\ SizeLimit \in Nat
    BY DocumentFacts, ConfigurationAssumption DEF IInv
  <1>1. CASE CheckSize
    <2>1. /\ load = "idle" /\ load' \in {"sized", "done"} /\ text = <<>>
          /\ load' = "sized" => Len(file) <= SizeLimit
          /\ UNCHANGED <<file, text, result, edits, version, disturbed>>
      BY <1>0, <1>1 DEF CheckSize, WithinLimit, ReadSoFar
    <2>2. Len(file) <= SizeLimit => Len(file) <= SizeLimit + edits
      BY <1>0
    <2> QED BY <1>0, <2>1, <2>2 DEF IInv, ReadSoFar, AnswersText
  <1>2. CASE Open
    <2>1. /\ load = "sized" /\ load' = "reading" /\ text = <<>>
          /\ UNCHANGED <<file, text, result, edits, version, disturbed>>
      BY <1>0, <1>2 DEF Open, ReadSoFar
    <2>2. Len(text) = 0
      BY <2>1
    <2>3. ReadSoFar'
      BY <1>0, <2>1, <2>2 DEF ReadSoFar
    <2> QED BY <1>0, <2>1, <2>3 DEF IInv, AnswersText
  <1>4. CASE EndRead
    <2>1. /\ load = "reading" /\ load' = "parsing" /\ version' = file
          /\ disturbed' = (disturbed \/ Len(text) < Len(file))
          /\ UNCHANGED <<file, result, edits>>
          /\ \/ text' = text
             \/ /\ Len(text) < Len(file)
                /\ \E l \in Beginnings[file[Len(text) + 1]] : text' = Append(text, l)
      BY <1>4 DEF EndRead
    <2>2. text' \in Documents
      <3>1. CASE text' = text
        BY <1>0, <3>1
      <3>2. ASSUME Len(text) < Len(file),
                   NEW l \in Beginnings[file[Len(text) + 1]], text' = Append(text, l)
            PROVE  text' \in Documents
        <4>1. file[Len(text) + 1] \in Lines
          BY <1>0, <3>2
        <4>2. l \in Lines
          BY <3>2, <4>1, ConfigurationAssumption
        <4>3. text' \in Seq(Lines) /\ Len(text') = Len(text) + 1
          BY <1>0, <3>2, <4>2
        <4>4. Len(text') <= MaxLines
          BY <1>0, <3>2, <4>3
        <4> QED BY <4>3, <4>4, DocumentFacts
      <3> QED BY <2>1, <3>1, <3>2
    <2>3. ASSUME ~disturbed' PROVE IsLoaded'
      <3>1. /\ Len(file) <= SizeLimit + edits /\ Len(text) = Len(file)
            /\ \A i \in 1..Len(text) : text[i] = file[i] /\ file[i] \notin DOMAIN ControlZ
        <4>1. ~disturbed /\ ~(Len(text) < Len(file))
          BY <2>1, <2>3, Zenon
        <4>2. /\ Len(file) <= SizeLimit + edits /\ Len(text) <= Len(file)
              /\ \A i \in 1..Len(text) : text[i] = file[i] /\ file[i] \notin DOMAIN ControlZ
          BY <1>0, <2>1, <4>1, Zenon DEF ReadSoFar
        <4>3. Len(text) = Len(file)
          BY <1>0, <4>1, <4>2
        <4> QED BY <4>2, <4>3
      <3>2. text' = text
        BY <1>0, <2>1, <3>1
      <3>3. \A i \in 1..Len(text) : text[i] = AsRead(file[i])
        BY <3>1 DEF AsRead
      <3>4. text = WholeText(file)
        BY <1>0, <3>1, <3>3, WholeTextIs
      <3> QED BY <2>1, <3>1, <3>2, <3>4 DEF IsLoaded
    <2>4. ReadSoFar' /\ disturbed' \in BOOLEAN
      BY <2>1, <2>3 DEF ReadSoFar
    <2>5. AnswersText'
      BY <1>0, <2>1 DEF AnswersText
    <2> QED BY <1>0, <2>1, <2>2, <2>4, <2>5 DEF IInv
  <1>5. CASE ParseText
    BY <1>0, <1>5 DEF ParseText, IInv, ReadSoFar, AnswersText, IsLoaded
  <1>6. CASE Fail
    BY <1>0, <1>6 DEF Fail, IInv, ReadSoFar, AnswersText, IsLoaded
  <1> QED BY <1>1, <1>2, <1>4, <1>5, <1>6, ReadKeeps DEF LoadConfigurationFromFile

\* An edit keeps the invariant: a line that is added is a line more than the
\* limit allows, and everything else a disturbance.
LEMMA EditKeeps ==
  ASSUME IInv, Edit
  PROVE  IInv'
  <1>0. /\ file \in Documents /\ text \in Documents /\ edits \in 0..MaxEdits
        /\ version \in Documents /\ disturbed \in BOOLEAN
        /\ ReadSoFar /\ AnswersText
        /\ load \in {"idle", "sized", "reading", "parsing", "done"}
        /\ file \in Seq(Lines) /\ Len(file) \in Nat /\ Len(file) <= MaxLines
        /\ text \in Seq(Lines) /\ Len(text) \in Nat /\ edits \in Nat
        /\ MaxLines \in Nat /\ MaxEdits \in Nat /\ SizeLimit \in Nat
    BY DocumentFacts, ConfigurationAssumption DEF IInv
  <1>1. /\ load \notin {"idle", "done"} /\ edits < MaxEdits /\ edits' = edits + 1
        /\ UNCHANGED <<load, text, result, version>>
        /\ \/ AddLine /\ disturbed' = disturbed
           \/ ChangeLine /\ disturbed' = TRUE
    BY DEF Edit
  <1>2. CASE AddLine /\ disturbed' = disturbed
    <2>1. PICK l \in Lines : file' = Append(file, l)
      BY <1>2 DEF AddLine
    <2>2. /\ file' \in Seq(Lines) /\ Len(file') = Len(file) + 1
          /\ \A i \in 1..Len(file) : file'[i] = file[i]
      BY <1>0, <2>1
    <2>3. Len(file') <= MaxLines
      BY <1>0, <1>2, <2>2 DEF AddLine
    <2>4. file' \in Documents
      BY <2>2, <2>3, DocumentFacts
    <2>5. ReadSoFar'
      <3>1. IsLoaded => IsLoaded'
        BY <1>0, <1>1 DEF IsLoaded
      <3>2. load \in {"sized", "reading"} /\ ~disturbed => Len(file') <= SizeLimit + edits'
        BY <1>0, <1>1, <2>2 DEF ReadSoFar
      <3>3. load = "reading" /\ ~disturbed =>
              /\ Len(text) <= Len(file')
              /\ \A i \in 1..Len(text) : /\ text[i] = file'[i]
                                         /\ file'[i] \notin DOMAIN ControlZ
        <4> SUFFICES ASSUME load = "reading", ~disturbed
                     PROVE  /\ Len(text) <= Len(file')
                            /\ \A i \in 1..Len(text) : /\ text[i] = file'[i]
                                                       /\ file'[i] \notin DOMAIN ControlZ
          OBVIOUS
        <4>1. /\ Len(text) <= Len(file)
              /\ \A i \in 1..Len(text) : text[i] = file[i] /\ file[i] \notin DOMAIN ControlZ
          BY <1>0 DEF ReadSoFar
        <4>2. \A i \in 1..Len(text) : file'[i] = file[i]
          BY <1>0, <2>2, <4>1
        <4> QED BY <1>0, <2>2, <4>1, <4>2
      <3> QED BY <1>0, <1>1, <1>2, <3>1, <3>2, <3>3 DEF ReadSoFar
    <2>6. AnswersText'
      BY <1>0, <1>1 DEF AnswersText
    <2> QED BY <1>0, <1>1, <1>2, <2>4, <2>5, <2>6 DEF IInv
  <1>3. CASE ChangeLine /\ disturbed' = TRUE
    <2>0. Len(file) # 0 /\ Len(file) \in 1..Len(file)
      BY <1>0, <1>3, EmptySeq DEF ChangeLine
    <2>1. ASSUME file' = SubSeq(file, 1, Len(file) - 1)
          PROVE  file' \in Documents
      <3> DEFINE n == Len(file) - 1
      <3>1. n \in Int /\ n >= 0 /\ \A i \in 1..n : file[i] \in Lines
        BY <1>0, <2>0
      <3> HIDE DEF n
      <3>2. /\ SubSeq(file, 1, n) \in Seq(Lines)
            /\ Len(SubSeq(file, 1, n)) = IF 1 <= n THEN (n - 1) + 1 ELSE 0
        BY <3>1, SubSeqProperties
      <3>3. Len(SubSeq(file, 1, n)) = n
        BY <3>1, <3>2
      <3>4. file' \in Seq(Lines) /\ Len(file') <= MaxLines
        BY <1>0, <2>1, <3>2, <3>3 DEF n
      <3> QED BY <3>4, DocumentFacts
    <2>2. ASSUME NEW l \in Lines, file' = [file EXCEPT ![Len(file)] = l]
          PROVE  file' \in Documents
      <3>1. file' \in Seq(Lines) /\ Len(file') = Len(file)
        BY <1>0, <2>0, <2>2
      <3> QED BY <1>0, <3>1, DocumentFacts
    <2>3. CASE file' \in Documents
      <3>1. ReadSoFar' /\ AnswersText'
        BY <1>0, <1>1, <1>3 DEF ReadSoFar, AnswersText
      <3> QED BY <1>0, <1>1, <1>3, <2>3, <3>1 DEF IInv
    <2> QED BY <1>3, <2>1, <2>2, <2>3 DEF ChangeLine
  <1> QED BY <1>1, <1>2, <1>3

\* The invariant holds in every state.
THEOREM Invariance == Spec => []IInv
  <1>1. IInv /\ [Next]_vars => IInv'
    <2> SUFFICES ASSUME IInv, [Next]_vars PROVE IInv'
      OBVIOUS
    <2>1. CASE UNCHANGED vars
      BY <2>1 DEF IInv, ReadSoFar, AnswersText, IsLoaded, vars
    <2> QED BY <2>1, LoadKeeps, EditKeeps DEF Next
  <1> QED BY <1>1, InitEstablishes, PTL DEF Spec

\* An answer is an error with the number of a line of the document, or a
\* configuration whose fields have values of their types.
LEMMA AnswerTypes ==
  ASSUME IInv
  PROVE  \/ \E n \in 0..MaxLines : result = Error(n)
         \/ /\ load = "done" /\ result = Parse(text)
            /\ ~disturbed => IsLoaded
            /\ \E c \in ConfigurationsOf(Lines) :
                 /\ result = Success(c)
                 /\ \E v \in DOMAIN Numbers : Numbers[v] = kConfigurationSchemaVersion
  <1>1. text \in Seq(Lines) /\ Len(text) \in Nat /\ Len(text) <= MaxLines
    BY DocumentFacts DEF IInv
  <1>2. MaxLines \in Nat
    BY ConfigurationAssumption
  <1>3. CASE result = Error(0)
    BY <1>2, <1>3
  <1>4. CASE load = "done" /\ result = Parse(text) /\ (~disturbed => IsLoaded)
    <2>1. CASE \E n \in 0..Len(text) : Parse(text) = Error(n)
      BY <1>1, <1>2, <1>4, <2>1
    <2>2. CASE \E c \in ConfigurationsOf(Lines) :
                 /\ Parse(text) = Success(c)
                 /\ \E v \in DOMAIN Numbers : Numbers[v] = kConfigurationSchemaVersion
      BY <1>4, <2>2
    <2> QED BY <1>1, <2>1, <2>2, ParseTypes
  <1> QED BY <1>3, <1>4 DEF IInv, AnswersText

\* Every variable keeps its type: the result is an error or a configuration
\* with values of its fields' types, of a supported schema.
THEOREM TypeCorrect == Spec => []TypeOK
  <1>1. IInv => TypeOK
    <2> SUFFICES ASSUME IInv PROVE TypeOK
      OBVIOUS
    <2>1. Results = {Error(n) : n \in 0..MaxLines} \cup
                    {Success(c) : c \in ConfigurationsOf(Lines)}
      BY DEF Results, ConfigurationsOf, Texts
    <2>2. result \in Results
      BY <2>1, AnswerTypes
    <2> QED BY <2>2 DEF IInv, TypeOK
  <1> QED BY <1>1, Invariance, PTL

\* The parser's answer is the meaning of the whole text it is given.
THEOREM AlwaysParsesToMeaning == Spec => []ParsesToMeaning
  <1>1. IInv => ParsesToMeaning
    <2>1. ASSUME IInv PROVE Parse(text) = Meaning(text)
      BY <2>1, DocumentFacts, ParseIsMeaning DEF IInv
    <2> QED BY <2>1 DEF ParsesToMeaning
  <1> QED BY <1>1, Invariance, PTL

\* A load that succeeds while lines are added and no read fails gives the
\* meaning of the whole text of the file as it was at the end of the reading,
\* which exceeds the limit by no more than what was added.
THEOREM AlwaysLoadsWholeFile == Spec => []LoadsWholeFile
  <1>1. IInv => LoadsWholeFile
    <2> SUFFICES ASSUME IInv, load = "done", ~disturbed, result.configuration # <<>>
                 PROVE  /\ result = Meaning(WholeText(version))
                        /\ Len(text) <= SizeLimit + edits
      BY DEF LoadsWholeFile
    <2>1. result = Parse(text) /\ IsLoaded
      BY AnswerTypes DEF Error
    <2>2. Parse(text) = Meaning(text)
      BY DocumentFacts, ParseIsMeaning DEF IInv
    <2> QED BY <2>1, <2>2 DEF IsLoaded
  <1> QED BY <1>1, Invariance, PTL

\* A configuration that was accepted survives being saved and loaded, and is
\* valid if it names a log directory.
THEOREM AlwaysRoundTrips == Spec => []RoundTrip
  <1>1. IInv => RoundTrip
    <2> SUFFICES ASSUME IInv, result.configuration # <<>>
                 PROVE  LET c == result.configuration[1]
                        IN /\ Parse(SerializeConfiguration(c)) = result
                           /\ ValidateConfiguration(c) <=> c.log_directory # ""
      BY DEF RoundTrip
    <2>1. PICK c \in ConfigurationsOf(Lines) :
            /\ result = Success(c)
            /\ \E v \in DOMAIN Numbers : Numbers[v] = kConfigurationSchemaVersion
      BY AnswerTypes DEF Error
    <2>2. result.configuration[1] = c
      BY <2>1 DEF Success
    <2>3. Parse(SerializeConfiguration(c)) = result
      BY <2>1, SavedIsRead
    <2>4. c.schema_version = kConfigurationSchemaVersion
      BY DEF ConfigurationsOf
    <2> QED BY <2>2, <2>3, <2>4 DEF ValidateConfiguration
  <1> QED BY <1>1, Invariance, PTL
=============================================================================

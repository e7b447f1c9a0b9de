--------------------------- MODULE TrackerProofs ----------------------------
(***************************************************************************)
(* What the parser of announce requests reads from any query, and that the *)
(* tracker knows of a peer what the peer last said: for any connections,   *)
(* torrents, peers, queries and ranges of numbers.                         *)
(*                                                                         *)
(* The loop of the parser is followed in closed form: what it has read of  *)
(* the first n parameters (After) is the last good value of each field and *)
(* the last bad parameter among them.                                      *)
(***************************************************************************)
EXTENDS MCTracker, FiniteSetTheorems, SequenceTheorems, WellFoundedInduction, TLAPS

\* Induction along 0 .. N, as a property of sets: of the numbers outside T
\* there would be a least one.
LEMMA CountingUp ==
    ASSUME NEW N \in Nat, NEW T, 0 \in T, \A n \in 0 .. N - 1 : n \in T => n + 1 \in T
    PROVE  \A n \in 0 .. N : n \in T
<1> SUFFICES ASSUME NEW n \in 0 .. N, n \notin T PROVE FALSE
  OBVIOUS
<1> DEFINE S == {m \in 0 .. N : m \notin T}
           Below == {ss \in Nat \X Nat : ss[1] < ss[2]}
<1>1. IsWellFoundedOn(Below, Nat)
  BY NatLessThanWellFounded DEF OpToRel
<1>2. S \in SUBSET Nat /\ n \in S
  OBVIOUS
<1>3. PICK x \in S : \A y \in S : ~ (<<y, x>> \in Below)
  <2> HIDE DEF Below, S
  <2> QED  BY <1>1, <1>2, WFMin
<1>4. x # 0 /\ x - 1 \in 0 .. N - 1 /\ x \in Nat /\ x - 1 + 1 = x /\ x \notin T
  OBVIOUS
<1>5. <<x - 1, x>> \in Below
  BY <1>4
<1>6. x - 1 \in T
  <2>1. x - 1 \notin S
    BY <1>3, <1>5
  <2> QED  BY <1>4, <2>1
<1> QED  BY <1>4, <1>6

-----------------------------------------------------------------------------
(* The parser.                                                             *)

Fields == DOMAIN BlankRequest

Known(p) == {k \in DOMAIN p : p[k].name \in Fields}
Good(p) == {k \in Known(p) : ParseValue(p[k].name, p[k].value) # Junk}
Bad(p) == Known(p) \ Good(p)
GoodFor(p, name) == {k \in Good(p) : p[k].name = name}

UpTo(S, n) == {k \in S : k <= n}

FailureAfter(p, n) ==
    IF UpTo(Bad(p), n) = {} THEN NoFailure ELSE p[Max(UpTo(Bad(p), n))].name

FieldAfter(p, n, name) ==
    IF UpTo(GoodFor(p, name), n) = {} THEN BlankRequest[name]
    ELSE ParseValue(name, p[Max(UpTo(GoodFor(p, name), n))].value)

\* What the first n parameters say.
After(p, n) ==
    [req |-> [name \in Fields |-> FieldAfter(p, n, name)], failure |-> FailureAfter(p, n)]

IsQuery(p) == Len(p) \in Nat /\ DOMAIN p = 1 .. Len(p)

LEMMA FieldNames ==
    Fields = {"info_hash", "peer_id", "ip", "port", "uploaded", "downloaded", "left",
              "event", "numwant"}
BY DEF Fields, BlankRequest

\* A number more either is the greatest of the set, or changes nothing.
LEMMA UpToNext ==
    ASSUME NEW N \in Nat, NEW S \in SUBSET (1 .. N), NEW n \in 1 .. N
    PROVE  /\ n \in S => UpTo(S, n) # {} /\ Max(UpTo(S, n)) = n
           /\ n \notin S => UpTo(S, n) = UpTo(S, n - 1)
<1>1. CASE n \in S
  <2>1. n \in UpTo(S, n) /\ \A y \in UpTo(S, n) : y \in Nat /\ n >= y
    BY <1>1 DEF UpTo
  <2>2. \A x \in UpTo(S, n) : (\A y \in UpTo(S, n) : x >= y) => x = n
    BY <2>1
  <2>3. Max(UpTo(S, n)) = CHOOSE x \in UpTo(S, n) : \A y \in UpTo(S, n) : x >= y
    BY DEF Max
  <2> QED  BY <1>1, <2>1, <2>2, <2>3
<1>2. CASE n \notin S
  <2>1. \A k \in S : k <= n <=> k <= n - 1
    BY <1>2
  <2> QED  BY <1>2, <2>1 DEF UpTo
<1> QED  BY <1>1, <1>2

LEMMA ParseParamStep ==
    ASSUME NEW p, IsQuery(p), NEW n \in 1 .. Len(p)
    PROVE  After(p, n) = ParseParam(After(p, n - 1), p[n])
<1> DEFINE a == After(p, n - 1)
           b == After(p, n)
           name == p[n].name
           value == ParseValue(name, p[n].value)
<1>1. /\ Len(p) \in Nat /\ n \in DOMAIN p
      /\ Bad(p) \in SUBSET (1 .. Len(p))
      /\ \A f : GoodFor(p, f) \in SUBSET (1 .. Len(p))
  BY DEF IsQuery, Bad, GoodFor, Good, Known
<1>2. /\ n \in Bad(p) <=> name \in Fields /\ value = Junk
      /\ \A f : n \in GoodFor(p, f) <=> name \in Fields /\ value # Junk /\ f = name
  BY <1>1 DEF Bad, GoodFor, Good, Known
<1>3. /\ n \in Bad(p) => FailureAfter(p, n) = name
      /\ n \notin Bad(p) => FailureAfter(p, n) = FailureAfter(p, n - 1)
  BY <1>1, UpToNext DEF FailureAfter
<1>4. ASSUME NEW f \in Fields
      PROVE  /\ n \in GoodFor(p, f) => FieldAfter(p, n, f) = ParseValue(f, p[n].value)
             /\ n \notin GoodFor(p, f) => FieldAfter(p, n, f) = FieldAfter(p, n - 1, f)
  <2> DEFINE S == GoodFor(p, f)
  <2>1. S \in SUBSET (1 .. Len(p))
    BY <1>1
  <2> HIDE DEF S
  <2>2. /\ n \in S => UpTo(S, n) # {} /\ Max(UpTo(S, n)) = n
        /\ n \notin S => UpTo(S, n) = UpTo(S, n - 1)
    BY <1>1, <2>1, UpToNext
  <2> QED  BY <2>2 DEF FieldAfter, S
<1> HIDE DEF value, name
<1>5. CASE name \notin Fields
  <2>1. b.failure = a.failure /\ \A f \in Fields : b.req[f] = a.req[f]
    BY <1>2, <1>3, <1>4, <1>5 DEF After
  <2>2. b = a
    BY <1>2, <1>3, <1>4, <1>5 DEF After
  <2>3. ParseParam(a, p[n]) = a
    BY <1>5 DEF ParseParam, Fields, name
  <2> QED  BY <2>2, <2>3
<1>6. CASE name \in Fields /\ value = Junk
  <2>1. b = [a EXCEPT !.failure = name]
    <3>1. FailureAfter(p, n) = name
      BY <1>2, <1>3, <1>6
    <3>2. \A f \in Fields : FieldAfter(p, n, f) = FieldAfter(p, n - 1, f)
      BY <1>2, <1>4, <1>6
    <3>3. b.failure = name /\ b.req = a.req
      BY <3>1, <3>2 DEF After
    <3>4. b = [req |-> b.req, failure |-> b.failure] /\ a = [req |-> a.req, failure |-> a.failure]
      BY DEF After
    <3> HIDE DEF a, b
    <3> QED  BY <3>3, <3>4
  <2>2. ParseParam(a, p[n]) = [a EXCEPT !.failure = name]
    BY <1>6 DEF ParseParam, Fields, name, value
  <2> QED  BY <2>1, <2>2
<1>7. CASE name \in Fields /\ value # Junk
  <2>1. b.failure = a.failure
    BY <1>2, <1>3, <1>7 DEF After
  <2>2. \A f \in Fields : b.req[f] = IF f = name THEN value ELSE a.req[f]
    BY <1>2, <1>4, <1>7 DEF After, value
  <2>3. b = [a EXCEPT !.req[name] = value]
    <3>1. b.req = [a.req EXCEPT ![name] = value]
      <4>1. b.req = [f \in Fields |-> b.req[f]] /\ a.req = [f \in Fields |-> a.req[f]]
        BY DEF After
      <4> HIDE DEF a, b
      <4> QED  BY <1>7, <2>2, <4>1
    <3>2. b = [req |-> b.req, failure |-> b.failure] /\ a = [req |-> a.req, failure |-> a.failure]
      BY DEF After
    <3> HIDE DEF a, b
    <3> QED  BY <2>1, <3>1, <3>2
  <2>4. ParseParam(a, p[n]) = [a EXCEPT !.req[name] = value]
    BY <1>7 DEF ParseParam, Fields, name, value
  <2> QED  BY <2>3, <2>4
<1> QED  BY <1>5, <1>6, <1>7


\* The loop has read what there was to read.
LEMMA ParsedIs ==
    ASSUME NEW p, IsQuery(p)
    PROVE  ParseAnnounce(p) = After(p, Len(p))
<1> DEFINE N == Len(p)
           start == [req |-> BlankRequest, failure |-> NoFailure]
           Pass(h) == h = [n \in 0 .. N |-> IF n = 0 THEN start ELSE ParseParam(h[n - 1], p[n])]
           acc == CHOOSE h : Pass(h)
           after == [n \in 0 .. N |-> After(p, n)]
<1>1. N \in Nat
  BY DEF IsQuery
<1>2. After(p, 0) = start
  <2>1. Bad(p) \in SUBSET (1 .. N) /\ \A f : GoodFor(p, f) \in SUBSET (1 .. N)
    BY DEF IsQuery, Bad, GoodFor, Good, Known
  <2>2. UpTo(Bad(p), 0) = {} /\ \A f : UpTo(GoodFor(p, f), 0) = {}
    BY <1>1, <2>1 DEF UpTo
  <2>3. FailureAfter(p, 0) = NoFailure /\ \A f \in Fields : FieldAfter(p, 0, f) = BlankRequest[f]
    BY <2>2 DEF FailureAfter, FieldAfter
  <2>4. BlankRequest = [f \in Fields |-> BlankRequest[f]]
    BY DEF BlankRequest, Fields
  <2> QED  BY <2>3, <2>4 DEF After
<1>3. ParseAnnounce(p) = acc[N]
  BY DEF ParseAnnounce
<1> HIDE DEF N, start
<1>4. Pass(after)
  <2>1. \A n \in 0 .. N : after[n] = IF n = 0 THEN start ELSE ParseParam(after[n - 1], p[n])
    <3> SUFFICES ASSUME NEW n \in 0 .. N
                 PROVE  after[n] = IF n = 0 THEN start ELSE ParseParam(after[n - 1], p[n])
      OBVIOUS
    <3>1. CASE n = 0
      BY <1>1, <1>2, <3>1
    <3>2. CASE n # 0
      <4>1. n \in 1 .. N /\ n - 1 \in 0 .. N
        BY <1>1, <3>2
      <4>2. After(p, n) = ParseParam(After(p, n - 1), p[n])
        BY <4>1, ParseParamStep DEF N
      <4> QED  BY <3>2, <4>1, <4>2
    <3> QED  BY <3>1, <3>2
  <2> QED  BY <2>1
<1>5. Pass(acc)
  <2> HIDE DEF Pass
  <2> QED  BY <1>4
<1> HIDE DEF acc
<1>6. N \in 0 .. N /\ acc[0] = start /\ \A n \in 1 .. N : acc[n] = ParseParam(acc[n - 1], p[n])
  <2>1. N \in 0 .. N /\ 0 \in 0 .. N /\ \A n \in 1 .. N : n \in 0 .. N /\ n # 0
    BY <1>1
  <2> QED  BY <1>5, <2>1
<1> DEFINE T == {n \in 0 .. N : acc[n] = After(p, n)}
<1>7. 0 \in T
  BY <1>1, <1>2, <1>6
<1>8. ASSUME NEW n \in 0 .. N - 1, n \in T
      PROVE  n + 1 \in T
  <2>1. n + 1 \in 1 .. N /\ n + 1 \in 0 .. N /\ n + 1 - 1 = n
    BY <1>1
  <2>2. acc[n + 1] = ParseParam(After(p, n), p[n + 1])
    BY <1>6, <1>8, <2>1
  <2>3. After(p, n + 1) = ParseParam(After(p, n), p[n + 1])
    BY <2>1, ParseParamStep DEF N
  <2> QED  BY <2>1, <2>2, <2>3
<1>9. N \in T
  <2> HIDE DEF T
  <2>1. \A n \in 0 .. N : n \in T
    BY <1>1, <1>7, <1>8, CountingUp
  <2> QED  BY <1>6, <2>1
<1> QED  BY <1>3, <1>9 DEF N

\* A set of numbers up to N, as a whole.
LEMMA UpToAll ==
    ASSUME NEW p, IsQuery(p)
    PROVE  /\ UpTo(Bad(p), Len(p)) = Bad(p)
           /\ \A f : UpTo(GoodFor(p, f), Len(p)) = GoodFor(p, f)
<1>1. Bad(p) \in SUBSET (1 .. Len(p)) /\ \A f : GoodFor(p, f) \in SUBSET (1 .. Len(p))
  BY DEF IsQuery, Bad, GoodFor, Good, Known
<1> QED  BY <1>1 DEF UpTo, IsQuery

ReadsLastGood(p, parsed) ==
    /\ parsed.failure = IF Bad(p) = {} THEN NoFailure ELSE p[Max(Bad(p))].name
    /\ \A f \in Fields :
          parsed.req[f] = IF GoodFor(p, f) = {} THEN BlankRequest[f]
                          ELSE ParseValue(f, p[Max(GoodFor(p, f))].value)
    /\ parsed.req = [f \in Fields |-> parsed.req[f]]

\* The closed form of the parser.
LEMMA Parsed ==
    ASSUME NEW p, IsQuery(p)
    PROVE  ReadsLastGood(p, ParseAnnounce(p))
<1> DEFINE N == Len(p)
           parsed == ParseAnnounce(p)
<1>1. parsed = After(p, N)
  BY ParsedIs
<1> HIDE DEF parsed
<1>2. /\ parsed.failure = FailureAfter(p, N)
      /\ parsed.req = [f \in Fields |-> FieldAfter(p, N, f)]
  BY <1>1 DEF After
<1>3. FailureAfter(p, N) = IF Bad(p) = {} THEN NoFailure ELSE p[Max(Bad(p))].name
  BY UpToAll DEF FailureAfter
<1>4. ASSUME NEW f \in Fields
      PROVE  parsed.req[f] = IF GoodFor(p, f) = {} THEN BlankRequest[f]
                             ELSE ParseValue(f, p[Max(GoodFor(p, f))].value)
  <2>1. UpTo(GoodFor(p, f), N) = GoodFor(p, f)
    BY UpToAll
  <2> QED  BY <1>2, <2>1 DEF FieldAfter
<1>5. parsed.req = [f \in Fields |-> parsed.req[f]]
  BY <1>2
<1>6. ReadsLastGood(p, parsed)
  BY <1>2, <1>3, <1>4, <1>5 DEF ReadsLastGood
<1> QED  BY <1>6 DEF parsed

LEMMA QueriesAreQueries ==
    ASSUME NEW S, NEW n \in Nat, NEW q \in BoundedSeq(S, n)
    PROVE  IsQuery(q)
<1>1. PICK m \in 0 .. n : q \in [1 .. m -> S]
  BY DEF BoundedSeq, SeqOf
<1> QED  BY <1>1 DEF IsQuery


-----------------------------------------------------------------------------
(* The parser's properties, for any input.                                 *)

allvars == <<vars, query, address>>

LEMMA InputKept ==
    ASSUME [MCNext]_allvars PROVE UNCHANGED <<query, address>>
BY DEF MCNext, allvars

\* parse_announce_request reads, whatever parameters there are and in what
\* order, the last good value of each field, and complains of the last bad one.
THEOREM ReadsWhatCounts == MCSpec => []ReadsLastGoodValue
<1>1. ASSUME IsQuery(query) PROVE ReadsLastGoodValue
  <2> DEFINE parsed == ParseAnnounce(query)
             known == {k \in DOMAIN query : query[k].name \in DOMAIN BlankRequest}
             good == {k \in known : ParseValue(query[k].name, query[k].value) # Junk}
             bad == known \ good
             goodFor(name) == {k \in good : query[k].name = name}
  <2>1. ReadsLastGood(query, parsed)
    BY <1>1, Parsed
  <2>2. bad = Bad(query) /\ \A f : goodFor(f) = GoodFor(query, f)
    BY DEF Bad, GoodFor, Good, Known, Fields
  <2> HIDE DEF parsed
  <2>3. parsed.failure = IF bad = {} THEN NoFailure ELSE query[Max(bad)].name
    <3> HIDE DEF bad
    <3> QED  BY <2>1, <2>2 DEF ReadsLastGood
  <2>4. ASSUME NEW f \in DOMAIN BlankRequest
        PROVE  parsed.req[f] = IF goodFor(f) = {} THEN BlankRequest[f]
                               ELSE ParseValue(f, query[Max(goodFor(f))].value)
    <3> HIDE DEF goodFor
    <3> QED  BY <2>1, <2>2 DEF ReadsLastGood, Fields
  <2> QED  BY <2>3, <2>4 DEF ReadsLastGoodValue, parsed
<1>2. IsQuery(<< >>)
  BY DEF IsQuery
<1>3. MCInit => IsQuery(query)
  BY <1>2, QueriesAreQueries, BoundAssumption DEF MCInit
<1>4. IsQuery(query) /\ [MCNext]_allvars => IsQuery(query)'
  BY InputKept DEF IsQuery
<1> QED  BY <1>1, <1>3, <1>4, PTL DEF MCSpec, allvars

-----------------------------------------------------------------------------
(* Addresses.                                                              *)

\* n in two digits to the base M.
TwoDigits(n, M, high, low) ==
    M \in Nat \ {0} /\ high \in Nat /\ low \in 0 .. M - 1 /\ n = high * M + low

LEMMA Divided ==
    ASSUME NEW n, NEW M, NEW high, NEW low, TwoDigits(n, M, high, low)
    PROVE  n \div M = high /\ n % M = low
BY DEF TwoDigits

\* A number with one digit more stays below the bound with one factor more.
LEMMA JoinBounded ==
    ASSUME NEW N \in Nat \ {0}, NEW M \in Nat \ {0},
           NEW high \in 0 .. N - 1, NEW low \in 0 .. M - 1
    PROVE  high * M + low \in 0 .. N * M - 1
<1>1. high * M \in Nat /\ N * M \in Nat
  OBVIOUS
<1>2. high * M <= (N - 1) * M
  OBVIOUS
<1>3. (N - 1) * M = N * M - M
  OBVIOUS
<1> QED  BY <1>1, <1>2, <1>3

\* format_ipv4 undoes what parse_ipv4 put together.
LEMMA JoinedBack ==
    ASSUME NEW parts, \A k \in 1 .. 4 : parts[k] \in 0 .. Octet - 1
    PROVE  /\ Join(parts) \in Address
           /\ \A k \in 1 .. 4 : (Join(parts) \div Weight[k]) % Octet = parts[k]
<1> DEFINE O == Octet
           a == parts[1]
           b == parts[2]
           c == parts[3]
           d == parts[4]
           ip == ((a * O + b) * O + c) * O + d
<1>1. /\ O \in Nat \ {0}
      /\ a \in 0 .. O - 1 /\ b \in 0 .. O - 1 /\ c \in 0 .. O - 1 /\ d \in 0 .. O - 1
  BY ParseAssumption
<1>2. ip = Join(parts) /\ Address = 0 .. O * O * O * O - 1
  BY DEF Join, Address
<1>3. Weight[1] = O * O * O /\ Weight[2] = O * O /\ Weight[3] = O /\ Weight[4] = 1
  BY DEF Weight
<1> HIDE DEF O, a, b, c, d
<1>4. O * O \in Nat \ {0} /\ O * O * O \in Nat \ {0} /\ O * O * O * O \in Nat \ {0}
  BY <1>1
<1>5. a * O + b \in 0 .. O * O - 1 /\ c * O + d \in 0 .. O * O - 1
  BY <1>1, JoinBounded
<1>6. (a * O + b) * O + c \in 0 .. O * O * O - 1 /\ (b * O + c) * O + d \in 0 .. O * O * O - 1
  <2>1. b * O + c \in 0 .. O * O - 1
    BY <1>1, JoinBounded
  <2> QED  BY <1>1, <1>4, <1>5, <2>1, JoinBounded
<1>7. ip \in 0 .. O * O * O * O - 1
  BY <1>1, <1>4, <1>6, JoinBounded
<1>8. (ip \div (O * O * O)) % O = a
  <2>1. TwoDigits(ip, O * O * O, a, (b * O + c) * O + d)
    <3>1. ip = a * (O * O * O) + ((b * O + c) * O + d)
      BY <1>1
    <3> QED  BY <1>1, <1>4, <1>6, <3>1 DEF TwoDigits
  <2>2. TwoDigits(a, O, 0, a)
    BY <1>1 DEF TwoDigits
  <2> HIDE DEF ip
  <2>3. ip \div (O * O * O) = a /\ a % O = a
    BY <2>1, <2>2, Divided
  <2> QED  BY <2>3
<1>9. (ip \div (O * O)) % O = b
  <2>1. TwoDigits(ip, O * O, a * O + b, c * O + d)
    <3>1. ip = (a * O + b) * (O * O) + (c * O + d)
      BY <1>1
    <3>2. a * O + b \in Nat
      BY <1>1
    <3> QED  BY <1>1, <1>4, <1>5, <3>1, <3>2 DEF TwoDigits
  <2>2. TwoDigits(a * O + b, O, a, b)
    BY <1>1 DEF TwoDigits
  <2> HIDE DEF ip
  <2>3. ip \div (O * O) = a * O + b /\ (a * O + b) % O = b
    BY <2>1, <2>2, Divided
  <2> QED  BY <2>3
<1>10. (ip \div O) % O = c /\ (ip \div 1) % O = d
  <2>1. (a * O + b) * O + c \in Nat /\ a * O + b \in Nat /\ ip \in Nat
    BY <1>1
  <2>2. TwoDigits(ip, O, (a * O + b) * O + c, d)
    BY <1>1, <2>1 DEF TwoDigits
  <2>3. TwoDigits((a * O + b) * O + c, O, a * O + b, c)
    BY <1>1, <2>1 DEF TwoDigits
  <2>4. TwoDigits(ip, 1, ip, 0)
    <3> HIDE DEF ip
    <3> QED  BY <2>1 DEF TwoDigits
  <2> HIDE DEF ip
  <2>5. /\ ip \div O = (a * O + b) * O + c /\ ip % O = d
        /\ ((a * O + b) * O + c) % O = c
        /\ ip \div 1 = ip
    BY <2>2, <2>3, <2>4, Divided
  <2> QED  BY <2>5
<1> HIDE DEF ip
<1>11. ASSUME NEW k \in 1 .. 4
       PROVE  (ip \div Weight[k]) % O = parts[k]
  <2>1. k = 1 \/ k = 2 \/ k = 3 \/ k = 4
    OBVIOUS
  <2> QED  BY <1>3, <1>8, <1>9, <1>10, <2>1 DEF a, b, c, d
<1> QED  BY <1>2, <1>7, <1>11 DEF O

LEMMA ParsedAddress ==
    ASSUME NEW parts, IsQuery(parts)
    PROVE  LET ip == ParseIPv4(parts)
               right == Len(parts) = 4 /\ \A k \in 1 .. 4 : parts[k] \in 0 .. Octet - 1 IN
           /\ ~ right => ip = Junk
           /\ right => ip = Join(parts) /\ ip # Junk /\ ip \in Address
<1> DEFINE right == Len(parts) = 4 /\ \A k \in 1 .. 4 : parts[k] \in 0 .. Octet - 1
<1>1. \A k \in 1 .. 4 : ParseNumber(0 .. Octet - 1, parts[k]) = Junk <=> parts[k] \notin 0 .. Octet - 1
  BY ParseAssumption DEF ParseNumber
<1>2. CASE right
  <2>1. Join(parts) \in Address
    BY <1>2, JoinedBack
  <2>2. Address \subseteq Nat
    BY DEF Address
  <2> QED  BY <1>1, <1>2, <2>1, <2>2, ParseAssumption DEF ParseIPv4
<1>3. CASE ~ right
  BY <1>1, <1>3 DEF ParseIPv4
<1> QED  BY <1>2, <1>3


IsText(p) == IsQuery(p) /\ p = [k \in DOMAIN p |-> p[k]]

\* parse_ipv4 takes exactly four octets, and format_ipv4 shows what it read,
\* for any base and any text.
THEOREM AddressesComeBack == MCSpec => []AddressRoundTrip
<1>1. ASSUME IsText(address) PROVE AddressRoundTrip
  <2> DEFINE ip == ParseIPv4(address)
             right == Len(address) = 4 /\ \A k \in 1 .. 4 : address[k] \in 0 .. Octet - 1
  <2>1. (~ right => ip = Junk) /\ (right => ip = Join(address) /\ ip # Junk /\ ip \in Address)
    BY <1>1, ParsedAddress DEF IsText
  <2>2. CASE right
    <3>1. DOMAIN address = 1 .. 4
      BY <1>1, <2>2 DEF IsQuery, IsText
    <3>2. \A k \in 1 .. 4 : (Join(address) \div Weight[k]) % Octet = address[k]
      BY <2>2, JoinedBack
    <3>3. address = [k \in 1 .. 4 |-> address[k]]
      BY <1>1, <3>1 DEF IsText
    <3>4. FormatIPv4(Join(address)) = [k \in 1 .. 4 |-> address[k]]
      BY <3>2 DEF FormatIPv4
    <3>5. FormatIPv4(ip) = address
      BY <2>1, <2>2, <3>3, <3>4
    <3> HIDE DEF ip
    <3> QED  BY <2>1, <2>2, <3>5 DEF AddressRoundTrip, ip
  <2>3. CASE ~ right
    BY <2>1, <2>3 DEF AddressRoundTrip
  <2> QED  BY <2>2, <2>3
<1>2. ASSUME NEW S, NEW n \in Nat, NEW p \in BoundedSeq(S, n) PROVE IsText(p)
  <2>1. PICK m \in 0 .. n : p \in [1 .. m -> S]
    BY DEF BoundedSeq, SeqOf
  <2> QED  BY <2>1 DEF IsQuery, IsText
<1>3. IsText(<< >>)
  BY DEF IsQuery, IsText
<1>4. MCInit => IsText(address)
  BY <1>2, <1>3, BoundAssumption DEF MCInit, Addresses
<1>5. IsText(address) /\ [MCNext]_allvars => IsText(address)'
  BY InputKept DEF IsQuery, IsText
<1> QED  BY <1>1, <1>4, <1>5, PTL DEF MCSpec, allvars

-----------------------------------------------------------------------------
(* What a query that is accepted has in its request.                       *)

FieldSet ==
    [name \in Fields |->
        CASE name = "info_hash"   -> Hash
          [] name = "peer_id"     -> PeerId
          [] name = "ip"          -> Address
          [] name = "event"       -> EventSet
          [] name \in NumberNames -> Limit[name]]

LEMMA FieldSets ==
    /\ FieldSet["info_hash"] = Hash
    /\ FieldSet["peer_id"] = PeerId
    /\ FieldSet["ip"] = Address
    /\ FieldSet["event"] = EventSet
    /\ \A name \in NumberNames \ {"numwant"} : FieldSet[name] = Limit[name]
BY FieldNames DEF FieldSet, NumberNames

LEMMA BlankValues ==
    /\ BlankRequest["info_hash"] = 0 /\ BlankRequest["peer_id"] = 0 /\ BlankRequest["ip"] = 0
    /\ BlankRequest["port"] = 0 /\ BlankRequest["uploaded"] = 0
    /\ BlankRequest["downloaded"] = 0 /\ BlankRequest["left"] = 0
    /\ BlankRequest["event"] = "started"
BY DEF BlankRequest

LEMMA ParseValues ==
    ASSUME NEW value
    PROVE  /\ ParseValue("info_hash", value) = CopyExact(Hash, value)
           /\ ParseValue("peer_id", value) = CopyExact(PeerId, value)
           /\ ParseValue("ip", value) = ParseIPv4(value)
           /\ ParseValue("event", value) = IF value \in EventSet THEN value ELSE Junk
           /\ \A name \in NumberNames : ParseValue(name, value) = ParseNumber(Limit[name], value)
BY DEF ParseValue, NumberNames

\* Zero is an address.
LEMMA ZeroAddress == 0 \in Address
<1>1. Octet \in Nat \ {0}
  BY ParseAssumption
<1>2. Octet * Octet \in Nat \ {0}
  BY <1>1
<1>3. Octet * Octet * Octet \in Nat \ {0}
  BY <1>1, <1>2
<1>4. Octet * Octet * Octet * Octet \in Nat \ {0}
  BY <1>1, <1>3
<1> QED  BY <1>4 DEF Address

\* parse_ipv4 makes an address, of whatever it takes.
LEMMA AddressOrJunk ==
    ASSUME NEW value, ParseIPv4(value) # Junk
    PROVE  ParseIPv4(value) \in Address
<1>1. ASSUME NEW k \in 1 .. 4, value[k] \notin 0 .. Octet - 1
      PROVE  ParseNumber(0 .. Octet - 1, value[k]) = Junk
  BY <1>1 DEF ParseNumber
<1>2. ParseIPv4(value) = Join(value) /\ \A k \in 1 .. 4 : ParseNumber(0 .. Octet - 1, value[k]) # Junk
  BY DEF ParseIPv4
<1>3. \A k \in 1 .. 4 : value[k] \in 0 .. Octet - 1
  BY <1>1, <1>2
<1> QED  BY <1>2, <1>3, JoinedBack

\* A text that is read is a value of the field's type, and so are the zeros
\* of bt_tracker_announce_request{}; the number wanted is left to its type.
LEMMA ReadValues ==
    ASSUME NEW name \in Fields, name # "numwant"
    PROVE  /\ BlankRequest[name] \in FieldSet[name]
           /\ \A value : ParseValue(name, value) # Junk => ParseValue(name, value) \in FieldSet[name]
<1> SUFFICES ASSUME NEW value
             PROVE  /\ BlankRequest[name] \in FieldSet[name]
                    /\ ParseValue(name, value) # Junk => ParseValue(name, value) \in FieldSet[name]
  OBVIOUS
<1>1. CASE name = "info_hash"
  BY <1>1, BlankValues, ParseValues, FieldSets, ParseAssumption DEF CopyExact
<1>2. CASE name = "peer_id"
  BY <1>2, BlankValues, ParseValues, FieldSets, ParseAssumption DEF CopyExact
<1>3. CASE name = "ip"
  BY <1>3, BlankValues, ParseValues, FieldSets, ZeroAddress, AddressOrJunk
<1>4. CASE name = "event"
  BY <1>4, BlankValues, ParseValues, FieldSets DEF EventSet
<1>5. CASE name \in NumberNames \ {"numwant"}
  <2>1. BlankRequest[name] = 0
    BY <1>5, BlankValues DEF NumberNames
  <2>2. ParseValue(name, value) = ParseNumber(Limit[name], value)
    BY <1>5, ParseValues
  <2>3. FieldSet[name] = Limit[name] /\ 0 \in Limit[name]
    BY <1>5, FieldSets, ParseAssumption
  <2> QED  BY <2>1, <2>2, <2>3 DEF ParseNumber
<1> QED  BY <1>1, <1>2, <1>3, <1>4, <1>5, FieldNames DEF NumberNames


LEMMA MaxIsIn ==
    ASSUME NEW N \in Nat, NEW S \in SUBSET (1 .. N), S # {}
    PROVE  Max(S) \in S
<1> DEFINE T == {n \in 0 .. N : UpTo(S, n) = {} \/ Max(UpTo(S, n)) \in UpTo(S, n)}
<1>1. 0 \in T
  <2>1. \A k \in S : ~ (k <= 0)
    OBVIOUS
  <2>2. UpTo(S, 0) = {}
    BY <2>1 DEF UpTo
  <2> QED  BY <2>2
<1>2. ASSUME NEW n \in 0 .. N - 1, n \in T
      PROVE  n + 1 \in T
  <2>1. n + 1 \in 1 .. N /\ n + 1 - 1 = n
    OBVIOUS
  <2>2. /\ n + 1 \in S => UpTo(S, n + 1) # {} /\ Max(UpTo(S, n + 1)) = n + 1
        /\ n + 1 \notin S => UpTo(S, n + 1) = UpTo(S, n + 1 - 1)
    BY <2>1, UpToNext
  <2>3. n + 1 \in S => n + 1 \in UpTo(S, n + 1)
    BY <2>1 DEF UpTo
  <2> QED  BY <1>2, <2>1, <2>2, <2>3
<1>3. N \in T
  <2> HIDE DEF T
  <2>1. \A n \in 0 .. N : n \in T
    BY <1>1, <1>2, CountingUp
  <2> QED  BY <2>1
<1>4. UpTo(S, N) = S
  <2>1. \A k \in S : k <= N
    OBVIOUS
  <2> HIDE DEF T
  <2> QED  BY <2>1 DEF UpTo
<1> QED  BY <1>3, <1>4

LEMMA NoFailureNamesNoField == NoFailure \notin Fields
<1>1. NoFailure \notin {"info_hash", "peer_id", "ip", "port", "uploaded", "downloaded", "left",
                        "event", "numwant"}
  BY Zenon DEF NoFailure
<1> QED  BY <1>1, FieldNames

\* The request of a query that is accepted: each field is what the query
\* gives for it, a value of the field's type.
Says(q, req) ==
    /\ \A f \in Fields : req[f] = Given(q, f)
    /\ \A f \in Fields \ {"numwant"} : req[f] \in FieldSet[f]
    /\ req["numwant"] \in Int
    /\ req = [f \in Fields |-> req[f]]

LEMMA AcceptedSays ==
    ASSUME NEW q \in Query, ParseAnnounce(q).failure = NoFailure
    PROVE  Says(q, ParseAnnounce(q).req)
<1> DEFINE parsed == ParseAnnounce(q)
           N == Len(q)
           named(f) == {k \in DOMAIN q : q[k].name = f}
<1>1. IsQuery(q) /\ N \in Nat
  BY TrackerAssumption DEF IsQuery
<1>2. ReadsLastGood(q, parsed) /\ parsed.failure = NoFailure
  BY <1>1, Parsed
<1>3. Bad(q) \in SUBSET (1 .. N) /\ \A f : GoodFor(q, f) \in SUBSET (1 .. N)
  BY <1>1 DEF IsQuery, Bad, GoodFor, Good, Known
<1> HIDE DEF parsed, N
<1>4. Bad(q) = {}
  <2> SUFFICES ASSUME Bad(q) # {} PROVE FALSE
    OBVIOUS
  <2>1. Max(Bad(q)) \in Bad(q)
    BY <1>1, <1>3, MaxIsIn
  <2>2. q[Max(Bad(q))].name \in Fields
    BY <2>1 DEF Bad, Known
  <2> QED  BY <1>2, <2>2, NoFailureNamesNoField DEF ReadsLastGood
<1>5. ASSUME NEW f \in Fields
      PROVE  GoodFor(q, f) = named(f)
  BY <1>4 DEF Bad, GoodFor, Good, Known
<1>6. ASSUME NEW f \in Fields
      PROVE  parsed.req[f] = Given(q, f)
  <2>1. parsed.req[f] = IF GoodFor(q, f) = {} THEN BlankRequest[f]
                        ELSE ParseValue(f, q[Max(GoodFor(q, f))].value)
    BY <1>2 DEF ReadsLastGood
  <2>2. Given(q, f) = IF named(f) = {} THEN BlankRequest[f]
                      ELSE ParseValue(f, q[Max(named(f))].value)
    BY DEF Given
  <2>3. GoodFor(q, f) = named(f)
    BY <1>5
  <2> HIDE DEF named
  <2> QED  BY <2>1, <2>2, <2>3
<1>7. ASSUME NEW f \in Fields \ {"numwant"}
      PROVE  parsed.req[f] \in FieldSet[f]
  <2> DEFINE S == GoodFor(q, f)
             v == q[Max(S)].value
  <2>1. parsed.req[f] = IF S = {} THEN BlankRequest[f] ELSE ParseValue(f, v)
    BY <1>2 DEF ReadsLastGood
  <2>2. S # {} => Max(S) \in S
    <3>1. S \in SUBSET (1 .. N)
      BY <1>3
    <3> HIDE DEF S
    <3> QED  BY <1>1, <3>1, MaxIsIn
  <2>3. ASSUME NEW k \in S PROVE ParseValue(f, q[k].value) # Junk
    BY DEF GoodFor, Good
  <2>4. S # {} => ParseValue(f, v) # Junk
    <3> HIDE DEF S
    <3> QED  BY <2>2, <2>3
  <2> HIDE DEF S, v
  <2> QED  BY <2>1, <2>4, ReadValues
<1>8. parsed.req = [f \in Fields |-> parsed.req[f]]
  BY <1>2 DEF ReadsLastGood
<1>9. parsed.req["numwant"] \in Int
  <2> DEFINE S == GoodFor(q, "numwant")
             v == q[Max(S)].value
  <2>1. "numwant" \in Fields /\ "numwant" \in NumberNames
    BY FieldNames DEF NumberNames
  <2>2. parsed.req["numwant"] = IF S = {} THEN BlankRequest["numwant"]
                                ELSE ParseValue("numwant", v)
    BY <1>2, <2>1 DEF ReadsLastGood
  <2>3. BlankRequest["numwant"] \in Int
    BY ParseAssumption DEF BlankRequest
  <2>4. S # {} => ParseValue("numwant", v) # Junk
    <3>1. S # {} => Max(S) \in S
      <4>1. S \in SUBSET (1 .. N)
        BY <1>3
      <4> HIDE DEF S
      <4> QED  BY <1>1, <4>1, MaxIsIn
    <3>2. ASSUME NEW k \in S PROVE ParseValue("numwant", q[k].value) # Junk
      BY DEF GoodFor, Good
    <3> HIDE DEF S
    <3> QED  BY <3>1, <3>2
  <2> HIDE DEF S, v
  <2>5. ParseValue("numwant", v) = ParseNumber(Limit["numwant"], v)
    BY <2>1 DEF ParseValue
  <2>6. S # {} => ParseValue("numwant", v) \in Limit["numwant"]
    BY <2>4, <2>5 DEF ParseNumber
  <2> QED  BY <2>2, <2>3, <2>6, TrackerAssumption
<1>10. Says(q, parsed.req)
  BY <1>6, <1>7, <1>8, <1>9 DEF Says
<1> QED  BY <1>10 DEF parsed


-----------------------------------------------------------------------------
(* The state of the tracker.                                               *)

\* The request r came from the query q over a connection from ip.
CameFrom(r, q, ip) ==
    /\ r.info_hash = Given(q, "info_hash") /\ r.info_hash \in Hash
    /\ r.peer_id = Given(q, "peer_id") /\ r.peer_id \in PeerId
    /\ r.ip = (IF Given(q, "ip") = 0 THEN ip ELSE Given(q, "ip")) /\ r.ip \in Address
    /\ r.port = Given(q, "port") /\ r.port \in Limit["port"]
    /\ r.uploaded = Given(q, "uploaded") /\ r.uploaded \in Limit["uploaded"]
    /\ r.downloaded = Given(q, "downloaded") /\ r.downloaded \in Limit["downloaded"]
    /\ r.left = Given(q, "left") /\ r.left \in Limit["left"]
    /\ r.event = Given(q, "event")
    /\ r.numwant \in Int

\* The address of the connection is put in where the query gave none.
LEMMA RequestCameFrom ==
    ASSUME NEW q, NEW req, Says(q, req), NEW ip \in Address
    PROVE  CameFrom(WithAddress(req, ip), q, ip)
<1> DEFINE r == WithAddress(req, ip)
<1>1. /\ req.info_hash = Given(q, "info_hash") /\ req.info_hash \in Hash
      /\ req.peer_id = Given(q, "peer_id") /\ req.peer_id \in PeerId
      /\ req.ip = Given(q, "ip") /\ req.ip \in Address
      /\ req.event = Given(q, "event") /\ req.numwant \in Int
  BY FieldNames, FieldSets DEF Says
<1>2. /\ req.port = Given(q, "port") /\ req.port \in Limit["port"]
      /\ req.uploaded = Given(q, "uploaded") /\ req.uploaded \in Limit["uploaded"]
      /\ req.downloaded = Given(q, "downloaded") /\ req.downloaded \in Limit["downloaded"]
      /\ req.left = Given(q, "left") /\ req.left \in Limit["left"]
  BY FieldNames, FieldSets DEF Says, NumberNames
<1>3. /\ r.ip = IF req.ip = 0 THEN ip ELSE req.ip
      /\ \A f \in Fields \ {"ip"} : r[f] = req[f]
  <2>1. req = [f \in Fields |-> req[f]] /\ "ip" \in Fields
    BY FieldNames DEF Says
  <2> QED  BY <2>1 DEF WithAddress
<1>4. /\ r.info_hash = req.info_hash /\ r.peer_id = req.peer_id /\ r.port = req.port
      /\ r.uploaded = req.uploaded /\ r.downloaded = req.downloaded
      /\ r.left = req.left /\ r.event = req.event /\ r.numwant = req.numwant
  BY <1>3, FieldNames
<1> HIDE DEF r
<1>5. CameFrom(r, q, ip)
  BY <1>1, <1>2, <1>3, <1>4 DEF CameFrom
<1> QED  BY <1>5 DEF r

\* The request of a message keeps the address it carries.
LEMMA MessageCameFrom ==
    ASSUME NEW q, NEW req, Says(q, req)
    PROVE  CameFrom(req, q, 0)
<1>1. /\ req.info_hash = Given(q, "info_hash") /\ req.info_hash \in Hash
      /\ req.peer_id = Given(q, "peer_id") /\ req.peer_id \in PeerId
      /\ req.ip = Given(q, "ip") /\ req.ip \in Address
      /\ req.event = Given(q, "event") /\ req.numwant \in Int
  BY FieldNames, FieldSets DEF Says
<1>2. /\ req.port = Given(q, "port") /\ req.port \in Limit["port"]
      /\ req.uploaded = Given(q, "uploaded") /\ req.uploaded \in Limit["uploaded"]
      /\ req.downloaded = Given(q, "downloaded") /\ req.downloaded \in Limit["downloaded"]
      /\ req.left = Given(q, "left") /\ req.left \in Limit["left"]
  BY FieldNames, FieldSets DEF Says, NumberNames
<1> QED  BY <1>1, <1>2 DEF CameFrom

\* What apply_announce does to the registered peers: the one who asks is
\* there afterwards, as the request says, unless it stopped; no other peer of
\* any torrent is touched.
AppliedAt(t, u, r, h, p) ==
    /\ <<h, p>> = <<r.info_hash, r.peer_id>> =>
          /\ p \in DOMAIN PeersOf(u, h) <=> r.event # "stopped"
          /\ r.event # "stopped" => PeersOf(u, h)[p] = PeerOf(r)
    /\ <<h, p>> # <<r.info_hash, r.peer_id>> =>
          /\ p \in DOMAIN PeersOf(u, h) <=> p \in DOMAIN PeersOf(t, h)
          /\ p \in DOMAIN PeersOf(t, h) => PeersOf(u, h)[p] = PeersOf(t, h)[p]

LEMMA Applied ==
    ASSUME NEW t, NEW r, NEW h, NEW p
    PROVE  AppliedAt(t, ApplyAnnounce(t, r), r, h, p)
<1> DEFINE peers == PeersOf(t, r.info_hash)
           new == IF r.event = "stopped"
                  THEN Restrict(peers, DOMAIN peers \ {r.peer_id})
                  ELSE Assign(peers, r.peer_id, PeerOf(r))
           u == ApplyAnnounce(t, r)
<1>1. u = [k \in DOMAIN t \union {r.info_hash} |-> IF k = r.info_hash THEN new ELSE t[k]]
  BY DEF ApplyAnnounce, Assign
<1>2. /\ r.event = "stopped" => new = [k \in DOMAIN peers \ {r.peer_id} |-> peers[k]]
      /\ r.event # "stopped" =>
            new = [k \in DOMAIN peers \union {r.peer_id} |-> IF k = r.peer_id THEN PeerOf(r) ELSE peers[k]]
  BY DEF Restrict, Assign
<1> HIDE DEF u, new, peers
<1>3. PeersOf(u, h) = IF h = r.info_hash THEN new ELSE PeersOf(t, h)
  BY <1>1 DEF PeersOf
<1>5. CASE h = r.info_hash
  <2>1. PeersOf(u, h) = new /\ PeersOf(t, h) = peers
    BY <1>3, <1>5 DEF peers
  <2>2. p = r.peer_id => (p \in DOMAIN new <=> r.event # "stopped") /\ (r.event # "stopped" => new[p] = PeerOf(r))
    BY <1>2
  <2>3. p # r.peer_id => (p \in DOMAIN new <=> p \in DOMAIN peers) /\ (p \in DOMAIN peers => new[p] = peers[p])
    BY <1>2
  <2>4. AppliedAt(t, u, r, h, p)
    BY <1>5, <2>1, <2>2, <2>3 DEF AppliedAt
  <2> QED  BY <2>4 DEF u
<1>6. CASE h # r.info_hash
  <2>1. AppliedAt(t, u, r, h, p)
    BY <1>3, <1>6 DEF AppliedAt
  <2> QED  BY <2>1 DEF u
<1> QED  BY <1>5, <1>6

\* The torrent is known.
LEMMA AppliedTorrents ==
    ASSUME NEW t, NEW r
    PROVE  DOMAIN ApplyAnnounce(t, r) = DOMAIN t \union {r.info_hash}
BY DEF ApplyAnnounce, Assign


\* What is registered as the peer p of the torrent h, against the last
\* accepted announce of that peer.
RegisteredPeer(t, l, h, p) ==
    LET peer == PeersOf(t, h)[p]
        by == l[<<h, p>>] IN
    /\ p \in DOMAIN PeersOf(t, h) <=>
          <<h, p>> \in DOMAIN l /\ Given(by.query, "event") # "stopped"
    /\ p \in DOMAIN PeersOf(t, h) =>
          /\ peer \in PeerSet /\ peer.peer_id = p
          /\ peer.ip = IF Given(by.query, "ip") = 0 THEN by.ip ELSE Given(by.query, "ip")
          /\ peer.port = Given(by.query, "port")
          /\ peer.uploaded = Given(by.query, "uploaded")
          /\ peer.downloaded = Given(by.query, "downloaded")
          /\ peer.left = Given(by.query, "left")
          /\ peer.complete <=> Given(by.query, "event") = "completed" \/ Given(by.query, "left") = 0

Remember(l, r, q, ip) == Assign(l, <<r.info_hash, r.peer_id>>, [query |-> q, ip |-> ip])

LEMMA PeerRecorded ==
    ASSUME NEW r, NEW q, NEW ip, CameFrom(r, q, ip)
    PROVE  /\ PeerOf(r) \in PeerSet /\ PeerOf(r).peer_id = r.peer_id
           /\ PeerOf(r).ip = IF Given(q, "ip") = 0 THEN ip ELSE Given(q, "ip")
           /\ PeerOf(r).port = Given(q, "port")
           /\ PeerOf(r).uploaded = Given(q, "uploaded")
           /\ PeerOf(r).downloaded = Given(q, "downloaded")
           /\ PeerOf(r).left = Given(q, "left")
           /\ PeerOf(r).complete <=> Given(q, "event") = "completed" \/ Given(q, "left") = 0
BY DEF CameFrom, PeerOf, PeerSet

LEMMA RegisteredStep ==
    ASSUME NEW t, NEW l, NEW r, NEW q, NEW ip, CameFrom(r, q, ip),
           NEW h, NEW p, RegisteredPeer(t, l, h, p)
    PROVE  RegisteredPeer(ApplyAnnounce(t, r), Remember(l, r, q, ip), h, p)
<1> DEFINE u == ApplyAnnounce(t, r)
           m == Remember(l, r, q, ip)
           key == <<r.info_hash, r.peer_id>>
           peers == PeersOf(u, h)
<1>1. /\ DOMAIN m = DOMAIN l \union {key}
      /\ <<h, p>> = key => m[<<h, p>>].query = q /\ m[<<h, p>>].ip = ip
      /\ <<h, p>> # key /\ <<h, p>> \in DOMAIN l => m[<<h, p>>] = l[<<h, p>>]
  BY DEF Remember, Assign
<1>2. AppliedAt(t, u, r, h, p)
  BY Applied
<1>3. CASE <<h, p>> = key
  <2>1. p = r.peer_id
    BY <1>3
  <2>2. (p \in DOMAIN peers <=> r.event # "stopped") /\ (r.event # "stopped" => peers[p] = PeerOf(r))
    BY <1>2, <1>3 DEF AppliedAt
  <2>3. r.event = Given(q, "event")
    BY DEF CameFrom
  <2>4. <<h, p>> \in DOMAIN m /\ m[<<h, p>>].query = q /\ m[<<h, p>>].ip = ip
    BY <1>1, <1>3
  <2> HIDE DEF u, m, key, peers
  <2>5. RegisteredPeer(u, m, h, p)
    BY <2>1, <2>2, <2>3, <2>4, PeerRecorded DEF RegisteredPeer, peers
  <2> QED  BY <2>5 DEF u, m
<1>4. CASE <<h, p>> # key
  <2>1. /\ p \in DOMAIN peers <=> p \in DOMAIN PeersOf(t, h)
        /\ p \in DOMAIN PeersOf(t, h) => peers[p] = PeersOf(t, h)[p]
    BY <1>2, <1>4 DEF AppliedAt
  <2>2. <<h, p>> \in DOMAIN m <=> <<h, p>> \in DOMAIN l
    BY <1>1, <1>4
  <2>3. <<h, p>> \in DOMAIN l => m[<<h, p>>] = l[<<h, p>>]
    BY <1>1, <1>4
  <2> HIDE DEF u, m, key, peers
  <2>4. RegisteredPeer(u, m, h, p)
    <3>1. CASE <<h, p>> \in DOMAIN l
      BY <2>1, <2>2, <2>3, <3>1 DEF RegisteredPeer, peers
    <3>2. CASE <<h, p>> \notin DOMAIN l
      BY <2>1, <2>2, <3>2 DEF RegisteredPeer, peers
    <3> QED  BY <3>1, <3>2
  <2> QED  BY <2>4 DEF u, m
<1> QED  BY <1>3, <1>4

-----------------------------------------------------------------------------
(* The connections.                                                        *)

\* A connection has an address, and a response exactly while it sends it.
ConnectionOK(k) ==
    /\ k.pc \in {"closed", "receive", "send"}
    /\ k.pc = "send" <=> k.response.kind # "none"
    /\ k.ip \in Address
    /\ k = [pc |-> k.pc, ip |-> k.ip, response |-> k.response]

ConnectionsOK(f) ==
    /\ f = [c \in Connection |-> f[c]]
    /\ \A c \in Connection : ConnectionOK(f[c])

Answered(k, response) == [pc |-> "send", ip |-> k.ip, response |-> response]

LEMMA AnsweredOK ==
    ASSUME NEW k, ConnectionOK(k), NEW response, response.kind # "none"
    PROVE  ConnectionOK(Answered(k, response)) /\ Answered(k, response).response = response
BY DEF ConnectionOK, Answered

\* A step of one connection.
LEMMA OneConnection ==
    ASSUME NEW f, ConnectionsOK(f), NEW c \in Connection, NEW k, ConnectionOK(k)
    PROVE  ConnectionsOK([f EXCEPT ![c] = k]) /\ [f EXCEPT ![c] = k][c] = k
<1> DEFINE g == [f EXCEPT ![c] = k]
<1>1. g = [b \in Connection |-> IF b = c THEN k ELSE f[b]]
  BY DEF ConnectionsOK
<1> HIDE DEF g
<1>2. g = [b \in Connection |-> g[b]] /\ g[c] = k
  BY <1>1
<1>3. \A b \in Connection : g[b] = k \/ g[b] = f[b]
  BY <1>1
<1>4. ConnectionsOK(g)
  BY <1>2, <1>3 DEF ConnectionsOK
<1> QED  BY <1>2, <1>4 DEF g

AnsweredIn(f, g, c, response) ==
    g = [f EXCEPT ![c].pc = "send", ![c].response = response]

LEMMA AnswerKeeps ==
    ASSUME NEW f, NEW g, ConnectionsOK(f), NEW c \in Connection, NEW response,
           response.kind # "none", AnsweredIn(f, g, c, response)
    PROVE  ConnectionsOK(g) /\ g[c].response = response
<1>1. g = [f EXCEPT ![c] = Answered(f[c], response)]
  <2>1. [[f[c] EXCEPT !.pc = "send"] EXCEPT !.response = response] = Answered(f[c], response)
    <3>1. PICK x, y, z : f[c] = [pc |-> x, ip |-> y, response |-> z]
      BY DEF ConnectionsOK, ConnectionOK
    <3> DEFINE k == [f[c] EXCEPT !.pc = "send"]
    <3>2. k = [pc |-> "send", ip |-> y, response |-> z]
      BY <3>1
    <3> HIDE DEF k
    <3>3. [k EXCEPT !.response = response] = [pc |-> "send", ip |-> y, response |-> response]
      BY <3>2
    <3>4. f[c].ip = y
      BY <3>1
    <3> QED  BY <3>3, <3>4 DEF Answered, k
  <2>2. g = [f EXCEPT ![c] = [[f[c] EXCEPT !.pc = "send"] EXCEPT !.response = response]]
    BY DEF ConnectionsOK, AnsweredIn
  <2> QED  BY <2>1, <2>2
<1>2. ConnectionOK(f[c])
  BY DEF ConnectionsOK
<1>3. ConnectionOK(Answered(f[c], response)) /\ Answered(f[c], response).response = response
  BY <1>2, AnsweredOK
<1>4. ConnectionsOK(g) /\ g[c] = Answered(f[c], response)
  <2> DEFINE k == Answered(f[c], response)
  <2>1. g = [f EXCEPT ![c] = k] /\ ConnectionOK(k)
    BY <1>1, <1>3
  <2> HIDE DEF k
  <2>2. ConnectionsOK([f EXCEPT ![c] = k]) /\ [f EXCEPT ![c] = k][c] = k
    BY <2>1, OneConnection
  <2> QED  BY <2>1, <2>2 DEF k
<1> QED  BY <1>3, <1>4


-----------------------------------------------------------------------------
(* The invariant.                                                          *)

OnlyOwnTypes(t) == DOMAIN t \subseteq Hash /\ \A h \in DOMAIN t : DOMAIN t[h] \subseteq PeerId

AllRegistered(t, l) == \A h \in Hash, p \in PeerId : RegisteredPeer(t, l, h, p)

TorrentsOf(l) == {pair[1] : pair \in DOMAIN l}

\* What is registered is what was said, of the torrents anybody spoke of.
PeersInv ==
    /\ OnlyOwnTypes(torrents)
    /\ AllRegistered(torrents, last)
    /\ DOMAIN torrents = TorrentsOf(last)

ConnInv == ConnectionsOK(conn)

Inv == PeersInv /\ ConnInv

LEMMA InvGivesTypeOK == ASSUME Inv PROVE TypeOK
<1>1. ASSUME NEW h \in DOMAIN torrents, NEW p \in DOMAIN torrents[h]
      PROVE  torrents[h][p] \in PeerSet /\ torrents[h][p].peer_id = p
  <2>1. h \in Hash /\ p \in PeerId
    BY DEF Inv, PeersInv, OnlyOwnTypes
  <2>2. PeersOf(torrents, h) = torrents[h]
    BY DEF PeersOf
  <2>3. RegisteredPeer(torrents, last, h, p)
    BY <2>1 DEF Inv, PeersInv, AllRegistered
  <2> QED  BY <2>2, <2>3 DEF RegisteredPeer
<1>2. \A h \in DOMAIN torrents : h \in Hash
  BY DEF Inv, PeersInv, OnlyOwnTypes
<1>3. ASSUME NEW c \in Connection
      PROVE  /\ conn[c].pc \in {"closed", "receive", "send"}
             /\ conn[c].pc = "send" <=> conn[c].response.kind # "none"
  BY DEF Inv, ConnInv, ConnectionsOK, ConnectionOK
<1> QED  BY <1>1, <1>2, <1>3 DEF TypeOK

LEMMA InvGivesRegistered == ASSUME Inv PROVE RegisteredAsAnnounced
<1> SUFFICES ASSUME NEW h \in Hash, NEW p \in PeerId
             PROVE  LET registered == p \in DOMAIN PeersOf(torrents, h)
                        peer == torrents[h][p]
                        by == last[<<h, p>>]
                        said(name) == Given(by.query, name) IN
                    /\ registered <=> <<h, p>> \in DOMAIN last /\ said("event") # "stopped"
                    /\ registered =>
                          /\ peer.ip = IF said("ip") = 0 THEN by.ip ELSE said("ip")
                          /\ <<peer.port, peer.uploaded, peer.downloaded, peer.left>> =
                                <<said("port"), said("uploaded"), said("downloaded"), said("left")>>
                          /\ peer.complete <=> said("event") = "completed" \/ said("left") = 0
  BY Zenon DEF RegisteredAsAnnounced
<1>1. RegisteredPeer(torrents, last, h, p)
  BY DEF Inv, PeersInv, AllRegistered
<1>2. p \in DOMAIN PeersOf(torrents, h) => PeersOf(torrents, h)[p] = torrents[h][p]
  BY DEF PeersOf
<1> QED  BY <1>1, <1>2 DEF RegisteredPeer

\* An accepted announce.
LEMMA AcceptedKeeps ==
    ASSUME NEW t, NEW l, OnlyOwnTypes(t), AllRegistered(t, l), DOMAIN t = TorrentsOf(l),
           NEW r, NEW q, NEW ip, CameFrom(r, q, ip)
    PROVE  LET u == ApplyAnnounce(t, r)
               m == Remember(l, r, q, ip) IN
           OnlyOwnTypes(u) /\ AllRegistered(u, m) /\ DOMAIN u = TorrentsOf(m)
<1> DEFINE u == ApplyAnnounce(t, r)
           m == Remember(l, r, q, ip)
<1>1. r.info_hash \in Hash /\ r.peer_id \in PeerId
  BY DEF CameFrom
<1>2. DOMAIN u = DOMAIN t \union {r.info_hash}
  BY AppliedTorrents
<1>3. DOMAIN m = DOMAIN l \union {<<r.info_hash, r.peer_id>>}
  BY DEF Remember, Assign
<1>4. ASSUME NEW h \in Hash, NEW p \in PeerId PROVE RegisteredPeer(u, m, h, p)
  <2>1. RegisteredPeer(t, l, h, p)
    BY DEF AllRegistered
  <2> QED  BY <2>1, RegisteredStep
<1>5. ASSUME NEW h \in DOMAIN u, NEW p \in DOMAIN u[h] PROVE p \in PeerId
  <2>1. AppliedAt(t, u, r, h, p)
    BY Applied
  <2>2. PeersOf(u, h) = u[h]
    BY DEF PeersOf
  <2>3. p \in DOMAIN PeersOf(t, h) => p \in PeerId
    BY DEF PeersOf, OnlyOwnTypes
  <2> HIDE DEF u
  <2> QED  BY <1>1, <2>1, <2>2, <2>3 DEF AppliedAt
<1> HIDE DEF u, m
<1>6. OnlyOwnTypes(u)
  BY <1>1, <1>2, <1>5 DEF OnlyOwnTypes
<1>7. DOMAIN u = TorrentsOf(m)
  <2>1. <<r.info_hash, r.peer_id>>[1] = r.info_hash
    OBVIOUS
  <2>2. TorrentsOf(m) = TorrentsOf(l) \union {r.info_hash}
    BY <1>3, <2>1 DEF TorrentsOf
  <2> QED  BY <1>2, <2>2
<1> QED  BY <1>4, <1>6, <1>7 DEF u, m, AllRegistered

LEMMA InitInv == ASSUME Init PROVE Inv
<1>1. torrents = << >> /\ last = << >> /\ conn = [c \in Connection |-> Closed]
  BY DEF Init
<1>2. DOMAIN torrents = {} /\ DOMAIN last = {}
  BY <1>1
<1>3. OnlyOwnTypes(torrents) /\ DOMAIN torrents = TorrentsOf(last)
  BY <1>2 DEF OnlyOwnTypes, TorrentsOf
<1>4. AllRegistered(torrents, last)
  <2>1. \A h \in Hash : DOMAIN PeersOf(torrents, h) = {}
    BY <1>1, <1>2 DEF PeersOf
  <2> QED  BY <1>2, <2>1 DEF AllRegistered, RegisteredPeer
<1>5. ConnectionOK(Closed)
  BY ZeroAddress DEF ConnectionOK, Closed, NoResponse
<1>6. ConnectionsOK(conn)
  BY <1>1, <1>5 DEF ConnectionsOK
<1> QED  BY <1>3, <1>4, <1>6 DEF Inv, PeersInv, ConnInv


LEMMA AcceptedStep ==
    ASSUME PeersInv, NEW r, NEW q, NEW ip, CameFrom(r, q, ip), Accepted(r, q, ip)
    PROVE  PeersInv'
<1>1. torrents' = ApplyAnnounce(torrents, r) /\ last' = Remember(last, r, q, ip)
  BY DEF Accepted, Remember
<1>2. /\ OnlyOwnTypes(ApplyAnnounce(torrents, r))
      /\ AllRegistered(ApplyAnnounce(torrents, r), Remember(last, r, q, ip))
      /\ DOMAIN ApplyAnnounce(torrents, r) = TorrentsOf(Remember(last, r, q, ip))
  BY AcceptedKeeps DEF PeersInv
<1>3. OnlyOwnTypes(torrents') /\ AllRegistered(torrents', last') /\ DOMAIN (torrents') = TorrentsOf(last')
  BY <1>1, <1>2
<1> QED  BY <1>3 DEF PeersInv, OnlyOwnTypes, AllRegistered, TorrentsOf

LEMMA PeersUnchanged ==
    ASSUME PeersInv, UNCHANGED <<torrents, last>> PROVE PeersInv'
BY DEF PeersInv, OnlyOwnTypes, AllRegistered, TorrentsOf

LEMMA AnswerStep ==
    ASSUME ConnInv, NEW c \in Connection, NEW response, response.kind # "none",
           AnsweredIn(conn, conn', c, response)
    PROVE  ConnInv' /\ conn'[c].response = response
<1>1. ConnectionsOK(conn') /\ conn'[c].response = response
  BY AnswerKeeps DEF ConnInv
<1> QED  BY <1>1 DEF ConnInv, ConnectionsOK

LEMMA ConnectionStep ==
    ASSUME ConnInv, NEW c \in Connection, NEW k, ConnectionOK(k), conn' = [conn EXCEPT ![c] = k]
    PROVE  ConnInv'
<1>1. ConnectionsOK(conn')
  BY OneConnection DEF ConnInv
<1> QED  BY <1>1 DEF ConnInv, ConnectionsOK

LEMMA ClosedOK == ConnectionOK(Closed)
BY ZeroAddress DEF ConnectionOK, Closed, NoResponse

LEMMA AcceptInv ==
    ASSUME ConnInv, NEW c \in Connection, Accept(c) PROVE ConnInv'
<1>1. PICK ip \in ConnectionIP :
          conn' = [conn EXCEPT ![c] = [pc |-> "receive", ip |-> ip, response |-> NoResponse]]
  BY DEF Accept
<1> DEFINE k == [pc |-> "receive", ip |-> ip, response |-> NoResponse]
<1>2. ConnectionOK(k) /\ conn' = [conn EXCEPT ![c] = k]
  <2>1. ip \in Address
    BY TrackerAssumption
  <2> QED  BY <1>1, <2>1 DEF ConnectionOK, NoResponse
<1> HIDE DEF k
<1> QED  BY <1>2, ConnectionStep

LEMMA SentInv ==
    ASSUME ConnInv, NEW c \in Connection, Sent(c) PROVE ConnInv'
<1>1. ConnectionOK(conn[c]) /\ conn = [b \in Connection |-> conn[b]]
  BY DEF ConnInv, ConnectionsOK
<1>2. CASE conn' = [conn EXCEPT ![c] = Closed]
  BY <1>2, ClosedOK, ConnectionStep
<1>3. CASE conn' = [conn EXCEPT ![c].pc = "receive", ![c].response = NoResponse]
  <2> DEFINE k == [pc |-> "receive", ip |-> conn[c].ip, response |-> NoResponse]
  <2>1. ConnectionOK(k)
    BY <1>1 DEF ConnectionOK, NoResponse
  <2>2. conn' = [conn EXCEPT ![c] = k]
    <3>1. PICK x, y, z : conn[c] = [pc |-> x, ip |-> y, response |-> z]
      BY <1>1 DEF ConnectionOK
    <3> DEFINE j == [conn[c] EXCEPT !.pc = "receive"]
    <3>2. j = [pc |-> "receive", ip |-> y, response |-> z]
      BY <3>1
    <3>3. conn' = [conn EXCEPT ![c] = [j EXCEPT !.response = NoResponse]]
      BY <1>1, <1>3
    <3> HIDE DEF j
    <3>4. [j EXCEPT !.response = NoResponse] = [pc |-> "receive", ip |-> y, response |-> NoResponse]
      BY <3>2
    <3>5. conn[c].ip = y
      BY <3>1
    <3> QED  BY <3>3, <3>4, <3>5
  <2> HIDE DEF k
  <2> QED  BY <2>1, <2>2, ConnectionStep
<1> QED  BY <1>2, <1>3 DEF Sent

LEMMA HangUpInv ==
    ASSUME ConnInv, NEW c \in Connection, HangUp(c) PROVE ConnInv'
BY ClosedOK, ConnectionStep DEF HangUp

LEMMA OtherInv ==
    ASSUME ConnInv, NEW c \in Connection, Other(c) PROVE ConnInv'
<1>1. Debug(torrents).kind # "none" /\ NotFound.kind # "none"
  BY DEF Debug, NotFound
<1>2. Answer(c, Debug(torrents)) \/ Answer(c, NotFound)
  BY DEF Other
<1>3. CASE Answer(c, Debug(torrents))
  <2> DEFINE response == Debug(torrents)
  <2>1. response.kind # "none" /\ AnsweredIn(conn, conn', c, response)
    BY <1>1, <1>3 DEF Answer, AnsweredIn
  <2> HIDE DEF response
  <2> QED  BY <2>1, AnswerStep
<1>4. CASE Answer(c, NotFound)
  <2> DEFINE response == NotFound
  <2>1. response.kind # "none" /\ AnsweredIn(conn, conn', c, response)
    BY <1>1, <1>4 DEF Answer, AnsweredIn
  <2> HIDE DEF response
  <2> QED  BY <2>1, AnswerStep
<1> QED  BY <1>2, <1>3, <1>4


\* The announce r is applied.
AnnounceOf(r) ==
    /\ r.info_hash \in Hash /\ r.peer_id \in PeerId /\ r.numwant \in Int
    /\ torrents' = ApplyAnnounce(torrents, r)

AnsweredTo(c, r) ==
    conn[c].pc = "receive" /\ conn'[c].response = Success(torrents', r)

\* An announce that is refused leaves the peers alone, and one that is
\* accepted is answered with peers.
LEMMA AnnounceInv ==
    ASSUME PeersInv, ConnInv, NEW c \in Connection, Announce(c)
    PROVE  /\ PeersInv' /\ ConnInv'
           /\ UNCHANGED torrents \/ \E r : AnnounceOf(r) /\ AnsweredTo(c, r)
<1>1. PICK q \in Query :
          Serve(c, q, ParseAnnounce(q), WithAddress(ParseAnnounce(q).req, conn[c].ip))
  BY DEF Announce
<1> DEFINE parsed == ParseAnnounce(q)
           r == WithAddress(parsed.req, conn[c].ip)
<1>2. conn[c].ip \in Address
  BY DEF ConnInv, ConnectionsOK, ConnectionOK
<1>3. parsed.failure = NoFailure => CameFrom(r, q, conn[c].ip)
  BY <1>2, AcceptedSays, RequestCameFrom
<1>4. Serve(c, q, parsed, r)
  BY <1>1
<1> HIDE DEF parsed, r
<1>5. CASE Answer(c, Failure(parsed.failure)) /\ UNCHANGED <<torrents, last>>
  <2> DEFINE response == Failure(parsed.failure)
  <2>1. response.kind # "none" /\ AnsweredIn(conn, conn', c, response)
    BY <1>5 DEF Answer, AnsweredIn, Failure
  <2> HIDE DEF response
  <2>2. ConnInv'
    BY <2>1, AnswerStep
  <2> QED  BY <1>5, <2>2, PeersUnchanged
<1>6. CASE /\ parsed.failure = NoFailure
           /\ Accepted(r, q, conn[c].ip)
           /\ Answer(c, Success(torrents', r))
  <2> DEFINE response == Success(torrents', r)
  <2>1. response.kind # "none" /\ conn[c].pc = "receive"
        /\ AnsweredIn(conn, conn', c, response)
    BY <1>6 DEF Answer, AnsweredIn, Success
  <2> HIDE DEF response
  <2>2. ConnInv' /\ conn'[c].response = response
    BY <2>1, AnswerStep
  <2>3. PeersInv'
    <3> DEFINE ip == conn[c].ip
    <3>1. CameFrom(r, q, ip) /\ Accepted(r, q, ip)
      BY <1>3, <1>6
    <3> HIDE DEF ip
    <3> QED  BY <3>1, AcceptedStep
  <2>4. AnnounceOf(r)
    BY <1>3, <1>6 DEF AnnounceOf, Accepted, CameFrom
  <2>5. AnsweredTo(c, r)
    BY <2>1, <2>2 DEF AnsweredTo, response
  <2> QED  BY <2>2, <2>3, <2>4, <2>5
<1>7. \/ Answer(c, Failure(parsed.failure)) /\ UNCHANGED <<torrents, last>>
      \/ /\ parsed.failure = NoFailure
         /\ Accepted(r, q, conn[c].ip)
         /\ Answer(c, Success(torrents', r))
  BY <1>4 DEF Serve
<1> QED  BY <1>5, <1>6, <1>7

LEMMA ProcessMessageInv ==
    ASSUME PeersInv, ConnInv, ProcessMessage
    PROVE  PeersInv' /\ ConnInv' /\ UNCHANGED conn /\ \E r : AnnounceOf(r)
<1>1. PICK q \in Query : ParseAnnounce(q).failure = NoFailure /\ Accepted(ParseAnnounce(q).req, q, 0)
  BY DEF ProcessMessage
<1> DEFINE r == ParseAnnounce(q).req
<1>2. CameFrom(r, q, 0)
  BY <1>1, AcceptedSays, MessageCameFrom
<1>3. Accepted(r, q, 0)
  BY <1>1
<1> HIDE DEF r
<1>4. PeersInv'
  BY <1>2, <1>3, AcceptedStep
<1>5. UNCHANGED conn
  BY DEF ProcessMessage
<1>6. AnnounceOf(r)
  BY <1>2, <1>3 DEF AnnounceOf, Accepted, CameFrom
<1> QED  BY <1>4, <1>5, <1>6 DEF ConnInv, ConnectionsOK

\* Every step keeps the invariant, and changes the torrents only as an
\* accepted announce.
LEMMA StepInv ==
    ASSUME Inv, [Next]_vars
    PROVE  /\ Inv'
           /\ torrents' # torrents => \E r :
                 AnnounceOf(r) /\ (UNCHANGED conn \/ \E c \in Connection : AnsweredTo(c, r))
<1>0. PeersInv /\ ConnInv
  BY DEF Inv
<1>1. CASE UNCHANGED vars
  <2>1. UNCHANGED <<torrents, last>> /\ UNCHANGED conn
    BY <1>1 DEF vars
  <2>2. ConnInv'
    BY <1>0, <2>1 DEF ConnInv, ConnectionsOK
  <2> QED  BY <1>0, <2>1, <2>2, PeersUnchanged DEF Inv
<1>2. CASE ProcessMessage
  BY <1>0, <1>2, ProcessMessageInv DEF Inv
<1>3. ASSUME NEW c \in Connection, Announce(c)
      PROVE  /\ Inv'
             /\ UNCHANGED torrents \/ \E r : AnnounceOf(r) /\ AnsweredTo(c, r)
  BY <1>0, <1>3, AnnounceInv DEF Inv
<1>4. ASSUME NEW c \in Connection, Accept(c) \/ Other(c) \/ Sent(c) \/ HangUp(c)
      PROVE  Inv' /\ UNCHANGED torrents
  <2>1. UNCHANGED <<torrents, last>>
    BY <1>4 DEF Accept, Other, Sent, HangUp
  <2>2. ConnInv'
    BY <1>0, <1>4, AcceptInv, OtherInv, SentInv, HangUpInv
  <2> QED  BY <1>0, <2>1, <2>2, PeersUnchanged DEF Inv
<1>5. Next \/ UNCHANGED vars
  OBVIOUS
<1> QED  BY <1>1, <1>2, <1>3, <1>4, <1>5 DEF Next

LEMMA Invariance == Spec => []Inv
<1>1. Init => Inv
  BY InitInv
<1>2. Inv /\ [Next]_vars => Inv'
  BY StepInv
<1> QED  BY <1>1, <1>2, PTL DEF Spec

\* Records are well formed, each peer is filed under its own id with an
\* address, a port and counts of their types, and a connection holds a
\* response exactly while it sends it.
THEOREM TypeCorrect == Spec => []TypeOK
<1>1. Inv => TypeOK
  BY InvGivesTypeOK
<1> QED  BY <1>1, Invariance, PTL

\* Whatever announces come over whatever connections, apply_announce keeps of
\* each peer exactly what its own last accepted announce said.
THEOREM KnowsWhatWasSaid == Spec => []RegisteredAsAnnounced
<1>1. Inv => RegisteredAsAnnounced
  BY InvGivesRegistered
<1> QED  BY <1>1, Invariance, PTL

\* A torrent that anybody ever announced, if only a stop, stays in
\* `torrents' for ever, and there are no others.
THEOREM NothingForgotten == Spec => []TorrentsKeptForEver
<1>1. Inv => TorrentsKeptForEver
  BY DEF Inv, PeersInv, TorrentsKeptForEver, TorrentsOf
<1> QED  BY <1>1, Invariance, PTL

-----------------------------------------------------------------------------
(* The order of the keys of a map.                                         *)

AreKeys(S) == IsFiniteSet(S) /\ S \subseteq Int

Before(S, p) == {k \in S : k < p}

LEMMA RankType ==
    ASSUME NEW S, AreKeys(S), NEW p \in S
    PROVE  /\ Rank(S, p) \in 0 .. Cardinality(S) - 1
           /\ Rank(S, p) = Cardinality(Before(S, p))
           /\ IsFiniteSet(Before(S, p))
<1>1. Rank(S, p) = Cardinality(Before(S, p))
  BY DEF Rank, Before
<1>2. Before(S, p) \in SUBSET (S \ {p})
  BY DEF Before, AreKeys
<1>3. /\ IsFiniteSet(S \ {p}) /\ Cardinality(S \ {p}) = Cardinality(S) - 1
      /\ Cardinality(S) \in Nat /\ Cardinality(S \ {p}) \in Nat
  BY FS_RemoveElement, FS_CardinalityType DEF AreKeys
<1>4. IsFiniteSet(Before(S, p)) /\ Cardinality(Before(S, p)) <= Cardinality(S \ {p})
  BY <1>2, <1>3, FS_Subset
<1>5. Cardinality(Before(S, p)) \in Nat
  BY <1>4, FS_CardinalityType
<1> QED  BY <1>1, <1>3, <1>4, <1>5

LEMMA RankGrows ==
    ASSUME NEW S, AreKeys(S), NEW p \in S, NEW q \in S, p < q
    PROVE  Rank(S, p) < Rank(S, q)
<1> DEFINE A == Before(S, p)
           B == Before(S, q)
<1>1. IsFiniteSet(A) /\ IsFiniteSet(B) /\ Rank(S, p) = Cardinality(A) /\ Rank(S, q) = Cardinality(B)
  BY RankType
<1>2. A \union {p} \in SUBSET B /\ p \notin A
  <2>1. p \in Int /\ q \in Int /\ \A k \in S : k \in Int
    BY DEF AreKeys
  <2>2. p \in B /\ p \notin A
    BY <2>1 DEF Before
  <2>3. \A k \in A : k \in B
    BY <2>1 DEF Before
  <2> QED  BY <2>2, <2>3
<1> HIDE DEF A, B
<1>3. Cardinality(A \union {p}) = Cardinality(A) + 1
  BY <1>1, <1>2, FS_AddElement
<1>4. Cardinality(A \union {p}) <= Cardinality(B)
  BY <1>1, <1>2, FS_Subset
<1>5. Cardinality(A) \in Nat /\ Cardinality(B) \in Nat
  BY <1>1, FS_CardinalityType
<1> QED  BY <1>1, <1>3, <1>4, <1>5

\* A key is before another exactly if its rank is.
LEMMA RankOrders ==
    ASSUME NEW S, AreKeys(S), NEW p \in S, NEW q \in S
    PROVE  /\ p < q <=> Rank(S, p) < Rank(S, q)
           /\ p = q <=> Rank(S, p) = Rank(S, q)
<1>1. Rank(S, p) \in 0 .. Cardinality(S) - 1 /\ Rank(S, q) \in 0 .. Cardinality(S) - 1
  BY RankType
<1>2. p \in Int /\ q \in Int /\ Rank(S, p) \in Int /\ Rank(S, q) \in Int
  BY <1>1 DEF AreKeys
<1>3. p < q => Rank(S, p) < Rank(S, q)
  BY RankGrows
<1>4. q < p => Rank(S, q) < Rank(S, p)
  BY RankGrows
<1> QED  BY <1>2, <1>3, <1>4

\* Every rank is some key's.
LEMMA EveryRank ==
    ASSUME NEW S, AreKeys(S), NEW n \in 1 .. Cardinality(S)
    PROVE  \E p \in S : Rank(S, p) = n - 1
<1> DEFINE N == Cardinality(S)
           T == 1 .. N
           f == [p \in S |-> Rank(S, p) + 1]
<1>1. N \in Nat
  BY FS_CardinalityType DEF AreKeys
<1>2. IsFiniteSet(T) /\ Cardinality(T) = N
  BY <1>1, FS_Interval
<1>3. ASSUME NEW p \in S PROVE Rank(S, p) \in Nat /\ f[p] = Rank(S, p) + 1 /\ f[p] \in T
  <2>1. Rank(S, p) \in 0 .. N - 1
    BY RankType
  <2> QED  BY <1>1, <2>1
<1>4. ASSUME NEW p \in S, NEW q \in S, f[p] = f[q] PROVE p = q
  <2>1. Rank(S, p) = Rank(S, q)
    <3> HIDE DEF f
    <3> QED  BY <1>3, <1>4
  <2> QED  BY <2>1, RankOrders
<1>5. f \in Injection(S, T)
  <2>1. f \in [S -> T]
    BY <1>3
  <2> HIDE DEF f, T
  <2> QED  BY <1>4, <2>1 DEF Injection, IsInjective
<1>6. f \in Surjection(S, T)
  <2>1. Cardinality(S) = Cardinality(T)
    BY <1>2
  <2> HIDE DEF f, T, N
  <2> QED  BY <1>2, <1>5, <2>1, FS_Injection
<1>7. PICK p \in S : f[p] = n
  <2>1. n \in T
    OBVIOUS
  <2> HIDE DEF f, T
  <2> QED  BY <1>6, <2>1 DEF Surjection
<1>8. Rank(S, p) = n - 1
  <2>1. n \in Nat
    OBVIOUS
  <2> HIDE DEF f
  <2> QED  BY <1>3, <1>7, <2>1
<1> QED  BY <1>8

\* The n-th key of the loop has n - 1 before it.
LEMMA InOrderIs ==
    ASSUME NEW S, AreKeys(S), NEW n \in 1 .. Cardinality(S)
    PROVE  InOrder(S)[n] \in S /\ Rank(S, InOrder(S)[n]) = n - 1
<1>1. InOrder(S)[n] = CHOOSE p \in S : Rank(S, p) = n - 1
  BY DEF InOrder
<1> QED  BY <1>1, EveryRank


-----------------------------------------------------------------------------
(* The list of peers.                                                      *)

\* Of the keys but self, those that the first n rounds of the loop meet.
Met(S, self, n) == {p \in S \ {self} : Rank(S, p) < n}

KeyAt(S, k) == CHOOSE p \in S : Rank(S, p) = k - 1

\* How many of c others are listed.
Cut(want, c) == IF want < 0 \/ want > c THEN c ELSE want

\* What is listed after the first n rounds.
Listed(peers, self, want, n) ==
    [k \in 1 .. Cut(want, Cardinality(Met(DOMAIN peers, self, n))) |->
        Entry(peers[KeyAt(DOMAIN peers \ {self}, k)])]

LEMMA OthersAreKeys ==
    ASSUME NEW S, AreKeys(S), NEW self
    PROVE  AreKeys(S \ {self})
BY FS_RemoveElement DEF AreKeys

LEMMA MetFinite ==
    ASSUME NEW S, AreKeys(S), NEW self, NEW n
    PROVE  /\ IsFiniteSet(Met(S, self, n)) /\ Cardinality(Met(S, self, n)) \in Nat
           /\ Cardinality(Met(S, self, n)) <= Cardinality(S \ {self})
<1>1. IsFiniteSet(S \ {self})
  BY OthersAreKeys DEF AreKeys
<1>2. Met(S, self, n) \in SUBSET (S \ {self})
  BY DEF Met
<1> QED  BY <1>1, <1>2, FS_Subset, FS_CardinalityType

LEMMA KeyAtIs ==
    ASSUME NEW S, AreKeys(S), NEW p \in S, NEW k, Rank(S, p) = k - 1
    PROVE  KeyAt(S, k) = p
<1> DEFINE q == KeyAt(S, k)
<1>1. q \in S /\ Rank(S, q) = k - 1
  BY DEF KeyAt
<1> HIDE DEF q
<1>2. q = p
  BY <1>1, RankOrders
<1> QED  BY <1>2 DEF q

\* What the n-th round, which is about p, adds to what the loop has met.
MetBy(S, self, n, p) ==
    /\ p = self => Met(S, self, n) = Met(S, self, n - 1)
    /\ p # self => /\ Cardinality(Met(S, self, n)) = Cardinality(Met(S, self, n - 1)) + 1
                   /\ KeyAt(S \ {self}, Cardinality(Met(S, self, n - 1)) + 1) = p

LEMMA MetNext ==
    ASSUME NEW S, AreKeys(S), NEW self, NEW n \in 1 .. Cardinality(S)
    PROVE  MetBy(S, self, n, InOrder(S)[n])
<1> DEFINE p == InOrder(S)[n]
<1> DEFINE A == Met(S, self, n - 1)
           B == Met(S, self, n)
           O == S \ {self}
<1>1. p \in S /\ Rank(S, p) = n - 1
  BY InOrderIs
<1> HIDE DEF p
<1>2. n \in Nat /\ \A q \in S : Rank(S, q) \in Nat
  <2>1. \A q \in S : Rank(S, q) \in 0 .. Cardinality(S) - 1
    BY RankType
  <2>2. Cardinality(S) \in Nat
    BY FS_CardinalityType DEF AreKeys
  <2> QED  BY <2>1, <2>2
<1>3. ASSUME NEW q \in S
      PROVE  (Rank(S, q) < n <=> Rank(S, q) < n - 1 \/ q = p) /\ (q = p => ~ (Rank(S, q) < n - 1))
  <2>1. q = p <=> Rank(S, q) = n - 1
    BY <1>1, RankOrders
  <2> QED  BY <1>2, <2>1
<1>4. CASE p = self
  BY <1>3, <1>4 DEF Met, MetBy, p
<1>5. CASE p # self
  <2>1. B = A \union {p} /\ p \notin A
    BY <1>1, <1>3, <1>5 DEF Met
  <2>2. IsFiniteSet(A) /\ Cardinality(A) \in Nat
    BY MetFinite
  <2>3. Cardinality(B) = Cardinality(A) + 1
    <3> HIDE DEF A, B
    <3> QED  BY <2>1, <2>2, FS_AddElement
  <2>4. p \in O /\ AreKeys(O)
    BY <1>1, <1>5, OthersAreKeys
  <2>5. Before(O, p) = A
    <3>1. ASSUME NEW q \in S PROVE q < p <=> Rank(S, q) < n - 1
      BY <1>1, RankOrders
    <3> QED  BY <3>1 DEF Before, Met
  <2>6. Rank(O, p) = Cardinality(A)
    <3>1. Rank(O, p) = Cardinality(Before(O, p))
      BY <2>4, RankType
    <3> QED  BY <2>5, <3>1
  <2>7. KeyAt(O, Cardinality(A) + 1) = p
    <3> DEFINE k == Cardinality(A) + 1
    <3>1. Rank(O, p) = k - 1
      BY <2>2, <2>6
    <3> HIDE DEF k, O
    <3>2. KeyAt(O, k) = p
      BY <2>4, <3>1, KeyAtIs
    <3> QED  BY <3>2 DEF k
  <2> HIDE DEF A, B, O
  <2>8. Cardinality(B) = Cardinality(A) + 1 /\ KeyAt(O, Cardinality(A) + 1) = p
    BY <2>3, <2>7
  <2>9. MetBy(S, self, n, p)
    BY <1>5, <2>8 DEF A, B, O, MetBy
  <2> QED  BY <2>9 DEF p
<1> QED  BY <1>4, <1>5


LEMMA AppendNext ==
    ASSUME NEW m \in Nat, NEW e
    PROVE  LET f == [k \in 1 .. m |-> e[k]] IN
           Len(f) = m /\ Append(f, e[m + 1]) = [k \in 1 .. m + 1 |-> e[k]]
<1> DEFINE f == [k \in 1 .. m |-> e[k]]
           g == [k \in 1 .. m + 1 |-> e[k]]
           S == {e[k] : k \in 1 .. m + 1}
<1>1. f \in Seq(S) /\ Len(f) = m /\ g \in Seq(S) /\ Len(g) = m + 1
  <2>1. \A k \in 1 .. m : k \in 1 .. m + 1 /\ e[k] \in S
    OBVIOUS
  <2>2. \A k \in 1 .. m + 1 : e[k] \in S
    OBVIOUS
  <2> HIDE DEF S
  <2> QED  BY <2>1, <2>2
<1>2. e[m + 1] \in S
  OBVIOUS
<1>3. /\ Append(f, e[m + 1]) \in Seq(S)
      /\ Len(Append(f, e[m + 1])) = m + 1
      /\ \A i \in 1 .. m : Append(f, e[m + 1])[i] = f[i]
      /\ Append(f, e[m + 1])[m + 1] = e[m + 1]
  <2> HIDE DEF f, S
  <2> QED  BY <1>1, <1>2, AppendProperties
<1>4. \A i \in 1 .. m + 1 : Append(f, e[m + 1])[i] = g[i]
  <2>1. \A i \in 1 .. m : f[i] = e[i]
    OBVIOUS
  <2>2. \A i \in 1 .. m + 1 : g[i] = e[i] /\ (i = m + 1 \/ i \in 1 .. m)
    OBVIOUS
  <2> HIDE DEF f, g, S
  <2> QED  BY <1>3, <2>1, <2>2
<1>5. Append(f, e[m + 1]) = g
  <2> HIDE DEF f, g, S
  <2> QED  BY <1>1, <1>3, <1>4, SeqEqual
<1> QED  BY <1>1, <1>5

LEMMA ListedNext ==
    ASSUME NEW peers, AreKeys(DOMAIN peers), NEW req, req.numwant \in Int,
           NEW n \in 1 .. Cardinality(DOMAIN peers)
    PROVE  Listed(peers, req.peer_id, req.numwant, n) =
               ListPeer(Listed(peers, req.peer_id, req.numwant, n - 1), peers,
                        InOrder(DOMAIN peers)[n], req)
<1> DEFINE S == DOMAIN peers
           p == InOrder(S)[n]
           self == req.peer_id
           want == req.numwant
           a == Cardinality(Met(S, self, n - 1))
           b == Cardinality(Met(S, self, n))
           e == [k \in Nat |-> Entry(peers[KeyAt(S \ {self}, k)])]
           f == Listed(peers, self, want, n - 1)
           g == Listed(peers, self, want, n)
<1>1. a \in Nat /\ b \in Nat /\ want \in Int
  BY MetFinite
<1>2. /\ p = self => b = a
      /\ p # self => b = a + 1 /\ KeyAt(S \ {self}, a + 1) = p
  <2>1. MetBy(S, self, n, p)
    BY MetNext
  <2> QED  BY <2>1 DEF MetBy
<1> HIDE DEF p
<1>3. /\ f = [k \in 1 .. Cut(want, a) |-> e[k]]
      /\ g = [k \in 1 .. Cut(want, b) |-> e[k]]
  <2> DEFINE c == Cut(want, a)
             d == Cut(want, b)
  <2>1. \A k \in 1 .. c : k \in Nat
    BY <1>1 DEF Cut
  <2>2. \A k \in 1 .. d : k \in Nat
    BY <1>1 DEF Cut
  <2>3. f = [k \in 1 .. c |-> Entry(peers[KeyAt(S \ {self}, k)])]
        /\ g = [k \in 1 .. d |-> Entry(peers[KeyAt(S \ {self}, k)])]
    BY DEF Listed
  <2> HIDE DEF c, d, f, g
  <2>4. f = [k \in 1 .. c |-> e[k]] /\ g = [k \in 1 .. d |-> e[k]]
    BY <2>1, <2>2, <2>3
  <2> QED  BY <2>4 DEF c, d
<1>4. p # self => e[a + 1] = Entry(peers[p])
  BY <1>1, <1>2
<1> HIDE DEF a, b, e, f, g
<1>5. Len(f) = Cut(want, a)
  <2>1. Cut(want, a) \in Nat
    BY <1>1 DEF Cut
  <2> QED  BY <1>3, <2>1, AppendNext
<1>6. g = IF p = self \/ Len(f) = want THEN f ELSE Append(f, Entry(peers[p]))
  <2>1. CASE p = self
    BY <1>2, <1>3, <2>1
  <2>2. CASE p # self /\ Len(f) = want
    <3>1. Cut(want, a + 1) = want /\ Cut(want, a) = want
      BY <1>1, <1>5, <2>2 DEF Cut
    <3> QED  BY <1>2, <1>3, <2>2, <3>1
  <2>3. CASE p # self /\ Len(f) # want
    <3>1. Cut(want, a) = a /\ Cut(want, a + 1) = a + 1
      BY <1>1, <1>5, <2>3 DEF Cut
    <3>2. Append([k \in 1 .. a |-> e[k]], e[a + 1]) = [k \in 1 .. a + 1 |-> e[k]]
      BY <1>1, AppendNext
    <3>3. f = [k \in 1 .. a |-> e[k]] /\ g = [k \in 1 .. a + 1 |-> e[k]]
      BY <1>2, <1>3, <2>3, <3>1
    <3>4. g = Append(f, e[a + 1])
      BY <3>2, <3>3
    <3> QED  BY <1>4, <2>3, <3>4
  <2> QED  BY <2>1, <2>2, <2>3
<1> QED  BY <1>6 DEF ListPeer, f, g, p


\* The loop has listed what there was to list.
LEMMA ListPeersIs ==
    ASSUME NEW t, NEW req, AreKeys(DOMAIN PeersOf(t, req.info_hash)), req.numwant \in Int
    PROVE  LET peers == PeersOf(t, req.info_hash) IN
           ListPeers(t, req) = Listed(peers, req.peer_id, req.numwant, Cardinality(DOMAIN peers))
<1> DEFINE peers == PeersOf(t, req.info_hash)
           N == Cardinality(DOMAIN peers)
           ids == InOrder(DOMAIN peers)
           after(n) == Listed(peers, req.peer_id, req.numwant, n)
           Pass(h) == h = [n \in 0 .. N |->
                              IF n = 0 THEN << >> ELSE ListPeer(h[n - 1], peers, ids[n], req)]
           list == CHOOSE h : Pass(h)
           witness == [n \in 0 .. N |-> after(n)]
<1>1. N \in Nat
  BY FS_CardinalityType DEF AreKeys
<1>2. after(0) = << >>
  <2>1. Met(DOMAIN peers, req.peer_id, 0) = {}
    <3>1. \A p \in DOMAIN peers : ~ (Rank(DOMAIN peers, p) < 0)
      <4>1. \A p \in DOMAIN peers : Rank(DOMAIN peers, p) \in 0 .. N - 1
        BY RankType
      <4> QED  BY <1>1, <4>1
    <3> QED  BY <3>1 DEF Met
  <2>2. Cut(req.numwant, 0) = 0
    BY DEF Cut
  <2>3. Cardinality(Met(DOMAIN peers, req.peer_id, 0)) = 0
    BY <2>1, FS_EmptySet
  <2> QED  BY <2>2, <2>3 DEF Listed
<1>3. ASSUME NEW n \in 1 .. N PROVE after(n) = ListPeer(after(n - 1), peers, ids[n], req)
  BY ListedNext
<1>4. ListPeers(t, req) = list[N]
  BY DEF ListPeers
<1> HIDE DEF after, ids, peers, N
<1>5. Pass(witness)
  <2>1. ASSUME NEW n \in 0 .. N
        PROVE  witness[n] = IF n = 0 THEN << >> ELSE ListPeer(witness[n - 1], peers, ids[n], req)
    <3>1. CASE n = 0
      BY <1>1, <1>2, <3>1
    <3>2. CASE n # 0
      <4>1. n \in 1 .. N /\ n - 1 \in 0 .. N
        BY <1>1, <3>2
      <4> QED  BY <1>3, <3>2, <4>1
    <3> QED  BY <3>1, <3>2
  <2> QED  BY <2>1
<1>6. Pass(list)
  <2> HIDE DEF Pass
  <2> QED  BY <1>5
<1> HIDE DEF list
<1>7. N \in 0 .. N /\ list[0] = << >> /\ \A n \in 1 .. N : list[n] = ListPeer(list[n - 1], peers, ids[n], req)
  <2>1. N \in 0 .. N /\ 0 \in 0 .. N /\ \A n \in 1 .. N : n \in 0 .. N /\ n # 0
    BY <1>1
  <2> QED  BY <1>6, <2>1
<1> DEFINE T == {n \in 0 .. N : list[n] = after(n)}
<1>8. 0 \in T
  BY <1>1, <1>2, <1>7
<1>9. ASSUME NEW n \in 0 .. N - 1, n \in T
      PROVE  n + 1 \in T
  <2>1. n + 1 \in 1 .. N /\ n + 1 \in 0 .. N /\ n + 1 - 1 = n
    BY <1>1
  <2>2. list[n + 1] = ListPeer(after(n), peers, ids[n + 1], req)
    BY <1>7, <1>9, <2>1
  <2>3. after(n + 1) = ListPeer(after(n), peers, ids[n + 1], req)
    BY <1>3, <2>1
  <2> QED  BY <2>1, <2>2, <2>3
<1>10. N \in T
  <2> HIDE DEF T
  <2>1. \A n \in 0 .. N : n \in T
    BY <1>1, <1>8, <1>9, CountingUp
  <2> QED  BY <1>7, <2>1
<1> QED  BY <1>4, <1>10 DEF after, peers, N

\* The answer lists the first of the peers but self.
FirstOthers(answer, peers, self, want) ==
    LET others == DOMAIN peers \ {self} IN
    /\ DOMAIN answer = 1 .. Len(answer)
    /\ Len(answer) = Cut(want, Cardinality(others))
    /\ \A k \in 1 .. Len(answer) : \E p \in others :
          Rank(others, p) = k - 1 /\ answer[k] = Entry(peers[p])

LEMMA ListsOthers ==
    ASSUME NEW t, NEW req, AreKeys(DOMAIN PeersOf(t, req.info_hash)), req.numwant \in Int
    PROVE  FirstOthers(ListPeers(t, req), PeersOf(t, req.info_hash), req.peer_id, req.numwant)
<1> DEFINE peers == PeersOf(t, req.info_hash)
           S == DOMAIN peers
           N == Cardinality(S)
           self == req.peer_id
           want == req.numwant
           others == S \ {self}
           count == Cardinality(others)
           answer == ListPeers(t, req)
<1>1. AreKeys(S) /\ AreKeys(others) /\ count \in Nat /\ N \in Nat
  <2>1. AreKeys(others)
    BY OthersAreKeys
  <2> QED  BY <2>1, FS_CardinalityType DEF AreKeys
<1>2. answer = Listed(peers, self, want, N)
  BY ListPeersIs
<1>3. Met(S, self, N) = others
  <2>1. \A p \in S : Rank(S, p) \in 0 .. N - 1
    BY <1>1, RankType
  <2>2. \A p \in S : Rank(S, p) < N
    BY <1>1, <2>1
  <2> QED  BY <2>2 DEF Met
<1> DEFINE m == Cut(want, count)
           e == [k \in 1 .. m |-> Entry(peers[KeyAt(others, k)])]
<1>4. answer = e
  BY <1>2, <1>3 DEF Listed
<1>5. m \in Nat /\ m <= count
  BY <1>1 DEF Cut
<1> HIDE DEF answer, m, peers
<1>6. Len(answer) = m /\ DOMAIN answer = 1 .. m
  <2>1. e = [k \in 1 .. m |-> e[k]] /\ DOMAIN e = 1 .. m
    OBVIOUS
  <2> HIDE DEF e
  <2> QED  BY <1>4, <1>5, <2>1, AppendNext
<1>7. ASSUME NEW k \in 1 .. Len(answer)
      PROVE  \E p \in others : Rank(others, p) = k - 1 /\ answer[k] = Entry(peers[p])
  <2>1. k \in 1 .. m /\ k \in 1 .. count
    BY <1>1, <1>5, <1>6
  <2>2. answer[k] = Entry(peers[KeyAt(others, k)])
    BY <1>4, <2>1
  <2> HIDE DEF others, count, e
  <2>3. \E p \in others : Rank(others, p) = k - 1
    BY <1>1, <2>1, EveryRank DEF count
  <2>4. KeyAt(others, k) \in others /\ Rank(others, KeyAt(others, k)) = k - 1
    BY <2>3 DEF KeyAt
  <2> QED  BY <2>2, <2>4
<1> QED  BY <1>6, <1>7 DEF answer, m, peers, FirstOthers

\* The peers of a torrent are the keys of a map.
LEMMA PeersAreKeys ==
    ASSUME PeersInv, NEW h PROVE AreKeys(DOMAIN PeersOf(torrents, h))
<1> DEFINE S == DOMAIN PeersOf(torrents, h)
<1>1. S \in SUBSET PeerId
  BY DEF PeersInv, OnlyOwnTypes, PeersOf
<1> HIDE DEF S
<1>2. IsFiniteSet(S) /\ S \subseteq Int
  BY <1>1, TrackerAssumption, FS_Subset
<1> QED  BY <1>2 DEF AreKeys, S

\* tracker_success_response lists the first of the other peers, as many as
\* there are or as are wanted, whatever was announced before.
THEOREM ListsTheFirst == Spec => []AnswerIsPrefix
<1>1. ASSUME Inv, NEW h \in DOMAIN torrents, NEW self \in PeerId, NEW n \in Limit["numwant"]
      PROVE  LET peers == torrents[h]
                 others == DOMAIN peers \ {self}
                 count == Cardinality(others)
                 req == [BlankRequest EXCEPT !.info_hash = h, !.peer_id = self, !.numwant = n]
                 answer == ListPeers(torrents, req) IN
             /\ Len(answer) = IF n < 0 \/ n > count THEN count ELSE n
             /\ \A k \in 1 .. Len(answer) : \E p \in others :
                   Rank(others, p) = k - 1 /\ answer[k] = Entry(peers[p])
  <2> DEFINE req == [BlankRequest EXCEPT !.info_hash = h, !.peer_id = self, !.numwant = n]
  <2>1. req.info_hash = h /\ req.peer_id = self /\ req.numwant = n
    BY DEF BlankRequest
  <2>2. n \in Int
    BY TrackerAssumption
  <2>3. PeersOf(torrents, h) = torrents[h] /\ AreKeys(DOMAIN PeersOf(torrents, h))
    BY <1>1, PeersAreKeys DEF Inv, PeersOf
  <2> HIDE DEF req
  <2>4. FirstOthers(ListPeers(torrents, req), PeersOf(torrents, req.info_hash),
                    req.peer_id, req.numwant)
    BY <2>1, <2>2, <2>3, ListsOthers
  <2>5. FirstOthers(ListPeers(torrents, req), torrents[h], self, n)
    BY <2>1, <2>3, <2>4
  <2> QED  BY <2>5 DEF FirstOthers, Cut, req
<1>2. Inv => AnswerIsPrefix
  BY <1>1, Zenon DEF AnswerIsPrefix
<1> QED  BY <1>2, Invariance, PTL

\* An announce touches the record of one peer of one torrent only.
LEMMA OthersKept ==
    ASSUME NEW t, NEW r, NEW g, NEW p, <<g, p>> # <<r.info_hash, r.peer_id>>
    PROVE  Registered(ApplyAnnounce(t, r), g, p) = Registered(t, g, p)
<1> DEFINE u == ApplyAnnounce(t, r)
<1>1. AppliedAt(t, u, r, g, p)
  BY Applied
<1> HIDE DEF u
<1>2. /\ p \in DOMAIN PeersOf(u, g) <=> p \in DOMAIN PeersOf(t, g)
      /\ p \in DOMAIN PeersOf(t, g) => PeersOf(u, g)[p] = PeersOf(t, g)[p]
  BY <1>1 DEF AppliedAt
<1>3. Registered(u, g, p) = Registered(t, g, p)
  BY <1>2 DEF Registered
<1> QED  BY <1>3 DEF u

\* Refused requests, debug pages and unknown paths leave `torrents' alone; an
\* announce that is accepted changes its own peer's record only, and over a
\* connection is answered with records of the peers other than the asker.
THEOREM OnlyAcceptedChanges == Spec => OnlyAcceptedChange
<1>1. ASSUME Inv, Inv', NEW r, AnnounceOf(r), NEW c \in Connection, AnsweredTo(c, r)
      PROVE  LET answer == conn'[c].response IN
             /\ conn[c].pc = "receive" /\ answer.kind = "peers"
             /\ answer.to.info_hash = r.info_hash /\ answer.to.peer_id = r.peer_id
             /\ \A k \in DOMAIN answer.peers :
                   \E p \in PeerId \ {r.peer_id} :
                       \E peer \in Registered(torrents', r.info_hash, p) :
                           answer.peers[k] = Entry(peer)
  <2> DEFINE list == ListPeers(torrents', r)
             peers == PeersOf(torrents', r.info_hash)
  <2>1. conn[c].pc = "receive"
        /\ conn'[c].response = [kind |-> "peers", to |-> r, peers |-> list]
    BY <1>1 DEF AnsweredTo, Success
  <2>2. DOMAIN peers \subseteq PeerId /\ AreKeys(DOMAIN peers)
    <3>1. DOMAIN peers \in SUBSET PeerId
      BY <1>1 DEF Inv, PeersInv, OnlyOwnTypes, PeersOf
    <3> HIDE DEF peers
    <3> QED  BY <3>1, TrackerAssumption, FS_Subset DEF AreKeys
  <2>3. r.numwant \in Int
    BY <1>1 DEF AnnounceOf
  <2>4. /\ DOMAIN list = 1 .. Len(list)
        /\ \A k \in 1 .. Len(list) : \E p \in DOMAIN peers \ {r.peer_id} :
              list[k] = Entry(peers[p])
    <3> DEFINE t == torrents'
    <3>1. AreKeys(DOMAIN PeersOf(t, r.info_hash))
      BY <2>2
    <3> HIDE DEF t
    <3>2. FirstOthers(ListPeers(t, r), PeersOf(t, r.info_hash), r.peer_id, r.numwant)
      BY <2>3, <3>1, ListsOthers
    <3>3. FirstOthers(list, peers, r.peer_id, r.numwant)
      BY <3>2 DEF t
    <3> HIDE DEF list, peers
    <3> QED  BY <3>3 DEF FirstOthers
  <2>5. ASSUME NEW p \in DOMAIN peers
        PROVE  peers[p] \in Registered(torrents', r.info_hash, p)
    BY DEF Registered
  <2> HIDE DEF list, peers
  <2>6. ASSUME NEW k \in DOMAIN list
        PROVE  \E p \in PeerId \ {r.peer_id} :
                   \E peer \in Registered(torrents', r.info_hash, p) : list[k] = Entry(peer)
    BY <2>2, <2>4, <2>5
  <2> QED  BY <2>1, <2>6
<1>2. ASSUME Inv, [Next]_vars, torrents' # torrents
      PROVE  \E h \in Hash, self \in PeerId :
              /\ \A g \in Hash, p \in PeerId : <<g, p>> # <<h, self>> =>
                    Registered(torrents', g, p) = Registered(torrents, g, p)
              /\ \/ UNCHANGED conn
                 \/ \E c \in Connection :
                       LET answer == conn'[c].response IN
                       /\ conn[c].pc = "receive" /\ answer.kind = "peers"
                       /\ answer.to.info_hash = h /\ answer.to.peer_id = self
                       /\ \A k \in DOMAIN answer.peers :
                             \E p \in PeerId \ {self} :
                                 \E peer \in Registered(torrents', h, p) :
                                     answer.peers[k] = Entry(peer)
  <2>1. Inv' /\ \E r : AnnounceOf(r) /\ (UNCHANGED conn \/ \E c \in Connection : AnsweredTo(c, r))
    BY <1>2, StepInv
  <2>2. PICK r : AnnounceOf(r) /\ (UNCHANGED conn \/ \E c \in Connection : AnsweredTo(c, r))
    BY <2>1
  <2>3. r.info_hash \in Hash /\ r.peer_id \in PeerId
    BY <2>2 DEF AnnounceOf
  <2>4. \A g \in Hash, p \in PeerId : <<g, p>> # <<r.info_hash, r.peer_id>> =>
            Registered(torrents', g, p) = Registered(torrents, g, p)
    BY <2>2, OthersKept DEF AnnounceOf
  <2>5. CASE UNCHANGED conn
    BY <2>3, <2>4, <2>5
  <2>6. CASE \E c \in Connection : AnsweredTo(c, r)
    BY <1>1, <1>2, <2>1, <2>2, <2>3, <2>4, <2>6
  <2> QED  BY <2>2, <2>5, <2>6
<1>3. Inv /\ [Next]_vars => [torrents' # torrents =>
          \E h \in Hash, self \in PeerId :
              /\ \A g \in Hash, p \in PeerId : <<g, p>> # <<h, self>> =>
                    Registered(torrents', g, p) = Registered(torrents, g, p)
              /\ \/ UNCHANGED conn
                 \/ \E c \in Connection :
                       LET answer == conn'[c].response IN
                       /\ conn[c].pc = "receive" /\ answer.kind = "peers"
                       /\ answer.to.info_hash = h /\ answer.to.peer_id = self
                       /\ \A k \in DOMAIN answer.peers :
                             \E p \in PeerId \ {self} :
                                 \E peer \in Registered(torrents', h, p) :
                                     answer.peers[k] = Entry(peer)]_vars
  BY <1>2
<1> QED  BY <1>3, Invariance, PTL DEF Spec, OnlyAcceptedChange

=============================================================================

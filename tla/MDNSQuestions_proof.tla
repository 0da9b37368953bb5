-------------------------- MODULE MDNSQuestions_proof --------------------------
(***************************************************************************)
(* Theorems about MDNSQuestions, for every set of questions and records.   *)
(* Those on what clients have been told suppose that a callback does not   *)
(* stop another question that is still new (~StopNew): without that they   *)
(* are false, as the run que_stale shows.                                  *)
(***************************************************************************)
EXTENDS MDNSQuestions, FiniteSetTheorems, SequenceTheorems, TLAPS

--------------------------------------------------------------------------------
(* Lists *)

Distinct(list) == \A i, j \in DOMAIN list : list[i] = list[j] => i = j

Place(list, q) == CHOOSE i \in DOMAIN list : list[i] = q

LEMMA MinFacts ==
  ASSUME NEW S, S \subseteq Nat, S # {}
  PROVE  Min(S) \in S /\ \A i \in S : Min(S) <= i
<1> DEFINE R == OpToRel(<, Nat)
<1>1. \A i, j \in Nat : i < j => <<i, j>> \in R
  BY DEF OpToRel
<1>2. IsWellFoundedOn(R, Nat)
  BY NatLessThanWellFounded
<1> HIDE DEF R
<1>3. PICK i \in S : \A j \in S : ~(<<j, i>> \in R)
  BY <1>2, WFMin
<1>4. ASSUME NEW j \in S PROVE i <= j
  <2>1. i \in Nat /\ j \in Nat
    OBVIOUS
  <2>2. ~(<<j, i>> \in R)
    BY <1>3
  <2>3. ~(j < i)
    BY <1>1, <2>1, <2>2
  <2> QED
    BY <2>1, <2>3
<1> QED
  BY <1>4 DEF Min

LEMMA FirstInFacts ==
  ASSUME NEW list \in Seq(Question), NEW qs
  PROVE  \/ /\ \A i \in DOMAIN list : list[i] \notin qs
            /\ FirstIn(list, qs) = NoQuestion
         \/ \E i \in DOMAIN list :
              /\ list[i] \in qs
              /\ FirstIn(list, qs) = list[i]
              /\ \A j \in DOMAIN list : list[j] \in qs => i <= j
<1> DEFINE places == {i \in DOMAIN list : list[i] \in qs}
<1>1. FirstIn(list, qs) = IF places = {} THEN NoQuestion ELSE list[Min(places)]
  BY DEF FirstIn
<1>2. places \subseteq Nat
  BY LenProperties
<1>3. CASE places = {}
  BY <1>1, <1>3
<1>4. CASE places # {}
  <2>1. Min(places) \in places /\ \A i \in places : Min(places) <= i
    BY <1>2, <1>4, MinFacts
  <2> QED
    BY <2>1, <1>1, <1>4
<1> QED
  BY <1>3, <1>4

LEMMA PlaceFacts ==
  ASSUME NEW list \in Seq(Question), Distinct(list)
  PROVE  /\ \A q \in ToSet(list) : Place(list, q) \in 1..Len(list) /\ list[Place(list, q)] = q
         /\ \A i \in 1..Len(list) : list[i] \in ToSet(list) /\ Place(list, list[i]) = i
         /\ \A p, q \in ToSet(list) : Place(list, p) = Place(list, q) => p = q
         /\ ToSet(list) \subseteq Question
         /\ Len(list) \in Nat /\ DOMAIN list = 1..Len(list)
<1>1. Len(list) \in Nat /\ DOMAIN list = 1..Len(list) /\ \A i \in DOMAIN list : list[i] \in Question
  BY LenProperties
<1>2. \A q \in ToSet(list) : Place(list, q) \in 1..Len(list) /\ list[Place(list, q)] = q
  BY <1>1 DEF Place, ToSet
<1>3. \A i \in 1..Len(list) : list[i] \in ToSet(list) /\ Place(list, list[i]) = i
  <2> SUFFICES ASSUME NEW i \in 1..Len(list)
               PROVE  list[i] \in ToSet(list) /\ Place(list, list[i]) = i
    OBVIOUS
  <2>1. list[i] \in ToSet(list)
    BY <1>1 DEF ToSet
  <2>2. Place(list, list[i]) \in DOMAIN list /\ list[Place(list, list[i])] = list[i]
    BY <2>1, <1>1, <1>2
  <2> QED
    BY <2>1, <2>2, <1>1 DEF Distinct
<1>4. ToSet(list) \subseteq Question
  BY <1>1 DEF ToSet
<1> QED
  BY <1>1, <1>2, <1>3, <1>4

\* A list with one more question at its end
Longer(list, q, longer) ==
  /\ longer \in Seq(Question) /\ Len(longer) = Len(list) + 1
  /\ \A i \in 1..Len(list) : longer[i] = list[i]
  /\ longer[Len(list) + 1] = q

LEMMA AppendFacts ==
  ASSUME NEW list \in Seq(Question), Distinct(list), NEW q \in Question, q \notin ToSet(list),
         NEW longer, Longer(list, q, longer)
  PROVE  /\ longer \in Seq(Question) /\ Distinct(longer)
         /\ ToSet(longer) = ToSet(list) \union {q}
         /\ \A p \in ToSet(list) : Place(longer, p) = Place(list, p)
         /\ Place(longer, q) = Len(list) + 1
<1>1. /\ longer \in Seq(Question) /\ Len(longer) = Len(list) + 1
      /\ \A i \in 1..Len(list) : longer[i] = list[i]
      /\ longer[Len(list) + 1] = q
  BY DEF Longer
<1>2. Len(list) \in Nat /\ DOMAIN list = 1..Len(list) /\ DOMAIN longer = 1..Len(list) + 1
  BY <1>1, LenProperties
<1>3. Distinct(longer)
  BY <1>1, <1>2 DEF Distinct, ToSet
<1>4. ToSet(longer) = ToSet(list) \union {q}
  BY <1>1, <1>2 DEF ToSet
<1>4a. \A i \in 1..Len(longer) : Place(longer, longer[i]) = i
  BY <1>1, <1>3, PlaceFacts
<1>5. \A p \in ToSet(list) : Place(longer, p) = Place(list, p)
  <2> SUFFICES ASSUME NEW p \in ToSet(list) PROVE Place(longer, p) = Place(list, p)
    OBVIOUS
  <2>1. Place(list, p) \in 1..Len(list) /\ list[Place(list, p)] = p
    BY PlaceFacts
  <2>2. longer[Place(list, p)] = p /\ Place(list, p) \in 1..Len(longer)
    BY <2>1, <1>1, <1>2
  <2> QED
    BY <2>2, <1>4a
<1>6. Place(longer, q) = Len(list) + 1
  BY <1>1, <1>2, <1>4a
<1> QED
  BY <1>1, <1>3, <1>4, <1>5, <1>6

LEMMA RemoveFacts ==
  ASSUME NEW list \in Seq(Question), Distinct(list), NEW q \in ToSet(list),
         NEW rest, rest = RemoveAt(list, Place(list, q))
  PROVE  /\ rest \in Seq(Question) /\ Distinct(rest) /\ Len(rest) = Len(list) - 1
         /\ ToSet(rest) = ToSet(list) \ {q}
         /\ \A p \in ToSet(rest) : Place(rest, p) = IF Place(list, p) < Place(list, q)
                                                   THEN Place(list, p) ELSE Place(list, p) - 1
<1> DEFINE n == Place(list, q)
           a == SubSeq(list, 1, n - 1)
           b == SubSeq(list, n + 1, Len(list))
<1>1. /\ n \in 1..Len(list) /\ list[n] = q /\ Len(list) \in Nat /\ DOMAIN list = 1..Len(list)
      /\ \A i \in 1..Len(list) : list[i] \in Question
  BY PlaceFacts, ElementOfSeq
<1>2. a \in Seq(Question) /\ Len(a) = n - 1 /\ \A i \in 1..n - 1 : a[i] = list[i]
  <2>1. 1 \in Int /\ n - 1 \in Int /\ \A i \in 1..n - 1 : list[i] \in Question
    BY <1>1
  <2>2. /\ a \in Seq(Question) /\ Len(a) = IF 1 <= n - 1 THEN n - 1 - 1 + 1 ELSE 0
        /\ \A i \in 1..n - 1 - 1 + 1 : a[i] = list[1 + i - 1]
    BY <2>1, SubSeqProperties
  <2> QED
    BY <2>2, <1>1
<1>3. b \in Seq(Question) /\ Len(b) = Len(list) - n /\ \A i \in 1..Len(list) - n : b[i] = list[n + i]
  <2>1. n + 1 \in Int /\ Len(list) \in Int /\ \A i \in n + 1..Len(list) : list[i] \in Question
    BY <1>1
  <2>2. /\ b \in Seq(Question)
        /\ Len(b) = IF n + 1 <= Len(list) THEN Len(list) - (n + 1) + 1 ELSE 0
        /\ \A i \in 1..Len(list) - (n + 1) + 1 : b[i] = list[n + 1 + i - 1]
    BY <2>1, SubSeqProperties
  <2> QED
    BY <2>2, <1>1
<1>4. rest = a \o b
  BY DEF RemoveAt
<1>5. /\ rest \in Seq(Question) /\ Len(rest) = Len(list) - 1
      /\ \A i \in 1..Len(list) - 1 : rest[i] = IF i < n THEN list[i] ELSE list[i + 1]
  <2>1. /\ rest \in Seq(Question) /\ Len(rest) = Len(a) + Len(b)
        /\ \A i \in 1..Len(a) + Len(b) : rest[i] = IF i <= Len(a) THEN a[i] ELSE b[i - Len(a)]
    BY <1>2, <1>3, <1>4, ConcatProperties
  <2>2. Len(rest) = Len(list) - 1 /\ Len(a) + Len(b) = Len(list) - 1
    BY <2>1, <1>1, <1>2, <1>3
  <2>3. ASSUME NEW i \in 1..Len(list) - 1, i < n PROVE rest[i] = list[i]
    <3>1. i <= Len(a) /\ i \in 1..n - 1 /\ i \in 1..Len(a) + Len(b)
      BY <2>2, <2>3, <1>1, <1>2
    <3> QED
      BY <3>1, <2>1, <1>2
  <2>4. ASSUME NEW i \in 1..Len(list) - 1, ~(i < n) PROVE rest[i] = list[i + 1]
    <3> HIDE DEF a, b, n
    <3>1. ~(i <= Len(a)) /\ i - Len(a) \in 1..Len(list) - n /\ i \in 1..Len(a) + Len(b)
          /\ n + (i - Len(a)) = i + 1
      BY <2>2, <2>4, <1>1, <1>2
    <3>2. rest[i] = b[i - Len(a)]
      BY <3>1, <2>1
    <3>3. b[i - Len(a)] = list[n + (i - Len(a))]
      BY <3>1, <1>3
    <3> QED
      BY <3>1, <3>2, <3>3
  <2> QED
    BY <2>1, <2>2, <2>3, <2>4
<1> HIDE DEF a, b, n
<1>6. DOMAIN rest = 1..Len(list) - 1
  BY <1>5, LenProperties
<1>7. Distinct(rest)
  <2> SUFFICES ASSUME NEW i \in 1..Len(list) - 1, NEW j \in 1..Len(list) - 1, rest[i] = rest[j]
               PROVE  i = j
    BY <1>6 DEF Distinct
  <2> DEFINE up(k) == IF k < n THEN k ELSE k + 1
  <2>1. rest[i] = list[up(i)] /\ rest[j] = list[up(j)] /\ up(i) \in 1..Len(list) /\ up(j) \in 1..Len(list)
    BY <1>1, <1>5
  <2>2. up(i) = up(j)
    BY <2>1, <1>1 DEF Distinct
  <2> QED
    BY <2>2, <1>1
<1>8. ToSet(rest) = ToSet(list) \ {q}
  <2>1. ASSUME NEW p \in ToSet(rest) PROVE p \in ToSet(list) \ {q}
    <3>1. PICK i \in 1..Len(list) - 1 : rest[i] = p
      BY <1>6 DEF ToSet
    <3> DEFINE k == IF i < n THEN i ELSE i + 1
    <3>2. k \in 1..Len(list) /\ list[k] = p /\ k # n
      BY <3>1, <1>1, <1>5
    <3>3. list[k] # list[n]
      BY <3>2, <1>1 DEF Distinct
    <3>4. p \in ToSet(list)
      BY <3>2, <1>1 DEF ToSet
    <3> QED
      BY <3>2, <3>3, <3>4, <1>1
  <2>2. ASSUME NEW p \in ToSet(list) \ {q} PROVE p \in ToSet(rest)
    <3>1. PICK i \in 1..Len(list) : list[i] = p
      BY <1>1 DEF ToSet
    <3>2. i # n
      BY <3>1, <1>1
    <3>3. CASE i < n
      BY <3>1, <3>3, <1>1, <1>5, <1>6 DEF ToSet
    <3>4. CASE i > n
      <4>1. i - 1 \in 1..Len(list) - 1 /\ rest[i - 1] = p
        BY <3>1, <3>4, <1>1, <1>5
      <4> QED
        BY <4>1, <1>6 DEF ToSet
    <3> QED
      BY <3>2, <3>3, <3>4, <1>1
  <2> QED
    BY <2>1, <2>2
<1>9. ASSUME NEW p \in ToSet(rest)
      PROVE  Place(rest, p) = IF Place(list, p) < n THEN Place(list, p) ELSE Place(list, p) - 1
  <2> DEFINE i == Place(list, p)
             k == IF i < n THEN i ELSE i - 1
  <2>1. i \in 1..Len(list) /\ list[i] = p /\ i # n
    BY <1>8, <1>1, PlaceFacts
  <2>2. k \in 1..Len(list) - 1 /\ rest[k] = p
    BY <2>1, <1>1, <1>5
  <2>3. Place(rest, rest[k]) = k
    BY <2>2, <1>5, <1>7, PlaceFacts
  <2> QED
    BY <2>2, <2>3
<1> QED
  BY <1>5, <1>7, <1>8, <1>9 DEF n

\* The first question of a set, in a list with one more at the end
LEMMA FirstInLonger ==
  ASSUME NEW list \in Seq(Question), NEW q \in Question, NEW qs, NEW longer, Longer(list, q, longer)
  PROVE  FirstIn(longer, qs) = IF FirstIn(list, qs) # NoQuestion THEN FirstIn(list, qs)
                               ELSE IF q \in qs THEN q ELSE NoQuestion
<1>1. /\ longer \in Seq(Question) /\ Len(longer) = Len(list) + 1
      /\ \A i \in 1..Len(list) : longer[i] = list[i]
      /\ longer[Len(list) + 1] = q
  BY DEF Longer
<1>2. /\ Len(list) \in Nat /\ DOMAIN list = 1..Len(list) /\ DOMAIN longer = 1..Len(list) + 1
      /\ \A i \in DOMAIN list : list[i] \in Question
  BY <1>1, LenProperties
<1>3. \/ /\ \A i \in DOMAIN list : list[i] \notin qs
         /\ FirstIn(list, qs) = NoQuestion
      \/ \E i \in DOMAIN list :
           /\ list[i] \in qs
           /\ FirstIn(list, qs) = list[i]
           /\ \A j \in DOMAIN list : list[j] \in qs => i <= j
  BY FirstInFacts
<1>4. \/ /\ \A i \in DOMAIN longer : longer[i] \notin qs
         /\ FirstIn(longer, qs) = NoQuestion
      \/ \E i \in DOMAIN longer :
           /\ longer[i] \in qs
           /\ FirstIn(longer, qs) = longer[i]
           /\ \A j \in DOMAIN longer : longer[j] \in qs => i <= j
  BY <1>1, FirstInFacts
<1>5. CASE \A i \in DOMAIN list : list[i] \notin qs
  <2>1. FirstIn(list, qs) = NoQuestion
    BY <1>3, <1>5
  <2>2. CASE q \in qs
    BY <1>1, <1>2, <1>4, <1>5, <2>1, <2>2
  <2>3. CASE q \notin qs
    BY <1>1, <1>2, <1>4, <1>5, <2>1, <2>3
  <2> QED
    BY <2>2, <2>3
<1>6. CASE \E i \in DOMAIN list : list[i] \in qs
  <2>1. PICK i \in DOMAIN list : /\ list[i] \in qs
                                 /\ FirstIn(list, qs) = list[i]
                                 /\ \A j \in DOMAIN list : list[j] \in qs => i <= j
    BY <1>3, <1>6
  <2>2. i \in DOMAIN longer /\ longer[i] \in qs
    BY <2>1, <1>1, <1>2
  <2>3. PICK k \in DOMAIN longer : /\ longer[k] \in qs
                                   /\ FirstIn(longer, qs) = longer[k]
                                   /\ \A j \in DOMAIN longer : longer[j] \in qs => k <= j
    BY <1>4, <2>2
  <2>4. k <= i /\ k \in DOMAIN list /\ list[k] \in qs
    BY <2>2, <2>3, <1>1, <1>2
  <2>5. k = i
    BY <2>1, <2>4, <1>2
  <2>6. FirstIn(list, qs) # NoQuestion
    BY <2>1, <1>2, QuestionAssumption
  <2> QED
    BY <2>1, <2>3, <2>5, <2>6, <1>1, <1>2
<1> QED
  BY <1>5, <1>6

\* The first question of a set is before the others
LEMMA FirstInOrder ==
  ASSUME NEW list \in Seq(Question), Distinct(list), NEW qs
  PROVE  \/ /\ \A p \in ToSet(list) : p \notin qs
            /\ FirstIn(list, qs) = NoQuestion
         \/ /\ FirstIn(list, qs) \in ToSet(list) \intersect qs
            /\ \A p \in ToSet(list) \intersect qs : Place(list, FirstIn(list, qs)) <= Place(list, p)
<1>1. /\ \A p \in ToSet(list) : Place(list, p) \in 1..Len(list) /\ list[Place(list, p)] = p
      /\ \A i \in 1..Len(list) : list[i] \in ToSet(list) /\ Place(list, list[i]) = i
      /\ DOMAIN list = 1..Len(list)
  BY PlaceFacts
<1>2. CASE \A i \in DOMAIN list : list[i] \notin qs
  BY <1>1, <1>2, FirstInFacts
<1>3. CASE \E i \in DOMAIN list : list[i] \in qs
  <2>1. PICK i \in DOMAIN list : /\ list[i] \in qs
                                 /\ FirstIn(list, qs) = list[i]
                                 /\ \A j \in DOMAIN list : list[j] \in qs => i <= j
    BY <1>3, FirstInFacts
  <2> QED
    BY <2>1, <1>1
<1> QED
  BY <1>2, <1>3

\* The same in a list that another question has left
LEMMA FirstInRest ==
  ASSUME NEW list \in Seq(Question), Distinct(list), NEW q \in ToSet(list),
         NEW rest, rest = RemoveAt(list, Place(list, q)), NEW qs, FirstIn(list, qs) # q
  PROVE  FirstIn(rest, qs) = FirstIn(list, qs)
<1>1. /\ rest \in Seq(Question) /\ Distinct(rest) /\ ToSet(rest) = ToSet(list) \ {q}
      /\ \A p \in ToSet(rest) : Place(rest, p) = IF Place(list, p) < Place(list, q)
                                                 THEN Place(list, p) ELSE Place(list, p) - 1
  BY RemoveFacts
<1>2. /\ \A p \in ToSet(list) : Place(list, p) \in 1..Len(list) /\ list[Place(list, p)] = p
      /\ \A i \in 1..Len(list) : list[i] \in ToSet(list) /\ Place(list, list[i]) = i
      /\ \A o, p \in ToSet(list) : Place(list, o) = Place(list, p) => o = p
      /\ ToSet(list) \subseteq Question
      /\ Len(list) \in Nat /\ DOMAIN list = 1..Len(list)
  BY PlaceFacts
<1>3. /\ \A p \in ToSet(rest) : Place(rest, p) \in 1..Len(rest) /\ rest[Place(rest, p)] = p
      /\ \A i \in 1..Len(rest) : rest[i] \in ToSet(rest) /\ Place(rest, rest[i]) = i
      /\ \A o, p \in ToSet(rest) : Place(rest, o) = Place(rest, p) => o = p
      /\ Len(rest) \in Nat /\ DOMAIN rest = 1..Len(rest)
  BY <1>1, PlaceFacts
<1>4. \/ /\ \A p \in ToSet(list) : p \notin qs
         /\ FirstIn(list, qs) = NoQuestion
      \/ /\ FirstIn(list, qs) \in ToSet(list) \intersect qs
         /\ \A p \in ToSet(list) \intersect qs : Place(list, FirstIn(list, qs)) <= Place(list, p)
  BY FirstInOrder
<1>5. \/ /\ \A p \in ToSet(rest) : p \notin qs
         /\ FirstIn(rest, qs) = NoQuestion
      \/ /\ FirstIn(rest, qs) \in ToSet(rest) \intersect qs
         /\ \A p \in ToSet(rest) \intersect qs : Place(rest, FirstIn(rest, qs)) <= Place(rest, p)
  BY <1>1, FirstInOrder
<1> DEFINE f == FirstIn(list, qs)
           g == FirstIn(rest, qs)
<1>6. CASE \A p \in ToSet(list) : p \notin qs
  BY <1>1, <1>4, <1>5, <1>6
<1>7. CASE \E p \in ToSet(list) : p \in qs
  <2>1. f \in ToSet(rest) \intersect qs
    BY <1>1, <1>4, <1>7
  <2>2. g \in ToSet(rest) \intersect qs /\ Place(rest, g) <= Place(rest, f)
    BY <1>5, <2>1
  <2>3. Place(list, f) <= Place(list, g)
    BY <1>1, <1>4, <1>7, <2>2
  <2> HIDE DEF f, g
  <2>4. /\ Place(list, f) \in Int /\ Place(list, g) \in Int /\ Place(list, q) \in Int
        /\ Place(list, f) # Place(list, q) /\ Place(list, g) # Place(list, q)
    BY <1>1, <1>2, <2>1, <2>2
  <2>5. Place(rest, f) = Place(rest, g)
    BY <1>1, <2>1, <2>2, <2>3, <2>4
  <2>6. f = g
    BY <1>3, <2>1, <2>2, <2>5
  <2> QED
    BY <2>6 DEF f, g
<1> QED
  BY <1>6, <1>7

LEMMA FirstInType ==
  ASSUME NEW list \in Seq(Question), NEW qs
  PROVE  FirstIn(list, qs) = NoQuestion \/ FirstIn(list, qs) \in ToSet(list) \intersect qs
BY FirstInFacts DEF ToSet

--------------------------------------------------------------------------------
(* The invariants *)

\* TypeOK without its bounds; the list has no question twice
TypeInv ==
  /\ Questions \in Seq(Question) /\ Distinct(Questions)
  /\ NewQuestions \in Listed \union {NoQuestion}
  /\ CurrentQuestion \in Question \union {NoQuestion}
  /\ DuplicateOf \in [Question -> Question \union {NoQuestion}]
  /\ CurrentAnswers \in [Question -> Nat]
  /\ cache \subseteq Entry /\ IsFiniteSet(cache)
  /\ CRActiveQuestion \in [Entry -> Question \union {NoQuestion}]
  /\ rrcache_size \in InitialCacheSize .. MaxCacheSize
  /\ handler \in {"idle", "receive", "expire", "answer"}
  /\ rr \in Entry \union {NoEntry}
  /\ fresh \in Question \union {NoQuestion}
  /\ caller \in Question \union {NoQuestion}
  /\ given \in [Question -> SUBSET Entry]

\* What the handlers hold on to
HandlersFit ==
  /\ handler = "receive" => rr \in cache
  /\ handler = "expire" /\ rr # NoEntry => rr \notin cache /\ CRActiveQuestion[rr] # NoQuestion
  /\ handler \in {"idle", "answer"} => rr = NoEntry
  /\ handler = "answer" => fresh # NoQuestion
  /\ handler # "answer" => todo = {}
  /\ todo \subseteq cache
  /\ \A e \in todo : <<e, fresh>> \in Answers

\* Records that are used are cached, or on their way out; and those who use them are
\* active questions they answer
UsersFit ==
  /\ \A e \in Entry \ cache : CRActiveQuestion[e] # NoQuestion => e = rr
  /\ \A e \in cache : CRActiveQuestion[e] # NoQuestion =>
       /\ ActiveQuestion(CRActiveQuestion[e])
       /\ <<e, CRActiveQuestion[e]>> \in Answers

UseInv == TypeInv /\ HandlersFit /\ UsersFit /\ FirstIsActive /\ ActiveCounted

--------------------------------------------------------------------------------
(* The lists before and after a call *)

LEMMA OrderDefs ==
  /\ Listed = ToSet(Questions)
  /\ \A q : Position(q) = Place(Questions, q)
  /\ \A q : IsNew(q) <=> /\ {q, NewQuestions} \subseteq ToSet(Questions)
                         /\ Place(Questions, q) >= Place(Questions, NewQuestions)
  /\ \A q : ActiveQuestion(q) <=> q \in ToSet(Questions) /\ DuplicateOf[q] = NoQuestion
BY DEF Listed, Position, Place, IsNew, ActiveQuestion

LEMMA NextOrderDefs ==
  /\ Listed' = ToSet(Questions')
  /\ \A q : Position(q)' = Place(Questions', q)
  /\ \A q : IsNew(q)' <=> /\ {q, NewQuestions'} \subseteq ToSet(Questions')
                          /\ Place(Questions', q) >= Place(Questions', NewQuestions')
  /\ \A q : ActiveQuestion(q)' <=> q \in ToSet(Questions') /\ DuplicateOf'[q] = NoQuestion
BY DEF Listed, Position, Place, IsNew, ActiveQuestion

LEMMA AfterFacts ==
  ASSUME TypeInv, NEW q
  PROVE  /\ q \notin Listed => After(q) = NoQuestion
         /\ q \in Listed /\ Place(Questions, q) = Len(Questions) => After(q) = NoQuestion
         /\ q \in Listed /\ Place(Questions, q) # Len(Questions) =>
              After(q) \in Listed /\ Place(Questions, After(q)) = Place(Questions, q) + 1
         /\ After(q) \in Listed \union {NoQuestion}
<1>1. /\ \A p \in ToSet(Questions) : Place(Questions, p) \in 1..Len(Questions)
      /\ \A i \in 1..Len(Questions) : /\ Questions[i] \in ToSet(Questions)
                                      /\ Place(Questions, Questions[i]) = i
      /\ Len(Questions) \in Nat
  BY PlaceFacts DEF TypeInv
<1>2. Listed = ToSet(Questions) /\ Position(q) = Place(Questions, q)
  BY OrderDefs
<1> QED
  BY <1>1, <1>2 DEF After

LEMMA StartFacts ==
  ASSUME TypeInv, NEW q \in Question, StartQuery(q)
  PROVE  /\ Questions' \in Seq(Question) /\ Distinct(Questions')
         /\ q \notin Listed /\ Listed' = Listed \union {q}
         /\ \A p \in Listed : Place(Questions', p) = Place(Questions, p)
         /\ Place(Questions', q) = Len(Questions) + 1
<1>1. Questions' = Append(Questions, q) /\ q \notin ToSet(Questions)
  BY DEF StartQuery, Listed
<1>2. Questions \in Seq(Question) /\ Distinct(Questions)
  BY DEF TypeInv
<1>3. /\ Questions' \in Seq(Question) /\ Distinct(Questions')
      /\ ToSet(Questions') = ToSet(Questions) \union {q}
      /\ \A p \in ToSet(Questions) : Place(Questions', p) = Place(Questions, p)
      /\ Place(Questions', q) = Len(Questions) + 1
  <2>1. Longer(Questions, q, Questions')
    BY <1>1, <1>2, AppendProperties DEF Longer
  <2> QED
    BY <1>1, <1>2, <2>1, AppendFacts
<1> QED
  BY <1>1, <1>3, OrderDefs, NextOrderDefs

LEMMA StopFacts ==
  ASSUME TypeInv, NEW q \in Question, StopQuery(q)
  PROVE  /\ Questions' \in Seq(Question) /\ Distinct(Questions')
         /\ q \in Listed /\ Listed' = Listed \ {q}
         /\ \A p \in Listed' : Place(Questions', p) = IF Place(Questions, p) < Place(Questions, q)
                                                      THEN Place(Questions, p)
                                                      ELSE Place(Questions, p) - 1
<1>1. Questions' = RemoveAt(Questions, Place(Questions, q)) /\ q \in ToSet(Questions)
  BY OrderDefs DEF StopQuery
<1>2. Questions \in Seq(Question) /\ Distinct(Questions)
  BY DEF TypeInv
<1>3. /\ Questions' \in Seq(Question) /\ Distinct(Questions')
      /\ ToSet(Questions') = ToSet(Questions) \ {q}
      /\ \A p \in ToSet(Questions') :
           Place(Questions', p) = IF Place(Questions, p) < Place(Questions, q)
                                  THEN Place(Questions, p) ELSE Place(Questions, p) - 1
  BY <1>1, <1>2, RemoveFacts
<1> QED
  BY <1>1, <1>3, OrderDefs, NextOrderDefs

--------------------------------------------------------------------------------
(* Types *)

LEMMA TypeInit == Init => TypeInv /\ HandlersFit /\ UsersFit /\ FirstIsActive /\ ActiveCounted
<1> SUFFICES ASSUME Init PROVE TypeInv /\ HandlersFit /\ UsersFit /\ FirstIsActive /\ ActiveCounted
  OBVIOUS
<1>1. Listed = {}
  BY DEF Init, Listed, ToSet
<1>2. TypeInv
  BY FS_EmptySet, EmptySeq, QuestionAssumption, SizeAssumption DEF Init, TypeInv, Distinct
<1>3. InUse = {}
  BY DEF Init, InUse
<1>4. ActiveCounted
  BY <1>3, FS_EmptySet DEF Init, ActiveCounted
<1> QED
  BY <1>1, <1>2, <1>4 DEF Init, HandlersFit, UsersFit, FirstIsActive

LEMMA TypeStart ==
  ASSUME TypeInv, NEW q \in Question, StartQuery(q)
  PROVE  TypeInv'
<1>1. /\ Questions' \in Seq(Question) /\ Distinct(Questions')
      /\ Listed' = Listed \union {q}
  BY StartFacts
<1>2. NewQuestions' \in Listed' \union {NoQuestion} /\ CurrentAnswers' \in [Question -> Nat]
  BY <1>1 DEF TypeInv, StartQuery
<1>3. FindDuplicateQuestion(Questions, q) \in Question \union {NoQuestion}
  BY FirstInType, PlaceFacts DEF TypeInv, FindDuplicateQuestion
<1>4. DuplicateOf' \in [Question -> Question \union {NoQuestion}]
  BY <1>3 DEF TypeInv, StartQuery
<1> QED
  BY <1>1, <1>2, <1>4 DEF TypeInv, StartQuery, cacheVars, useVars

\* What HandOnRecords does: the records that q kept in use get an heir, or none
HandedOn(q, e) == e \in cache /\ CRActiveQuestion[e] = q

LEMMA HandOnFacts ==
  ASSUME TypeInv, NEW q \in Question, StopQuery(q)
  PROVE  \E heir \in [Entry -> Question \union {NoQuestion}] :
           /\ \A e \in Entry :
                \/ /\ heir[e] = NoQuestion
                   /\ \A p \in Listed' : DuplicateOf'[p] = NoQuestion => <<e, p>> \notin Answers
                \/ /\ heir[e] \in Listed' /\ DuplicateOf'[heir[e]] = NoQuestion
                   /\ <<e, heir[e]>> \in Answers
           /\ CRActiveQuestion' = [e \in Entry |-> IF HandedOn(q, e) THEN heir[e]
                                                   ELSE CRActiveQuestion[e]]
           /\ rrcache_active' = rrcache_active
                - Cardinality({e \in cache : HandedOn(q, e) /\ heir[e] = NoQuestion})
<1> DEFINE rest == Questions'
           active == {p \in ToSet(rest) : DuplicateOf'[p] = NoQuestion}
           qs(e) == {p \in active : <<e, p>> \in Answers}
           heir == [e \in Entry |-> FirstIn(rest, qs(e))]
           held == {e \in cache : CRActiveQuestion[e] = q}
<1>1. rest \in Seq(Question) /\ Listed' = ToSet(rest) /\ ToSet(rest) \subseteq Question
  BY StopFacts, NextOrderDefs, PlaceFacts
<1>2. HandOnRecords(q, rest, DuplicateOf')
  BY DEF StopQuery
<1>3. /\ CRActiveQuestion' = [e \in Entry |-> IF e \in held THEN FirstIn(rest, qs(e))
                                              ELSE CRActiveQuestion[e]]
      /\ rrcache_active' = rrcache_active
                           - Cardinality({e \in held : FirstIn(rest, qs(e)) = NoQuestion})
  BY <1>2 DEF HandOnRecords
<1>4. CRActiveQuestion' = [e \in Entry |-> IF HandedOn(q, e) THEN heir[e] ELSE CRActiveQuestion[e]]
  BY <1>3 DEF HandedOn
<1>5. {e \in held : FirstIn(rest, qs(e)) = NoQuestion}
        = {e \in cache : HandedOn(q, e) /\ heir[e] = NoQuestion}
  BY DEF HandedOn, TypeInv
<1>6. ASSUME NEW e \in Entry
      PROVE  \/ /\ heir[e] = NoQuestion
                /\ \A p \in Listed' : DuplicateOf'[p] = NoQuestion => <<e, p>> \notin Answers
             \/ /\ heir[e] \in Listed' /\ DuplicateOf'[heir[e]] = NoQuestion
                /\ <<e, heir[e]>> \in Answers
  <2>1. Distinct(rest)
    BY StopFacts
  <2>2. \/ /\ \A p \in ToSet(rest) : p \notin qs(e)
           /\ FirstIn(rest, qs(e)) = NoQuestion
        \/ FirstIn(rest, qs(e)) \in ToSet(rest) \intersect qs(e)
    BY <1>1, <2>1, FirstInOrder
  <2> QED
    BY <2>2, <1>1
<1>7. heir \in [Entry -> Question \union {NoQuestion}]
  BY <1>1, <1>6
<1> HIDE DEF heir
<1> QED
  BY <1>3, <1>4, <1>5, <1>6, <1>7

LEMMA TypeStop ==
  ASSUME TypeInv, NEW q \in Question, StopQuery(q)
  PROVE  TypeInv'
<1>1. /\ Questions' \in Seq(Question) /\ Distinct(Questions')
      /\ q \in Listed /\ Listed' = Listed \ {q} /\ Listed' = ToSet(Questions')
  BY StopFacts, NextOrderDefs
<1>2. Listed \subseteq Question
  BY PlaceFacts DEF TypeInv, Listed
<1>3. After(q) \in (Listed \ {q}) \union {NoQuestion}
  <2>1. Place(Questions, q) \in Int
    BY <1>1, PlaceFacts DEF TypeInv, Listed
  <2> QED
    BY <1>1, <2>1, AfterFacts
<1>4. /\ NewQuestions' \in Listed' \union {NoQuestion}
      /\ CurrentQuestion' \in Question \union {NoQuestion}
  BY <1>1, <1>2, <1>3 DEF TypeInv, StopQuery, Bump
<1>5. \A p \in Question : FindDuplicateQuestion(Questions', p) \in Question \union {NoQuestion}
  BY <1>1, <1>2, FirstInType DEF FindDuplicateQuestion
<1>6. DuplicateOf' \in [Question -> Question \union {NoQuestion}]
  BY <1>5 DEF TypeInv, StopQuery, UpdateQuestionDuplicates
<1>7. CRActiveQuestion' \in [Entry -> Question \union {NoQuestion}]
  BY HandOnFacts DEF TypeInv
<1>8. CurrentAnswers' \in [Question -> Nat] /\ given' \in [Question -> SUBSET Entry]
  BY DEF TypeInv, StopQuery
<1> QED
  BY <1>1, <1>4, <1>6, <1>7, <1>8 DEF TypeInv, StopQuery, cacheVars

--------------------------------------------------------------------------------
(* The first of identical questions is active, and records are used by active ones *)

Same(q) == {p \in Question : Identity[p] = Identity[q]}

LEMMA FirstIsActiveStart ==
  ASSUME TypeInv, FirstIsActive, NEW q \in Question, StartQuery(q)
  PROVE  FirstIsActive'
<1>1. /\ Questions \in Seq(Question) /\ Distinct(Questions) /\ Listed = ToSet(Questions)
      /\ Listed \subseteq Question /\ q \notin Listed
      /\ Listed' = Listed \union {q}
  BY StartFacts, PlaceFacts, OrderDefs DEF TypeInv
<1>2. /\ Questions' = Append(Questions, q)
      /\ DuplicateOf' = [DuplicateOf EXCEPT ![q] = FindDuplicateQuestion(Questions, q)]
  BY DEF StartQuery
<1>3. Longer(Questions, q, Questions')
  BY <1>1, <1>2, AppendProperties DEF Longer
<1>4. ASSUME NEW p \in Listed'
      PROVE  FindDuplicateQuestion(Questions', p) = FindDuplicateQuestion(Questions, p)
  <2>1. p \in Question /\ p \in Same(p)
    BY <1>1 DEF Same
  <2>2. \/ /\ \A o \in Listed : o \notin Same(p)
           /\ FirstIn(Questions, Same(p)) = NoQuestion
        \/ FirstIn(Questions, Same(p)) \in Listed
    BY <1>1, FirstInOrder
  <2>3. FirstIn(Questions', Same(p)) = IF FirstIn(Questions, Same(p)) # NoQuestion
                                       THEN FirstIn(Questions, Same(p))
                                       ELSE IF q \in Same(p) THEN q ELSE NoQuestion
    BY <1>1, <1>3, FirstInLonger
  <2>4. \A list : FindDuplicateQuestion(list, p) = IF FirstIn(list, Same(p)) = p THEN NoQuestion
                                                   ELSE FirstIn(list, Same(p))
    BY DEF FindDuplicateQuestion, Same
  <2>5. CASE p = q
    BY <1>1, <2>1, <2>2, <2>3, <2>4, <2>5, QuestionAssumption
  <2>6. CASE p \in Listed
    BY <1>1, <2>1, <2>2, <2>3, <2>4, <2>6, QuestionAssumption
  <2> QED
    BY <1>1, <2>5, <2>6
<1>5. ASSUME NEW p \in Listed'
      PROVE  DuplicateOf'[p] = FindDuplicateQuestion(Questions, p)
  BY <1>1, <1>2 DEF TypeInv, FirstIsActive
<1> QED
  BY <1>4, <1>5 DEF FirstIsActive

LEMMA FirstIsActiveStop ==
  ASSUME TypeInv, FirstIsActive, NEW q \in Question, StopQuery(q)
  PROVE  FirstIsActive'
<1>1. /\ Questions \in Seq(Question) /\ Distinct(Questions) /\ Listed = ToSet(Questions)
      /\ Listed \subseteq Question /\ q \in Listed
      /\ Listed' = Listed \ {q}
  BY StopFacts, PlaceFacts, OrderDefs DEF TypeInv
<1>2. /\ Questions' = RemoveAt(Questions, Place(Questions, q))
      /\ DuplicateOf' = UpdateQuestionDuplicates(q, Questions')
  BY OrderDefs DEF StopQuery
<1>3. ASSUME NEW p \in Listed'
      PROVE  DuplicateOf'[p] = FindDuplicateQuestion(Questions', p)
  <2>1. p \in Question /\ p # q
    BY <1>1
  <2>2. CASE DuplicateOf[p] = q
    BY <1>2, <2>1, <2>2 DEF UpdateQuestionDuplicates
  <2>3. CASE DuplicateOf[p] # q
    <3>1. DuplicateOf'[p] = DuplicateOf[p]
      BY <1>2, <2>1, <2>3 DEF UpdateQuestionDuplicates
    <3>2. DuplicateOf[p] = FindDuplicateQuestion(Questions, p)
      BY <1>1 DEF FirstIsActive
    <3>3. \A list : FindDuplicateQuestion(list, p) = IF FirstIn(list, Same(p)) = p THEN NoQuestion
                                                     ELSE FirstIn(list, Same(p))
      BY DEF FindDuplicateQuestion, Same
    <3>4. FirstIn(Questions, Same(p)) # q
      BY <2>1, <2>3, <3>2, <3>3
    <3>5. FirstIn(Questions', Same(p)) = FirstIn(Questions, Same(p))
      BY <1>1, <1>2, <3>4, FirstInRest
    <3> QED
      BY <3>1, <3>2, <3>3, <3>5
  <2> QED
    BY <2>2, <2>3
<1> QED
  BY <1>3 DEF FirstIsActive

\* Every listed question has an active one with its identity, which is not behind it
LEMMA ActiveOfIdentity ==
  ASSUME TypeInv, FirstIsActive, NEW q \in Listed
  PROVE  \E p \in Listed : /\ DuplicateOf[p] = NoQuestion
                           /\ Identity[p] = Identity[q]
                           /\ Place(Questions, p) <= Place(Questions, q)
                           /\ DuplicateOf[q] # NoQuestion => p # q
<1>1. /\ Questions \in Seq(Question) /\ Distinct(Questions) /\ Listed = ToSet(Questions)
      /\ Listed \subseteq Question
  BY PlaceFacts, OrderDefs DEF TypeInv
<1> DEFINE p == FirstIn(Questions, Same(q))
<1>2. q \in Same(q)
  BY <1>1 DEF Same
<1>3. /\ p \in Listed /\ p \in Same(q)
      /\ Place(Questions, p) <= Place(Questions, q)
  BY <1>1, <1>2, FirstInOrder
<1>4. Same(p) = Same(q)
  BY <1>3 DEF Same
<1>5. FindDuplicateQuestion(Questions, p) = NoQuestion
  BY <1>4 DEF FindDuplicateQuestion, Same
<1>6. DuplicateOf[p] = NoQuestion
  BY <1>3, <1>5 DEF FirstIsActive
<1>7. DuplicateOf[q] # NoQuestion => p # q
  BY <1>6
<1> QED
  BY <1>3, <1>6, <1>7 DEF Same

LEMMA UseStart ==
  ASSUME UseInv, NEW q \in Question, StartQuery(q)
  PROVE  UseInv'
<1>1. /\ TypeInv' /\ FirstIsActive'
      /\ q \notin Listed /\ Listed' = Listed \union {q}
  BY TypeStart, FirstIsActiveStart, StartFacts DEF UseInv
<1>2. UNCHANGED <<cache, CRActiveQuestion, rrcache_active, handler, rr, fresh, todo>>
  BY DEF StartQuery, cacheVars, useVars
<1>3. \A p \in Listed : DuplicateOf'[p] = DuplicateOf[p]
  BY <1>1 DEF StartQuery, UseInv, TypeInv
<1>4. HandlersFit' /\ ActiveCounted'
  BY <1>2 DEF UseInv, HandlersFit, ActiveCounted, InUse
<1>5. UsersFit'
  BY <1>1, <1>2, <1>3 DEF UseInv, UsersFit, ActiveQuestion
<1> QED
  BY <1>1, <1>4, <1>5 DEF UseInv

LEMMA UseStop ==
  ASSUME UseInv, NEW q \in Question, StopQuery(q)
  PROVE  UseInv'
<1>1. /\ TypeInv' /\ FirstIsActive' /\ TypeInv
      /\ q \in Listed /\ Listed' = Listed \ {q}
  BY TypeStop, FirstIsActiveStop, StopFacts DEF UseInv
<1>2. UNCHANGED <<cache, handler, rr, fresh, todo>>
  BY DEF StopQuery, cacheVars
<1>3. PICK heir \in [Entry -> Question \union {NoQuestion}] :
           /\ \A e \in Entry :
                \/ /\ heir[e] = NoQuestion
                   /\ \A p \in Listed' : DuplicateOf'[p] = NoQuestion => <<e, p>> \notin Answers
                \/ /\ heir[e] \in Listed' /\ DuplicateOf'[heir[e]] = NoQuestion
                   /\ <<e, heir[e]>> \in Answers
           /\ CRActiveQuestion' = [e \in Entry |-> IF HandedOn(q, e) THEN heir[e]
                                                   ELSE CRActiveQuestion[e]]
           /\ rrcache_active' = rrcache_active
                - Cardinality({e \in cache : HandedOn(q, e) /\ heir[e] = NoQuestion})
  BY <1>1, HandOnFacts
<1>4. /\ cache \subseteq Entry /\ IsFiniteSet(cache) /\ rr \in Entry \union {NoEntry}
      /\ CRActiveQuestion \in [Entry -> Question \union {NoQuestion}]
      /\ DuplicateOf \in [Question -> Question \union {NoQuestion}]
  BY <1>1 DEF TypeInv
<1>5. HandlersFit'
  <2>1. handler = "expire" /\ rr # NoEntry => CRActiveQuestion'[rr] # NoQuestion
    BY <1>3, <1>4 DEF UseInv, HandlersFit, HandedOn
  <2> QED
    BY <1>2, <2>1 DEF UseInv, HandlersFit
<1>6. UsersFit'
  <2>1. ASSUME NEW e \in Entry \ cache', CRActiveQuestion'[e] # NoQuestion PROVE e = rr'
    BY <1>2, <1>3, <2>1 DEF UseInv, UsersFit, HandedOn
  <2>2. ASSUME NEW e \in cache', CRActiveQuestion'[e] # NoQuestion
        PROVE  /\ CRActiveQuestion'[e] \in Listed' /\ DuplicateOf'[CRActiveQuestion'[e]] = NoQuestion
               /\ <<e, CRActiveQuestion'[e]>> \in Answers
    <3>1. e \in cache /\ e \in Entry
      BY <1>2, <1>4
    <3>2. CASE HandedOn(q, e)
      BY <1>3, <2>2, <3>1, <3>2
    <3>3. CASE ~HandedOn(q, e)
      <4> DEFINE p == CRActiveQuestion[e]
      <4>1. CRActiveQuestion'[e] = p /\ p # q /\ p # NoQuestion
        BY <1>3, <2>2, <3>1, <3>3 DEF HandedOn
      <4>2. p \in Listed /\ DuplicateOf[p] = NoQuestion /\ <<e, p>> \in Answers
        BY <3>1, <4>1 DEF UseInv, UsersFit, ActiveQuestion
      <4>3. p \in Question
        BY <1>4, <3>1, <4>1
      <4>4. DuplicateOf'[p] = NoQuestion
        BY <1>1, <4>1, <4>2, <4>3, QuestionAssumption DEF StopQuery, UpdateQuestionDuplicates
      <4> QED
        BY <1>1, <4>1, <4>2, <4>4
    <3> QED
      BY <3>2, <3>3
  <2> QED
    BY <2>1, <2>2 DEF UsersFit, ActiveQuestion
<1>7. ActiveCounted'
  <2> DEFINE D == {e \in cache : HandedOn(q, e) /\ heir[e] = NoQuestion}
  <2>1. IsFiniteSet(InUse) /\ rrcache_active = Cardinality(InUse)
    <3>1. IsFiniteSet(cache \union {rr})
      BY <1>4, FS_AddElement
    <3>2. InUse \in SUBSET (cache \union {rr})
      BY DEF InUse
    <3> QED
      BY <3>1, <3>2, FS_Subset DEF UseInv, ActiveCounted
  <2>2. D \subseteq InUse
    BY QuestionAssumption DEF HandedOn, InUse
  <2>3. InUse' = InUse \ D
    BY <1>2, <1>3, <1>4, QuestionAssumption DEF InUse, HandedOn
  <2>4. InUse \intersect D = D
    BY <2>2
  <2>5. Cardinality(InUse \ D) = Cardinality(InUse) - Cardinality(D)
    BY <2>1, <2>4, FS_Difference
  <2> QED
    BY <1>3, <2>1, <2>3, <2>5 DEF ActiveCounted
<1> QED
  BY <1>1, <1>5, <1>6, <1>7 DEF UseInv

--------------------------------------------------------------------------------
(* Telling a client *)

LEMMA InUseFinite ==
  ASSUME TypeInv
  PROVE  IsFiniteSet(InUse)
<1>1. IsFiniteSet(cache \union {rr})
  BY FS_AddElement DEF TypeInv
<1>2. InUse \in SUBSET (cache \union {rr})
  BY DEF InUse
<1> QED
  BY <1>1, <1>2, FS_Subset

LEMMA UseTell ==
  ASSUME UseInv, NEW q \in Question, NEW e \in Entry, e \in cache \/ e = rr, <<e, q>> \in Answers,
         AnswerQuestion(q, e), TypeInv', todo' \subseteq todo,
         UNCHANGED <<Questions, DuplicateOf, cache, handler, rr, fresh>>
  PROVE  UseInv'
<1>1. TypeInv /\ Listed' = Listed /\ e # NoEntry
  BY QuestionAssumption DEF UseInv, Listed
<1>2. /\ CRActiveQuestion \in [Entry -> Question \union {NoQuestion}]
      /\ cache \subseteq Entry
  BY <1>1 DEF TypeInv
<1>3. FirstIsActive'
  BY <1>1 DEF UseInv, FirstIsActive, FindDuplicateQuestion
<1>4. CASE ActiveQuestion(q) /\ CRActiveQuestion[e] # q
  <2>1. /\ CRActiveQuestion' = [CRActiveQuestion EXCEPT ![e] = q]
        /\ rrcache_active' = IF CRActiveQuestion[e] = NoQuestion
                             THEN rrcache_active + 1 ELSE rrcache_active
    BY <1>4 DEF AnswerQuestion
  <2>2. HandlersFit'
    BY <2>1, <1>1, <1>2, QuestionAssumption DEF UseInv, HandlersFit, TypeInv
  <2>3. UsersFit'
    BY <2>1, <1>1, <1>2, <1>4 DEF UseInv, UsersFit, ActiveQuestion
  <2>4. ActiveCounted'
    <3>1. InUse' = InUse \union {e}
      BY <2>1, <1>1, <1>2, QuestionAssumption DEF InUse
    <3>2. e \in InUse <=> CRActiveQuestion[e] # NoQuestion
      BY <1>1 DEF InUse
    <3>3. Cardinality(InUse \union {e}) = IF e \in InUse THEN Cardinality(InUse)
                                          ELSE Cardinality(InUse) + 1
      BY <1>1, InUseFinite, FS_AddElement
    <3> QED
      BY <2>1, <3>1, <3>2, <3>3 DEF UseInv, ActiveCounted
  <2> QED
    BY <1>3, <2>2, <2>3, <2>4 DEF UseInv
<1>5. CASE ~(ActiveQuestion(q) /\ CRActiveQuestion[e] # q)
  <2>1. UNCHANGED <<CRActiveQuestion, rrcache_active>>
    BY <1>5 DEF AnswerQuestion, useVars
  <2> QED
    BY <2>1, <1>1, <1>3
    DEF UseInv, HandlersFit, UsersFit, ActiveQuestion, ActiveCounted, InUse
<1> QED
  BY <1>4, <1>5

LEMMA AnswerTypes ==
  ASSUME TypeInv, NEW q \in Question, NEW e \in Entry, AnswerQuestion(q, e)
  PROVE  caller' \in Question /\ CRActiveQuestion' \in [Entry -> Question \union {NoQuestion}]
BY DEF TypeInv, AnswerQuestion, useVars

LEMMA UseWalkTell ==
  ASSUME UseInv, WalkTell
  PROVE  UseInv'
<1> DEFINE q == CurrentQuestion
<1>1. /\ TypeInv /\ rr # NoEntry /\ q # NoQuestion /\ <<rr, q>> \in Answers
      /\ CurrentQuestion' = After(q)
      /\ UNCHANGED <<Questions, NewQuestions, DuplicateOf, cache, rrcache_size, handler, rr, fresh, todo>>
  BY DEF UseInv, WalkTell, Walking, AtEnd, listVars, cacheVars
<1>2. q \in Question /\ rr \in Entry
  BY <1>1 DEF TypeInv
<1>3. AnswerQuestion(q, rr)
  BY DEF WalkTell, TellAdd, TellRmv
<1>4. CurrentAnswers' \in [Question -> Nat] /\ given' \in [Question -> SUBSET Entry]
  <2>1. CASE TellAdd(q, rr)
    BY <2>1, <1>1, <1>2 DEF TellAdd, TypeInv
  <2>2. CASE TellRmv(q, rr)
    <3>1. CurrentAnswers[q] \in Nat
      BY <1>1, <1>2 DEF TypeInv
    <3>2. (IF CurrentAnswers[q] = 0 THEN 0 ELSE CurrentAnswers[q] - 1) \in Nat
      BY <3>1
    <3> QED
      BY <2>2, <3>2, <1>1, <1>2 DEF TellRmv, TypeInv
  <2> QED
    BY <2>1, <2>2 DEF WalkTell
<1>5. CurrentQuestion' \in Question \union {NoQuestion}
  <2>1. Listed \subseteq Question
    BY <1>1, PlaceFacts DEF TypeInv, Listed
  <2> QED
    BY <1>1, <2>1, AfterFacts
<1>6. TypeInv'
  BY <1>1, <1>2, <1>3, <1>4, <1>5, AnswerTypes DEF TypeInv, Listed
<1>7. handler \in {"receive", "expire"}
  BY <1>1 DEF UseInv, HandlersFit, TypeInv
<1> QED
  BY <1>1, <1>2, <1>3, <1>6, UseTell

LEMMA UseAnswerTell ==
  ASSUME UseInv, NEW e \in Entry, AnswerTell(e)
  PROVE  UseInv'
<1>1. /\ TypeInv /\ e \in cache /\ <<e, fresh>> \in Answers /\ fresh # NoQuestion
      /\ UNCHANGED <<Questions, NewQuestions, CurrentQuestion, DuplicateOf, cache, rrcache_size,
                     handler, rr, fresh>>
      /\ todo' \subseteq todo
  BY DEF UseInv, HandlersFit, AnswerTell, listVars, cacheVars
<1>2. fresh \in Question
  BY <1>1 DEF TypeInv
<1>3. AnswerQuestion(fresh, e)
  BY DEF AnswerTell, TellAdd
<1>4. CurrentAnswers' \in [Question -> Nat] /\ given' \in [Question -> SUBSET Entry]
  BY <1>1, <1>2 DEF AnswerTell, TellAdd, TypeInv
<1>5. TypeInv'
  BY <1>1, <1>2, <1>3, <1>4, AnswerTypes DEF TypeInv, Listed
<1> QED
  BY <1>1, <1>2, <1>3, <1>5, UseTell

--------------------------------------------------------------------------------
(* The cache changes *)

LEMMA UseStore ==
  ASSUME UseInv, NEW e \in Entry, NEW recycled \in SUBSET Recyclable, Store(e, recycled),
         rrcache_size' \in InitialCacheSize .. MaxCacheSize
  PROVE  UseInv'
<1>1. /\ TypeInv /\ rr = NoEntry /\ handler = "idle" /\ e \notin cache /\ todo = {}
      /\ cache' = (cache \ recycled) \union {e}
      /\ CRActiveQuestion' = [x \in Entry |-> IF x \in recycled THEN NoQuestion
                                              ELSE CRActiveQuestion[x]]
      /\ handler' = "receive" /\ rr' = e
      /\ CurrentQuestion' = FirstIn(Questions, Question)
      /\ UNCHANGED <<Questions, NewQuestions, DuplicateOf, CurrentAnswers, given, rrcache_active,
                     fresh, todo, caller>>
  BY DEF UseInv, HandlersFit, Store, listVars, tellVars
<1>2. /\ CRActiveQuestion \in [Entry -> Question \union {NoQuestion}]
      /\ cache \subseteq Entry /\ IsFiniteSet(cache)
      /\ \A x \in recycled : x \in cache /\ CRActiveQuestion[x] = NoQuestion
  BY <1>1 DEF TypeInv, Recyclable
<1>3. CRActiveQuestion' = CRActiveQuestion
  BY <1>1, <1>2
<1>4. CRActiveQuestion[e] = NoQuestion
  BY <1>1, QuestionAssumption DEF UseInv, UsersFit
<1>5. TypeInv'
  <2>1. CurrentQuestion' \in Question \union {NoQuestion}
    BY <1>1, FirstInType DEF TypeInv
  <2>2. cache' \subseteq Entry /\ IsFiniteSet(cache')
    BY <1>1, <1>2, FS_Difference, FS_AddElement
  <2> QED
    BY <1>1, <1>3, <2>1, <2>2 DEF TypeInv, Listed
<1>6. HandlersFit'
  BY <1>1 DEF UseInv, HandlersFit
<1>7. UsersFit'
  BY <1>1, <1>2, <1>3, <1>4, QuestionAssumption DEF UseInv, UsersFit, ActiveQuestion, Listed
<1>8. FirstIsActive'
  BY <1>1 DEF UseInv, FirstIsActive, FindDuplicateQuestion, Listed
<1>9. ActiveCounted'
  <2>1. InUse' = InUse
    BY <1>1, <1>2, <1>3, <1>4 DEF InUse
  <2> QED
    BY <1>1, <2>1 DEF UseInv, ActiveCounted
<1> QED
  BY <1>5, <1>6, <1>7, <1>8, <1>9 DEF UseInv

LEMMA UseReceive ==
  ASSUME UseInv, Receive
  PROVE  UseInv'
<1>1. PICK e \in Entry : ReceiveRecord(e) \/ ReceiveGrowing(e) \/ ReceiveRecycling(e)
  BY DEF Receive
<1>2. rrcache_size \in InitialCacheSize .. MaxCacheSize
  BY DEF UseInv, TypeInv
<1>3. CASE ReceiveRecord(e)
  BY <1>2, <1>3, UseStore DEF ReceiveRecord
<1>4. CASE ReceiveGrowing(e)
  BY <1>2, <1>4, UseStore, SizeAssumption DEF ReceiveGrowing
<1>5. CASE ReceiveRecycling(e)
  BY <1>2, <1>5, UseStore DEF ReceiveRecycling
<1> QED
  BY <1>1, <1>3, <1>4, <1>5

LEMMA UseExpire ==
  ASSUME UseInv, NEW e \in Entry, Expire(e)
  PROVE  UseInv'
<1>1. /\ TypeInv /\ rr = NoEntry /\ handler = "expire" /\ e \in cache /\ todo = {}
      /\ cache' = cache \ {e}
      /\ IF CRActiveQuestion[e] = NoQuestion
         THEN UNCHANGED <<rr, CurrentQuestion>>
         ELSE rr' = e /\ CurrentQuestion' = FirstIn(Questions, Question)
      /\ UNCHANGED <<Questions, NewQuestions, DuplicateOf, CurrentAnswers, given, rrcache_active,
                     CRActiveQuestion, rrcache_size, handler, fresh, todo, caller>>
  BY DEF UseInv, HandlersFit, Expire, Expiring, listVars, tellVars, useVars
<1>2. e # NoEntry
  BY QuestionAssumption
<1>3. TypeInv'
  <2>1. CurrentQuestion' \in Question \union {NoQuestion}
    BY <1>1, FirstInType DEF TypeInv
  <2>2. cache' \subseteq Entry /\ IsFiniteSet(cache')
    BY <1>1, FS_RemoveElement DEF TypeInv
  <2> QED
    BY <1>1, <2>1, <2>2 DEF TypeInv, Listed
<1>4. HandlersFit'
  BY <1>1, <1>2 DEF UseInv, HandlersFit
<1>5. UsersFit'
  BY <1>1, <1>2, QuestionAssumption DEF UseInv, UsersFit, ActiveQuestion, Listed
<1>6. FirstIsActive'
  BY <1>1 DEF UseInv, FirstIsActive, FindDuplicateQuestion, Listed
<1>7. ActiveCounted'
  <2>1. InUse' = InUse
    BY <1>1, <1>2 DEF InUse
  <2> QED
    BY <1>1, <2>1 DEF UseInv, ActiveCounted
<1> QED
  BY <1>3, <1>4, <1>5, <1>6, <1>7 DEF UseInv

LEMMA UseRmvEnd ==
  ASSUME UseInv, RmvEnd
  PROVE  UseInv'
<1>1. /\ TypeInv /\ rr # NoEntry /\ handler = "expire" /\ todo = {}
      /\ rr \notin cache /\ CRActiveQuestion[rr] # NoQuestion
      /\ CRActiveQuestion' = [CRActiveQuestion EXCEPT ![rr] = NoQuestion]
      /\ rrcache_active' = rrcache_active - 1
      /\ rr' = NoEntry /\ CurrentQuestion' = NoQuestion
      /\ UNCHANGED <<Questions, NewQuestions, DuplicateOf, CurrentAnswers, given, cache,
                     rrcache_size, handler, fresh, todo, caller>>
  BY DEF UseInv, HandlersFit, RmvEnd, Walking, listVars, tellVars, cacheVars
<1>2. /\ rr \in Entry /\ CRActiveQuestion \in [Entry -> Question \union {NoQuestion}]
      /\ cache \subseteq Entry
  BY <1>1 DEF TypeInv
<1>3. TypeInv'
  BY <1>1 DEF TypeInv, Listed
<1>4. HandlersFit'
  BY <1>1 DEF UseInv, HandlersFit
<1>5. UsersFit'
  BY <1>1, <1>2, QuestionAssumption DEF UseInv, UsersFit, ActiveQuestion, Listed
<1>6. FirstIsActive'
  BY <1>1 DEF UseInv, FirstIsActive, FindDuplicateQuestion, Listed
<1>7. ActiveCounted'
  <2>1. rr \in InUse /\ InUse' = InUse \ {rr}
    BY <1>1, <1>2 DEF InUse
  <2>2. Cardinality(InUse \ {rr}) = Cardinality(InUse) - 1
    BY <2>1, <1>1, InUseFinite, FS_RemoveElement
  <2> QED
    BY <1>1, <2>1, <2>2 DEF UseInv, ActiveCounted
<1> QED
  BY <1>3, <1>4, <1>5, <1>6, <1>7 DEF UseInv

--------------------------------------------------------------------------------
(* Steps that change neither the list nor the cache *)

LEMMA UseQuiet ==
  ASSUME UseInv, TypeInv', HandlersFit', rr' = rr \/ (rr' = NoEntry /\ rr \in cache),
         UNCHANGED <<Questions, DuplicateOf, cache, CRActiveQuestion, rrcache_active>>
  PROVE  UseInv'
<1>1. FirstIsActive'
  BY DEF UseInv, FirstIsActive, FindDuplicateQuestion, Listed
<1>2. UsersFit'
  BY DEF UseInv, UsersFit, ActiveQuestion, Listed
<1>3. InUse' = InUse
  BY DEF InUse
<1>4. ActiveCounted'
  BY <1>3 DEF UseInv, ActiveCounted
<1> QED
  BY <1>1, <1>2, <1>4 DEF UseInv

LEMMA UseReturn ==
  ASSUME UseInv, Return
  PROVE  UseInv'
<1> USE DEF Return, listVars, tellVars, cacheVars, useVars
<1>1. TypeInv' /\ HandlersFit'
  BY DEF UseInv, TypeInv, HandlersFit, Listed
<1> QED
  BY <1>1, UseQuiet

LEMMA UseWalkPass ==
  ASSUME UseInv, WalkPass
  PROVE  UseInv'
<1> USE DEF WalkPass, listVars, tellVars, cacheVars, useVars
<1>1. TypeInv /\ After(CurrentQuestion) \in Question \union {NoQuestion}
  BY AfterFacts, PlaceFacts DEF UseInv, TypeInv, Listed
<1>2. TypeInv' /\ HandlersFit'
  BY <1>1 DEF UseInv, TypeInv, HandlersFit, Listed
<1> QED
  BY <1>2, UseQuiet

LEMMA UseAddEnd ==
  ASSUME UseInv, AddEnd
  PROVE  UseInv'
<1> USE DEF AddEnd, listVars, tellVars, cacheVars, useVars
<1>1. TypeInv' /\ HandlersFit' /\ rr' = NoEntry /\ rr \in cache
  BY DEF UseInv, TypeInv, HandlersFit, Listed
<1> QED
  BY <1>1, UseQuiet

LEMMA UseExecute ==
  ASSUME UseInv, Execute
  PROVE  UseInv'
<1> USE DEF Execute, listVars, tellVars, cacheVars, useVars
<1>1. TypeInv' /\ HandlersFit'
  BY DEF UseInv, TypeInv, HandlersFit, Listed
<1> QED
  BY <1>1, UseQuiet

LEMMA UseTakeNewQuestion ==
  ASSUME UseInv, TakeNewQuestion
  PROVE  UseInv'
<1> USE DEF TakeNewQuestion, Expiring, listVars, tellVars, cacheVars, useVars
<1>1. NewQuestions \in Question \union {NoQuestion}
  BY PlaceFacts DEF UseInv, TypeInv, Listed
<1>2. TypeInv' /\ HandlersFit'
  BY <1>1 DEF UseInv, TypeInv, HandlersFit, Listed
<1> QED
  BY <1>2, UseQuiet

LEMMA UseAnswerNewQuestion ==
  ASSUME UseInv, AnswerNewQuestion
  PROVE  UseInv'
<1> USE DEF AnswerNewQuestion, Expiring, tellVars, cacheVars, useVars
<1>1. After(fresh) \in Listed \union {NoQuestion}
  BY AfterFacts DEF UseInv
<1>2. TypeInv' /\ HandlersFit'
  BY <1>1 DEF UseInv, TypeInv, HandlersFit, Listed
<1> QED
  BY <1>2, UseQuiet

LEMMA UseAnswerEnd ==
  ASSUME UseInv, AnswerEnd
  PROVE  UseInv'
<1> USE DEF AnswerEnd, listVars, tellVars, cacheVars, useVars
<1>1. NewQuestions \in Question \union {NoQuestion}
  BY PlaceFacts DEF UseInv, TypeInv, Listed
<1>2. TypeInv' /\ HandlersFit'
  BY <1>1 DEF UseInv, TypeInv, HandlersFit, Listed
<1> QED
  BY <1>2, UseQuiet

LEMMA UseNext ==
  ASSUME UseInv, [Next]_vars
  PROVE  UseInv'
<1>1. CASE ClientCall
  BY <1>1, UseStart, UseStop DEF ClientCall
<1>2. CASE \E e \in Entry : Expire(e)
  BY <1>2, UseExpire
<1>3. CASE Engine
  BY <1>3, UseWalkPass, UseWalkTell, UseAddEnd, UseRmvEnd, UseTakeNewQuestion,
     UseAnswerNewQuestion, UseAnswerTell, UseAnswerEnd DEF Engine
<1>4. CASE UNCHANGED vars
  <2>1. TypeInv' /\ HandlersFit'
    BY <1>4 DEF vars, UseInv, TypeInv, HandlersFit, Listed
  <2> QED
    BY <1>4, <2>1, UseQuiet DEF vars
<1> QED
  BY <1>1, <1>2, <1>3, <1>4, UseReturn, UseReceive, UseExecute DEF Next

LEMMA UseAlways == Spec => []UseInv
<1>1. Init => UseInv
  BY TypeInit DEF UseInv
<1>2. UseInv /\ [Next]_vars => UseInv'
  BY UseNext
<1> QED
  BY <1>1, <1>2, PTL DEF Spec

--------------------------------------------------------------------------------
(* Theorems, whatever clients stop in their callbacks *)

\* Of the questions with one identity exactly the first in the list sends queries, and
\* when it is stopped another does
THEOREM OneOfIdentityActive == Spec => []FirstIsActive
<1>1. UseInv => FirstIsActive
  BY DEF UseInv
<1> QED
  BY <1>1, UseAlways, PTL

\* rrcache_active is the number of records in use: mDNS_Close and the state dump find it right
THEOREM ActiveIsCounted == Spec => []ActiveCounted
<1>1. UseInv => ActiveCounted
  BY DEF UseInv
<1> QED
  BY <1>1, UseAlways, PTL

--------------------------------------------------------------------------------
(* What clients have been told, while callbacks do not stop questions that are still new *)

\* q is listed and not new
Old(q) ==
  /\ q \in Listed
  /\ NewQuestions \in Listed => Place(Questions, q) < Place(Questions, NewQuestions)

\* q is the last of these
LastOld(q) ==
  /\ q \in Listed
  /\ NewQuestions = NoQuestion => Place(Questions, q) = Len(Questions)
  /\ NewQuestions # NoQuestion => Place(Questions, NewQuestions) = Place(Questions, q) + 1

\* Where the cursors of the walks are: before the new questions or at the first of them.
\* The question that is being answered from the cache is the first new one until its
\* callbacks begin, and then the last old one, or it has been stopped
CursorsFit ==
  /\ CurrentQuestion \in Listed \union {NoQuestion}
  /\ handler = "idle" \/ (handler = "expire" /\ rr = NoEntry) =>
       CurrentQuestion = NoQuestion /\ caller = NoQuestion
  /\ rr # NoEntry /\ {CurrentQuestion, NewQuestions} \subseteq Listed =>
       Place(Questions, CurrentQuestion) <= Place(Questions, NewQuestions)
  /\ handler \in {"idle", "receive"} => fresh = NoQuestion
  /\ handler = "expire" /\ fresh # NoQuestion => fresh = NewQuestions /\ caller # fresh
  /\ handler = "answer" => caller \in {NoQuestion, fresh}
  /\ handler = "answer" /\ CurrentQuestion = fresh => LastOld(fresh)
  /\ handler = "answer" /\ CurrentQuestion \notin {fresh, NoQuestion} => ~Old(CurrentQuestion)

\* A walk has still to come to q
Ahead(q) ==
  /\ CurrentQuestion \in Listed
  /\ Place(Questions, q) >= Place(Questions, CurrentQuestion)

\* q's client has still to be told that e is there, or that it has gone
Coming(q, e) ==
  \/ handler = "receive" /\ e = rr /\ Ahead(q)
  \/ handler = "answer" /\ q = fresh /\ q = CurrentQuestion /\ e \in todo

Going(q, e) == handler = "expire" /\ e = rr /\ Ahead(q)

\* A client has been told of a record if its question has been answered and matches the
\* record, which is in the cache; but for those that a walk has yet to come to
HasBeenTold(q, e) ==
  /\ Old(q)
  /\ <<e, q>> \in Answers
  /\ (e \in cache /\ ~Coming(q, e)) \/ Going(q, e)

ViewExact == \A q \in Question, e \in Entry : e \in given[q] <=> HasBeenTold(q, e)

CountExact == \A q \in Question : CurrentAnswers[q] = Cardinality(given[q])

\* A record that somebody has been told of is in use
ToldAreUsed ==
  \A e \in cache : \A q \in Listed : e \in given[q] => CRActiveQuestion[e] # NoQuestion

ViewInv == UseInv /\ CursorsFit /\ ViewExact /\ CountExact /\ ToldAreUsed

LEMMA ListFacts ==
  ASSUME TypeInv
  PROVE  /\ \A q \in Listed : Place(Questions, q) \in 1..Len(Questions)
         /\ \A p, q \in Listed : Place(Questions, p) = Place(Questions, q) => p = q
         /\ Listed \subseteq Question /\ NoQuestion \notin Listed
         /\ Len(Questions) \in Nat
         /\ NewQuestions \in Listed \union {NoQuestion}
<1>1. Questions \in Seq(Question) /\ Distinct(Questions) /\ Listed = ToSet(Questions)
  BY OrderDefs DEF TypeInv
<1>2. NewQuestions \in Listed \union {NoQuestion}
  BY DEF TypeInv
<1> QED
  BY <1>1, <1>2, PlaceFacts, QuestionAssumption

LEMMA OldFacts ==
  ASSUME TypeInv, NEW q \in Listed
  PROVE  Old(q) <=> ~IsNew(q)
BY ListFacts, OrderDefs DEF Old

\* A pointer that moves on when its question leaves the list has the same before it
LEMMA BumpFacts ==
  ASSUME TypeInv, NEW q \in Question, StopQuery(q), NEW x \in Listed \union {NoQuestion}
  PROVE  /\ Bump(x, q) \in Listed' \union {NoQuestion}
         /\ x # q => Bump(x, q) = x
         /\ x = q => Bump(x, q) = After(q)
         /\ x = NoQuestion => Bump(x, q) = NoQuestion
         /\ \A p \in Listed' :
              x \in Listed /\ Place(Questions, p) >= Place(Questions, x)
                <=> Bump(x, q) \in Listed' /\ Place(Questions', p) >= Place(Questions', Bump(x, q))
<1>1. /\ \A p \in Listed : Place(Questions, p) \in 1..Len(Questions)
      /\ \A o, p \in Listed : Place(Questions, o) = Place(Questions, p) => o = p
      /\ NoQuestion \notin Listed /\ Len(Questions) \in Nat
  BY ListFacts
<1>2. /\ q \in Listed /\ Listed' = Listed \ {q}
      /\ \A p \in Listed' : Place(Questions', p) = IF Place(Questions, p) < Place(Questions, q)
                                                   THEN Place(Questions, p)
                                                   ELSE Place(Questions, p) - 1
  BY StopFacts
<1>3. /\ Place(Questions, q) = Len(Questions) => After(q) = NoQuestion
      /\ Place(Questions, q) # Len(Questions) =>
           After(q) \in Listed /\ Place(Questions, After(q)) = Place(Questions, q) + 1
  BY <1>2, AfterFacts
<1>4. CASE x # q
  <2>1. Bump(x, q) = x
    BY <1>4 DEF Bump
  <2>2. CASE x = NoQuestion
    BY <1>1, <1>2, <2>1, <2>2
  <2>3. CASE x \in Listed
    <3>1. x \in Listed' /\ Place(Questions, x) # Place(Questions, q)
      BY <1>1, <1>2, <1>4, <2>3
    <3>2. ASSUME NEW p \in Listed'
          PROVE  Place(Questions, p) >= Place(Questions, x)
                   <=> Place(Questions', p) >= Place(Questions', x)
      <4>1. /\ Place(Questions, p) \in Int /\ Place(Questions, x) \in Int /\ Place(Questions, q) \in Int
            /\ Place(Questions, p) # Place(Questions, q)
        BY <1>1, <1>2, <2>3
      <4> QED
        BY <1>2, <3>1, <4>1
    <3> QED
      BY <2>1, <2>3, <3>1, <3>2, <1>1, <1>4
  <2> QED
    BY <2>2, <2>3
<1>5. CASE x = q
  <2>1. Bump(x, q) = After(q)
    BY <1>5 DEF Bump
  <2>2. CASE Place(Questions, q) = Len(Questions)
    <3>1. After(q) = NoQuestion
      BY <1>3, <2>2
    <3>2. \A p \in Listed' : ~(Place(Questions, p) >= Place(Questions, q))
      BY <1>1, <1>2, <2>2
    <3> QED
      BY <1>1, <1>2, <1>5, <2>1, <3>1, <3>2
  <2>3. CASE Place(Questions, q) # Len(Questions)
    <3> DEFINE y == After(q)
    <3>1. y \in Listed' /\ Place(Questions, y) = Place(Questions, q) + 1
      <4>1. Place(Questions, q) \in Int
        BY <1>1, <1>2
      <4> QED
        BY <1>2, <1>3, <2>3, <4>1
    <3> HIDE DEF y
    <3>2. ASSUME NEW p \in Listed'
          PROVE  Place(Questions, p) >= Place(Questions, q)
                   <=> Place(Questions', p) >= Place(Questions', y)
      <4>1. /\ Place(Questions, p) \in Int /\ Place(Questions, q) \in Int
            /\ Place(Questions, p) # Place(Questions, q)
        BY <1>1, <1>2
      <4>2. Place(Questions', y) = Place(Questions, q)
        BY <1>2, <3>1, <4>1
      <4> QED
        BY <1>2, <4>1, <4>2
    <3> QED
      BY <1>1, <1>2, <1>5, <2>1, <3>1, <3>2 DEF y
  <2> QED
    BY <2>2, <2>3
<1> QED
  BY <1>4, <1>5

\* What is old stays so when another question leaves the list, and so does what is ahead
LEMMA OldStop ==
  ASSUME TypeInv, NEW q \in Question, StopQuery(q), NEW p \in Listed'
  PROVE  Old(p)' <=> Old(p)
<1>1. NewQuestions' = Bump(NewQuestions, q)
  BY DEF StopQuery
<1>2. /\ NewQuestions \in Listed /\ Place(Questions, p) >= Place(Questions, NewQuestions)
           <=> NewQuestions' \in Listed' /\ Place(Questions', p) >= Place(Questions', NewQuestions')
      /\ NewQuestions' \in Listed' \union {NoQuestion}
  BY <1>1, BumpFacts, ListFacts
<1>3. p \in Listed /\ TypeInv'
  BY StopFacts, TypeStop
<1>4. /\ \A o \in Listed : Place(Questions, o) \in Int
      /\ \A o \in Listed' : Place(Questions', o) \in Int
  <2>1. TypeInv' => \A o \in Listed' : Place(Questions', o) \in 1..Len(Questions')
    BY PlaceFacts, NextOrderDefs DEF TypeInv
  <2> QED
    BY <1>3, <2>1, ListFacts
<1> QED
  BY <1>2, <1>3, <1>4 DEF Old

LEMMA AheadStop ==
  ASSUME TypeInv, CurrentQuestion \in Listed \union {NoQuestion},
         NEW q \in Question, StopQuery(q), NEW p \in Listed'
  PROVE  Ahead(p)' <=> Ahead(p)
<1>1. CurrentQuestion' = Bump(CurrentQuestion, q)
  BY DEF StopQuery
<1>2. CurrentQuestion \in Listed /\ Place(Questions, p) >= Place(Questions, CurrentQuestion)
        <=> CurrentQuestion' \in Listed' /\ Place(Questions', p) >= Place(Questions', CurrentQuestion')
  BY <1>1, BumpFacts
<1> QED
  BY <1>2 DEF Ahead

LEMMA OldStart ==
  ASSUME TypeInv, NEW q \in Question, StartQuery(q)
  PROVE  /\ \A p \in Listed : Old(p)' <=> Old(p)
         /\ ~Old(q)'
<1>1. /\ q \notin Listed /\ Listed' = Listed \union {q}
      /\ \A p \in Listed : Place(Questions', p) = Place(Questions, p)
      /\ Place(Questions', q) = Len(Questions) + 1
  BY StartFacts
<1>2. NewQuestions' = IF NewQuestions = NoQuestion THEN q ELSE NewQuestions
  BY DEF StartQuery
<1> QED
  BY <1>1, <1>2, ListFacts DEF Old

LEMMA AheadStart ==
  ASSUME TypeInv, CurrentQuestion \in Listed \union {NoQuestion},
         NEW q \in Question, StartQuery(q), NEW p \in Listed
  PROVE  Ahead(p)' <=> Ahead(p)
<1>1. /\ Listed' = Listed \union {q}
      /\ \A o \in Listed : Place(Questions', o) = Place(Questions, o)
      /\ CurrentQuestion' = CurrentQuestion
  BY StartFacts DEF StartQuery
<1>2. NoQuestion \notin Listed'
  BY <1>1, ListFacts, QuestionAssumption
<1> QED
  BY <1>1, <1>2 DEF Ahead

\* A step that leaves the list alone leaves the old questions so
LEMMA SameList ==
  ASSUME UNCHANGED <<Questions, NewQuestions>>
  PROVE  /\ Listed' = Listed
         /\ \A q : Old(q)' <=> Old(q)
         /\ \A q : LastOld(q)' <=> LastOld(q)
BY DEF Old, LastOld, Listed

\* Nobody is told anything, and nobody has been told more or less for it
LEMMA SameView ==
  ASSUME ViewInv, UNCHANGED <<given, CurrentAnswers>>,
         \A q \in Question, e \in Entry : HasBeenTold(q, e)' <=> HasBeenTold(q, e)
  PROVE  ViewExact' /\ CountExact'
BY DEF ViewInv, ViewExact, CountExact

LEMMA ViewStart ==
  ASSUME ViewInv, NEW q \in Question, StartQuery(q)
  PROVE  ViewInv'
<1>1. /\ TypeInv /\ UseInv /\ UseInv' /\ CursorsFit
      /\ CurrentQuestion \in Listed \union {NoQuestion}
  BY UseStart DEF ViewInv, UseInv, CursorsFit
<1>2. /\ NewQuestions' = IF NewQuestions = NoQuestion THEN q ELSE NewQuestions
      /\ CurrentAnswers' = [CurrentAnswers EXCEPT ![q] = 0]
      /\ UNCHANGED <<CurrentQuestion, cache, CRActiveQuestion, handler, rr, fresh, todo, caller, given>>
  BY DEF StartQuery, cacheVars, useVars
<1>3. /\ q \notin Listed /\ Listed' = Listed \union {q}
      /\ \A p \in Listed : Place(Questions', p) = Place(Questions, p)
      /\ Place(Questions', q) = Len(Questions) + 1
      /\ Len(Questions') = Len(Questions) + 1
  BY <1>1, StartFacts, AppendProperties DEF StartQuery, TypeInv
<1>4. /\ \A p \in Listed : Place(Questions, p) \in 1..Len(Questions)
      /\ Listed \subseteq Question /\ NoQuestion \notin Listed
      /\ Len(Questions) \in Nat
      /\ NewQuestions \in Listed \union {NoQuestion} /\ q # NoQuestion
  BY <1>1, ListFacts, QuestionAssumption
<1>5. /\ \A p \in Listed : Old(p)' <=> Old(p)
      /\ \A p \in Listed : Ahead(p)' <=> Ahead(p)
      /\ ~Old(q)'
  BY <1>1, OldStart, AheadStart
<1>6. CursorsFit'
  <2>1. ASSUME LastOld(fresh) PROVE LastOld(fresh)'
    BY <2>1, <1>2, <1>3, <1>4 DEF LastOld
  <2>2. ASSUME rr # NoEntry, {CurrentQuestion', NewQuestions'} \subseteq Listed'
        PROVE  Place(Questions', CurrentQuestion') <= Place(Questions', NewQuestions')
    <3>1. CurrentQuestion \in Listed
      BY <1>1, <1>2, <1>3, <1>4, <2>2
    <3>2. CASE NewQuestions = NoQuestion
      BY <1>2, <1>3, <1>4, <3>1, <3>2
    <3>3. CASE NewQuestions # NoQuestion
      BY <1>1, <1>2, <1>3, <1>4, <3>1, <3>3, <2>2 DEF CursorsFit
    <3> QED
      BY <3>2, <3>3
  <2>3. CurrentQuestion \notin {fresh, NoQuestion} /\ ~Old(CurrentQuestion) => ~Old(CurrentQuestion)'
    BY <1>1, <1>5, <1>2
  <2>4. CurrentQuestion' \in Listed' \union {NoQuestion}
    BY <1>1, <1>2, <1>3
  <2> QED
    BY <1>1, <1>2, <2>1, <2>2, <2>3, <2>4 DEF CursorsFit
<1>7. \A e \in Entry : e \notin given[q]
  BY <1>3 DEF ViewInv, ViewExact, HasBeenTold, Old
<1>8. \A p \in Question, e \in Entry : HasBeenTold(p, e)' <=> HasBeenTold(p, e)
  <2> SUFFICES ASSUME NEW p \in Question, NEW e \in Entry
               PROVE  HasBeenTold(p, e)' <=> HasBeenTold(p, e)
    OBVIOUS
  <2>1. CASE p \in Listed
    BY <2>1, <1>2, <1>5 DEF HasBeenTold, Coming, Going
  <2>2. CASE p \notin Listed
    BY <2>2, <1>3, <1>5 DEF HasBeenTold, Old
  <2> QED
    BY <2>1, <2>2
<1>9. ViewExact'
  BY <1>2, <1>8 DEF ViewInv, ViewExact
<1>10. CountExact'
  <2>1. given[q] = {}
    BY <1>1, <1>7 DEF TypeInv
  <2> QED
    BY <2>1, <1>1, <1>2, FS_EmptySet DEF ViewInv, CountExact, TypeInv
<1>11. ToldAreUsed'
  BY <1>1, <1>2, <1>3, <1>7 DEF ViewInv, ToldAreUsed, TypeInv
<1> QED
  BY <1>1, <1>6, <1>9, <1>10, <1>11 DEF ViewInv

\* Without stopping new questions a client stops an old one, or the one it is called for
LEMMA StopCases ==
  ASSUME ViewInv, ~StopNew, NEW q \in Question, StopQuery(q)
  PROVE  /\ handler = "idle" \/ caller # NoQuestion
         /\ handler = "idle" \/ Old(q) \/ caller = q
<1>1. q \in Listed /\ ClientMayCall /\ StopAllowed(q) /\ TypeInv
  BY DEF StopQuery, ViewInv, UseInv
<1>2. Old(q) <=> ~IsNew(q)
  BY <1>1, OldFacts
<1> QED
  BY <1>1, <1>2 DEF ClientMayCall, StopAllowed

\* The same after a step
LEMMA ActiveOfIdentityNext ==
  ASSUME TypeInv', FirstIsActive', NEW q \in Listed'
  PROVE  \E p \in Listed' : DuplicateOf'[p] = NoQuestion /\ Identity[p] = Identity[q]
<1>1. /\ Questions' \in Seq(Question) /\ Distinct(Questions') /\ Listed' = ToSet(Questions')
      /\ Listed' \subseteq Question
  BY PlaceFacts, NextOrderDefs DEF TypeInv
<1> DEFINE p == FirstIn(Questions', Same(q))
<1>2. q \in Same(q)
  BY <1>1 DEF Same
<1>3. p \in Listed' /\ p \in Same(q)
  BY <1>1, <1>2, FirstInOrder
<1>4. Same(p) = Same(q)
  BY <1>3 DEF Same
<1>5. DuplicateOf'[p] = FindDuplicateQuestion(Questions', p)
  BY <1>3 DEF FirstIsActive
<1>6. FindDuplicateQuestion(Questions', p) = NoQuestion
  BY <1>4 DEF FindDuplicateQuestion, Same
<1> QED
  BY <1>3, <1>5, <1>6 DEF Same

LEMMA ViewStop ==
  ASSUME ViewInv, ~StopNew, NEW q \in Question, StopQuery(q)
  PROVE  ViewInv'
<1>1. /\ TypeInv /\ UseInv /\ UseInv' /\ TypeInv' /\ FirstIsActive' /\ CursorsFit
      /\ CurrentQuestion \in Listed \union {NoQuestion}
  BY UseStop DEF ViewInv, UseInv, CursorsFit
<1>2. /\ NewQuestions' = Bump(NewQuestions, q) /\ CurrentQuestion' = Bump(CurrentQuestion, q)
      /\ CurrentAnswers' = [CurrentAnswers EXCEPT ![q] = 0]
      /\ given' = [given EXCEPT ![q] = {}]
      /\ UNCHANGED <<cache, handler, rr, fresh, todo, caller>>
  BY DEF StopQuery, cacheVars
<1>3. /\ q \in Listed /\ Listed' = Listed \ {q}
      /\ \A p \in Listed' : Place(Questions', p) = IF Place(Questions, p) < Place(Questions, q)
                                                   THEN Place(Questions, p)
                                                   ELSE Place(Questions, p) - 1
      /\ Len(Questions') = Len(Questions) - 1
  <2>1. Questions' = RemoveAt(Questions, Place(Questions, q)) /\ q \in ToSet(Questions)
    BY OrderDefs DEF StopQuery
  <2>2. Len(Questions') = Len(Questions) - 1
    BY <1>1, <2>1, RemoveFacts DEF TypeInv
  <2> QED
    BY <1>1, <2>2, StopFacts
<1>4. /\ \A p \in Listed : Place(Questions, p) \in 1..Len(Questions)
      /\ \A o, p \in Listed : Place(Questions, o) = Place(Questions, p) => o = p
      /\ Listed \subseteq Question /\ NoQuestion \notin Listed
      /\ Len(Questions) \in Nat
      /\ NewQuestions \in Listed \union {NoQuestion} /\ q # NoQuestion
  BY <1>1, ListFacts, QuestionAssumption
<1>5. /\ Place(Questions, q) = Len(Questions) => After(q) = NoQuestion
      /\ Place(Questions, q) # Len(Questions) =>
           After(q) \in Listed /\ Place(Questions, After(q)) = Place(Questions, q) + 1
  BY <1>1, <1>3, AfterFacts
<1>6. /\ handler = "idle" \/ caller # NoQuestion
      /\ handler = "idle" \/ Old(q) \/ caller = q
  BY StopCases
<1>7. \A p \in Listed' : (Old(p)' <=> Old(p)) /\ (Ahead(p)' <=> Ahead(p))
  BY <1>1, OldStop, AheadStop
<1>8. ~Old(NewQuestions) /\ (NewQuestions = NoQuestion \/ NewQuestions \in Listed)
  BY <1>4 DEF Old
\* The question that is being answered
<1>9. ASSUME handler = "answer", CurrentQuestion = q
      PROVE  /\ q = fresh /\ CurrentQuestion' = After(q) /\ LastOld(q)
             /\ CurrentQuestion' = NewQuestions
  <2>1. q = fresh
    BY <1>1, <1>4, <1>6, <1>9 DEF CursorsFit
  <2>2. LastOld(q) /\ CurrentQuestion' = After(q)
    BY <1>1, <1>2, <1>9, <2>1 DEF CursorsFit, Bump
  <2>3. CASE NewQuestions = NoQuestion
    BY <2>1, <2>2, <2>3, <1>5 DEF LastOld
  <2>4. CASE NewQuestions # NoQuestion
    <3>1. NewQuestions \in Listed /\ Place(Questions, NewQuestions) = Place(Questions, q) + 1
      BY <1>4, <2>2, <2>4 DEF LastOld
    <3>2. Place(Questions, q) # Len(Questions)
      BY <1>3, <1>4, <3>1
    <3> QED
      BY <1>4, <1>5, <2>1, <2>2, <3>1, <3>2
  <2> QED
    BY <2>1, <2>2, <2>3, <2>4
<1>10. CursorsFit'
  <2>1. CurrentQuestion' \in Listed' \union {NoQuestion}
    BY <1>1, <1>2, BumpFacts
  <2>2. ASSUME handler = "idle" \/ (handler = "expire" /\ rr = NoEntry)
        PROVE  CurrentQuestion' = NoQuestion /\ caller = NoQuestion
    BY <1>1, <1>2, <1>4, <2>2 DEF CursorsFit, Bump
  <2>3. ASSUME rr # NoEntry, {CurrentQuestion', NewQuestions'} \subseteq Listed'
        PROVE  Place(Questions', CurrentQuestion') <= Place(Questions', NewQuestions')
    <3> DEFINE new == NewQuestions'
    <3>1. CurrentQuestion \in Listed
      BY <1>1, <1>2, <1>3, <1>4, <2>3 DEF Bump
    <3>2. Place(Questions, new) >= Place(Questions, CurrentQuestion)
          => Place(Questions', new) >= Place(Questions', CurrentQuestion')
      BY <1>1, <1>2, <2>3, <3>1, BumpFacts
    <3>3. NewQuestions \in Listed /\ Place(Questions, CurrentQuestion) <= Place(Questions, NewQuestions)
      BY <1>1, <1>2, <1>3, <1>4, <2>3, <3>1 DEF CursorsFit, Bump
    <3>4. Place(Questions, new) >= Place(Questions, NewQuestions)
      <4>1. CASE NewQuestions # q
        BY <1>2, <1>4, <3>3, <4>1 DEF Bump
      <4>2. CASE NewQuestions = q
        <5>1. new = After(q)
          BY <1>2, <4>2 DEF Bump
        <5>2. new \in Listed
          BY <1>3, <2>3
        <5>3. Place(Questions, q) \in Int
          BY <1>3, <1>4
        <5> QED
          BY <1>4, <1>5, <4>2, <5>1, <5>2, <5>3
      <4> QED
        BY <4>1, <4>2
    <3> HIDE DEF new
    <3>5. /\ new \in Listed' /\ new \in Listed /\ CurrentQuestion' \in Listed'
          /\ Place(Questions, new) \in Int /\ Place(Questions, CurrentQuestion) \in Int
          /\ Place(Questions, NewQuestions) \in Int
      BY <1>3, <1>4, <2>3, <3>1, <3>3 DEF new
    <3>6. Place(Questions', new) >= Place(Questions', CurrentQuestion')
      BY <3>2, <3>3, <3>4, <3>5
    <3>7. \A p \in Listed' : Place(Questions', p) \in Int
      BY <1>3, <1>4
    <3> QED
      BY <2>3, <3>5, <3>6, <3>7 DEF new
  <2>4. handler = "expire" /\ fresh # NoQuestion => fresh = NewQuestions' /\ caller # fresh
    BY <1>1, <1>2, <1>6, <1>8 DEF CursorsFit, Bump
  <2>5. ASSUME handler = "answer", CurrentQuestion' = fresh
        PROVE  LastOld(fresh)'
    <3>0. fresh # NoQuestion
      BY <1>1, <2>5 DEF UseInv, HandlersFit
    <3>1. CurrentQuestion # q
      <4>1. ASSUME CurrentQuestion = q PROVE FALSE
        BY <1>3, <1>4, <1>5, <1>9, <2>5, <3>0, <4>1
      <4> QED
        BY <4>1
    <3>2. CurrentQuestion = fresh /\ LastOld(fresh)
      BY <1>1, <1>2, <2>5, <3>1 DEF Bump, CursorsFit
    <3>3. fresh \in Listed' /\ fresh # q /\ NewQuestions # q
      <4>1. fresh \in Listed /\ fresh # q
        BY <3>1, <3>2 DEF LastOld
      <4>2. Old(q)
        BY <1>1, <1>6, <2>5, <4>1 DEF CursorsFit
      <4> QED
        BY <1>3, <1>8, <4>1, <4>2
    <3>4. NewQuestions' = NewQuestions
      BY <1>2, <3>3 DEF Bump
    <3>5. /\ Place(Questions, fresh) \in Int /\ Place(Questions, q) \in Int
          /\ Place(Questions, fresh) # Place(Questions, q)
          /\ Place(Questions, q) <= Len(Questions)
      BY <1>3, <1>4, <3>3
    <3>6. CASE NewQuestions = NoQuestion
      BY <1>2, <1>3, <1>4, <3>2, <3>3, <3>4, <3>5, <3>6 DEF LastOld
    <3>7. CASE NewQuestions # NoQuestion
      <4>1. /\ NewQuestions \in Listed' /\ Place(Questions, NewQuestions) = Place(Questions, fresh) + 1
            /\ Place(Questions, NewQuestions) # Place(Questions, q)
        BY <1>3, <1>4, <3>2, <3>3, <3>7 DEF LastOld
      <4>2. Place(Questions', NewQuestions) = Place(Questions', fresh) + 1
        BY <1>3, <3>3, <3>5, <4>1
      <4> QED
        BY <1>2, <3>3, <3>4, <3>7, <4>1, <4>2 DEF LastOld
    <3> QED
      BY <3>6, <3>7
  <2>6. ASSUME handler = "answer", CurrentQuestion' \notin {fresh, NoQuestion}
        PROVE  ~Old(CurrentQuestion)'
    <3>1. CurrentQuestion' \in Listed' /\ (Old(CurrentQuestion)' <=> Old(CurrentQuestion'))
      BY <1>7, <2>1, <2>6 DEF Old
    <3>2. CASE CurrentQuestion = q
      BY <1>7, <1>8, <1>9, <2>6, <3>1, <3>2 DEF Old
    <3>3. CASE CurrentQuestion # q
      BY <1>1, <1>2, <1>7, <2>6, <3>1, <3>3 DEF CursorsFit, Bump, Old
    <3> QED
      BY <3>2, <3>3
  <2> QED
    BY <1>1, <1>2, <2>1, <2>2, <2>3, <2>4, <2>5, <2>6 DEF CursorsFit
<1>11. ViewExact'
  <2> SUFFICES ASSUME NEW p \in Question, NEW e \in Entry
               PROVE  e \in given'[p] <=> HasBeenTold(p, e)'
    BY DEF ViewExact
  <2>1. CASE p \notin Listed'
    <3>1. e \notin given'[p]
      BY <1>1, <1>2, <1>3, <2>1 DEF ViewInv, ViewExact, HasBeenTold, Old, TypeInv
    <3> QED
      BY <2>1, <3>1 DEF HasBeenTold, Old
  <2>2. CASE p \in Listed'
    <3>1. p \in Listed /\ p # q /\ p # NoQuestion
      BY <1>3, <1>4, <2>2
    <3>2. given'[p] = given[p]
      BY <1>1, <1>2, <3>1 DEF TypeInv
    <3>3. handler = "answer" /\ p = fresh => (p = CurrentQuestion' <=> p = CurrentQuestion)
      BY <1>2, <1>9, <3>1 DEF Bump
    <3>4. HasBeenTold(p, e)' <=> HasBeenTold(p, e)
      BY <1>2, <1>7, <2>2, <3>3 DEF HasBeenTold, Coming, Going
    <3> QED
      BY <3>2, <3>4 DEF ViewInv, ViewExact
  <2> QED
    BY <2>1, <2>2
<1>12. CountExact'
  BY <1>1, <1>2, FS_EmptySet DEF ViewInv, CountExact, TypeInv
<1>13. ToldAreUsed'
  <2> SUFFICES ASSUME NEW e \in cache', NEW p \in Listed', e \in given'[p],
                      CRActiveQuestion'[e] = NoQuestion
               PROVE  FALSE
    BY DEF ToldAreUsed
  <2>1. p \in Question /\ p \in Listed /\ p # q /\ e \in cache /\ e \in Entry
    BY <1>1, <1>2, <1>3, <1>4 DEF TypeInv
  <2>2. e \in given[p] /\ CRActiveQuestion[e] # NoQuestion
    BY <1>1, <1>2, <2>1 DEF TypeInv, ViewInv, ToldAreUsed
  <2>3. <<e, p>> \in Answers
    BY <2>1, <2>2 DEF ViewInv, ViewExact, HasBeenTold
  <2>4. \A o \in Listed' : DuplicateOf'[o] = NoQuestion => <<e, o>> \notin Answers
    <3>1. PICK heir \in [Entry -> Question \union {NoQuestion}] :
            /\ \A x \in Entry :
                 \/ /\ heir[x] = NoQuestion
                    /\ \A o \in Listed' : DuplicateOf'[o] = NoQuestion => <<x, o>> \notin Answers
                 \/ /\ heir[x] \in Listed' /\ DuplicateOf'[heir[x]] = NoQuestion
                    /\ <<x, heir[x]>> \in Answers
            /\ CRActiveQuestion' = [x \in Entry |-> IF HandedOn(q, x) THEN heir[x]
                                                    ELSE CRActiveQuestion[x]]
      BY <1>1, HandOnFacts
    <3>2. heir[e] = NoQuestion
      BY <2>1, <2>2, <3>1
    <3> QED
      BY <1>3, <1>4, <2>1, <3>1, <3>2
  <2>5. PICK o \in Listed' : DuplicateOf'[o] = NoQuestion /\ Identity[o] = Identity[p]
    BY <1>1, ActiveOfIdentityNext
  <2>6. o \in Question
    BY <1>3, <1>4
  <2>7. <<e, o>> \in Answers
    BY <2>1, <2>3, <2>5, <2>6, QuestionAssumption
  <2> QED
    BY <2>4, <2>5, <2>7
<1> QED
  BY <1>1, <1>10, <1>11, <1>12, <1>13 DEF ViewInv

--------------------------------------------------------------------------------
(* Steps that tell nobody anything *)

LEMMA ViewQuiet ==
  ASSUME ViewInv, UseInv', CursorsFit',
         UNCHANGED <<Questions, given, CurrentAnswers, cache>>,
         \A e \in cache : CRActiveQuestion'[e] = CRActiveQuestion[e],
         \A q \in Question, e \in Entry : HasBeenTold(q, e)' <=> HasBeenTold(q, e)
  PROVE  ViewInv'
<1>1. ViewExact' /\ CountExact'
  BY SameView
<1>2. ToldAreUsed'
  BY DEF ViewInv, ToldAreUsed, Listed
<1> QED
  BY <1>1, <1>2 DEF ViewInv

LEMMA ViewReturn ==
  ASSUME ViewInv, Return
  PROVE  ViewInv'
<1>1. /\ UseInv /\ UseInv' /\ CursorsFit
  BY UseReturn DEF ViewInv
<1>2. /\ caller' = NoQuestion
      /\ UNCHANGED <<Questions, NewQuestions, CurrentQuestion, CurrentAnswers, given, cache,
                     CRActiveQuestion, handler, rr, fresh, todo>>
  BY DEF Return, listVars, tellVars, cacheVars, useVars
<1>3. CursorsFit'
  BY <1>1, <1>2, SameList DEF CursorsFit
<1>4. \A q \in Question, e \in Entry : HasBeenTold(q, e)' <=> HasBeenTold(q, e)
  BY <1>2, SameList DEF HasBeenTold, Coming, Going, Ahead
<1> QED
  BY <1>1, <1>2, <1>3, <1>4, ViewQuiet

LEMMA ViewExecute ==
  ASSUME ViewInv, Execute
  PROVE  ViewInv'
<1>1. /\ UseInv /\ UseInv' /\ CursorsFit
      /\ rr = NoEntry
  BY UseExecute DEF ViewInv, UseInv, HandlersFit, Execute
<1>2. /\ handler = "idle" /\ handler' = "expire"
      /\ UNCHANGED <<Questions, NewQuestions, CurrentQuestion, CurrentAnswers, given, cache,
                     CRActiveQuestion, rr, fresh, todo, caller>>
  BY DEF Execute, listVars, tellVars, cacheVars, useVars
<1>3. CursorsFit'
  BY <1>1, <1>2, SameList DEF CursorsFit
<1>4. \A q \in Question, e \in Entry : HasBeenTold(q, e)' <=> HasBeenTold(q, e)
  BY <1>1, <1>2, SameList, QuestionAssumption DEF HasBeenTold, Coming, Going
<1> QED
  BY <1>1, <1>2, <1>3, <1>4, ViewQuiet

LEMMA ViewTakeNewQuestion ==
  ASSUME ViewInv, TakeNewQuestion
  PROVE  ViewInv'
<1>1. /\ UseInv /\ UseInv' /\ CursorsFit
  BY UseTakeNewQuestion DEF ViewInv
<1>2. /\ handler = "expire" /\ rr = NoEntry /\ fresh = NoQuestion /\ fresh' = NewQuestions
      /\ handler' = IF NewQuestions = NoQuestion THEN "idle" ELSE "expire"
      /\ UNCHANGED <<Questions, NewQuestions, CurrentQuestion, CurrentAnswers, given, cache,
                     CRActiveQuestion, rr, todo, caller>>
  BY DEF TakeNewQuestion, Expiring, listVars, tellVars, cacheVars, useVars
<1>3. CursorsFit'
  BY <1>1, <1>2 DEF CursorsFit, Listed
<1>4. \A q \in Question, e \in Entry : HasBeenTold(q, e)' <=> HasBeenTold(q, e)
  BY <1>2, SameList, QuestionAssumption DEF HasBeenTold, Coming, Going
<1> QED
  BY <1>1, <1>2, <1>3, <1>4, ViewQuiet

LEMMA ViewAnswerEnd ==
  ASSUME ViewInv, AnswerEnd
  PROVE  ViewInv'
<1>1. /\ UseInv /\ UseInv' /\ CursorsFit
      /\ rr = NoEntry
  BY UseAnswerEnd DEF ViewInv, UseInv, HandlersFit, AnswerEnd
<1>2. /\ handler = "answer" /\ caller = NoQuestion /\ (CurrentQuestion # fresh \/ todo = {})
      /\ CurrentQuestion' = NoQuestion /\ todo' = {} /\ fresh' = NewQuestions
      /\ handler' = IF NewQuestions = NoQuestion THEN "idle" ELSE "expire"
      /\ UNCHANGED <<Questions, NewQuestions, CurrentAnswers, given, cache,
                     CRActiveQuestion, rr, caller>>
  BY DEF AnswerEnd, listVars, tellVars, cacheVars, useVars
<1>3. CursorsFit'
  BY <1>1, <1>2 DEF CursorsFit, Listed
<1>4. \A q \in Question, e \in Entry : HasBeenTold(q, e)' <=> HasBeenTold(q, e)
  BY <1>1, <1>2, SameList, QuestionAssumption DEF HasBeenTold, Coming, Going
<1> QED
  BY <1>1, <1>2, <1>3, <1>4, ViewQuiet

\* At the end of a walk no question that has been answered is ahead
LEMMA NoneAhead ==
  ASSUME TypeInv, AtEnd, NEW q, Old(q)
  PROVE  ~Ahead(q)
BY ListFacts DEF AtEnd, Old, Ahead

LEMMA ViewAddEnd ==
  ASSUME ViewInv, AddEnd
  PROVE  ViewInv'
<1>1. /\ UseInv /\ UseInv' /\ CursorsFit /\ TypeInv
  BY UseAddEnd DEF ViewInv, UseInv
<1>2. /\ handler = "receive" /\ handler' = "idle" /\ caller = NoQuestion /\ AtEnd
      /\ rr' = NoEntry /\ CurrentQuestion' = NoQuestion
      /\ UNCHANGED <<Questions, NewQuestions, CurrentAnswers, given, cache,
                     CRActiveQuestion, fresh, todo, caller>>
  BY DEF AddEnd, Walking, listVars, tellVars, cacheVars, useVars
<1>3. CursorsFit'
  BY <1>1, <1>2 DEF CursorsFit, Listed
<1>4. \A q \in Question, e \in Entry : HasBeenTold(q, e)' <=> HasBeenTold(q, e)
  BY <1>1, <1>2, SameList, NoneAhead DEF HasBeenTold, Coming, Going
<1> QED
  BY <1>1, <1>2, <1>3, <1>4, ViewQuiet

LEMMA ViewRmvEnd ==
  ASSUME ViewInv, RmvEnd
  PROVE  ViewInv'
<1>1. /\ UseInv /\ UseInv' /\ CursorsFit /\ TypeInv
      /\ rr \notin cache
  BY UseRmvEnd DEF ViewInv, UseInv, HandlersFit, RmvEnd, Walking
<1>2. /\ handler = "expire" /\ caller = NoQuestion /\ AtEnd
      /\ CRActiveQuestion' = [CRActiveQuestion EXCEPT ![rr] = NoQuestion]
      /\ rr' = NoEntry /\ CurrentQuestion' = NoQuestion
      /\ UNCHANGED <<Questions, NewQuestions, CurrentAnswers, given, cache, handler,
                     fresh, todo, caller>>
  BY DEF RmvEnd, Walking, listVars, tellVars, cacheVars
<1>3. CursorsFit'
  BY <1>1, <1>2 DEF CursorsFit, Listed
<1>4. \A q \in Question, e \in Entry : HasBeenTold(q, e)' <=> HasBeenTold(q, e)
  BY <1>1, <1>2, SameList, NoneAhead, QuestionAssumption DEF HasBeenTold, Coming, Going
<1>5. \A e \in cache : CRActiveQuestion'[e] = CRActiveQuestion[e]
  BY <1>1, <1>2 DEF TypeInv
<1> QED
  BY <1>1, <1>2, <1>3, <1>4, <1>5, ViewQuiet

LEMMA ViewAnswerNewQuestion ==
  ASSUME ViewInv, AnswerNewQuestion
  PROVE  ViewInv'
<1>1. /\ UseInv /\ UseInv' /\ CursorsFit /\ TypeInv
  BY UseAnswerNewQuestion DEF ViewInv, UseInv
<1>2. /\ handler = "expire" /\ rr = NoEntry /\ fresh # NoQuestion
      /\ handler' = "answer" /\ NewQuestions' = After(fresh) /\ CurrentQuestion' = fresh
      /\ todo' = {e \in cache : <<e, fresh>> \in Answers}
      /\ UNCHANGED <<Questions, CurrentAnswers, given, cache, CRActiveQuestion, rr, fresh, caller>>
  BY DEF AnswerNewQuestion, Expiring, tellVars, cacheVars, useVars
<1>3. /\ fresh = NewQuestions /\ fresh \in Listed /\ caller = NoQuestion
  BY <1>1, <1>2 DEF CursorsFit, TypeInv
<1>4. /\ Place(Questions, fresh) = Len(Questions) => After(fresh) = NoQuestion
      /\ Place(Questions, fresh) # Len(Questions) =>
           After(fresh) \in Listed /\ Place(Questions, After(fresh)) = Place(Questions, fresh) + 1
  BY <1>1, <1>3, AfterFacts
<1>5. /\ \A p \in Listed : Place(Questions, p) \in 1..Len(Questions)
      /\ \A o, p \in Listed : Place(Questions, o) = Place(Questions, p) => o = p
      /\ NoQuestion \notin Listed /\ Len(Questions) \in Nat
  BY <1>1, ListFacts
<1>6. Listed' = Listed
  BY <1>2 DEF Listed
<1>7. \A q \in Listed : Old(q)' <=> Old(q) \/ q = fresh
  <2> SUFFICES ASSUME NEW q \in Listed PROVE Old(q)' <=> Old(q) \/ q = fresh
    OBVIOUS
  <2>1. Old(q) <=> Place(Questions, q) < Place(Questions, fresh)
    BY <1>3 DEF Old
  <2>2. CASE Place(Questions, fresh) = Len(Questions)
    <3>1. Old(q)'
      BY <1>2, <1>4, <1>5, <1>6, <2>2 DEF Old
    <3> QED
      BY <1>3, <1>5, <2>1, <2>2, <3>1
  <2>3. CASE Place(Questions, fresh) # Len(Questions)
    <3>1. Old(q)' <=> Place(Questions, q) < Place(Questions, fresh) + 1
      BY <1>2, <1>4, <1>6, <2>3 DEF Old
    <3> QED
      BY <1>3, <1>5, <2>1, <3>1
  <2> QED
    BY <2>2, <2>3
<1>8. LastOld(fresh)'
  BY <1>2, <1>3, <1>4, <1>5, <1>6 DEF LastOld
<1>9. CursorsFit'
  BY <1>1, <1>2, <1>3, <1>6, <1>8 DEF CursorsFit
<1>10. \A q \in Question, e \in Entry : HasBeenTold(q, e)' <=> HasBeenTold(q, e)
  <2> SUFFICES ASSUME NEW q \in Question, NEW e \in Entry
               PROVE  HasBeenTold(q, e)' <=> HasBeenTold(q, e)
    OBVIOUS
  <2>0. ~Old(fresh)
    BY <1>3, <1>5 DEF Old
  <2>1. CASE q = fresh
    BY <1>2, <2>0, <2>1, QuestionAssumption DEF HasBeenTold, Coming, Going
  <2>2. CASE q # fresh
    <3>1. Old(q)' <=> Old(q)
      BY <1>6, <1>7, <2>2 DEF Old
    <3> QED
      BY <1>2, <2>2, <3>1, QuestionAssumption DEF HasBeenTold, Coming, Going
  <2> QED
    BY <2>1, <2>2
<1> QED
  BY <1>1, <1>2, <1>9, <1>10, ViewQuiet

--------------------------------------------------------------------------------
(* A walk goes on to the next question *)

LEMMA AheadWalk ==
  ASSUME TypeInv, CurrentQuestion \in Listed, UNCHANGED Questions,
         CurrentQuestion' = After(CurrentQuestion), NEW p \in Listed
  PROVE  Ahead(p)' <=> Ahead(p) /\ p # CurrentQuestion
<1> DEFINE c == CurrentQuestion
<1>1. /\ Place(Questions, p) \in 1..Len(Questions) /\ Place(Questions, c) \in 1..Len(Questions)
      /\ Place(Questions, p) = Place(Questions, c) => p = c
      /\ NoQuestion \notin Listed /\ Len(Questions) \in Nat
  BY ListFacts
<1>2. /\ Place(Questions, c) = Len(Questions) => After(c) = NoQuestion
      /\ Place(Questions, c) # Len(Questions) =>
           After(c) \in Listed /\ Place(Questions, After(c)) = Place(Questions, c) + 1
  BY AfterFacts
<1>3. Listed' = Listed
  BY DEF Listed
<1> HIDE DEF c
<1>4. CASE Place(Questions, c) = Len(Questions)
  BY <1>1, <1>2, <1>3, <1>4 DEF Ahead, c
<1>5. CASE Place(Questions, c) # Len(Questions)
  BY <1>1, <1>2, <1>3, <1>5 DEF Ahead, c
<1> QED
  BY <1>4, <1>5

\* The question a walk has come to has been answered
LEMMA WalkFacts ==
  ASSUME ViewInv, Walking, ~AtEnd, UNCHANGED <<Questions, NewQuestions>>,
         CurrentQuestion' = After(CurrentQuestion)
  PROVE  /\ handler \in {"receive", "expire"}
         /\ CurrentQuestion \in Listed /\ CurrentQuestion # NewQuestions
         /\ Old(CurrentQuestion)
         /\ CurrentQuestion' \in Listed \union {NoQuestion}
         /\ {CurrentQuestion', NewQuestions} \subseteq Listed =>
              Place(Questions, CurrentQuestion') <= Place(Questions, NewQuestions)
<1> DEFINE c == CurrentQuestion
<1>1. TypeInv /\ CursorsFit /\ HandlersFit /\ rr # NoEntry
  BY DEF ViewInv, UseInv, Walking
<1>2. handler \in {"receive", "expire"}
  BY <1>1 DEF TypeInv, HandlersFit
<1>3. c \in Listed /\ c # NewQuestions
  BY <1>1 DEF CursorsFit, AtEnd
<1>4. /\ \A p \in Listed : Place(Questions, p) \in 1..Len(Questions)
      /\ \A o, p \in Listed : Place(Questions, o) = Place(Questions, p) => o = p
      /\ NoQuestion \notin Listed /\ Len(Questions) \in Nat
  BY <1>1, ListFacts
<1>5. NewQuestions \in Listed => Place(Questions, c) < Place(Questions, NewQuestions)
  <2> SUFFICES ASSUME NewQuestions \in Listed
               PROVE  Place(Questions, c) < Place(Questions, NewQuestions)
    OBVIOUS
  <2>1. Place(Questions, c) <= Place(Questions, NewQuestions)
    BY <1>1, <1>3 DEF CursorsFit
  <2>2. Place(Questions, c) # Place(Questions, NewQuestions)
    BY <1>3, <1>4
  <2>3. Place(Questions, c) \in Int /\ Place(Questions, NewQuestions) \in Int
    BY <1>3, <1>4
  <2> QED
    BY <2>1, <2>2, <2>3
<1>6. /\ After(c) \in Listed \union {NoQuestion}
      /\ After(c) \in Listed => Place(Questions, After(c)) = Place(Questions, c) + 1
  BY <1>1, <1>3, <1>4, AfterFacts
<1>7. ASSUME After(c) \in Listed, NewQuestions \in Listed
      PROVE  Place(Questions, After(c)) <= Place(Questions, NewQuestions)
  <2>1. Place(Questions, c) \in Int /\ Place(Questions, NewQuestions) \in Int
    BY <1>3, <1>4, <1>7
  <2> QED
    BY <2>1, <1>5, <1>6, <1>7
<1> QED
  BY <1>2, <1>3, <1>5, <1>6, <1>7 DEF Old

LEMMA ViewWalkPass ==
  ASSUME ViewInv, WalkPass
  PROVE  ViewInv'
<1>1. /\ UseInv /\ UseInv' /\ CursorsFit /\ TypeInv /\ HandlersFit
  BY UseWalkPass DEF ViewInv, UseInv
<1>2. /\ Walking /\ ~AtEnd /\ <<rr, CurrentQuestion>> \notin Answers
      /\ CurrentQuestion' = After(CurrentQuestion)
      /\ UNCHANGED <<Questions, NewQuestions, CurrentAnswers, given, cache, handler,
                     CRActiveQuestion, rr, fresh, todo, caller>>
  BY DEF WalkPass, listVars, tellVars, cacheVars, useVars
<1>3. /\ handler \in {"receive", "expire"}
      /\ CurrentQuestion \in Listed
      /\ CurrentQuestion' \in Listed \union {NoQuestion}
      /\ {CurrentQuestion', NewQuestions} \subseteq Listed =>
           Place(Questions, CurrentQuestion') <= Place(Questions, NewQuestions)
  BY <1>2, WalkFacts
<1>4. CursorsFit'
  BY <1>1, <1>2, <1>3 DEF CursorsFit, Listed, Walking
<1>5. \A p \in Listed : Ahead(p)' <=> Ahead(p) /\ p # CurrentQuestion
  BY <1>1, <1>2, <1>3, AheadWalk
<1>6. \A q \in Question, e \in Entry : HasBeenTold(q, e)' <=> HasBeenTold(q, e)
  <2> SUFFICES ASSUME NEW q \in Question, NEW e \in Entry
               PROVE  HasBeenTold(q, e)' <=> HasBeenTold(q, e)
    OBVIOUS
  <2>1. Old(q)' <=> Old(q)
    BY <1>2, SameList
  <2>2. Old(q) => q \in Listed
    BY DEF Old
  <2> QED
    BY <1>2, <1>3, <1>5, <2>1, <2>2 DEF HasBeenTold, Coming, Going
<1> QED
  BY <1>1, <1>2, <1>4, <1>6, ViewQuiet

--------------------------------------------------------------------------------
(* A client is told of a record *)

\* An old question is told of a record that is coming to it.  If it is a duplicate, the
\* active one has been told before and keeps the record in use
LEMMA ViewTellAdd ==
  ASSUME ViewInv, UseInv', CursorsFit', NEW q \in Question, NEW e \in cache,
         TellAdd(q, e), UNCHANGED <<Questions, NewQuestions, cache>>,
         Old(q), <<e, q>> \in Answers, Coming(q, e),
         \A p \in Listed : Old(p) /\ Coming(p, e) => Place(Questions, p) >= Place(Questions, q),
         \A p \in Question, x \in Entry :
           HasBeenTold(p, x)' <=> HasBeenTold(p, x) \/ (p = q /\ x = e)
  PROVE  ViewInv'
<1>1. /\ TypeInv /\ FirstIsActive /\ e \in Entry /\ q \in Listed
      /\ CurrentAnswers \in [Question -> Nat] /\ given \in [Question -> SUBSET Entry]
      /\ CRActiveQuestion \in [Entry -> Question \union {NoQuestion}]
      /\ IsFiniteSet(cache) /\ cache \subseteq Entry
  BY DEF ViewInv, UseInv, TypeInv, Old
<1>2. /\ CurrentAnswers' = [CurrentAnswers EXCEPT ![q] = @ + 1]
      /\ given' = [given EXCEPT ![q] = @ \union {e}]
      /\ AnswerQuestion(q, e)
  BY DEF TellAdd
<1>3. handler # "expire" /\ e \notin given[q]
  BY <1>1 DEF ViewInv, ViewExact, HasBeenTold, Coming, Going
<1>4. ViewExact'
  <2> SUFFICES ASSUME NEW p \in Question, NEW x \in Entry
               PROVE  x \in given'[p] <=> HasBeenTold(p, x)'
    BY DEF ViewExact
  <2>1. x \in given'[p] <=> x \in given[p] \/ (p = q /\ x = e)
    BY <1>1, <1>2
  <2>2. x \in given[p] <=> HasBeenTold(p, x)
    BY DEF ViewInv, ViewExact
  <2> QED
    BY <2>1, <2>2
<1>5. CountExact'
  <2>1. given[q] \subseteq cache
    BY <1>1, <1>3 DEF ViewInv, ViewExact, HasBeenTold, Going
  <2>2. IsFiniteSet(given[q])
    BY <1>1, <2>1, FS_Subset
  <2>3. Cardinality(given[q] \union {e}) = Cardinality(given[q]) + 1
    BY <1>3, <2>2, FS_AddElement
  <2> QED
    BY <1>1, <1>2, <2>3 DEF ViewInv, CountExact
<1>6. CRActiveQuestion'[e] # NoQuestion
  <2>1. CASE ActiveQuestion(q) /\ CRActiveQuestion[e] # q
    BY <1>1, <1>2, <2>1, QuestionAssumption DEF AnswerQuestion
  <2>2. CASE CRActiveQuestion[e] = q
    BY <1>1, <1>2, <2>2, QuestionAssumption DEF AnswerQuestion, useVars
  <2>3. CASE ~ActiveQuestion(q)
    <3>1. DuplicateOf[q] # NoQuestion /\ CRActiveQuestion' = CRActiveQuestion
      BY <1>1, <1>2, <2>3 DEF ActiveQuestion, AnswerQuestion, useVars
    <3>2. PICK p \in Listed : /\ Identity[p] = Identity[q] /\ p # q
                              /\ Place(Questions, p) <= Place(Questions, q)
      BY <1>1, <3>1, ActiveOfIdentity
    <3>3. /\ p \in Question /\ Place(Questions, p) \in Int /\ Place(Questions, q) \in Int
          /\ Place(Questions, p) # Place(Questions, q)
          /\ NewQuestions \in Listed => Place(Questions, NewQuestions) \in Int
      BY <1>1, <3>2, ListFacts
    <3>4. Old(p)
      BY <3>2, <3>3 DEF Old
    <3>5. ~Coming(p, e)
      BY <3>2, <3>3, <3>4
    <3>6. <<e, p>> \in Answers
      BY <1>1, <3>2, <3>3, QuestionAssumption
    <3>7. e \in given[p]
      BY <1>1, <3>3, <3>4, <3>5, <3>6 DEF ViewInv, ViewExact, HasBeenTold
    <3> QED
      BY <3>1, <3>2, <3>7 DEF ViewInv, ToldAreUsed
  <2> QED
    BY <2>1, <2>2, <2>3
<1>7. \A x \in cache : CRActiveQuestion[x] # NoQuestion => CRActiveQuestion'[x] # NoQuestion
  BY <1>1, <1>2, <1>6, QuestionAssumption DEF AnswerQuestion, useVars
<1>8. ToldAreUsed'
  <2> SUFFICES ASSUME NEW x \in cache, NEW p \in Listed, x \in given'[p]
               PROVE  CRActiveQuestion'[x] # NoQuestion
    BY DEF ToldAreUsed, Listed
  <2>1. p \in Question
    BY <1>1, ListFacts
  <2>2. CASE x = e
    BY <1>6, <2>2
  <2>3. CASE x # e
    <3>1. x \in given[p]
      BY <1>1, <1>2, <2>1, <2>3
    <3> QED
      BY <1>7, <3>1 DEF ViewInv, ToldAreUsed
  <2> QED
    BY <2>2, <2>3
<1> QED
  BY <1>4, <1>5, <1>8 DEF ViewInv

LEMMA ViewAnswerTell ==
  ASSUME ViewInv, NEW e \in Entry, AnswerTell(e)
  PROVE  ViewInv'
<1>1. /\ UseInv /\ UseInv' /\ CursorsFit /\ TypeInv
      /\ e \in cache /\ <<e, fresh>> \in Answers /\ fresh # NoQuestion /\ fresh \in Question
      /\ rr = NoEntry
  BY UseAnswerTell DEF ViewInv, UseInv, TypeInv, HandlersFit, AnswerTell
<1>2. /\ handler = "answer" /\ CurrentQuestion = fresh /\ e \in todo /\ todo' = todo \ {e}
      /\ TellAdd(fresh, e)
      /\ caller' = fresh
      /\ UNCHANGED <<Questions, NewQuestions, CurrentQuestion, cache, handler, rr, fresh>>
  BY DEF AnswerTell, TellAdd, AnswerQuestion, listVars, cacheVars
<1>3. CursorsFit'
  BY <1>1, <1>2, SameList DEF CursorsFit
<1>4. Old(fresh)
  BY <1>1, <1>2, ListFacts DEF CursorsFit, LastOld, Old
<1>5. Coming(fresh, e) /\ \A p \in Listed : Coming(p, e) => p = fresh
  BY <1>2 DEF Coming
<1>6. \A p \in Question, x \in Entry :
        HasBeenTold(p, x)' <=> HasBeenTold(p, x) \/ (p = fresh /\ x = e)
  BY <1>1, <1>2, <1>4, SameList DEF HasBeenTold, Coming, Going
<1>7. \A p \in Listed : Old(p) /\ Coming(p, e) => Place(Questions, p) >= Place(Questions, fresh)
  BY <1>1, <1>5, ListFacts
<1> QED
  BY <1>1, <1>2, <1>3, <1>4, <1>5, <1>6, <1>7, ViewTellAdd

LEMMA ViewWalkTell ==
  ASSUME ViewInv, WalkTell
  PROVE  ViewInv'
<1> DEFINE c == CurrentQuestion
<1>1. /\ UseInv /\ UseInv' /\ CursorsFit /\ TypeInv /\ HandlersFit
  BY UseWalkTell DEF ViewInv, UseInv
<1>2. /\ Walking /\ ~AtEnd /\ <<rr, c>> \in Answers /\ rr # NoEntry
      /\ CurrentQuestion' = After(c) /\ caller' = c
      /\ UNCHANGED <<Questions, NewQuestions, cache, handler, rr, fresh, todo>>
  BY DEF WalkTell, Walking, TellAdd, TellRmv, AnswerQuestion, listVars, cacheVars
<1>3. /\ handler \in {"receive", "expire"}
      /\ c \in Listed /\ c # NewQuestions /\ Old(c)
      /\ CurrentQuestion' \in Listed \union {NoQuestion}
      /\ {CurrentQuestion', NewQuestions} \subseteq Listed =>
           Place(Questions, CurrentQuestion') <= Place(Questions, NewQuestions)
  BY <1>2, WalkFacts
<1>4. CursorsFit'
  BY <1>1, <1>2, <1>3 DEF CursorsFit, Listed
<1>5. \A p \in Listed : Ahead(p)' <=> Ahead(p) /\ p # c
  BY <1>1, <1>2, <1>3, AheadWalk
<1>6. \A p : (Old(p)' <=> Old(p)) /\ (Old(p) => p \in Listed)
  BY <1>2, SameList DEF Old
<1>7. c \in Question /\ rr \in Entry /\ Place(Questions, c) \in Int
  BY <1>1, <1>2, <1>3, ListFacts DEF TypeInv
<1>8. Ahead(c)
  BY <1>3, <1>7 DEF Ahead
<1> HIDE DEF c
<1>9. CASE handler = "receive"
  <2>1. rr \in cache /\ TellAdd(c, rr)
    BY <1>1, <1>9 DEF HandlersFit, WalkTell, c
  <2>2. Coming(c, rr)
    BY <1>8, <1>9 DEF Coming
  <2>3. \A p \in Listed : Old(p) /\ Coming(p, rr) => Place(Questions, p) >= Place(Questions, c)
    BY <1>9 DEF Coming, Ahead, c
  <2>4. ASSUME NEW p \in Question, NEW x \in Entry
        PROVE  HasBeenTold(p, x)' <=> HasBeenTold(p, x) \/ (p = c /\ x = rr)
    <3>1. CASE x = rr
      BY <1>2, <1>3, <1>5, <1>6, <1>9, <2>1, <3>1 DEF HasBeenTold, Coming, Going
    <3>2. CASE x # rr
      BY <1>2, <1>6, <1>9, <3>2 DEF HasBeenTold, Coming, Going
    <3> QED
      BY <3>1, <3>2
  <2> QED
    BY <1>1, <1>2, <1>3, <1>4, <1>7, <2>1, <2>2, <2>3, <2>4, ViewTellAdd
<1>10. CASE handler = "expire"
  <2>1. /\ CurrentAnswers' = [CurrentAnswers EXCEPT ![c] = IF @ = 0 THEN 0 ELSE @ - 1]
        /\ given' = [given EXCEPT ![c] = @ \ {rr}]
        /\ AnswerQuestion(c, rr) /\ rr \notin cache
    BY <1>1, <1>2, <1>10 DEF WalkTell, TellRmv, HandlersFit, c
  <2>2. /\ CurrentAnswers \in [Question -> Nat] /\ given \in [Question -> SUBSET Entry]
        /\ CRActiveQuestion \in [Entry -> Question \union {NoQuestion}]
        /\ IsFiniteSet(cache) /\ cache \subseteq Entry
    BY <1>1 DEF TypeInv
  <2>3. ASSUME NEW p \in Question, NEW x \in Entry
        PROVE  HasBeenTold(p, x)' <=> HasBeenTold(p, x) /\ ~(p = c /\ x = rr)
    <3>1. CASE x = rr
      BY <1>2, <1>3, <1>5, <1>6, <1>10, <2>1, <3>1 DEF HasBeenTold, Coming, Going
    <3>2. CASE x # rr
      BY <1>2, <1>6, <1>10, <3>2 DEF HasBeenTold, Coming, Going
    <3> QED
      BY <3>1, <3>2
  <2>4. ViewExact'
    <3> SUFFICES ASSUME NEW p \in Question, NEW x \in Entry
                 PROVE  x \in given'[p] <=> HasBeenTold(p, x)'
      BY DEF ViewExact
    <3>1. x \in given'[p] <=> x \in given[p] /\ ~(p = c /\ x = rr)
      BY <2>1, <2>2, <1>7
    <3>2. x \in given[p] <=> HasBeenTold(p, x)
      BY DEF ViewInv, ViewExact
    <3> QED
      BY <2>3, <3>1, <3>2
  <2>5. CountExact'
    <3>1. rr \in given[c]
      BY <1>2, <1>3, <1>7, <1>8, <1>10 DEF ViewInv, ViewExact, HasBeenTold, Going
    <3>2. given[c] \subseteq cache \union {rr}
      BY <1>7, <2>2 DEF ViewInv, ViewExact, HasBeenTold, Going
    <3>3. IsFiniteSet(given[c])
      BY <2>2, <3>2, FS_AddElement, FS_Subset
    <3>4. /\ Cardinality(given[c] \ {rr}) = Cardinality(given[c]) - 1
          /\ Cardinality(given[c]) # 0
      BY <3>1, <3>3, FS_RemoveElement, FS_EmptySet
    <3> QED
      BY <1>7, <2>1, <2>2, <3>4 DEF ViewInv, CountExact
  <2>6. ToldAreUsed'
    <3> SUFFICES ASSUME NEW x \in cache, NEW p \in Listed, x \in given'[p]
                 PROVE  CRActiveQuestion'[x] # NoQuestion
      BY <1>2 DEF ToldAreUsed, Listed
    <3>1. p \in Question /\ x # rr /\ x \in Entry
      BY <1>1, <2>1, <2>2, ListFacts
    <3>2. x \in given[p]
      BY <1>7, <2>1, <2>2, <3>1
    <3>3. CRActiveQuestion'[x] = CRActiveQuestion[x]
      BY <2>1, <2>2, <3>1 DEF AnswerQuestion, useVars
    <3> QED
      BY <3>2, <3>3 DEF ViewInv, ToldAreUsed
  <2> QED
    BY <1>1, <1>4, <2>4, <2>5, <2>6 DEF ViewInv
<1> QED
  BY <1>3, <1>9, <1>10

--------------------------------------------------------------------------------
(* A walk begins *)

LEMMA WalkBegins ==
  ASSUME TypeInv, UNCHANGED <<Questions, NewQuestions>>,
         CurrentQuestion' = FirstIn(Questions, Question)
  PROVE  /\ CurrentQuestion' \in Listed \union {NoQuestion}
         /\ {CurrentQuestion', NewQuestions} \subseteq Listed =>
              Place(Questions, CurrentQuestion') <= Place(Questions, NewQuestions)
         /\ \A p : Old(p) => Ahead(p)'
<1>1. Questions \in Seq(Question) /\ Distinct(Questions) /\ Listed = ToSet(Questions)
  BY OrderDefs DEF TypeInv
<1>2. Listed \subseteq Question /\ NoQuestion \notin Listed /\ Listed' = Listed
      /\ \A p \in Listed : Place(Questions, p) \in Int
  BY ListFacts, SameList
<1>3. \/ Listed = {} /\ CurrentQuestion' = NoQuestion
      \/ /\ CurrentQuestion' \in Listed
         /\ \A p \in Listed : Place(Questions, CurrentQuestion') <= Place(Questions, p)
  <2>1. \/ /\ \A p \in ToSet(Questions) : p \notin Question
           /\ FirstIn(Questions, Question) = NoQuestion
        \/ /\ FirstIn(Questions, Question) \in ToSet(Questions) \intersect Question
           /\ \A p \in ToSet(Questions) \intersect Question :
                Place(Questions, FirstIn(Questions, Question)) <= Place(Questions, p)
    BY <1>1, FirstInOrder
  <2> QED
    BY <2>1, <1>1, <1>2
<1>4. \A p : Old(p) => Ahead(p)'
  BY <1>2, <1>3 DEF Old, Ahead
<1> QED
  BY <1>2, <1>3, <1>4

LEMMA ViewStore ==
  ASSUME ViewInv, NEW e \in Entry, NEW recycled \in SUBSET Recyclable, Store(e, recycled),
         rrcache_size' \in InitialCacheSize .. MaxCacheSize
  PROVE  ViewInv'
<1>1. /\ UseInv /\ UseInv' /\ CursorsFit /\ TypeInv /\ rr = NoEntry
      /\ cache \subseteq Entry
  BY UseStore DEF ViewInv, UseInv, HandlersFit, TypeInv, Store
<1>2. /\ handler = "idle" /\ e \notin cache
      /\ cache' = (cache \ recycled) \union {e}
      /\ CRActiveQuestion' = [x \in Entry |-> IF x \in recycled THEN NoQuestion
                                              ELSE CRActiveQuestion[x]]
      /\ handler' = "receive" /\ rr' = e
      /\ CurrentQuestion' = FirstIn(Questions, Question)
      /\ UNCHANGED <<Questions, NewQuestions, CurrentAnswers, given, fresh, todo, caller>>
  BY DEF Store, listVars, tellVars
<1>3. /\ CurrentQuestion' \in Listed \union {NoQuestion}
      /\ {CurrentQuestion', NewQuestions} \subseteq Listed =>
           Place(Questions, CurrentQuestion') <= Place(Questions, NewQuestions)
      /\ \A p : Old(p) => Ahead(p)'
  BY <1>1, <1>2, WalkBegins
<1>4. CursorsFit'
  BY <1>1, <1>2, <1>3 DEF CursorsFit, Listed
<1>5. \A x \in recycled : x \in cache /\ x \in Entry /\ CRActiveQuestion[x] = NoQuestion
  BY <1>1 DEF Recyclable
<1>6. \A q \in Question, x \in recycled : ~HasBeenTold(q, x)
  BY <1>5 DEF ViewInv, ViewExact, ToldAreUsed, HasBeenTold, Old
<1>7. \A q \in Question, x \in Entry : HasBeenTold(q, x)' <=> HasBeenTold(q, x)
  <2> SUFFICES ASSUME NEW q \in Question, NEW x \in Entry
               PROVE  HasBeenTold(q, x)' <=> HasBeenTold(q, x)
    OBVIOUS
  <2>1. Old(q)' <=> Old(q)
    BY <1>2, SameList
  <2>2. CASE x = e
    BY <1>2, <1>3, <2>1, <2>2 DEF HasBeenTold, Coming, Going
  <2>3. CASE x \in recycled
    BY <1>2, <1>6, <2>1, <2>3, <1>5 DEF HasBeenTold, Coming, Going
  <2>4. CASE x # e /\ x \notin recycled
    BY <1>2, <2>1, <2>4 DEF HasBeenTold, Coming, Going
  <2> QED
    BY <2>2, <2>3, <2>4
<1>8. ViewExact' /\ CountExact'
  BY <1>2, <1>7, SameView
<1>9. ToldAreUsed'
  <2> SUFFICES ASSUME NEW x \in cache', NEW q \in Listed, x \in given[q]
               PROVE  CRActiveQuestion'[x] # NoQuestion
    BY <1>2 DEF ToldAreUsed, Listed
  <2>1. q \in Question /\ x \in Entry
    BY <1>1, <1>2, ListFacts
  <2>2. HasBeenTold(q, x)
    BY <2>1 DEF ViewInv, ViewExact
  <2>3. x \in cache
    BY <1>2, <2>2 DEF HasBeenTold, Going
  <2>4. CRActiveQuestion[x] # NoQuestion
    BY <2>3 DEF ViewInv, ToldAreUsed
  <2> QED
    BY <1>2, <1>5, <2>1, <2>4
<1> QED
  BY <1>1, <1>4, <1>8, <1>9 DEF ViewInv

LEMMA ViewReceive ==
  ASSUME ViewInv, Receive
  PROVE  ViewInv'
<1>1. PICK e \in Entry : ReceiveRecord(e) \/ ReceiveGrowing(e) \/ ReceiveRecycling(e)
  BY DEF Receive
<1>2. rrcache_size \in InitialCacheSize .. MaxCacheSize
  BY DEF ViewInv, UseInv, TypeInv
<1>3. CASE ReceiveRecord(e)
  BY <1>2, <1>3, ViewStore DEF ReceiveRecord
<1>4. CASE ReceiveGrowing(e)
  BY <1>2, <1>4, ViewStore, SizeAssumption DEF ReceiveGrowing
<1>5. CASE ReceiveRecycling(e)
  BY <1>2, <1>5, ViewStore DEF ReceiveRecycling
<1> QED
  BY <1>1, <1>3, <1>4, <1>5

LEMMA ViewExpire ==
  ASSUME ViewInv, NEW e \in Entry, Expire(e)
  PROVE  ViewInv'
<1>1. /\ UseInv /\ UseInv' /\ CursorsFit /\ TypeInv
  BY UseExpire DEF ViewInv, UseInv
<1>2. /\ handler = "expire" /\ rr = NoEntry /\ e \in cache /\ cache' = cache \ {e}
      /\ UNCHANGED <<Questions, NewQuestions, CurrentAnswers, given, CRActiveQuestion, handler,
                     fresh, todo, caller>>
  BY DEF Expire, Expiring, listVars, tellVars, useVars
<1>3. ToldAreUsed'
  BY <1>2 DEF ViewInv, ToldAreUsed, Listed
<1>4. CASE CRActiveQuestion[e] = NoQuestion
  <2>1. UNCHANGED <<rr, CurrentQuestion>>
    BY <1>4 DEF Expire
  <2>2. CursorsFit'
    BY <1>1, <1>2, <2>1, SameList DEF CursorsFit
  <2>3. \A q \in Question : ~HasBeenTold(q, e)
    BY <1>2, <1>4 DEF ViewInv, ViewExact, ToldAreUsed, HasBeenTold, Old
  <2>4. \A q \in Question, x \in Entry : HasBeenTold(q, x)' <=> HasBeenTold(q, x)
    <3> SUFFICES ASSUME NEW q \in Question, NEW x \in Entry
                 PROVE  HasBeenTold(q, x)' <=> HasBeenTold(q, x)
      OBVIOUS
    <3>1. Old(q)' <=> Old(q)
      BY <1>2, SameList
    <3> QED
      BY <1>2, <2>1, <2>3, <3>1, QuestionAssumption DEF HasBeenTold, Coming, Going
  <2>5. ViewExact' /\ CountExact'
    BY <1>2, <2>4, SameView
  <2> QED
    BY <1>1, <1>3, <2>2, <2>5 DEF ViewInv
<1>5. CASE CRActiveQuestion[e] # NoQuestion
  <2>1. rr' = e /\ CurrentQuestion' = FirstIn(Questions, Question)
    BY <1>5 DEF Expire
  <2>2. /\ CurrentQuestion' \in Listed \union {NoQuestion}
        /\ {CurrentQuestion', NewQuestions} \subseteq Listed =>
             Place(Questions, CurrentQuestion') <= Place(Questions, NewQuestions)
        /\ \A p : Old(p) => Ahead(p)'
    BY <1>1, <1>2, <2>1, WalkBegins
  <2>3. CursorsFit'
    BY <1>1, <1>2, <2>1, <2>2, QuestionAssumption DEF CursorsFit, Listed
  <2>4. \A q \in Question, x \in Entry : HasBeenTold(q, x)' <=> HasBeenTold(q, x)
    <3> SUFFICES ASSUME NEW q \in Question, NEW x \in Entry
                 PROVE  HasBeenTold(q, x)' <=> HasBeenTold(q, x)
      OBVIOUS
    <3>1. Old(q)' <=> Old(q)
      BY <1>2, SameList
    <3> QED
      BY <1>2, <2>1, <2>2, <3>1, QuestionAssumption DEF HasBeenTold, Coming, Going
  <2>5. ViewExact' /\ CountExact'
    BY <1>2, <2>4, SameView
  <2> QED
    BY <1>1, <1>3, <2>3, <2>5 DEF ViewInv
<1> QED
  BY <1>4, <1>5

LEMMA ViewInit == Init => ViewInv
<1> SUFFICES ASSUME Init PROVE ViewInv
  OBVIOUS
<1>1. UseInv
  BY TypeInit DEF UseInv
<1>2. Listed = {}
  BY DEF Init, Listed, ToSet
<1> QED
  BY <1>1, <1>2, FS_EmptySet
  DEF Init, ViewInv, CursorsFit, ViewExact, HasBeenTold, Old, CountExact, ToldAreUsed

LEMMA ViewNext ==
  ASSUME ~StopNew, ViewInv, [Next]_vars
  PROVE  ViewInv'
<1>1. CASE ClientCall
  BY <1>1, ViewStart, ViewStop DEF ClientCall
<1>2. CASE \E e \in Entry : Expire(e)
  BY <1>2, ViewExpire
<1>3. CASE Engine
  BY <1>3, ViewWalkPass, ViewWalkTell, ViewAddEnd, ViewRmvEnd, ViewTakeNewQuestion,
     ViewAnswerNewQuestion, ViewAnswerTell, ViewAnswerEnd DEF Engine
<1>4. CASE UNCHANGED vars
  <2>1. UseInv' /\ CursorsFit'
    BY <1>4, UseNext, SameList DEF vars, ViewInv, CursorsFit
  <2>2. \A q \in Question, e \in Entry : HasBeenTold(q, e)' <=> HasBeenTold(q, e)
    BY <1>4, SameList DEF vars, HasBeenTold, Coming, Going, Ahead
  <2> QED
    BY <1>4, <2>1, <2>2, ViewQuiet DEF vars
<1> QED
  BY <1>1, <1>2, <1>3, <1>4, ViewReturn, ViewReceive, ViewExecute DEF Next

LEMMA ViewAlways ==
  ASSUME ~StopNew
  PROVE  Spec => []ViewInv
<1>1. Init => ViewInv
  BY ViewInit
<1>2. ViewInv /\ [Next]_vars => ViewInv'
  BY ViewNext
<1> QED
  BY <1>1, <1>2, PTL DEF Spec

--------------------------------------------------------------------------------
(* Theorems, while callbacks do not stop questions that are still new *)

\* TypeOK with its bounds: a client has never counted more answers than there are
\* records, and no more records are in use
THEOREM TypeCorrect ==
  ASSUME ~StopNew, IsFiniteSet(Entry)
  PROVE  Spec => []TypeOK
<1>1. ASSUME ViewInv PROVE TypeOK
  <2>1. TypeInv /\ ActiveCounted
    BY <1>1 DEF ViewInv, UseInv
  <2>2. ASSUME NEW S \in SUBSET Entry PROVE Cardinality(S) \in 0 .. Cardinality(Entry)
    BY FS_Subset, FS_CardinalityType
  <2>3. CurrentAnswers \in [Question -> 0 .. Cardinality(Entry)]
    BY <1>1, <2>1, <2>2 DEF ViewInv, CountExact, TypeInv
  <2>4. rrcache_active \in 0 .. Cardinality(Entry)
    <3>1. InUse \in SUBSET Entry
      BY <2>1 DEF InUse, TypeInv
    <3> QED
      BY <2>1, <2>2, <3>1 DEF ActiveCounted
  <2>5. NewQuestions \in Question \union {NoQuestion} /\ todo \subseteq Entry
    BY <1>1, <2>1, ListFacts DEF ViewInv, UseInv, HandlersFit, TypeInv
  <2> QED
    BY <2>1, <2>3, <2>4, <2>5 DEF TypeOK, TypeInv
<1> QED
  BY <1>1, ViewAlways, PTL

\* Cached records are kept in use by active questions they answer, and a record that a
\* client has been told of is in use: it is not recycled before its client hears of its end
THEOREM UsersAreJustified ==
  ASSUME ~StopNew
  PROVE  Spec => []UseJustified
<1>1. ViewInv => UseJustified
  BY DEF ViewInv, UseInv, UsersFit, ToldAreUsed, UseJustified
<1> QED
  BY <1>1, ViewAlways, PTL

\* Between two calls of the engine the client of an answered question knows exactly the
\* matching records of the cache, and CurrentAnswers is their number
THEOREM ViewIsSettled ==
  ASSUME ~StopNew
  PROVE  Spec => []ViewSettled
<1>1. ASSUME ViewInv PROVE ViewSettled
  <2> SUFFICES ASSUME handler = "idle", NEW q \in Listed
               PROVE  /\ given[q] = IF IsNew(q) THEN {} ELSE {e \in cache : <<e, q>> \in Answers}
                      /\ CurrentAnswers[q] = Cardinality(given[q])
    BY DEF ViewSettled
  <2>1. TypeInv /\ q \in Question /\ (Old(q) <=> ~IsNew(q))
    BY <1>1, ListFacts, OldFacts DEF ViewInv, UseInv
  <2>2. given[q] \subseteq Entry /\ cache \subseteq Entry
    BY <2>1 DEF TypeInv
  <2>3. \A e \in Entry : e \in given[q] <=> ~IsNew(q) /\ e \in cache /\ <<e, q>> \in Answers
    <3>1. rr = NoEntry
      BY <1>1 DEF ViewInv, UseInv, HandlersFit
    <3> QED
      BY <1>1, <2>1, <3>1, QuestionAssumption DEF ViewInv, ViewExact, HasBeenTold, Coming, Going
  <2>4. given[q] = IF IsNew(q) THEN {} ELSE {e \in cache : <<e, q>> \in Answers}
    BY <2>2, <2>3
  <2> QED
    BY <1>1, <2>1, <2>4 DEF ViewInv, CountExact
<1> QED
  BY <1>1, ViewAlways, PTL

\* What a walk and the loop of AnswerNewQuestion tell a client is news to it
LEMMA WalkTellsNews ==
  ASSUME ViewInv, WalkTell
  PROVE  /\ CurrentQuestion \in Listed /\ CurrentQuestion \in Question
         /\ rr \in Entry /\ caller = NoQuestion
         /\ <<rr, CurrentQuestion>> \in Answers
         /\ handler = "receive" => rr \in cache /\ rr \notin given[CurrentQuestion]
         /\ handler # "receive" => rr \notin cache /\ rr \in given[CurrentQuestion]
<1> DEFINE c == CurrentQuestion
<1>1. /\ Walking /\ ~AtEnd /\ <<rr, c>> \in Answers /\ rr # NoEntry /\ caller = NoQuestion
      /\ CurrentQuestion' = After(c)
      /\ UNCHANGED <<Questions, NewQuestions>>
  BY DEF WalkTell, Walking, listVars
<1>2. handler \in {"receive", "expire"} /\ c \in Listed /\ Old(c)
  BY <1>1, WalkFacts
<1>3. /\ TypeInv /\ HandlersFit /\ rr \in Entry
      /\ c \in Question /\ Place(Questions, c) \in Int
  BY <1>1, <1>2, ListFacts DEF ViewInv, UseInv, TypeInv
<1>4. Ahead(c)
  BY <1>2, <1>3 DEF Ahead
<1>5. rr \in given[c] <=> HasBeenTold(c, rr)
  BY <1>3 DEF ViewInv, ViewExact
<1> QED
  BY <1>1, <1>2, <1>3, <1>4, <1>5 DEF HandlersFit, HasBeenTold, Coming, Going

LEMMA AnswerTellsNews ==
  ASSUME ViewInv, NEW e \in Entry, AnswerTell(e)
  PROVE  /\ fresh \in Listed /\ fresh \in Question /\ caller = NoQuestion
         /\ e \in cache /\ <<e, fresh>> \in Answers /\ e \notin given[fresh]
<1>1. /\ handler = "answer" /\ CurrentQuestion = fresh /\ e \in todo /\ caller = NoQuestion
      /\ TypeInv /\ HandlersFit /\ CursorsFit
  BY DEF AnswerTell, ViewInv, UseInv
<1>2. fresh \in Listed /\ fresh \in Question
  BY <1>1, ListFacts DEF CursorsFit, LastOld
<1>3. e \notin given[fresh]
  BY <1>1, <1>2 DEF ViewInv, ViewExact, HasBeenTold, Coming, Going
<1> QED
  BY <1>1, <1>2, <1>3 DEF HandlersFit

\* A callback is only ever made for a question that is in the list
THEOREM CallsAreListed ==
  ASSUME ~StopNew
  PROVE  Spec => CallsListed
<1>1. ASSUME ViewInv, [Next]_vars
      PROVE  [caller = NoQuestion /\ caller' # NoQuestion => caller' \in Listed]_vars
  <2> SUFFICES ASSUME Next, caller = NoQuestion, caller' # NoQuestion
               PROVE  caller' \in Listed
    BY <1>1
  <2>1. CASE WalkTell
    BY <1>1, <2>1, WalkTellsNews DEF WalkTell, TellAdd, TellRmv, AnswerQuestion
  <2>2. ASSUME NEW e \in Entry, AnswerTell(e) PROVE caller' \in Listed
    BY <1>1, <2>2, AnswerTellsNews DEF AnswerTell, TellAdd, AnswerQuestion
  <2> QED
    BY <2>1, <2>2
    DEF Next, ClientCall, StartQuery, StopQuery, Return, Receive, ReceiveRecord, ReceiveGrowing,
        ReceiveRecycling, Store, Execute, Expire, Engine, WalkPass, AddEnd, RmvEnd,
        TakeNewQuestion, AnswerNewQuestion, AnswerEnd
<1> QED
  BY <1>1, ViewAlways, PTL DEF Spec, CallsListed

--------------------------------------------------------------------------------
(* The engine shows its clients what MDNSView promises *)

LEMMA ImplementsStore ==
  ASSUME ViewInv, NEW e \in Entry, NEW recycled \in SUBSET Recyclable, Store(e, recycled)
  PROVE  View!Learn(e, recycled) /\ recycled \in SUBSET cache
<1>1. /\ handler = "idle" /\ rr = NoEntry /\ caller = NoQuestion /\ e \notin cache
      /\ cache' = (cache \ recycled) \union {e}
      /\ UNCHANGED <<Questions, given, caller>>
  BY DEF Store, ViewInv, UseInv, HandlersFit, CursorsFit, listVars, tellVars
<1>2. \A x \in recycled : x \in cache /\ x \in Entry /\ CRActiveQuestion[x] = NoQuestion
  BY DEF Recyclable, ViewInv, UseInv, TypeInv
<1>3. \A q \in Question, x \in Entry : x \in given[q] => q \in Listed /\ x \in cache
  BY <1>1 DEF ViewInv, ViewExact, HasBeenTold, Old, Going
<1>4. View!Unseen(e) /\ \A x \in recycled : View!Unseen(x)
  BY <1>1, <1>2, <1>3 DEF View!Unseen, ViewInv, ToldAreUsed
<1> QED
  BY <1>1, <1>2, <1>4 DEF View!Learn, Listed

LEMMA ImplementsNext ==
  ASSUME ViewInv, [Next]_vars
  PROVE  [View!Next]_View!vars
<1>0. TypeInv /\ CursorsFit
  BY DEF ViewInv, UseInv
<1>1. ASSUME NEW q \in Question, StartQuery(q) PROVE View!Ask(q)
  <2>1. q \notin Listed /\ Listed' = Listed \union {q}
    BY <1>0, <1>1, StartFacts
  <2> QED
    BY <1>1, <2>1 DEF StartQuery, View!Ask, cacheVars
<1>2. ASSUME NEW q \in Question, StopQuery(q) PROVE View!Withdraw(q)
  <2>1. q \in Listed /\ Listed' = Listed \ {q}
    BY <1>0, <1>2, StopFacts
  <2> QED
    BY <1>2, <2>1 DEF StopQuery, View!Withdraw, cacheVars
<1>3. CASE Return
  BY <1>3 DEF Return, listVars, tellVars, cacheVars, Listed, View!Next, View!Return
<1>4. ASSUME Receive PROVE View!Next
  <2>1. PICK e \in Entry : Store(e, {}) \/ Store(e, Recyclable)
    BY <1>4 DEF Receive, ReceiveRecord, ReceiveGrowing, ReceiveRecycling
  <2>2. PICK recycled \in SUBSET Recyclable : Store(e, recycled)
    BY <2>1
  <2>3. View!Learn(e, recycled) /\ recycled \in SUBSET cache
    BY <2>2, ImplementsStore
  <2> QED
    BY <2>3 DEF View!Next
<1>5. ASSUME NEW e \in Entry, Expire(e) PROVE View!Forget(e)
  BY <1>0, <1>5 DEF Expire, Expiring, CursorsFit, listVars, tellVars, Listed, View!Forget
<1>6. ASSUME WalkTell PROVE View!Next
  <2>1. /\ Listed' = Listed /\ cache' = cache /\ caller' = CurrentQuestion
        /\ IF handler = "receive" THEN TellAdd(CurrentQuestion, rr) ELSE TellRmv(CurrentQuestion, rr)
    BY <1>6 DEF WalkTell, TellAdd, TellRmv, AnswerQuestion, listVars, cacheVars, Listed
  <2>2. /\ CurrentQuestion \in Listed /\ CurrentQuestion \in Question
        /\ rr \in Entry /\ caller = NoQuestion
        /\ <<rr, CurrentQuestion>> \in Answers
        /\ handler = "receive" => rr \in cache /\ rr \notin given[CurrentQuestion]
        /\ handler # "receive" => rr \notin cache /\ rr \in given[CurrentQuestion]
    BY <1>6, WalkTellsNews
  <2>3. View!Tell(CurrentQuestion, rr) \/ View!Retract(CurrentQuestion, rr)
    BY <2>1, <2>2 DEF TellAdd, TellRmv, View!Tell, View!Retract
  <2> QED
    BY <2>2, <2>3 DEF View!Next
<1>7. ASSUME NEW e \in Entry, AnswerTell(e) PROVE View!Next
  <2>1. /\ Listed' = Listed /\ cache' = cache /\ caller' = fresh /\ TellAdd(fresh, e)
    BY <1>7 DEF AnswerTell, TellAdd, AnswerQuestion, listVars, cacheVars, Listed
  <2>2. View!Tell(fresh, e) /\ fresh \in Question
    BY <1>7, <2>1, AnswerTellsNews DEF TellAdd, View!Tell
  <2> QED
    BY <2>2 DEF View!Next
<1>8. CASE \/ Execute \/ WalkPass \/ AddEnd \/ RmvEnd \/ TakeNewQuestion
           \/ AnswerNewQuestion \/ AnswerEnd \/ UNCHANGED vars
  BY <1>8 DEF Execute, WalkPass, AddEnd, RmvEnd, TakeNewQuestion, AnswerNewQuestion, AnswerEnd,
              Listed, listVars, tellVars, cacheVars, vars, View!vars
<1> QED
  BY <1>1, <1>2, <1>3, <1>4, <1>5, <1>6, <1>7, <1>8 DEF Next, ClientCall, Engine, View!Next

\* Every client is told of each record that answers its question once when it appears and
\* once when it goes, of nothing else, and not once it has stopped asking
THEOREM ViewIsShown ==
  ASSUME ~StopNew
  PROVE  Spec => ViewSpec
<1>1. Init => View!Init
  BY DEF Init, View!Init, Listed, ToSet
<1>2. ViewInv /\ [Next]_vars => [View!Next]_View!vars
  BY ImplementsNext
<1> QED
  BY <1>1, <1>2, ViewAlways, PTL DEF Spec, ViewSpec, View!Spec

================================================================================

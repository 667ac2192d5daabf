---------------------------- MODULE Tables_proofs ----------------------------
(***************************************************************************)
(* What is known of the tables of the other modules: those of DB, whose    *)
(* keys have an order in which they are searched and shown page by page,   *)
(* and those of generated/models, of which an answer and an event are made *)
(* and by which a client reads them.                                       *)
(***************************************************************************)
EXTENDS Models, Tables, SequencesExt, SequenceTheorems, FiniteSetTheorems, TLAPS

-----------------------------------------------------------------------------
(***************************************************************************)
(* The order of a dict's keys is a sequence without duplicates, to which a *)
(* new key is appended and from which one is taken out where it stands.    *)
(***************************************************************************)

Distinct(s) == \A i, j \in DOMAIN s : s[i] = s[j] => i = j
Within(x, s) == \E i \in DOMAIN s : s[i] = x

\* Which elements are left when the i-th is removed.
LEMMA RemoveAtProperties ==
  ASSUME NEW S, NEW s \in Seq(S), NEW i \in DOMAIN s
  PROVE  /\ RemoveAt(s, i) \in Seq(S)
         /\ Len(RemoveAt(s, i)) = Len(s) - 1
         /\ \A k \in 1..(Len(s) - 1) : RemoveAt(s, i)[k] = s[IF k < i THEN k ELSE k + 1]
<1> DEFINE front == SubSeq(s, 1, i - 1)
           back == SubSeq(s, i + 1, Len(s))
<1>0. Len(s) \in Nat /\ i \in 1..Len(s)
  OBVIOUS
<1>1. front \in Seq(S) /\ Len(front) = i - 1 /\ \A k \in 1..(i - 1) : front[k] = s[k]
  BY <1>0, SubSeqProperties
<1>2. back \in Seq(S) /\ Len(back) = Len(s) - i /\ \A k \in 1..(Len(s) - i) : back[k] = s[k + i]
  BY <1>0, SubSeqProperties
<1>3. RemoveAt(s, i) = front \o back
  BY DEF RemoveAt
<1> HIDE DEF front, back
<1>4. /\ front \o back \in Seq(S)
      /\ Len(front \o back) = Len(s) - 1
      /\ \A k \in 1..(Len(s) - 1) : (front \o back)[k] = IF k <= i - 1 THEN front[k] ELSE back[k - (i - 1)]
  <2>1. /\ front \o back \in Seq(S)
        /\ Len(front \o back) = Len(front) + Len(back)
        /\ \A k \in 1..(Len(front) + Len(back)) :
             (front \o back)[k] = IF k <= Len(front) THEN front[k] ELSE back[k - Len(front)]
    BY <1>1, <1>2, ConcatProperties
  <2>2. Len(front) = i - 1 /\ Len(front) + Len(back) = Len(s) - 1
    BY <1>0, <1>1, <1>2
  <2> QED
    BY <2>1, <2>2
<1>5. ASSUME NEW k \in 1..(Len(s) - 1) PROVE (front \o back)[k] = s[IF k < i THEN k ELSE k + 1]
  <2>1. CASE k < i
    BY <1>0, <1>1, <1>4, <2>1
  <2>2. CASE ~(k < i)
    <3>1. (front \o back)[k] = back[k - (i - 1)] /\ k - (i - 1) \in 1..(Len(s) - i)
      BY <1>0, <1>4, <2>2
    <3>2. back[k - (i - 1)] = s[(k - (i - 1)) + i] /\ (k - (i - 1)) + i = k + 1
      BY <1>0, <1>2, <3>1
    <3> QED
      BY <2>2, <3>1, <3>2
  <2> QED
    BY <2>1, <2>2
<1> QED
  BY <1>3, <1>4, <1>5

\* A table stays one without the key, and loses no other.
LEMMA KeyRemoved ==
  ASSUME NEW S, NEW s \in Seq(S), Distinct(s), NEW i \in DOMAIN s
  PROVE  /\ RemoveAt(s, i) \in Seq(S) /\ Distinct(RemoveAt(s, i))
         /\ \A x : Within(x, RemoveAt(s, i)) <=> Within(x, s) /\ x # s[i]
<1> DEFINE rest == RemoveAt(s, i)
<1>0. Len(s) \in Nat /\ i \in 1..Len(s) /\ DOMAIN s = 1..Len(s)
  OBVIOUS
<1>1. /\ rest \in Seq(S) /\ DOMAIN rest = 1..(Len(s) - 1)
      /\ \A k \in 1..(Len(s) - 1) : rest[k] = s[IF k < i THEN k ELSE k + 1]
  BY RemoveAtProperties
<1> HIDE DEF rest
<1>2. ASSUME NEW k \in DOMAIN rest, NEW l \in DOMAIN rest, rest[k] = rest[l] PROVE k = l
  <2>1. s[IF k < i THEN k ELSE k + 1] = s[IF l < i THEN l ELSE l + 1]
    BY <1>1, <1>2
  <2>2. (IF k < i THEN k ELSE k + 1) \in DOMAIN s /\ (IF l < i THEN l ELSE l + 1) \in DOMAIN s
    BY <1>0, <1>1
  <2>3. (IF k < i THEN k ELSE k + 1) = IF l < i THEN l ELSE l + 1
    BY <2>1, <2>2 DEF Distinct
  <2> QED
    BY <1>0, <1>1, <2>3
<1>3. ASSUME NEW k \in DOMAIN rest PROVE Within(rest[k], s) /\ rest[k] # s[i]
  <2> DEFINE j == IF k < i THEN k ELSE k + 1
  <2>1. j \in DOMAIN s /\ j # i /\ rest[k] = s[j]
    BY <1>0, <1>1
  <2> HIDE DEF j
  <2> QED
    BY <2>1 DEF Distinct, Within
<1>4. ASSUME NEW j \in DOMAIN s, j # i PROVE Within(s[j], rest)
  <2> DEFINE k == IF j < i THEN j ELSE j - 1
  <2>1. k \in DOMAIN rest /\ (IF k < i THEN k ELSE k + 1) = j
    BY <1>0, <1>1, <1>4
  <2>2. rest[k] = s[j]
    BY <1>1, <2>1
  <2> HIDE DEF k
  <2> QED
    BY <2>1, <2>2 DEF Within
<1>5. \A x : Within(x, rest) <=> Within(x, s) /\ x # s[i]
  <2>1. ASSUME NEW x, Within(x, rest) PROVE Within(x, s) /\ x # s[i]
    BY <1>3, <2>1 DEF Within
  <2>2. ASSUME NEW x, Within(x, s), x # s[i] PROVE Within(x, rest)
    BY <1>4, <2>2 DEF Within
  <2> QED
    BY <2>1, <2>2
<1> QED
  BY <1>1, <1>2, <1>5 DEF rest, Distinct

\* A table stays one with a key more, if it had not got it.
LEMMA KeyAdded ==
  ASSUME NEW S, NEW s \in Seq(S), Distinct(s), NEW x \in S, ~Within(x, s)
  PROVE  /\ Append(s, x) \in Seq(S) /\ Distinct(Append(s, x))
         /\ \A y : Within(y, Append(s, x)) <=> Within(y, s) \/ y = x
<1> DEFINE more == Append(s, x)
<1>1. /\ more \in Seq(S) /\ DOMAIN more = DOMAIN s \cup {Len(s) + 1} /\ Len(s) + 1 \notin DOMAIN s
      /\ more[Len(s) + 1] = x /\ \A k \in DOMAIN s : more[k] = s[k]
  BY AppendProperties
<1> HIDE DEF more
<1>2. Distinct(more)
  BY <1>1 DEF Distinct, Within
<1>3. \A y : Within(y, more) <=> Within(y, s) \/ y = x
  BY <1>1 DEF Within
<1> QED
  BY <1>1, <1>2, <1>3 DEF more

-----------------------------------------------------------------------------
(***************************************************************************)
(* A search.  The places of the matching elements are counted: each has    *)
(* a rank, later ones a greater one, and no rank is left out, so that the  *)
(* k-th match is there for every k up to their number.                     *)
(***************************************************************************)

\* Every rank up to the number of places is that of one of them, and of one only.
LEMMA Ranks ==
  ASSUME NEW n \in Nat, NEW I \in SUBSET (1..n)
  PROVE  /\ Cardinality(I) \in Nat /\ Cardinality(I) <= n
         /\ \A i \in I : Cardinality({j \in I : j <= i}) \in 1..Cardinality(I)
         /\ \A i, k \in I : Cardinality({j \in I : j <= i}) = Cardinality({j \in I : j <= k}) => i = k
         /\ \A m \in 1..Cardinality(I) : \E i \in I : Cardinality({j \in I : j <= i}) = m
<1> DEFINE Upto(i) == {j \in I : j <= i}
           rank == [i \in I |-> Cardinality(Upto(i))]
<1>1. IsFiniteSet(I) /\ Cardinality(I) \in Nat /\ Cardinality(I) <= n
  <2>1. IsFiniteSet(1..n) /\ Cardinality(1..n) = n
    BY FS_Interval
  <2> QED
    BY <2>1, FS_Subset, FS_CardinalityType
<1>2. ASSUME NEW i \in I
      PROVE  IsFiniteSet(Upto(i)) /\ Cardinality(Upto(i)) \in 1..Cardinality(I)
  <2>1. Upto(i) \in SUBSET I /\ Upto(i) # {}
    OBVIOUS
  <2>2. IsFiniteSet(Upto(i)) /\ Cardinality(Upto(i)) <= Cardinality(I)
    BY <1>1, <2>1, FS_Subset
  <2>3. Cardinality(Upto(i)) \in Nat /\ Cardinality(Upto(i)) # 0
    BY <2>1, <2>2, FS_CardinalityType, FS_EmptySet
  <2> QED
    BY <1>1, <2>2, <2>3
<1>3. ASSUME NEW i \in I, NEW k \in I, Cardinality(Upto(i)) = Cardinality(Upto(k)), i <= k PROVE i = k
  <2>1. Upto(i) \in SUBSET Upto(k)
    <3> SUFFICES ASSUME NEW j \in I, j <= i PROVE j <= k
      OBVIOUS
    <3>1. i \in 1..n /\ k \in 1..n /\ j \in 1..n
      OBVIOUS
    <3> QED
      BY <1>3, <3>1
  <2>2. Upto(k) = Upto(i)
    BY <1>2, <1>3, <2>1, FS_Subset
  <2>3. k \in Upto(k)
    OBVIOUS
  <2> QED
    BY <1>3, <2>2, <2>3
<1>4. ASSUME NEW i \in I, NEW k \in I, Cardinality(Upto(i)) = Cardinality(Upto(k)) PROVE i = k
  <2>1. CASE i <= k
    BY <1>3, <1>4, <2>1
  <2>2. CASE k <= i
    BY <1>3, <1>4, <2>2
  <2> QED
    BY <2>1, <2>2
<1>5. rank \in Surjection(I, 1..Cardinality(I))
  <2>1. rank \in [I -> 1..Cardinality(I)]
    BY <1>2
  <2>2. rank \in Injection(I, 1..Cardinality(I))
    <3> SUFFICES IsInjective(rank)
      BY <2>1 DEF Injection
    <3> QED
      BY <1>4 DEF IsInjective
  <2>3. IsFiniteSet(1..Cardinality(I)) /\ Cardinality(1..Cardinality(I)) = Cardinality(I)
    BY <1>1, FS_Interval
  <2> QED
    BY <2>2, <2>3, FS_Injection
<1>6. \A m \in 1..Cardinality(I) : \E i \in I : Cardinality(Upto(i)) = m
  <2>1. \A m \in 1..Cardinality(I) : \E i \in I : rank[i] = m
    BY <1>5 DEF Surjection
  <2> QED
    BY <2>1
<1> QED
  BY <1>1, <1>2, <1>4, <1>6

\* What a search gives is in the table and matches; what is in the table and
\* matches is given, once if it is there once.
LEMMA MatchingProperties ==
  ASSUME NEW S, NEW s \in Seq(S), NEW T
  PROVE  /\ Matching(s, T) \in Seq(S) /\ Len(Matching(s, T)) <= Len(s)
         /\ \A x : Within(x, Matching(s, T)) <=> Within(x, s) /\ x \in T
         /\ Distinct(s) => Distinct(Matching(s, T))
<1> DEFINE found == {i \in DOMAIN s : s[i] \in T}
           Rank(i) == Cardinality({j \in found : j <= i})
           At(k) == CHOOSE i \in found : Rank(i) = k
           m == Matching(s, T)
<1>1. Len(s) \in Nat /\ found \in SUBSET (1..Len(s)) /\ DOMAIN s = 1..Len(s)
  OBVIOUS
<1>2. m = [k \in 1..Cardinality(found) |-> s[At(k)]]
  BY DEF Matching
<1> HIDE DEF m, found
<1>3. /\ Cardinality(found) \in Nat /\ Cardinality(found) <= Len(s)
      /\ \A i \in found : Rank(i) \in 1..Cardinality(found)
      /\ \A i, k \in found : Rank(i) = Rank(k) => i = k
      /\ \A k \in 1..Cardinality(found) : \E i \in found : Rank(i) = k
  BY <1>1, Ranks
<1> HIDE DEF Rank
<1>4. \A k \in 1..Cardinality(found) : At(k) \in found /\ Rank(At(k)) = k
  BY <1>3
<1>5. \A i \in found : At(Rank(i)) = i
  BY <1>3
<1> HIDE DEF At
<1>6. m \in Seq(S) /\ Len(m) = Cardinality(found) /\ DOMAIN m = 1..Cardinality(found)
  <2>1. \A i \in found : s[i] \in S
    BY <1>1, ElementOfSeq
  <2>2. \A k \in 1..Cardinality(found) : s[At(k)] \in S
    BY <1>4, <2>1
  <2> QED
    BY <1>2, <1>3, <2>2
<1>7. ASSUME NEW x, Within(x, m) PROVE Within(x, s) /\ x \in T
  <2>1. PICK k \in 1..Cardinality(found) : s[At(k)] = x
    BY <1>2, <1>6, <1>7 DEF Within
  <2> QED
    BY <1>4, <2>1 DEF found, Within
<1>8. ASSUME NEW x, Within(x, s), x \in T PROVE Within(x, m)
  <2>1. PICK i \in found : s[i] = x
    BY <1>8 DEF found, Within
  <2>2. Rank(i) \in 1..Cardinality(found) /\ m[Rank(i)] = x
    BY <1>2, <1>3, <1>5, <2>1
  <2> QED
    BY <1>6, <2>2 DEF Within
<1>9. ASSUME Distinct(s), NEW k \in DOMAIN m, NEW l \in DOMAIN m, m[k] = m[l] PROVE k = l
  <2>1. s[At(k)] = s[At(l)] /\ At(k) \in DOMAIN s /\ At(l) \in DOMAIN s
    BY <1>1, <1>2, <1>4, <1>6, <1>9
  <2>2. At(k) = At(l)
    BY <1>9, <2>1 DEF Distinct
  <2> QED
    BY <1>4, <1>6, <2>2
<1> QED
  BY <1>3, <1>6, <1>7, <1>8, <1>9 DEF m, Distinct

\* A set of one element has one.
LEMMA OneElement ==
  ASSUME NEW S, NEW e \in S, \A p \in S : p = e
  PROVE  Cardinality(S) = 1
<1>1. S = {e}
  OBVIOUS
<1> QED
  BY <1>1, FS_Singleton

\* Counted in pages of L, a place is on one page, at one place of it.
LEMMA OnOnePage ==
  ASSUME NEW L \in Nat \ {0}
  PROVE  /\ \A j \in Nat \ {0} : \E k \in 0..j, i \in 1..L : j = k * L + i
         /\ \A k, l \in Nat, i, j \in 1..L : k * L + i = l * L + j => k = l /\ i = j
<1>1. ASSUME NEW j \in Nat \ {0} PROVE \E k \in 0..j, i \in 1..L : j = k * L + i
  <2> DEFINE k == (j - 1) \div L
             i == (j - 1) % L
  <2>1. k \in Nat /\ i \in 0..(L - 1) /\ j - 1 = L * k + i
    OBVIOUS
  <2> HIDE DEF k, i
  <2>2. k <= L * k /\ L * k = k * L /\ k * L \in Nat
    BY <2>1
  <2>3. k \in 0..j /\ i + 1 \in 1..L /\ j = k * L + (i + 1)
    BY <2>1, <2>2
  <2> QED
    BY <2>3
<1>2. ASSUME NEW k \in Nat, NEW l \in Nat, NEW i \in 1..L, NEW j \in 1..L, k * L + i = l * L + j, k < l
      PROVE  FALSE
  <2>1. PICK d \in Nat : l = k + 1 + d
    BY <1>2
  <2>2. l * L = k * L + L + d * L
    BY <2>1
  <2>3. k * L \in Nat /\ d * L \in Nat
    BY <2>1
  <2> QED
    BY <1>2, <2>2, <2>3
<1>3. ASSUME NEW k \in Nat, NEW l \in Nat, NEW i \in 1..L, NEW j \in 1..L, k * L + i = l * L + j
      PROVE  k = l /\ i = j
  <2>1. ~(k < l) /\ ~(l < k)
    BY <1>2, <1>3
  <2>2. k = l
    BY <2>1
  <2>3. k * L \in Nat
    OBVIOUS
  <2> QED
    BY <1>3, <2>2, <2>3
<1> QED
  BY <1>1, <1>3

-----------------------------------------------------------------------------
(* A model reads what it wrote. *)

\* What a constructor took, from_dict takes when to_dict gave it, if what was not given
\* may be None and nothing given is.
LEMMA ReadBack ==
  ASSUME NEW model, NEW given, Validates(model, given), DOMAIN given \subseteq DOMAIN model.fields,
         \A f \in DOMAIN given : given[f] # "null",
         \A f \in DOMAIN model.fields \ DOMAIN given : Default(model, f) = "null" /\ "null" \in model.fields[f]
  PROVE  /\ FromDict(model, ToDict(model, given))
         /\ \A f \in DOMAIN given : f \in DOMAIN ToDict(model, given) /\ ToDict(model, given)[f] = given[f]
<1> DEFINE sent == ToDict(model, given)
           fields == DOMAIN model.fields
           all == [f \in fields |-> IF f \in DOMAIN given THEN given[f] ELSE Default(model, f)]
           kept == {f \in fields : all[f] # "null" \/ f \in model.nullable \cap DOMAIN given}
           got == [f \in fields |-> IF f \in DOMAIN sent /\ sent[f] # "null" THEN sent[f] ELSE Default(model, f)]
<1>1. sent = [f \in kept |-> all[f]]
  BY DEF ToDict, ModelDump
<1>2. \A f \in DOMAIN given : f \in kept /\ all[f] = given[f]
  OBVIOUS
<1>3. \A f \in fields \ DOMAIN given : f \notin kept
  OBVIOUS
<1> HIDE DEF all, kept
<1>4. \A f \in DOMAIN given : f \in DOMAIN sent /\ sent[f] = given[f]
  BY <1>1, <1>2
<1>5. \A f \in fields \ DOMAIN given : f \notin DOMAIN sent
  BY <1>1, <1>3
<1> HIDE DEF sent
<1>6. \A f \in fields : got[f] \in model.fields[f]
  BY <1>4, <1>5 DEF Validates
<1>7. model.required \subseteq fields
  BY DEF Validates
<1>8. Validates(model, got)
  BY <1>6, <1>7 DEF Validates
<1>9. FromDict(model, sent)
  BY <1>8 DEF FromDict
<1> QED
  BY <1>4, <1>9 DEF sent

\* What a model reads has a type the model takes.
LEMMA TypeTells ==
  ASSUME NEW model, NEW dict, FromDict(model, dict), "type" \in DOMAIN model.fields,
         "type" \in DOMAIN dict, dict["type"] # "null"
  PROVE  dict["type"] \in model.fields["type"]
BY DEF FromDict, Validates

\* What one model of a choice reads, and no other, the choice reads by its type.
LEMMA OneReads ==
  ASSUME NEW models, NEW dict, NEW model \in models, FromDict(model, dict),
         \A m \in models : FromDict(m, dict) => m = model
  PROVE  ReadAs(models, dict) = dict.type
<1>1. Cardinality({m \in models : FromDict(m, dict)}) = 1
  BY OneElement
<1> QED
  BY <1>1 DEF ReadAs
=============================================================================

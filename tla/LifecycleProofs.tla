-------------------------- MODULE LifecycleProofs ---------------------------
(***************************************************************************)
(* What is proved of the process and its configuration file.               *)
(*                                                                         *)
(* Two processes that are not started at the same instant never run        *)
(* together, no thread outlives its server, and a rewriting of the file    *)
(* keeps every setting of every car.  The last needs what the rewriting    *)
(* computes: the lines of the cars are found in their order (InOrder), so  *)
(* that the first line that sets an attribute stays the first one.         *)
(*                                                                         *)
(* Of the words of a file nothing is assumed but that they hold the        *)
(* program's own, and not the "unset" of a value that was never read; of   *)
(* the numbers, that a number the program wrote is read as it was written. *)
(***************************************************************************)
EXTENDS Lifecycle, FiniteSetTheorems, SequenceTheorems, WellFoundedInduction, TLAPS

(* Numbers and their order. *)

\* A set of numbers that is not empty has a least element.
LEMMA LeastElement ==
  ASSUME NEW T, T \subseteq Nat, T # {}
  PROVE  \E x \in T : \A y \in T : x <= y
<1>1. \E x \in T : \A y \in T : << y, x >> \notin OpToRel(<, Nat)
  BY NatLessThanWellFounded, WFMin
<1>2. PICK x \in T : \A y \in T : << y, x >> \notin OpToRel(<, Nat)
  BY <1>1
<1>3. ASSUME NEW y \in T
      PROVE  x <= y
  <2>1. x \in Nat /\ y \in Nat
    OBVIOUS
  <2>2. << y, x >> \notin OpToRel(<, Nat)
    BY <1>2
  <2>3. ~(y < x)
    BY <2>1, <2>2 DEF OpToRel
  <2>4. QED
    BY <2>1, <2>3
<1>4. QED
  BY <1>3

Increasing(s) == \A i, j \in DOMAIN s : i < j => s[i] < s[j]

\* A set of positions can be listed in its order, and such a list leaves no
\* position out: what CarLines relies on.
LEMMA InOrder ==
  ASSUME NEW n \in Nat, NEW at, at \subseteq 1 .. n
  PROVE  /\ Cardinality(at) \in Nat
         /\ \E s \in [1 .. Cardinality(at) -> at] : Increasing(s)
         /\ \A s \in [1 .. Cardinality(at) -> at] :
              Increasing(s) => \A m \in at : \E k \in 1 .. Cardinality(at) : s[k] = m
<1> DEFINE upto(m) == {k \in at : k <= m}
           size    == Cardinality(at)
           rank    == [m \in at |-> Cardinality(upto(m))]
<1>0. \A m \in at : m \in Nat
  OBVIOUS
<1>1. IsFiniteSet(1 .. n)
  BY FS_Interval
<1>2. IsFiniteSet(at) /\ size \in Nat
  BY <1>1, FS_Subset, FS_CardinalityType
<1>3. ASSUME NEW m \in at
      PROVE  /\ IsFiniteSet(upto(m))
             /\ rank[m] \in 1 .. size
  <2>1. upto(m) \in SUBSET at /\ {m} \in SUBSET upto(m)
    OBVIOUS
  <2>2. IsFiniteSet(upto(m)) /\ Cardinality(upto(m)) <= size
    BY <2>1, <1>2, FS_Subset
  <2>3. Cardinality({m}) <= Cardinality(upto(m))
    BY <2>1, <2>2, FS_Subset
  <2>4. QED
    <3>1. Cardinality({m}) = 1 /\ Cardinality(upto(m)) \in Nat
      BY <2>2, FS_CardinalityType, FS_Singleton
    <3> HIDE DEF upto
    <3>2. rank[m] = Cardinality(upto(m))
      OBVIOUS
    <3>3. QED
      BY <3>1, <3>2, <2>2, <2>3, <1>2
<1>4. ASSUME NEW l \in at, NEW m \in at, l < m
      PROVE  rank[l] < rank[m]
  <2>1. upto(l) \in SUBSET upto(m) /\ upto(l) # upto(m)
    <3>1. l \in Nat /\ m \in Nat /\ m \in upto(m) /\ m \notin upto(l)
      BY <1>0, <1>4
    <3>2. \A k \in upto(l) : k \in upto(m)
      BY <1>0, <1>4
    <3>3. QED
      BY <3>1, <3>2
  <2>2. Cardinality(upto(l)) <= Cardinality(upto(m)) /\ Cardinality(upto(l)) # Cardinality(upto(m))
    BY <2>1, <1>3, FS_Subset
  <2>3. QED
    BY <2>2, <1>3
<1>5. rank \in Injection(at, 1 .. size)
  <2>1. rank \in [at -> 1 .. size]
    BY <1>3
  <2>2. \A l, m \in at : rank[l] = rank[m] => l = m
    <3>1. SUFFICES ASSUME NEW l \in at, NEW m \in at, l # m
                   PROVE  rank[l] # rank[m]
      OBVIOUS
    <3>2. l < m \/ m < l
      BY <3>1, <1>0
    <3>3. rank[l] \in Int /\ rank[m] \in Int
      BY <1>3, <1>2
    <3>4. QED
      BY <3>2, <3>3, <1>4
  <2>3. QED
    BY <2>1, <2>2 DEF Injection, IsInjective
<1>6. IsFiniteSet(1 .. size) /\ Cardinality(1 .. size) = size
  BY <1>2, FS_Interval
<1>7. rank \in Surjection(at, 1 .. size)
  BY <1>5, <1>6, <1>2, FS_Injection
<1>8. \E s \in [1 .. size -> at] : Increasing(s)
  <2> DEFINE s == [k \in 1 .. size |-> CHOOSE m \in at : rank[m] = k]
  <2>1. ASSUME NEW k \in 1 .. size
        PROVE  s[k] \in at /\ rank[s[k]] = k
    <3>1. \E m \in at : rank[m] = k
      BY <1>7 DEF Surjection
    <3>2. QED
      BY <3>1
  <2>2. s \in [1 .. size -> at]
    BY <2>1
  <2>3. ASSUME NEW i \in 1 .. size, NEW j \in 1 .. size, i < j
        PROVE  s[i] < s[j]
    <3>1. s[i] \in at /\ s[j] \in at /\ rank[s[i]] = i /\ rank[s[j]] = j
      BY <2>1
    <3> HIDE DEF s, rank
    <3>2. s[i] \in Nat /\ s[j] \in Nat
      BY <3>1, <1>0
    <3>3. s[i] # s[j]
      BY <3>1, <2>3
    <3>4. ~(s[j] < s[i])
      <4>1. i \in Nat /\ j \in Nat /\ ~(j < i)
        BY <2>3, <1>2
      <4>2. s[j] < s[i] => rank[s[j]] < rank[s[i]]
        BY <3>1, <1>4
      <4>3. QED
        BY <4>1, <4>2, <3>1
    <3>5. QED
      BY <3>2, <3>3, <3>4
  <2>4. DOMAIN s = 1 .. size
    OBVIOUS
  <2>5. QED
    BY <2>2, <2>3, <2>4 DEF Increasing
<1>9. ASSUME NEW s \in [1 .. size -> at], Increasing(s)
      PROVE  \A m \in at : \E k \in 1 .. size : s[k] = m
  <2>1. s \in Injection(1 .. size, at)
    <3>1. SUFFICES ASSUME NEW i \in 1 .. size, NEW j \in 1 .. size, i # j
                   PROVE  s[i] # s[j]
      BY DEF Injection, IsInjective
    <3>2. i < j \/ j < i
      BY <1>2, <3>1
    <3>3. s[i] \in Nat /\ s[j] \in Nat
      BY <1>0, <1>9
    <3>4. QED
      BY <3>2, <3>3, <1>9 DEF Increasing
  <2>2. s \in Surjection(1 .. size, at)
    BY <2>1, <1>6, <1>2, FS_Injection
  <2>3. QED
    BY <2>2 DEF Surjection
<1>10. QED
  BY <1>2, <1>8, <1>9

-----------------------------------------------------------------------------
(* The lines of a file. *)

\* A line sets an attribute when it starts with its words and goes on.
LEMMA SetsFacts ==
  ASSUME NEW line \in Seq(Words), NEW attribute \in Seq(Words)
  PROVE  /\ Sets(line, attribute)
              <=> /\ Len(line) > Len(attribute)
                  /\ \A i \in 1 .. Len(attribute) : line[i] = attribute[i]
         /\ Sets(line, attribute) => Word(line, attribute) \in Words
<1> DEFINE front == SubSeq(line, 1, Len(attribute))
<1>1. Len(line) \in Nat /\ Len(attribute) \in Nat
  BY LenProperties
<1>2. ASSUME Len(line) > Len(attribute)
      PROVE  front = attribute <=> \A i \in 1 .. Len(attribute) : line[i] = attribute[i]
  <2>1. \A i \in 1 .. Len(attribute) : line[i] \in Words
    BY <1>1, <1>2, ElementOfSeq
  <2>2. /\ front \in Seq(Words)
        /\ Len(front) = Len(attribute)
        /\ \A i \in 1 .. Len(attribute) : front[i] = line[i]
    <3>1. 1 \in Int /\ Len(attribute) \in Int /\ Len(attribute) - 1 + 1 = Len(attribute)
      BY <1>1
    <3>2. \A i \in 1 .. Len(attribute) : i + 1 - 1 = i
      BY <1>1
    <3>3. /\ front \in Seq(Words)
          /\ Len(front) = IF 1 <= Len(attribute) THEN Len(attribute) - 1 + 1 ELSE 0
          /\ \A i \in 1 .. Len(attribute) - 1 + 1 : front[i] = line[1 + i - 1]
      BY <3>1, <2>1, SubSeqProperties
    <3> HIDE DEF front
    <3>4. QED
      BY <3>1, <3>2, <3>3, <1>1
  <2> HIDE DEF front
  <2>3. QED
    BY <2>2, SeqEqual
<1>3. ASSUME Len(line) > Len(attribute)
      PROVE  Word(line, attribute) \in Words
  BY <1>1, <1>3, ElementOfSeq DEF Word
<1>4. QED
  BY <1>2, <1>3 DEF Sets

\* There is one line that counts for an attribute when any line sets it.
LEMMA SettingFacts ==
  ASSUME NEW old, Len(old) \in Nat, NEW attribute
  PROVE  /\ Setting(old, attribute) = {}
              <=> \A n \in 1 .. Len(old) : ~Sets(old[n], attribute)
         /\ \A n \in Setting(old, attribute) :
              (CHOOSE m \in Setting(old, attribute) : TRUE) = n
<1> DEFINE all == {n \in 1 .. Len(old) : Sets(old[n], attribute)}
           set == Setting(old, attribute)
<1>1. set \subseteq all
  BY DEF Setting
<1>2. ASSUME all # {}
      PROVE  set # {}
  <2>1. PICK n \in all : \A m \in all : n <= m
    <3>1. all \subseteq Nat
      OBVIOUS
    <3> HIDE DEF all
    <3>2. QED
      BY <3>1, <1>2, LeastElement
  <2>2. \A k \in 1 .. n - 1 : ~Sets(old[k], attribute)
    <3>1. SUFFICES ASSUME NEW k \in 1 .. n - 1, Sets(old[k], attribute)
                   PROVE  FALSE
      OBVIOUS
    <3>2. k \in all /\ ~(n <= k)
      BY <3>1
    <3>3. QED
      BY <3>2, <2>1
  <2>3. n \in set
    BY <2>2 DEF Setting
  <2>4. QED
    BY <2>3
<1>3. ASSUME NEW n \in set, NEW m \in set
      PROVE  n = m
  <2>1. ASSUME NEW k \in set, NEW l \in set
        PROVE  ~(k < l)
    <3>1. k \in 1 .. Len(old) /\ l \in 1 .. Len(old) /\ Sets(old[k], attribute)
      BY DEF Setting
    <3>2. \A j \in 1 .. l - 1 : ~Sets(old[j], attribute)
      BY DEF Setting
    <3>3. k < l => k \in 1 .. l - 1
      BY <3>1
    <3>4. QED
      BY <3>1, <3>2, <3>3
  <2>2. n \in Int /\ m \in Int
    BY DEF Setting
  <2>3. ~(n < m) /\ ~(m < n)
    BY <2>1
  <2>4. QED
    BY <2>2, <2>3
<1>4. set = {} <=> all = {}
  BY <1>1, <1>2
<1> HIDE DEF set
<1>5. ASSUME NEW n \in set
      PROVE  (CHOOSE m \in set : TRUE) = n
  <2>1. (CHOOSE m \in set : TRUE) \in set
    OBVIOUS
  <2>2. QED
    BY <2>1, <1>3
<1>6. QED
  BY <1>4, <1>5 DEF set

\* The line that sets an attribute, where none before it does, is the one that counts.
LEMMA IsSetting ==
  ASSUME NEW old, NEW attribute, NEW n \in 1 .. Len(old),
         Sets(old[n], attribute), \A k \in 1 .. n - 1 : ~Sets(old[k], attribute)
  PROVE  n \in Setting(old, attribute)
BY DEF Setting

\* Where the cars' lines of a file are in it.
Places(lines, old, s) ==
  /\ s \in [1 .. Len(lines) -> 1 .. Len(old)]
  /\ Increasing(s)
  /\ \A k \in DOMAIN s : lines[k] = old[s[k]] /\ IsCarLine(old[s[k]])
  /\ \A n \in 1 .. Len(old) : IsCarLine(old[n]) => \E k \in DOMAIN s : s[k] = n

\* The cars' lines are those of the file, in their order.
LEMMA CarLinesFacts ==
  ASSUME NEW old \in Seq(Seq(Words))
  PROVE  /\ CarLines(old) \in Seq(Seq(Words))
         /\ \E s : Places(CarLines(old), old, s)
<1> DEFINE at      == {n \in 1 .. Len(old) : IsCarLine(old[n])}
           size    == Cardinality(at)
           inOrder == CHOOSE s \in [1 .. size -> at] :
                        \A i, j \in DOMAIN s : i < j => s[i] < s[j]
           lines   == CarLines(old)
<1>1. Len(old) \in Nat
  BY LenProperties
<1>2. /\ size \in Nat
      /\ \E s \in [1 .. size -> at] : Increasing(s)
      /\ \A s \in [1 .. size -> at] : Increasing(s) => \A m \in at : \E k \in 1 .. size : s[k] = m
  BY <1>1, InOrder
<1>3. inOrder \in [1 .. size -> at] /\ Increasing(inOrder)
  <2>1. \E s \in [1 .. size -> at] : \A i, j \in DOMAIN s : i < j => s[i] < s[j]
    BY <1>2 DEF Increasing
  <2> HIDE DEF at
  <2>2. QED
    BY <2>1 DEF Increasing
<1>4. lines = [k \in 1 .. size |-> old[inOrder[k]]]
  <2>1. lines = [k \in DOMAIN inOrder |-> old[inOrder[k]]]
    BY DEF CarLines
  <2>2. DOMAIN inOrder = 1 .. size
    BY <1>3
  <2>3. QED
    BY <2>1, <2>2
<1>5. \A m \in at : m \in 1 .. Len(old) /\ IsCarLine(old[m]) /\ old[m] \in Seq(Words)
  BY <1>1, ElementOfSeq
<1> HIDE DEF inOrder, at, lines
<1>6. lines \in Seq(Seq(Words)) /\ Len(lines) = size
  <2>1. lines \in [1 .. size -> Seq(Words)]
    BY <1>3, <1>4, <1>5
  <2>2. QED
    BY SMTT(30), <2>1, <1>2
<1>7. inOrder \in [1 .. Len(lines) -> 1 .. Len(old)]
  BY <1>3, <1>5, <1>6
<1>8. \A k \in DOMAIN inOrder : lines[k] = old[inOrder[k]] /\ IsCarLine(old[inOrder[k]])
  BY <1>3, <1>4, <1>5
<1>9. \A n \in 1 .. Len(old) : IsCarLine(old[n]) => \E k \in DOMAIN inOrder : inOrder[k] = n
  <2>1. \A m \in at : \E k \in 1 .. size : inOrder[k] = m
    BY <1>2, <1>3
  <2>2. QED
    BY <2>1, <1>3 DEF at
<1>10. Places(lines, old, inOrder)
  BY <1>3, <1>7, <1>8, <1>9 DEF Places
<1>11. QED
  BY <1>6, <1>10 DEF lines

\* Every attribute is written once.
LEMMA OrderFacts ==
  /\ Len(Order) = 5
  /\ \A k \in 1 .. 5 : Order[k] \in Attributes
  /\ \A a \in Attributes : \E k \in 1 .. 5 : Order[k] = a
  /\ \A j, k \in 1 .. 5 : j # k => Order[j] # Order[k]
  /\ \A a \in Attributes : a # Car
BY DEF Order, Attributes, Car

\* A flag that was written is read as it was.
LEMMA FlagFacts ==
  \A word : Flag(word) \in {"0", "1"} /\ Flag(Flag(word)) = Flag(word)
BY ConfigFileAssumption DEF Flag

\* A car's attribute is its name after the common prefix.
LEMMA CarAttributeFacts ==
  ASSUME NEW car \in Seq(Words) \ {<< >>}
  PROVE  /\ CarAttribute(car) \in Seq(Words)
         /\ Len(CarAttribute(car)) = Len(car) + 1
         /\ Len(car) \in Nat \ {0}
         /\ CarAttribute(car)[1] = Car
         /\ \A i \in 1 .. Len(car) : CarAttribute(car)[i + 1] = car[i]
<1> DEFINE head == << Car, car[1] >>
<1>1. /\ Len(car) \in Nat \ {0}
      /\ Tail(car) \in Seq(Words)
      /\ Len(Tail(car)) = Len(car) - 1
      /\ \A i \in 1 .. Len(Tail(car)) : Tail(car)[i] = car[i + 1]
  BY HeadTailProperties, EmptySeq
<1>2. car[1] \in Words
  BY <1>1, ElementOfSeq
<1>3. head \in Seq(Words) /\ Len(head) = 2 /\ head[1] = Car /\ head[2] = car[1]
  BY <1>2, ConfigFileAssumption DEF Literals
<1> HIDE DEF head
<1>4. /\ head \o Tail(car) \in Seq(Words)
      /\ Len(head \o Tail(car)) = 2 + Len(Tail(car))
      /\ \A i \in 1 .. 2 + Len(Tail(car)) :
           (head \o Tail(car))[i] = IF i <= 2 THEN head[i] ELSE Tail(car)[i - 2]
  <2>1. /\ head \o Tail(car) \in Seq(Words)
        /\ Len(head \o Tail(car)) = Len(head) + Len(Tail(car))
        /\ \A i \in 1 .. Len(head) + Len(Tail(car)) :
             (head \o Tail(car))[i] = IF i <= Len(head) THEN head[i] ELSE Tail(car)[i - Len(head)]
    BY ZenonT(30), <1>1, <1>3, ConcatProperties
  <2>2. QED
    BY <2>1, <1>3
<1>5. CarAttribute(car) = head \o Tail(car)
  BY DEF CarAttribute, head
<1> DEFINE own == CarAttribute(car)
<1> HIDE DEF own
<1>6. /\ own \in Seq(Words) /\ Len(own) = Len(car) + 1
      /\ \A i \in 1 .. Len(car) + 1 : own[i] = IF i <= 2 THEN head[i] ELSE Tail(car)[i - 2]
  BY <1>1, <1>4, <1>5 DEF own
<1>7. own[1] = Car
  BY <1>6, <1>3, <1>1
<1>8. ASSUME NEW i \in 1 .. Len(car)
      PROVE  own[i + 1] = car[i]
  <2>1. CASE i = 1
    BY <2>1, <1>6, <1>3, <1>1
  <2>2. CASE i # 1
    <3>1. i + 1 \in 1 .. Len(car) + 1 /\ ~(i + 1 <= 2) /\ i + 1 - 2 = i - 1
      BY <2>2, <1>1
    <3>2. i - 1 \in 1 .. Len(Tail(car)) /\ i - 1 + 1 = i
      BY <2>2, <1>1
    <3>3. own[i + 1] = Tail(car)[i - 1]
      BY <3>1, <1>6
    <3>4. QED
      BY <3>2, <3>3, <1>1
  <2>3. QED
    BY <2>1, <2>2
<1>9. QED
  BY <1>1, <1>6, <1>7, <1>8 DEF own

\* What is read: values of the file or defaults, of the line that counts.
LEMMA ValuesFacts ==
  ASSUME NEW old \in Seq(Seq(Words)), NEW car \in Seq(Words)
  PROVE  /\ \A a \in Attributes :
              /\ Values(old, car).attribute[a] \in Words
              /\ a \in Flags => Values(old, car).attribute[a] \in {"0", "1"}
              /\ a = "ServerPort" =>
                   atoi[Values(old, car).attribute[a]] = Values(old, car).attribute[a]
              /\ \A n \in Setting(old, << a >>) :
                   Values(old, car).attribute[a] = ValueOf(a, old[n])
         /\ Values(old, car).weight \in {"0", "1"}
         /\ car = << >> => Values(old, car).weight = "0"
         /\ Setting(old, CarAttribute(car)) = {} => Values(old, car).weight = "0"
         /\ car # << >> => \A n \in Setting(old, CarAttribute(car)) :
              Values(old, car).weight = Flag(Word(old[n], CarAttribute(car)))
         /\ Values(old, car).attribute \in [Attributes -> Words]
<1> DEFINE values == Values(old, car)
           of(a)  == Setting(old, << a >>)
           own    == CarAttribute(car)
<1>1. values.attribute = [a \in Attributes |->
                            IF of(a) = {} THEN Defaults[a]
                            ELSE ValueOf(a, old[CHOOSE n \in of(a) : TRUE])]
  BY DEF Values
<1>2. values.weight = IF car = << >> \/ Setting(old, own) = {} THEN "0"
                      ELSE Flag(Word(old[CHOOSE n \in Setting(old, own) : TRUE], own))
  BY DEF Values
<1>3. Len(old) \in Nat
  BY LenProperties
<1>4. {"0", "1", "48900"} \subseteq Words /\ Attributes \subseteq Words
  BY ConfigFileAssumption DEF Literals
<1> HIDE DEF values, own
<1>5. ASSUME NEW a \in Attributes
      PROVE  /\ values.attribute[a] \in Words
             /\ a \in Flags => values.attribute[a] \in {"0", "1"}
             /\ a = "ServerPort" => atoi[values.attribute[a]] = values.attribute[a]
             /\ \A n \in of(a) : values.attribute[a] = ValueOf(a, old[n])
  <2>1. values.attribute[a] = IF of(a) = {} THEN Defaults[a]
                              ELSE ValueOf(a, old[CHOOSE n \in of(a) : TRUE])
    BY <1>1
  <2>2. CASE of(a) = {}
    <3>1. /\ Defaults[a] \in {"0", "1", "48900"}
          /\ a \in Flags => Defaults[a] \in {"0", "1"}
          /\ a = "ServerPort" => Defaults[a] = "48900"
      BY DEF Defaults, Attributes, Flags
    <3>2. QED
      BY <2>1, <2>2, <3>1, <1>4, ConfigFileAssumption
  <2>3. CASE of(a) # {}
    <3>1. PICK n \in of(a) : TRUE
      BY <2>3
    <3>2. n \in 1 .. Len(old) /\ Sets(old[n], << a >>)
      BY <3>1 DEF Setting
    <3>3. old[n] \in Seq(Words) /\ << a >> \in Seq(Words)
      BY <3>2, <1>4, ElementOfSeq
    <3>4. Word(old[n], << a >>) \in Words
      BY <3>2, <3>3, SetsFacts
    <3>5. /\ ValueOf(a, old[n]) \in Words
          /\ a \in Flags => ValueOf(a, old[n]) \in {"0", "1"}
          /\ a = "ServerPort" => atoi[ValueOf(a, old[n])] = ValueOf(a, old[n])
      <4>1. CASE a \in Flags
        BY <3>4, <4>1, <1>4, FlagFacts DEF ValueOf, Flags
      <4>2. CASE a \notin Flags
        BY <3>4, <4>2, ConfigFileAssumption DEF ValueOf
      <4>3. QED
        BY <4>1, <4>2
    <3>6. \A m \in of(a) : values.attribute[a] = ValueOf(a, old[m])
      BY <2>1, <2>3, <1>3, SettingFacts
    <3> HIDE DEF of
    <3>7. QED
      BY <3>1, <3>5, <3>6
  <2>4. QED
    BY <2>2, <2>3
<1>6. /\ values.weight \in {"0", "1"}
      /\ car = << >> => values.weight = "0"
      /\ Setting(old, own) = {} => values.weight = "0"
      /\ car # << >> => \A n \in Setting(old, own) : values.weight = Flag(Word(old[n], own))
  BY <1>2, <1>3, SettingFacts, FlagFacts
<1>7. values.attribute \in [Attributes -> Words]
  <2>1. DOMAIN values.attribute = Attributes
    BY <1>1
  <2> HIDE DEF of
  <2>2. QED
    BY <2>1, <1>1, <1>5
<1>8. QED
  BY <1>5, <1>6, <1>7 DEF values, own

-----------------------------------------------------------------------------
(* The rewriting. *)

LEMMA FunctionIsSequence ==
  ASSUME NEW T, NEW n \in Nat, NEW f \in [1 .. n -> T]
  PROVE  f \in Seq(T) /\ Len(f) = n
OBVIOUS

\* What is written of a reading is read as it was written.
LEMMA WrittenFacts ==
  ASSUME NEW old \in Seq(Seq(Words)), NEW car \in Seq(Words), NEW a \in Attributes
  PROVE  LET text == AsWritten(Values(old, car)).attribute[a]
         IN  /\ text \in Words
             /\ text = Text(a, Values(old, car).attribute[a])
             /\ \A line : Word(line, << a >>) = text => ValueOf(a, line) = text
<1> DEFINE value == Values(old, car).attribute[a]
           text  == AsWritten(Values(old, car)).attribute[a]
<1>1. /\ value \in Words
      /\ a \in Flags => value \in {"0", "1"}
      /\ a = "ServerPort" => atoi[value] = value
  BY ValuesFacts
<1>2. text = Text(a, value)
  BY DEF AsWritten
<1> HIDE DEF value, text
<1>3. text \in Words
  BY <1>1, <1>2, ConfigFileAssumption DEF Text
<1>4. ASSUME NEW line, Word(line, << a >>) = text
      PROVE  ValueOf(a, line) = text
  <2>1. CASE a \in Flags
    <3>1. text \in {"0", "1"}
      BY <2>1, <1>1, <1>2 DEF Text, Flags
    <3>2. ValueOf(a, line) = Flag(text)
      BY <2>1, <1>4 DEF ValueOf, Flags
    <3>3. Flag(text) = text
      BY <3>1, ConfigFileAssumption DEF Flag
    <3>4. QED
      BY <3>2, <3>3
  <2>2. CASE a = "ServerPort"
    <3>1. text = value /\ atoi[value] = value
      BY <2>2, <1>1, <1>2 DEF Text
    <3>2. ValueOf(a, line) = atoi[text]
      BY <2>2, <1>4 DEF ValueOf, Flags
    <3>3. QED
      BY <3>1, <3>2
  <2>3. CASE a = "ExtraLapsOfFuel"
    <3>1. text = sixDigits[value]
      BY <2>3, <1>2 DEF Text
    <3>2. atof[text] = text
      BY <3>1, <1>1, ConfigFileAssumption
    <3>3. ValueOf(a, line) = atof[text]
      BY <2>3, <1>4 DEF ValueOf, Flags
    <3>4. QED
      BY <3>2, <3>3
  <2>4. QED
    BY <2>1, <2>2, <2>3 DEF Attributes, Flags
<1>5. QED
  BY <1>2, <1>3, <1>4 DEF value, text

\* A reading is another's as it was written when all their values are.
LEMMA ValuesEqual ==
  ASSUME NEW car \in Seq(Words),
         NEW old \in Seq(Seq(Words)), NEW new \in Seq(Seq(Words)),
         \A a \in Attributes :
           Values(new, car).attribute[a] = AsWritten(Values(old, car)).attribute[a],
         Values(new, car).weight = Values(old, car).weight
  PROVE  Values(new, car) = AsWritten(Values(old, car))
<1> DEFINE attribute == AsWritten(Values(old, car)).attribute
<1>1. /\ Values(new, car).attribute \in [Attributes -> Words]
      /\ DOMAIN attribute = Attributes
  BY ValuesFacts DEF AsWritten
<1>2. attribute = [a \in Attributes |-> attribute[a]]
  BY DEF AsWritten
<1>3. Values(new, car).attribute = attribute
  <2> HIDE DEF attribute
  <2>1. \A a \in Attributes : Values(new, car).attribute[a] = attribute[a]
    BY DEF attribute
  <2>2. QED
    BY <1>1, <1>2, <2>1
<1>4. /\ Values(new, car) = [attribute |-> Values(new, car).attribute,
                              weight    |-> Values(new, car).weight]
      /\ AsWritten(Values(old, car)) = [attribute |-> attribute,
                                         weight    |-> Values(old, car).weight]
  BY DEF Values, AsWritten
<1>5. QED
  BY <1>3, <1>4

\* the line of a car
Own(car, weight) == Append(CarAttribute(car), weight)

\* A car's line sets the car's attribute, and another's only when that one's
\* name is the beginning of the car's.
LEMMA OwnFacts ==
  ASSUME NEW car \in Seq(Words) \ {<< >>}, NEW weight \in {"0", "1"}
  PROVE  /\ Own(car, weight) \in Seq(Words)
         /\ Sets(Own(car, weight), CarAttribute(car))
         /\ Word(Own(car, weight), CarAttribute(car)) = weight
         /\ IsCarLine(Own(car, weight))
         /\ \A other \in Seq(Words) \ {<< >>} :
              Sets(Own(car, weight), CarAttribute(other)) =>
                /\ Len(other) <= Len(car)
                /\ \A i \in 1 .. Len(other) : other[i] = car[i]
<1> DEFINE own  == CarAttribute(car)
           line == Own(car, weight)
<1>1. Car \in Words /\ weight \in Words
  BY ConfigFileAssumption DEF Literals
<1>2. /\ own \in Seq(Words)
      /\ Len(own) = Len(car) + 1
      /\ Len(car) \in Nat \ {0}
      /\ own[1] = Car
      /\ \A i \in 1 .. Len(car) : own[i + 1] = car[i]
  BY <1>1, CarAttributeFacts
<1> HIDE DEF own
<1>3. /\ line \in Seq(Words)
      /\ line # << >>
      /\ Len(line) = Len(own) + 1
      /\ \A i \in 1 .. Len(own) : line[i] = own[i]
      /\ line[Len(own) + 1] = weight
  BY <1>1, <1>2, AppendProperties DEF Own, own
<1> HIDE DEF line
<1>4. Sets(line, own) /\ Word(line, own) = weight
  BY <1>2, <1>3, SetsFacts DEF Word
<1>5. IsCarLine(line)
  <2>1. 1 \in 1 .. Len(own)
    BY <1>2
  <2>2. QED
    BY <2>1, <1>2, <1>3 DEF IsCarLine
<1>6. ASSUME NEW other \in Seq(Words) \ {<< >>}, Sets(line, CarAttribute(other))
      PROVE  /\ Len(other) <= Len(car)
             /\ \A i \in 1 .. Len(other) : other[i] = car[i]
  <2> DEFINE its == CarAttribute(other)
  <2>1. /\ its \in Seq(Words)
        /\ Len(its) = Len(other) + 1
        /\ Len(other) \in Nat \ {0}
        /\ \A i \in 1 .. Len(other) : its[i + 1] = other[i]
    BY <1>1, CarAttributeFacts
  <2> HIDE DEF its
  <2>2. Len(line) > Len(its) /\ \A i \in 1 .. Len(its) : line[i] = its[i]
    BY <1>3, <1>6, <2>1, SetsFacts DEF its
  <2>3. Len(other) <= Len(car)
    BY <2>1, <2>2, <1>2, <1>3
  <2>4. ASSUME NEW i \in 1 .. Len(other)
        PROVE  other[i] = car[i]
    <3>1. i + 1 \in 1 .. Len(its) /\ i + 1 \in 1 .. Len(own) /\ i \in 1 .. Len(car)
      BY <2>1, <2>3, <1>2
    <3>2. QED
      BY <3>1, <2>1, <2>2, <1>2, <1>3
  <2>5. QED
    BY <2>3, <2>4
<1>7. QED
  BY <1>3, <1>4, <1>5, <1>6 DEF own, line

\* The three parts of the new file: the attributes, the lines of the cars that
\* were there, the line of the car that was not.
LEMMA RewrittenFacts ==
  ASSUME NEW old \in Seq(Seq(Words)), NEW car \in Seq(Words)
  PROVE  LET new    == Rewritten(old, car)
             values == AsWritten(Values(old, car))
             kept   == Len(CarLines(old))
         IN  /\ new \in Seq(Seq(Words))
             /\ kept \in Nat
             /\ Len(new) = IF NewCar(old, car) THEN 6 + kept ELSE 5 + kept
             /\ \A k \in 1 .. 5 : new[k] = << Order[k], values.attribute[Order[k]] >>
             /\ \A k \in 1 .. kept : new[5 + k] = CarLines(old)[k]
             /\ NewCar(old, car) => new[6 + kept] = Own(car, "0")
<1> DEFINE values == AsWritten(Values(old, car))
           fixed  == [k \in 1 .. Len(Order) |-> << Order[k], values.attribute[Order[k]] >>]
           lines  == CarLines(old)
           last   == IF NewCar(old, car) THEN << Own(car, "0") >> ELSE << >>
           new    == Rewritten(old, car)
<1>1. new = fixed \o lines \o last
  <2>1. NewCar(old, car) => values.weight = "0"
    BY ValuesFacts DEF NewCar, AsWritten
  <2>2. new = fixed \o lines
                \o IF NewCar(old, car)
                   THEN << Append(CarAttribute(car), values.weight) >>
                   ELSE << >>
    BY DEF Rewritten
  <2>3. QED
    BY <2>1, <2>2 DEF Own
<1>2. /\ fixed \in Seq(Seq(Words))
      /\ Len(fixed) = 5
      /\ \A k \in 1 .. 5 : fixed[k] = << Order[k], values.attribute[Order[k]] >>
  <2>1. Len(Order) = 5 /\ \A k \in 1 .. 5 : Order[k] \in Attributes
    BY OrderFacts
  <2>2. \A a \in Attributes : a \in Words /\ values.attribute[a] \in Words
    BY WrittenFacts, ConfigFileAssumption DEF Literals
  <2> HIDE DEF values
  <2>3. fixed = [k \in 1 .. 5 |-> << Order[k], values.attribute[Order[k]] >>]
    BY <2>1
  <2>4. \A k \in 1 .. 5 : << Order[k], values.attribute[Order[k]] >> \in Seq(Words)
    BY <2>1, <2>2
  <2>5. fixed \in [1 .. 5 -> Seq(Words)]
    BY <2>3, <2>4
  <2> HIDE DEF fixed
  <2>6. Len(fixed) = 5 /\ fixed \in Seq(Seq(Words))
    <3>1. 5 \in Nat
      OBVIOUS
    <3>2. QED
      BY ONLY ZenonT(60), <2>5, <3>1, FunctionIsSequence
  <2>7. \A k \in 1 .. 5 : fixed[k] = << Order[k], values.attribute[Order[k]] >>
    BY <2>3
  <2>8. QED
    BY <2>6, <2>7
<1>3. lines \in Seq(Seq(Words)) /\ Len(lines) \in Nat
  BY CarLinesFacts, LenProperties
<1>4. last \in Seq(Seq(Words)) /\ Len(last) = IF NewCar(old, car) THEN 1 ELSE 0
  <2>1. CASE NewCar(old, car)
    <3>1. Own(car, "0") \in Seq(Words)
      BY <2>1, OwnFacts DEF NewCar
    <3>2. last = << Own(car, "0") >>
      BY <2>1
    <3> HIDE DEF last
    <3>3. QED
      BY <2>1, <3>1, <3>2
  <2>2. CASE ~NewCar(old, car)
    <3>1. last = << >>
      BY <2>2
    <3> HIDE DEF last
    <3>2. QED
      BY <3>1, <2>2, EmptySeq
  <2>3. QED
    BY <2>1, <2>2
<1> HIDE DEF fixed, lines, new
<1>5. /\ fixed \o lines \in Seq(Seq(Words))
      /\ Len(fixed \o lines) = 5 + Len(lines)
      /\ \A i \in 1 .. 5 + Len(lines) :
           (fixed \o lines)[i] = IF i <= 5 THEN fixed[i] ELSE lines[i - 5]
  <2>1. /\ fixed \o lines \in Seq(Seq(Words))
        /\ Len(fixed \o lines) = Len(fixed) + Len(lines)
        /\ \A i \in 1 .. Len(fixed) + Len(lines) :
             (fixed \o lines)[i] = IF i <= Len(fixed) THEN fixed[i] ELSE lines[i - Len(fixed)]
    BY <1>2, <1>3, ConcatProperties
  <2>2. QED
    BY <2>1, <1>2
<1> DEFINE front == fixed \o lines
<1> HIDE DEF front, last
<1>6. /\ new \in Seq(Seq(Words))
      /\ Len(new) = 5 + Len(lines) + Len(last)
      /\ \A i \in 1 .. 5 + Len(lines) + Len(last) :
           new[i] = IF i <= 5 + Len(lines) THEN front[i] ELSE last[i - (5 + Len(lines))]
  <2>1. front \in Seq(Seq(Words)) /\ Len(front) = 5 + Len(lines)
    BY <1>5 DEF front
  <2>2. /\ front \o last \in Seq(Seq(Words))
        /\ Len(front \o last) = Len(front) + Len(last)
        /\ \A i \in 1 .. Len(front) + Len(last) :
             (front \o last)[i] = IF i <= Len(front) THEN front[i] ELSE last[i - Len(front)]
    <3>1. front \in Seq(Seq(Words)) /\ last \in Seq(Seq(Words))
      BY <2>1, <1>4
    <3>2. QED
      BY ONLY <3>1, ConcatProperties
  <2>3. new = front \o last
    BY <1>1 DEF front
  <2>4. QED
    BY <2>1, <2>2, <2>3
<1>7. Len(new) = IF NewCar(old, car) THEN 6 + Len(lines) ELSE 5 + Len(lines)
  BY <1>6, <1>4, <1>3
<1>8. \A k \in 1 .. 5 : new[k] = << Order[k], values.attribute[Order[k]] >>
  <2>1. ASSUME NEW k \in 1 .. 5
        PROVE  new[k] = fixed[k]
    <3>1. k \in 1 .. 5 + Len(lines) + Len(last) /\ k <= 5 + Len(lines) /\ k <= 5
      BY <1>3, <1>4
    <3>2. new[k] = front[k]
      BY <3>1, <1>6
    <3>3. front[k] = fixed[k]
      BY <3>1, <1>3, <1>5 DEF front
    <3>4. QED
      BY <3>2, <3>3
  <2>2. QED
    BY <2>1, <1>2
<1>9. \A k \in 1 .. Len(lines) : new[5 + k] = lines[k]
  <2>1. SUFFICES ASSUME NEW k \in 1 .. Len(lines)
                 PROVE  new[5 + k] = lines[k]
    OBVIOUS
  <2>2. /\ 5 + k \in 1 .. 5 + Len(lines) + Len(last)
        /\ 5 + k \in 1 .. 5 + Len(lines)
        /\ 5 + k <= 5 + Len(lines) /\ ~(5 + k <= 5) /\ 5 + k - 5 = k
    BY <1>3, <1>4
  <2>3. new[5 + k] = front[5 + k]
    BY <2>2, <1>6
  <2>4. front[5 + k] = lines[k]
    BY SMTT(30), <2>2, <1>5 DEF front
  <2>5. QED
    BY <2>3, <2>4
<1>10. ASSUME NewCar(old, car)
       PROVE  new[6 + Len(lines)] = Own(car, "0")
  <2>1. Len(last) = 1 /\ last = << Own(car, "0") >>
    BY <1>10, <1>4 DEF last
  <2>2. /\ 6 + Len(lines) \in 1 .. 5 + Len(lines) + Len(last)
        /\ ~(6 + Len(lines) <= 5 + Len(lines))
        /\ 6 + Len(lines) - (5 + Len(lines)) = 1
    BY <1>3, <2>1
  <2>3. new[6 + Len(lines)] = last[1]
    BY <2>2, <1>6
  <2>4. QED
    BY <2>1, <2>3
<1>11. QED
  BY <1>3, <1>6, <1>7, <1>8, <1>9, <1>10 DEF new, lines

\* No car's name is the beginning, word by word, of another's: the reading of
\* "DisplayCarFuelAsWeight_<name> <value>" takes the rest of a longer name for
\* the value.
NamesApart(cars) ==
  \A car, other \in cars :
    (/\ Len(car) <= Len(other)
     /\ \A i \in 1 .. Len(car) : car[i] = other[i]) => car = other

\* The new file sets every attribute, to the value that was read, as written.
LEMMA AttributesKept ==
  ASSUME NEW old \in Seq(Seq(Words)), NEW car \in Seq(Words),
         NEW a \in Attributes, NEW any \in Seq(Words)
  PROVE  /\ Setting(Rewritten(old, car), << a >>) # {}
         /\ Values(Rewritten(old, car), any).attribute[a]
              = AsWritten(Values(old, any)).attribute[a]
<1> DEFINE new    == Rewritten(old, car)
           values == AsWritten(Values(old, car))
<1>1. /\ new \in Seq(Seq(Words))
      /\ Len(new) \in Nat /\ Len(new) >= 5
      /\ \A k \in 1 .. 5 : new[k] = << Order[k], values.attribute[Order[k]] >>
  <2> DEFINE kept == Len(CarLines(old))
  <2>1. /\ new \in Seq(Seq(Words))
        /\ kept \in Nat
        /\ Len(new) = IF NewCar(old, car) THEN 6 + kept ELSE 5 + kept
        /\ \A k \in 1 .. 5 : new[k] = << Order[k], values.attribute[Order[k]] >>
    <3>1. /\ Rewritten(old, car) \in Seq(Seq(Words))
          /\ Len(CarLines(old)) \in Nat
          /\ Len(Rewritten(old, car)) = IF NewCar(old, car) THEN 6 + Len(CarLines(old))
                                         ELSE 5 + Len(CarLines(old))
          /\ \A k \in 1 .. 5 : Rewritten(old, car)[k] =
                                 << Order[k], AsWritten(Values(old, car)).attribute[Order[k]] >>
          /\ \A k \in 1 .. Len(CarLines(old)) : Rewritten(old, car)[5 + k] = CarLines(old)[k]
          /\ NewCar(old, car) => Rewritten(old, car)[6 + Len(CarLines(old))] = Own(car, "0")
      BY ONLY old \in Seq(Seq(Words)), car \in Seq(Words), RewrittenFacts
    <3>2. QED
      BY ONLY <3>1
  <2> HIDE DEF kept, new, values
  <2>2. Len(new) \in Nat /\ Len(new) >= 5
    BY ONLY <2>1
  <2>3. QED
    BY ONLY <2>1, <2>2
<1>2. /\ Attributes \subseteq Words
      /\ \A b \in Attributes : values.attribute[b] \in Words
      /\ \A line : Word(line, << a >>) = values.attribute[a]
                    => ValueOf(a, line) = values.attribute[a]
  BY WrittenFacts, ConfigFileAssumption DEF Literals
<1>3. values.attribute[a] = AsWritten(Values(old, any)).attribute[a]
  BY DEF Values, AsWritten
<1> HIDE DEF new, values
<1>4. PICK k \in 1 .. 5 : Order[k] = a
  BY OrderFacts
<1>5. ASSUME NEW j \in 1 .. 5
      PROVE  Sets(new[j], << a >>) <=> Order[j] = a
  <2> DEFINE line == << Order[j], values.attribute[Order[j]] >>
  <2>1. Order[j] \in Words /\ values.attribute[Order[j]] \in Words
    BY <1>2, OrderFacts
  <2>2. line \in Seq(Words) /\ << a >> \in Seq(Words)
    BY <2>1, <1>2
  <2>3. Len(line) = 2 /\ line[1] = Order[j]
    OBVIOUS
  <2> DEFINE own == << a >>
  <2>4. Len(own) = 1 /\ own[1] = a
    OBVIOUS
  <2> HIDE DEF line, own
  <2>6. Sets(line, own) <=> (Len(line) > Len(own) /\ \A i \in 1 .. Len(own) : line[i] = own[i])
    BY ZenonT(30), <2>2, SetsFacts DEF own
  <2>7. Sets(line, own) <=> Order[j] = a
    BY <2>3, <2>4, <2>6
  <2>8. QED
    BY <2>7, <1>1 DEF line, own
<1>6. k \in Setting(new, << a >>)
  <2>1. \A j \in 1 .. k - 1 : ~Sets(new[j], << a >>)
    <3>1. SUFFICES ASSUME NEW j \in 1 .. k - 1
                   PROVE  ~Sets(new[j], << a >>)
      OBVIOUS
    <3>2. j \in 1 .. 5 /\ j # k
      OBVIOUS
    <3>3. Order[j] # Order[k]
      BY <3>2, OrderFacts
    <3>4. QED
      BY <3>2, <3>3, <1>4, <1>5
  <2>2. k \in 1 .. Len(new) /\ Sets(new[k], << a >>)
    <3>1. k \in 1 .. Len(new)
      <4>1. Len(new) \in Nat /\ Len(new) >= 5 /\ k \in 1 .. 5
        BY <1>1
      <4> HIDE DEF new, values
      <4>2. QED
        BY ONLY <4>1
    <3>2. QED
      BY <3>1, <1>4, <1>5
  <2>3. QED
    BY <2>1, <2>2 DEF Setting
<1>7. Values(new, any).attribute[a] = ValueOf(a, new[k])
  BY SMTT(30), <1>1, <1>6, ValuesFacts
<1>8. ValueOf(a, new[k]) = values.attribute[a]
  <2>1. Word(new[k], << a >>) = values.attribute[a]
    <3>1. new[k] = << a, values.attribute[a] >>
      BY <1>1, <1>4
    <3>2. Len(<< a >>) + 1 = 2
      OBVIOUS
    <3>3. Word(new[k], << a >>) = new[k][2]
      BY <3>2 DEF Word
    <3>4. QED
      BY <3>1, <3>3
  <2>2. QED
    BY <2>1, <1>2
<1>9. QED
  BY <1>3, <1>6, <1>7, <1>8 DEF new

\* The new file gives every car the setting it had, the new car its default.
LEMMA CarKept ==
  ASSUME NEW old \in Seq(Seq(Words)),
         NEW cars, cars \subseteq Seq(Words) \ {<< >>}, NamesApart(cars),
         NEW car \in cars \cup {<< >>}, NEW any \in cars
  PROVE  /\ Values(Rewritten(old, car), any).weight = Values(old, any).weight
         /\ any = car => Setting(Rewritten(old, car), CarAttribute(any)) # {}
<1> DEFINE new   == Rewritten(old, car)
           lines == CarLines(old)
           own   == CarAttribute(any)
<1>0. car \in Seq(Words) /\ any \in Seq(Words) \ {<< >>} /\ Car \in Words
  BY EmptySeq, ConfigFileAssumption DEF Literals
<1>1. /\ new \in Seq(Seq(Words))
      /\ Len(lines) \in Nat
      /\ Len(new) = IF NewCar(old, car) THEN 6 + Len(lines) ELSE 5 + Len(lines)
      /\ \A k \in 1 .. 5 :
           new[k] = << Order[k], AsWritten(Values(old, car)).attribute[Order[k]] >>
      /\ \A k \in 1 .. Len(lines) : new[5 + k] = lines[k]
      /\ NewCar(old, car) => new[6 + Len(lines)] = Own(car, "0")
  BY <1>0, RewrittenFacts
<1>2. PICK s : Places(lines, old, s)
  BY CarLinesFacts
<1>3. Len(old) \in Nat /\ \A n \in 1 .. Len(old) : old[n] \in Seq(Words)
  BY LenProperties, ElementOfSeq
<1>4. /\ own \in Seq(Words)
      /\ Len(own) = Len(any) + 1
      /\ Len(any) \in Nat \ {0}
      /\ own[1] = Car
  BY <1>0, CarAttributeFacts
<1> HIDE DEF new, lines, own
<1>5. ASSUME NEW line \in Seq(Words), Sets(line, own)
      PROVE  IsCarLine(line)
  <2>1. Len(line) > Len(own) /\ line[1] = own[1]
    BY <1>4, <1>5, SetsFacts
  <2>2. line # << >>
    BY <2>1, <1>4
  <2>3. QED
    BY <2>1, <2>2, <1>4 DEF IsCarLine
<1>6. \A k \in 1 .. 5 : ~Sets(new[k], own)
  <2>1. SUFFICES ASSUME NEW k \in 1 .. 5, Sets(new[k], own)
                 PROVE  FALSE
    OBVIOUS
  <2>2. new[k] \in Seq(Words)
    <3>1. k \in 1 .. Len(new)
      <4>1. CASE NewCar(old, car)
        BY <1>1, <4>1
      <4>2. CASE ~NewCar(old, car)
        BY <1>1, <4>2
      <4>3. QED
        BY <4>1, <4>2
    <3>2. QED
      BY <3>1, <1>1, ElementOfSeq
  <2>3. IsCarLine(new[k])
    BY <2>1, <2>2, <1>5
  <2>4. new[k] = << Order[k], AsWritten(Values(old, car)).attribute[Order[k]] >>
    BY <1>1
  <2>5. Order[k] = Car
    BY <2>3, <2>4 DEF IsCarLine
  <2>6. QED
    BY <2>5, OrderFacts
<1>7. ASSUME NEW n \in Setting(old, own)
      PROVE  \E k \in 1 .. Len(lines) : 5 + k \in Setting(new, own) /\ new[5 + k] = old[n]
  <2>1. /\ n \in 1 .. Len(old) /\ Sets(old[n], own)
        /\ \A m \in 1 .. n - 1 : ~Sets(old[m], own)
    BY DEF Setting
  <2>2. IsCarLine(old[n])
    BY <2>1, <1>3, <1>5
  <2>3. PICK k \in 1 .. Len(lines) : s[k] = n
    BY <2>1, <2>2, <1>2 DEF Places
  <2>4. new[5 + k] = old[n]
    BY <2>3, <1>1, <1>2 DEF Places
  <2>5. ASSUME NEW j \in 1 .. 5 + k - 1
        PROVE  ~Sets(new[j], own)
    <3>1. CASE j <= 5
      <4>1. j \in 1 .. 5
        BY <3>1
      <4>2. QED
        BY <4>1, <1>6
    <3>2. CASE j > 5
      <4>1. j - 5 \in 1 .. Len(lines) /\ j - 5 < k /\ 5 + (j - 5) = j
        BY <3>2, <1>1
      <4>2. new[j] = old[s[j - 5]]
        BY <4>1, <1>1, <1>2 DEF Places
      <4>3. s[j - 5] < n /\ s[j - 5] \in 1 .. Len(old)
        BY <4>1, <2>3, <1>2 DEF Increasing, Places
      <4>4. s[j - 5] \in 1 .. n - 1
        BY <4>3, <2>1, <1>3
      <4>5. QED
        BY <4>2, <4>4, <2>1
    <3>3. QED
      BY <3>1, <3>2, <1>1
  <2>6. 5 + k \in 1 .. Len(new)
    BY <1>1
  <2>7. 5 + k \in Setting(new, own)
    <3>1. Sets(new[5 + k], own)
      BY <2>1, <2>4
    <3>2. \A j \in 1 .. (5 + k) - 1 : ~Sets(new[j], own)
      BY <2>5
    <3>3. QED
      BY ONLY Zenon, <3>1, <3>2, <2>6, IsSetting
  <2>8. QED
    BY <2>4, <2>7
<1>8. ASSUME Setting(old, own) = {}
      PROVE  /\ \A k \in 1 .. 5 + Len(lines) : ~Sets(new[k], own)
             /\ \A n \in 1 .. Len(new) :
                  Sets(new[n], own) => /\ NewCar(old, car) /\ n = 6 + Len(lines)
                                       /\ any = car
  <2>1. \A m \in 1 .. Len(old) : ~Sets(old[m], own)
    BY <1>8, <1>3, SettingFacts
  <2>2. ASSUME NEW k \in 1 .. 5 + Len(lines)
        PROVE  ~Sets(new[k], own)
    <3>1. CASE k <= 5
      <4>1. k \in 1 .. 5
        BY <3>1
      <4>2. QED
        BY <4>1, <1>6
    <3>2. CASE k > 5
      <4>1. k - 5 \in 1 .. Len(lines) /\ 5 + (k - 5) = k
        <5>1. k \in 1 .. 5 + Len(lines) /\ Len(lines) \in Nat
          BY <1>1
        <5>2. QED
          BY ONLY <3>2, <5>1
      <4>2. new[k] = old[s[k - 5]] /\ s[k - 5] \in 1 .. Len(old)
        BY <4>1, <1>1, <1>2 DEF Places
      <4>3. QED
        BY <4>2, <2>1
    <3>3. QED
      BY <3>1, <3>2, <1>1
  <2>3. ASSUME NEW n \in 1 .. Len(new), Sets(new[n], own)
        PROVE  NewCar(old, car) /\ n = 6 + Len(lines) /\ any = car
    <3>1. ~(n \in 1 .. 5 + Len(lines))
      BY <2>2, <2>3
    <3>2. NewCar(old, car) /\ n = 6 + Len(lines)
      BY <3>1, <1>1
    <3>3. Sets(Own(car, "0"), own) /\ car # << >>
      BY <3>2, <2>3, <1>1 DEF NewCar
    <3>4. car \in cars /\ car \in Seq(Words) \ {<< >>}
      BY <3>3, <1>0
    <3>5. Len(any) <= Len(car) /\ \A i \in 1 .. Len(any) : any[i] = car[i]
      BY <3>3, <3>4, <1>0, OwnFacts DEF own
    <3>6. QED
      BY <3>2, <3>4, <3>5 DEF NamesApart
  <2>4. QED
    BY <2>2, <2>3
<1>9. ASSUME Setting(old, own) = {}, NewCar(old, car), any = car
      PROVE  6 + Len(lines) \in Setting(new, own) /\ new[6 + Len(lines)] = Own(any, "0")
  <2>1. new[6 + Len(lines)] = Own(any, "0") /\ Len(new) = 6 + Len(lines)
    BY <1>9, <1>1
  <2>2. Sets(Own(any, "0"), own)
    BY <1>0, OwnFacts DEF own
  <2>3. 6 + Len(lines) \in 1 .. Len(new) /\ 6 + Len(lines) - 1 = 5 + Len(lines)
    BY <2>1, <1>1
  <2>4. \A j \in 1 .. 6 + Len(lines) - 1 : ~Sets(new[j], own)
    BY <2>3, <1>8, <1>9
  <2>5. QED
    BY <2>1, <2>2, <2>3, <2>4 DEF Setting
<1>10. Values(new, any).weight = Values(old, any).weight
  <2>0. any # << >> /\ any \in Seq(Words) /\ Len(new) \in Nat
    BY <1>0, <1>1
  <2>1. CASE Setting(old, own) # {}
    <3>1. PICK n \in Setting(old, own) : TRUE
      BY <2>1
    <3>2. PICK k \in 1 .. Len(lines) : 5 + k \in Setting(new, own) /\ new[5 + k] = old[n]
      BY <1>7
    <3>3. Values(old, any).weight = Flag(Word(old[n], own))
      BY <2>0, <3>1, ValuesFacts DEF own
    <3>4. Values(new, any).weight = Flag(Word(new[5 + k], own))
      BY <2>0, <3>2, <1>1, ValuesFacts DEF own
    <3>5. QED
      BY <3>2, <3>3, <3>4
  <2>2. CASE Setting(old, own) = {} /\ ~(NewCar(old, car) /\ any = car)
    <3>1. Setting(new, own) = {}
      BY <2>2, <2>0, <1>8, SettingFacts
    <3>2. Values(new, any).weight = "0"
      BY <2>0, <3>1, <1>1, ValuesFacts DEF own
    <3>3. Values(old, any).weight = "0"
      BY <2>0, <2>2, ValuesFacts DEF own
    <3>4. QED
      BY <3>2, <3>3
  <2>3. CASE Setting(old, own) = {} /\ NewCar(old, car) /\ any = car
    <3>1. 6 + Len(lines) \in Setting(new, own) /\ new[6 + Len(lines)] = Own(any, "0")
      BY <2>3, <1>9
    <3>2. Values(new, any).weight = Flag(Word(Own(any, "0"), own))
      BY SMTT(30), <2>0, <3>1, <1>1, ValuesFacts DEF own
    <3>3. Word(Own(any, "0"), own) = "0"
      BY <1>0, OwnFacts DEF own
    <3>4. Values(old, any).weight = "0"
      BY <2>0, <2>3, ValuesFacts DEF own
    <3>5. QED
      BY <3>2, <3>3, <3>4, ConfigFileAssumption DEF Flag
  <2> HIDE DEF own, new
  <2>4. QED
    BY <2>1, <2>2, <2>3
<1>11. ASSUME any = car
       PROVE  Setting(new, own) # {}
  <2>1. CASE Setting(old, own) # {}
    BY <2>1, <1>7
  <2>2. CASE Setting(old, own) = {}
    <3>1. NewCar(old, car)
      BY <1>11, <2>2, <1>0 DEF NewCar, own
    <3>2. QED
      BY <3>1, <2>2, <1>9, <1>11
  <2>3. QED
    BY <2>1, <2>2
<1>12. QED
  BY <1>10, <1>11 DEF new, own

\* Rewriting a file keeps all settings and leaves nothing to add.
LEMMA RewritingKeeps ==
  ASSUME NEW old \in Seq(Seq(Words)),
         NEW cars, cars \subseteq Seq(Words) \ {<< >>}, NamesApart(cars),
         NEW car \in cars \cup {<< >>}
  PROVE  /\ Kept(old, Rewritten(old, car), cars)
         /\ ~UpdateRequired(Rewritten(old, car), car)
<1> DEFINE new   == Rewritten(old, car)
           lines == CarLines(old)
<1>0. car \in Seq(Words)
  BY EmptySeq
<1>1. /\ new \in Seq(Seq(Words))
      /\ Len(lines) \in Nat
      /\ Len(new) \in Nat
      /\ Len(new) >= 5 + Len(lines)
      /\ \A k \in 1 .. Len(lines) : new[5 + k] = lines[k]
  <2>1. /\ new \in Seq(Seq(Words))
        /\ Len(lines) \in Nat
        /\ Len(new) = IF NewCar(old, car) THEN 6 + Len(lines) ELSE 5 + Len(lines)
        /\ \A k \in 1 .. 5 :
             new[k] = << Order[k], AsWritten(Values(old, car)).attribute[Order[k]] >>
        /\ \A k \in 1 .. Len(lines) : new[5 + k] = lines[k]
        /\ NewCar(old, car) => new[6 + Len(lines)] = Own(car, "0")
    BY <1>0, RewrittenFacts
  <2> HIDE DEF new, lines
  <2>2. Len(new) \in Nat
    BY <2>1, LenProperties
  <2>3. Len(new) >= 5 + Len(lines)
    <3>1. \/ Len(new) = 6 + Len(lines)
          \/ Len(new) = 5 + Len(lines)
      BY ONLY Zenon, <2>1
    <3>2. Len(lines) \in Nat
      BY <2>1
    <3>3. QED
      BY ONLY <3>1, <3>2
  <2>4. QED
    BY ONLY Zenon, <2>1, <2>2, <2>3
<1>2. ASSUME NEW any \in cars \cup {<< >>}
      PROVE  Values(new, any) = AsWritten(Values(old, any))
  <2>1. any \in Seq(Words)
    BY EmptySeq
  <2>2. \A a \in Attributes :
          Values(new, any).attribute[a] = AsWritten(Values(old, any)).attribute[a]
    <3>1. SUFFICES ASSUME NEW a \in Attributes
                   PROVE  Values(new, any).attribute[a] = AsWritten(Values(old, any)).attribute[a]
      OBVIOUS
    <3>2. car \in Seq(Words) /\ any \in Seq(Words)
      BY <1>0, <2>1
    <3>3. /\ Setting(Rewritten(old, car), << a >>) # {}
          /\ Values(Rewritten(old, car), any).attribute[a]
               = AsWritten(Values(old, any)).attribute[a]
      BY ONLY old \in Seq(Seq(Words)), <3>2, a \in Attributes, AttributesKept
    <3>4. QED
      BY <3>3
  <2>3. Values(new, any).weight = Values(old, any).weight
    <3>1. CASE any = << >>
      <4>1. Values(new, any).weight = "0"
        <5>1. new \in Seq(Seq(Words))
          BY <1>1
        <5> HIDE DEF new
        <5>2. QED
          BY ONLY ZenonT(30), <5>1, <3>1, <2>1, ValuesFacts
      <4>2. Values(old, any).weight = "0"
        BY ZenonT(60), <3>1, <2>1, ValuesFacts
      <4>3. QED
        BY <4>1, <4>2
    <3>2. CASE any \in cars
      BY <3>2, CarKept
    <3>3. QED
      BY <3>1, <3>2
  <2>4. QED
    BY <1>1, <2>1, <2>2, <2>3, ValuesEqual
<1>3. ASSUME NEW n \in 1 .. Len(old), IsCarLine(old[n])
      PROVE  \E k \in 1 .. Len(new) : new[k] = old[n]
  <2>1. PICK s : Places(lines, old, s)
    BY CarLinesFacts
  <2>2. PICK k \in 1 .. Len(lines) : lines[k] = old[n]
    BY <2>1, <1>3 DEF Places
  <2> HIDE DEF new, lines
  <2>3. 5 + k \in 1 .. Len(new)
    <3>1. k \in 1 .. Len(lines) /\ Len(lines) \in Nat /\ Len(new) \in Nat
          /\ Len(new) >= 5 + Len(lines)
      BY <1>1
    <3>2. QED
      BY ONLY <3>1
  <2>4. QED
    BY <2>2, <2>3, <1>1
<1>4. ~UpdateRequired(new, car)
  <2>1. new # NoFile
    <3>1. Len(NoFile) = 1
      BY DEF NoFile
    <3> HIDE DEF new
    <3>2. Len(new) >= 5 + Len(lines) /\ Len(lines) \in Nat /\ Len(new) \in Nat
      BY <1>1
    <3> HIDE DEF lines
    <3>3. Len(new) # 1
      <4>1. \A n, l \in Nat : n >= 5 + l => n # 1
        OBVIOUS
      <4>2. QED
        BY <3>2, <4>1
    <3>4. new = NoFile => Len(new) = Len(NoFile)
      OBVIOUS
    <3>5. QED
      BY ONLY <3>1, <3>3, <3>4
  <2>2. \A a \in Attributes : Setting(new, << a >>) # {}
    BY <1>0, EmptySeq, AttributesKept
  <2>3. ~NewCar(new, car)
    <3>1. CASE car = << >>
      BY <3>1 DEF NewCar
    <3>2. CASE car \in cars
      BY <3>2, CarKept DEF NewCar
    <3>3. QED
      BY <3>1, <3>2
  <2>4. QED
    BY <2>1, <2>2, <2>3 DEF UpdateRequired
<1>5. QED
  BY <1>2, <1>3, <1>4 DEF Kept

\* What is left of another text after the new file changes nothing of what the
\* program reads: its own lines come first.
LEMMA RestIgnored ==
  ASSUME NEW old \in Seq(Seq(Words)), NEW car \in Cars \cup {<< >>},
         NamesApart(Cars), NEW rest \in Seq(Seq(Words))
  PROVE  LET new == Rewritten(old, car) \o rest
         IN  /\ Values(new, car) = AsWritten(Values(old, car))
             /\ ~UpdateRequired(new, car)
<1> DEFINE front == Rewritten(old, car)
           new   == front \o rest
           own   == CarAttribute(car)
<1>1. /\ car \in Seq(Words)
      /\ Cars \subseteq Seq(Words) \ {<< >>}
      /\ Len(old) \in Nat
  BY LifecycleAssumption, EmptySeq, LenProperties
<1>2. /\ front \in Seq(Seq(Words))
      /\ Len(front) \in Nat
      /\ Len(front) >= 5
  <2>1. /\ front \in Seq(Seq(Words))
        /\ Len(CarLines(old)) \in Nat
        /\ Len(front) = IF NewCar(old, car) THEN 6 + Len(CarLines(old)) ELSE 5 + Len(CarLines(old))
    BY ONLY <1>1, old \in Seq(Seq(Words)), RewrittenFacts
  <2> HIDE DEF front
  <2>2. QED
    BY <2>1
<1>3. /\ Values(front, car) = AsWritten(Values(old, car))
      /\ ~UpdateRequired(front, car)
  <2>1. Kept(old, front, Cars) /\ ~UpdateRequired(front, car)
    BY <1>1, RewritingKeeps
  <2>2. QED
    BY <2>1 DEF Kept
<1> HIDE DEF front
<1>4. /\ new \in Seq(Seq(Words))
      /\ Len(new) = Len(front) + Len(rest) /\ Len(rest) \in Nat
      /\ \A n \in 1 .. Len(front) : new[n] = front[n]
  <2>1. /\ new \in Seq(Seq(Words))
        /\ Len(new) = Len(front) + Len(rest)
        /\ \A n \in 1 .. Len(front) + Len(rest) :
             new[n] = IF n <= Len(front) THEN front[n] ELSE rest[n - Len(front)]
    BY <1>2, ConcatProperties
  <2>2. Len(rest) \in Nat
    BY LenProperties
  <2> HIDE DEF new
  <2>3. ASSUME NEW n \in 1 .. Len(front)
        PROVE  new[n] = front[n]
    <3>1. n \in 1 .. Len(front) + Len(rest) /\ n <= Len(front)
      BY <1>2, <2>2
    <3>2. QED
      BY <3>1, <2>1
  <2>4. QED
    BY <2>1, <2>2, <2>3
<1> HIDE DEF new
<1>5. ASSUME NEW attribute, NEW n \in Setting(front, attribute)
      PROVE  n \in Setting(new, attribute) /\ new[n] = front[n]
  <2>1. n \in 1 .. Len(front) /\ n \in 1 .. Len(new)
    BY <1>2, <1>4 DEF Setting
  <2>2. \A k \in 1 .. n - 1 : new[k] = front[k]
    <3>1. \A k \in 1 .. n - 1 : k \in 1 .. Len(front)
      BY <2>1, <1>2
    <3>2. QED
      BY <3>1, <1>4
  <2>3. QED
    BY <2>1, <2>2, <1>4 DEF Setting
<1>6. /\ \A a \in Attributes : Setting(front, << a >>) # {}
      /\ car # << >> => Setting(front, own) # {}
  BY <1>3 DEF UpdateRequired, NewCar
<1> HIDE DEF own
<1>7. /\ \A a \in Attributes : Values(new, car).attribute[a] = Values(front, car).attribute[a]
      /\ Values(new, car).weight = Values(front, car).weight
  <2>1. ASSUME NEW a \in Attributes
        PROVE  Values(new, car).attribute[a] = Values(front, car).attribute[a]
    <3>1. PICK n \in Setting(front, << a >>) : TRUE
      BY <1>6
    <3>2. Values(front, car).attribute[a] = ValueOf(a, front[n])
      BY <1>1, <1>2, ValuesFacts
    <3>3. n \in Setting(new, << a >>) /\ new[n] = front[n]
      BY <1>5
    <3>4. new \in Seq(Seq(Words)) /\ car \in Seq(Words) /\ a \in Attributes
      BY <1>1, <1>4
    <3>5. Values(new, car).attribute[a] = ValueOf(a, new[n])
      BY ONLY <3>3, <3>4, ValuesFacts
    <3>6. QED
      BY <3>2, <3>3, <3>5
  <2>2. CASE car = << >>
    <3>1. Values(new, car).weight = "0"
      BY ZenonT(30), <2>2, <1>1, <1>4, ValuesFacts
    <3>2. Values(front, car).weight = "0"
      BY ZenonT(30), <2>2, <1>1, <1>2, ValuesFacts
    <3>3. QED
      BY <2>1, <3>1, <3>2
  <2>3. CASE car # << >>
    <3>1. PICK n \in Setting(front, own) : TRUE
      BY <1>6, <2>3
    <3>2. Values(front, car).weight = Flag(Word(front[n], own))
      BY <1>1, <1>2, <2>3, ValuesFacts DEF own
    <3>3. n \in Setting(new, own) /\ new[n] = front[n]
      BY <1>5
    <3>4. Values(new, car).weight = Flag(Word(new[n], own))
      BY <3>3, <1>1, <1>4, <2>3, ValuesFacts DEF own
    <3>5. QED
      BY <2>1, <3>2, <3>3, <3>4
  <2>4. QED
    BY <2>2, <2>3
<1>8. Values(new, car) = AsWritten(Values(old, car))
  BY <1>1, <1>3, <1>4, <1>7, ValuesEqual DEF AsWritten
<1>9. ~UpdateRequired(new, car)
  <2>1. new # NoFile
    <3>1. Len(NoFile) = 1
      BY DEF NoFile
    <3>2. Len(new) # 1
      BY <1>2, <1>4
    <3>3. QED
      BY <3>1, <3>2
  <2>2. \A a \in Attributes : Setting(new, << a >>) # {}
    BY <1>5, <1>6
  <2>3. ~NewCar(new, car)
    BY <1>5, <1>6 DEF NewCar, own
  <2>4. QED
    BY <2>1, <2>2, <2>3 DEF UpdateRequired
<1>10. QED
  BY <1>8, <1>9 DEF new, front

-----------------------------------------------------------------------------
(* The types of the variables. *)

Mains == {"off", "opened", "config", "update", "writing", "check", "start", "loop"}

Process ==
  [main : Mains, handle : BOOLEAN, car : Cars \cup {<< >>},
   values : [attribute : [Attributes -> Words], weight : {"0", "1"}],
   new : Seq(Seq(Words)), missed : BOOLEAN, server : {"none", "live", "deleted"},
   thread : {"none", "starting", "running", "ended"}, running : BOOLEAN,
   handler : {"none", "stop", "join", "exit"}]

TypeInv ==
  /\ procs \in [Procs -> Process]
  /\ file \in Seq(Seq(Words))
  /\ whole \in Seq(Seq(Words))
  /\ cut \in BOOLEAN

LEMMA ValuesType ==
  ASSUME NEW old \in Seq(Seq(Words)), NEW car \in Seq(Words)
  PROVE  Values(old, car) \in [attribute : [Attributes -> Words], weight : {"0", "1"}]
<1>1. /\ Values(old, car).attribute \in [Attributes -> Words]
      /\ Values(old, car).weight \in {"0", "1"}
  BY ValuesFacts
<1>2. Values(old, car) = [attribute |-> Values(old, car).attribute,
                            weight    |-> Values(old, car).weight]
  BY DEF Values
<1>3. QED
  BY <1>1, <1>2

LEMMA OffType ==
  Off \in Process
<1>1. Values(<< >>, << >>) \in [attribute : [Attributes -> Words], weight : {"0", "1"}]
  BY EmptySeq, ValuesType
<1>2. QED
  BY <1>1, EmptySeq DEF Off, Process, Mains

\* Parts of a file, and what is written over one, are files.
LEMMA PartType ==
  ASSUME NEW text \in Seq(Seq(Words)), NEW n \in Nat, n <= Len(text)
  PROVE  SubSeq(text, 1, n) \in Seq(Seq(Words))
<1>1. \A i \in 1 .. n : text[i] \in Seq(Words)
  BY LenProperties, ElementOfSeq
<1>2. QED
  BY <1>1, SubSeqProperties

LEMMA RestType ==
  ASSUME NEW under \in Seq(Seq(Words)), NEW n \in 1 .. Len(under) + 1
  PROVE  /\ SubSeq(under, n, Len(under)) \in Seq(Seq(Words))
         /\ under = << >> => SubSeq(under, n, Len(under)) = << >>
<1>1. Len(under) \in Nat
  BY LenProperties
<1>2. \A i \in n .. Len(under) : under[i] \in Seq(Words)
  BY <1>1, ElementOfSeq
<1>3. SubSeq(under, n, Len(under)) \in Seq(Seq(Words))
  BY <1>1, <1>2, SubSeqProperties
<1>4. ASSUME under = << >>
      PROVE  SubSeq(under, n, Len(under)) = << >>
  <2>1. Len(under) = 0 /\ n = 1
    BY <1>4, EmptySeq
  <2>2. Len(SubSeq(under, n, Len(under))) = 0
    BY <2>1, <1>2, SubSeqProperties
  <2>3. QED
    BY <2>2, <1>3, EmptySeq
<1>5. QED
  BY <1>3, <1>4

LEMMA OverType ==
  ASSUME NEW text \in Seq(Seq(Words)), NEW under \in Seq(Seq(Words)), NEW new \in Over(text, under)
  PROVE  new \in Seq(Seq(Words))
<1>1. PICK n \in 1 .. Len(under) + 1 : new = text \o SubSeq(under, n, Len(under))
  BY DEF Over
<1>2. SubSeq(under, n, Len(under)) \in Seq(Seq(Words))
  BY RestType
<1> DEFINE rest == SubSeq(under, n, Len(under))
<1> HIDE DEF rest
<1>3. rest \in Seq(Seq(Words)) /\ new = text \o rest
  BY <1>1, <1>2 DEF rest
<1>4. QED
  BY <1>3, ConcatProperties

LEMMA TypeInit ==
  ASSUME Init
  PROVE  TypeInv
<1>1. NoFile \in Seq(Seq(Words))
  <2>1. "missing" \in Words
    BY ConfigFileAssumption DEF Literals
  <2>2. <<"missing">> \in Seq(Words)
    BY <2>1
  <2>3. QED
    BY <2>2 DEF NoFile
<1>2. file \in Seq(Seq(Words)) /\ whole \in Seq(Seq(Words))
  BY <1>1, LifecycleAssumption DEF Init
<1>3. QED
  BY <1>2, OffType DEF Init, TypeInv

LEMMA TypeStep ==
  ASSUME TypeInv, [Next]_vars
  PROVE  TypeInv'
<1>1. CASE UNCHANGED vars
  BY <1>1 DEF TypeInv, vars
<1>2. CASE UserEdits
  <2>1. /\ file' \in UserFiles /\ whole' \in UserFiles /\ cut' = FALSE
        /\ procs' = [p \in Procs |->
                      [procs[p] EXCEPT !.missed = @ \/ procs[p].main \in {"update", "writing"}]]
    BY <1>2 DEF UserEdits
  <2>2. ASSUME NEW p \in Procs
        PROVE  procs'[p] \in Process
    <3>1. procs[p] \in Process
      BY DEF TypeInv
    <3>2. (procs[p].missed \/ procs[p].main \in {"update", "writing"}) \in BOOLEAN
      OBVIOUS
    <3>3. QED
      BY <2>1, <3>1, <3>2 DEF Process
  <2>3. procs' \in [Procs -> Process]
    BY <2>1, <2>2
  <2>4. QED
    BY <2>1, <2>3, LifecycleAssumption DEF TypeInv
<1>3. ASSUME NEW p \in Procs,
             Main(p) \/ ServerThread(p) \/ CloseEvent(p) \/ Handler(p) \/ Kill(p)
      PROVE  TypeInv'
  <2> DEFINE Typed == procs' \in [Procs -> Process]
  <2>1. /\ procs \in [Procs -> Process]
        /\ file \in Seq(Seq(Words)) /\ whole \in Seq(Seq(Words)) /\ cut \in BOOLEAN
    BY DEF TypeInv
  <2>2. procs[p] \in Process
    BY <2>1
  <2>3. CASE Exit(p)
    <3>1. procs' = [procs EXCEPT ![p] = Off] /\ whole' = whole
      BY <2>3 DEF Exit
    <3>2. procs' \in [Procs -> Process]
      BY <3>1, <2>1, OffType
    <3>3. file' \in Seq(Seq(Words)) /\ cut' \in BOOLEAN
      <4>1. CASE procs[p].main = "writing"
        <5>1. PICK n \in {k \in Pieces : k <= Len(procs[p].new)} :
                file' \in Over(SubSeq(procs[p].new, 1, n), file)
          BY <2>3, <4>1 DEF Exit
        <5>2. procs[p].new \in Seq(Seq(Words)) /\ n \in Nat /\ n <= Len(procs[p].new)
          BY <2>2, LifecycleAssumption DEF Process
        <5>3. SubSeq(procs[p].new, 1, n) \in Seq(Seq(Words))
          BY <5>2, PartType
        <5>4. cut' \in BOOLEAN
          BY <2>3, <4>1 DEF Exit
        <5>5. QED
          BY <5>1, <5>3, <5>4, <2>1, OverType
      <4>2. CASE procs[p].main # "writing"
        BY <2>3, <4>2, <2>1 DEF Exit
      <4>3. QED
        BY <4>1, <4>2
    <3>4. QED
      BY <3>1, <3>2, <3>3, <2>1 DEF TypeInv
  <2>4. CASE OpenMutex(p)
    BY <2>4, <2>1, <2>2 DEF OpenMutex, To, TypeInv, Process, Mains
  <2>5. CASE CreateMutex(p)
    BY <2>5, <2>1, <2>2 DEF CreateMutex, TypeInv, Process, Mains
  <2>6. CASE Read(p)
    <3> DEFINE car    == procs[p].car
               values == Values(file, car)
               new    == IF UpdateRequired(file, car) THEN Rewritten(file, car) ELSE << >>
               main   == IF UpdateRequired(file, car) THEN "update" ELSE AfterConfig(p)
    <3>1. car \in Seq(Words)
      <4>1. car \in Cars \cup {<< >>}
        BY <2>2 DEF Process
      <4>2. QED
        BY <4>1, EmptySeq, LifecycleAssumption
    <3>2. values \in [attribute : [Attributes -> Words], weight : {"0", "1"}]
      BY <3>1, <2>1, ValuesType
    <3>3. new \in Seq(Seq(Words))
      <4>1. Rewritten(file, car) \in Seq(Seq(Words))
        BY <3>1, <2>1, RewrittenFacts
      <4>2. QED
        BY <4>1, EmptySeq
    <3>4. main \in Mains
      BY DEF AfterConfig, Mains
    <3>5. /\ procs' = [procs EXCEPT ![p].values = values, ![p].missed = FALSE,
                                    ![p].new = new, ![p].main = main]
          /\ UNCHANGED << file, whole, cut >>
      BY <2>6 DEF Read
    <3> HIDE DEF values, new, main
    <3>6. QED
      BY <3>2, <3>3, <3>4, <3>5, <2>1, <2>2 DEF TypeInv, Process
  <2>7. CASE Truncate(p)
    <3>1. << >> \in Seq(Seq(Words)) /\ "writing" \in Mains
      BY EmptySeq DEF Mains
    <3>2. QED
      BY <3>1, <2>7, <2>1, <2>2 DEF Truncate, To, TypeInv, Process
  <2>8. CASE CannotWrite(p)
    <3>1. << >> \in Seq(Seq(Words)) /\ AfterConfig(p) \in Mains
      BY EmptySeq DEF AfterConfig, Mains
    <3>2. QED
      BY <3>1, <2>8, <2>1, <2>2 DEF CannotWrite, TypeInv, Process
  <2>9. CASE Write(p)
    <3>1. << >> \in Seq(Seq(Words)) /\ AfterConfig(p) \in Mains
      BY EmptySeq DEF AfterConfig, Mains
    <3>2. procs[p].new \in Seq(Seq(Words))
      BY <2>2 DEF Process
    <3>3. file' \in Over(procs[p].new, file) /\ whole' = file' /\ cut' = FALSE
      BY <2>9 DEF Write
    <3>4. file' \in Seq(Seq(Words)) /\ whole' \in Seq(Seq(Words)) /\ cut' \in BOOLEAN
      BY <3>2, <3>3, <2>1, OverType
    <3>5. QED
      BY <3>1, <3>4, <2>9, <2>1, <2>2 DEF Write, TypeInv, Process
  <2>10. CASE PortInvalid(p)
    BY <2>10, <2>3 DEF PortInvalid
  <2>11. CASE NewServer(p)
    BY <2>11, <2>1, <2>2 DEF NewServer, TypeInv, Process, Mains
  <2>12. CASE start(p)
    BY <2>12, <2>1, <2>2 DEF start, TypeInv, Process, Mains
  <2>13. CASE NewHeader(p)
    <3>1. PICK car \in Cars : procs' = [procs EXCEPT ![p].main = "config", ![p].car = car]
      BY <2>13 DEF NewHeader
    <3>2. "config" \in Mains /\ UNCHANGED << file, whole, cut >>
      BY <2>13 DEF NewHeader, Mains
    <3>3. QED
      BY <3>1, <3>2, <2>1, <2>2 DEF TypeInv, Process
  <2>14. CASE ServerThread(p)
    <3>1. PICK thread \in {"running", "ended"} : procs' = [procs EXCEPT ![p].thread = thread]
      BY <2>14 DEF ServerThread, CreateContext, DestroyContext
    <3>2. UNCHANGED << file, whole, cut >>
      BY <2>14 DEF ServerThread, CreateContext, DestroyContext
    <3>3. QED
      BY <3>1, <3>2, <2>1, <2>2 DEF TypeInv, Process
  <2>15. CASE CloseEvent(p)
    BY <2>15, <2>1, <2>2 DEF CloseEvent, TypeInv, Process
  <2>16. CASE stop(p) \/ join(p)
    <3>1. CASE stop(p)
      BY <3>1, <2>1, <2>2 DEF stop, TypeInv, Process
    <3>2. CASE join(p)
      BY <3>2, <2>1, <2>2 DEF join, TypeInv, Process
    <3>3. QED
      BY <2>16, <3>1, <3>2
  <2>17. CASE ExitProcess(p) \/ Kill(p)
    BY <2>17, <2>3 DEF ExitProcess, Kill
  <2>18. QED
    BY <1>3, <2>4, <2>5, <2>6, <2>7, <2>8, <2>9, <2>10, <2>11, <2>12, <2>13, <2>14, <2>15,
       <2>16, <2>17 DEF Main, Handler
<1>4. QED
  BY <1>1, <1>2, <1>3 DEF Next

-----------------------------------------------------------------------------
(* The invariants: one process at a time holds the mutex and the file, and   *)
(* what it is about to write is the rewriting of what it read.               *)

\* an action changes one process only
Others(p) == \A q \in Procs \ {p} : procs'[q] = procs[q]

Running == Mains \ {"off", "opened"}

Solo ==
  /\ \A p \in Procs : procs[p].handle <=> procs[p].main \in Running
  /\ \A p, q \in Procs : p # q => procs[p].main = "off" \/ procs[q].main = "off"

\* p is about to write the rewriting of what it read: of the file as it was whole,
\* but for an edit since, or what a process that ended had left
Rewrites(p) ==
  \E old \in Seq(Seq(Words)) :
    /\ procs[p].new = Rewritten(old, procs[p].car)
    /\ procs[p].values = Values(old, procs[p].car)
    /\ ~procs[p].missed /\ ~cut => old = whole

FileInv ==
  /\ ~cut /\ (\A p \in Procs : procs[p].main # "writing") => whole = file
  /\ \A p \in Procs :
       /\ procs[p].main \in {"update", "writing"} => Rewrites(p)
       /\ procs[p].main = "writing" /\ ~procs[p].missed => file = << >>

\* What the actions do to the state that the invariants below are about.
StartsAlone(p) ==
  /\ procs[p].main = "off" /\ procs'[p].main = "opened"
  /\ procs'[p].handle = procs[p].handle
  /\ \A q \in Procs : ~procs[q].handle /\ procs[q].main # "opened"
  /\ UNCHANGED << file, whole, cut >>

TakesMutex(p) ==
  /\ procs[p].main = "opened" /\ procs'[p].main = "config" /\ procs'[p].handle = TRUE
  /\ UNCHANGED << file, whole, cut >>

Reads(p) ==
  /\ procs[p].main = "config"
  /\ procs'[p].handle = procs[p].handle /\ procs'[p].car = procs[p].car
  /\ \/ /\ procs'[p].main = "update"
        /\ procs'[p].new = Rewritten(file, procs[p].car)
        /\ procs'[p].values = Values(file, procs[p].car)
     \/ procs'[p].main \in {"check", "loop"}
  /\ UNCHANGED << file, whole, cut >>

Empties(p) ==
  /\ procs[p].main = "update" /\ procs'[p].main = "writing"
  /\ procs'[p].handle = procs[p].handle /\ procs'[p].car = procs[p].car
  /\ procs'[p].new = procs[p].new /\ procs'[p].values = procs[p].values
  /\ procs'[p].missed = procs[p].missed
  /\ file' = << >>
  /\ UNCHANGED << whole, cut >>

Writes(p) ==
  /\ procs[p].main = "writing" /\ procs'[p].main \in {"check", "loop"}
  /\ procs'[p].handle = procs[p].handle /\ procs'[p].car = procs[p].car
  /\ file' \in Over(procs[p].new, file) /\ whole' = file' /\ cut' = FALSE

\* its main goes on outside the file, or another of its threads does something
GoesOn(p) ==
  /\ \/ /\ procs[p].main \in Running \ {"writing"}
        /\ procs'[p].main \in Running \ {"update", "writing"}
     \/ /\ procs'[p].main = procs[p].main
        /\ procs'[p].new = procs[p].new /\ procs'[p].car = procs[p].car
        /\ procs'[p].values = procs[p].values /\ procs'[p].missed = procs[p].missed
  /\ procs'[p].handle = procs[p].handle
  /\ UNCHANGED << file, whole, cut >>

Ends(p) ==
  /\ procs'[p].main = "off" /\ procs'[p].handle = FALSE
  /\ IF procs[p].main = "writing" THEN cut' = (cut \/ file' # whole)
     ELSE UNCHANGED << file, cut >>
  /\ UNCHANGED whole

\* Every action of a process is one of these.
LEMMA Effects ==
  ASSUME TypeInv, ~Together, NEW p \in Procs,
         Main(p) \/ ServerThread(p) \/ CloseEvent(p) \/ Handler(p) \/ Kill(p)
  PROVE  /\ Others(p)
         /\ \/ StartsAlone(p) \/ TakesMutex(p) \/ Reads(p) \/ Empties(p) \/ Writes(p)
            \/ GoesOn(p) \/ Ends(p)
<1>1. /\ procs \in [Procs -> Process]
      /\ procs[p] \in Process
  BY DEF TypeInv
<1>2. DOMAIN procs = Procs
  BY <1>1
<1> USE DEF Others
<1>3. CASE Exit(p)
  BY <1>3, <1>1 DEF Exit, Ends, Off
<1>4. CASE OpenMutex(p)
  BY <1>4, <1>1 DEF OpenMutex, To, StartsAlone, MutexExists, Process
<1>5. CASE CreateMutex(p)
  BY <1>5, <1>1 DEF CreateMutex, TakesMutex, Process
<1>6. CASE Read(p)
  <2> DEFINE car    == procs[p].car
             values == Values(file, car)
             new    == IF UpdateRequired(file, car) THEN Rewritten(file, car) ELSE << >>
             main   == IF UpdateRequired(file, car) THEN "update" ELSE AfterConfig(p)
  <2>1. /\ procs' = [procs EXCEPT ![p].values = values, ![p].missed = FALSE,
                                    ![p].new = new, ![p].main = main]
        /\ procs[p].main = "config"
        /\ UNCHANGED << file, whole, cut >>
    BY <1>6 DEF Read
  <2>2. \/ main = "update" /\ new = Rewritten(file, car) /\ values = Values(file, car)
        \/ main \in {"check", "loop"}
    BY DEF AfterConfig
  <2> HIDE DEF values, new, main
  <2>3. QED
    BY <2>1, <2>2, <1>1 DEF Reads, Process
<1>7. CASE Truncate(p)
  BY <1>7, <1>1 DEF Truncate, To, Empties, Process
<1>8. CASE CannotWrite(p)
  BY <1>8, <1>1 DEF CannotWrite, AfterConfig, GoesOn, Running, Mains, Process
<1>9. CASE Write(p)
  BY <1>9, <1>1 DEF Write, AfterConfig, Writes, Process
<1>10. CASE PortInvalid(p)
  BY <1>10, <1>3 DEF PortInvalid
<1>11. CASE NewServer(p) \/ start(p) \/ NewHeader(p)
  BY <1>11, <1>1 DEF NewServer, start, NewHeader, GoesOn, Running, Mains, Process
<1>12. CASE ServerThread(p)
  BY <1>12, <1>1 DEF ServerThread, CreateContext, DestroyContext, GoesOn, Process
<1>13. CASE CloseEvent(p)
  BY <1>13, <1>1 DEF CloseEvent, GoesOn, Process
<1>14. CASE stop(p) \/ join(p)
  BY <1>14, <1>1 DEF stop, join, GoesOn, Process
<1>15. CASE ExitProcess(p) \/ Kill(p)
  BY <1>15, <1>3 DEF ExitProcess, Kill
<1>16. QED
  BY <1>4, <1>5, <1>6, <1>7, <1>8, <1>9, <1>10, <1>11, <1>12, <1>13, <1>14, <1>15
     DEF Main, Handler

LEMMA SoloInit ==
  ASSUME Init
  PROVE  Solo /\ FileInv
<1>1. \A p \in Procs : procs[p] = Off
  BY DEF Init
<1>2. Off.main = "off" /\ Off.handle = FALSE
  BY DEF Off
<1>3. QED
  BY <1>1, <1>2 DEF Init, Solo, FileInv, Running

LEMMA SoloStep ==
  ASSUME TypeInv, TypeInv', ~Together, Solo, FileInv, [Next]_vars
  PROVE  Solo' /\ FileInv'
<1>0. /\ \A p \in Procs : procs[p].handle \in BOOLEAN /\ procs[p].main \in Mains
      /\ \A p \in Procs : procs'[p].handle \in BOOLEAN /\ procs'[p].main \in Mains
  BY DEF TypeInv, Process
<1>1. CASE UNCHANGED vars
  BY <1>1 DEF Solo, FileInv, Rewrites, vars
<1>2. CASE UserEdits
  <2>1. /\ file' = whole' /\ cut' = FALSE
        /\ procs' = [p \in Procs |->
                      [procs[p] EXCEPT !.missed = @ \/ procs[p].main \in {"update", "writing"}]]
    BY <1>2 DEF UserEdits
  <2>2. ASSUME NEW p \in Procs
        PROVE  /\ procs'[p].main = procs[p].main /\ procs'[p].handle = procs[p].handle
               /\ procs'[p].car = procs[p].car /\ procs'[p].new = procs[p].new
               /\ procs'[p].values = procs[p].values
               /\ procs[p].main \in {"update", "writing"} => procs'[p].missed
    <3>1. procs[p] \in Process
      BY DEF TypeInv
    <3>2. QED
      BY <2>1, <3>1 DEF Process
  <2>3. Solo'
    BY <2>2 DEF Solo
  <2>4. ASSUME NEW p \in Procs, procs'[p].main \in {"update", "writing"}
        PROVE  Rewrites(p)' /\ procs'[p].missed
    <3>1. Rewrites(p)
      BY <2>2, <2>4 DEF FileInv
    <3>2. QED
      BY <2>2, <2>4, <3>1 DEF Rewrites
  <2>5. QED
    BY <2>1, <2>3, <2>4 DEF FileInv
<1>3. ASSUME NEW p \in Procs,
             Main(p) \/ ServerThread(p) \/ CloseEvent(p) \/ Handler(p) \/ Kill(p)
      PROVE  Solo' /\ FileInv'
  <2>1. /\ \A q \in Procs \ {p} : procs'[q] = procs[q]
        /\ \/ StartsAlone(p) \/ TakesMutex(p) \/ Reads(p) \/ Empties(p) \/ Writes(p)
           \/ GoesOn(p) \/ Ends(p)
    BY <1>3, Effects DEF Others
  <2>2. ASSUME procs[p].main # "off"
        PROVE  /\ \A q \in Procs \ {p} : procs[q].main = "off" /\ procs'[q].main = "off"
               /\ \A q \in Procs \ {p} : ~procs'[q].handle
    BY <2>1, <2>2, <1>0 DEF Solo, Running
  <2> DEFINE Alone == \A q \in Procs \ {p} : procs'[q].main = "off" /\ ~procs'[q].handle
  <2>3. ASSUME Alone, procs'[p].handle <=> procs'[p].main \in Running
        PROVE  Solo'
    BY <2>3 DEF Solo, Running
  <2>4. ASSUME Alone, ~cut' /\ procs'[p].main # "writing" => whole' = file',
               procs'[p].main \in {"update", "writing"} => Rewrites(p)',
               procs'[p].main = "writing" /\ ~procs'[p].missed => file' = << >>
        PROVE  FileInv'
    BY <2>4 DEF FileInv
  <2>5. ASSUME procs[p].main # "writing", Alone, ~cut
        PROVE  whole = file
    BY <2>5, <2>1 DEF FileInv
  <2>6. CASE StartsAlone(p)
    <3>1. Alone
      BY <2>6, <2>1, <1>0 DEF StartsAlone, Solo, Running
    <3>2. Solo'
      BY <2>6, <2>3, <3>1 DEF StartsAlone, Running
    <3>3. FileInv'
      BY <2>6, <2>4, <2>5, <3>1 DEF StartsAlone
    <3>4. QED
      BY <3>2, <3>3
  <2>7. CASE procs[p].main = "off" /\ GoesOn(p)
    <3>1. procs'[p].main = "off" /\ ~procs'[p].handle /\ UNCHANGED << file, whole, cut >>
      BY <2>7, <1>0 DEF GoesOn, Running, Solo
    <3>2. Solo'
      BY <3>1, <2>1, <1>0 DEF Solo, Running
    <3>3. FileInv'
      <4>1. ASSUME NEW q \in Procs, Rewrites(q), procs'[q] = procs[q]
            PROVE  Rewrites(q)'
        BY <4>1, <3>1 DEF Rewrites
      <4>2. QED
        BY <4>1, <3>1, <2>1, <2>7 DEF FileInv
    <3>4. QED
      BY <3>2, <3>3
  <2>8. CASE Ends(p)
    <3>1. Solo'
      BY <2>8, <2>1, <1>0 DEF Solo, Running, Ends
    <3>2. FileInv'
      <4>1. CASE procs[p].main = "off"
        <5>1. ASSUME NEW q \in Procs, Rewrites(q), procs'[q] = procs[q]
              PROVE  Rewrites(q)'
          BY <5>1, <4>1, <2>8 DEF Rewrites, Ends
        <5>2. QED
          BY <5>1, <4>1, <2>8, <2>1 DEF FileInv, Ends
      <4>2. CASE procs[p].main # "off"
        BY <4>2, <2>2, <2>4, <2>5, <2>8 DEF Ends
      <4>3. QED
        BY <4>1, <4>2
    <3>3. QED
      BY <3>1, <3>2
  <2>9. CASE procs[p].main # "off" /\ ~StartsAlone(p) /\ ~Ends(p)
    <3>1. Alone
      BY <2>9, <2>2
    <3>2. procs'[p].handle <=> procs'[p].main \in Running
      BY <2>1, <2>9, <1>0 DEF Solo, TakesMutex, Reads, Empties, Writes, GoesOn, Running, Mains
    <3>3. ~cut' /\ procs'[p].main # "writing" => whole' = file'
      BY <2>1, <2>5, <2>9, <3>1 DEF TakesMutex, Reads, Empties, Writes, GoesOn
    <3>4. procs'[p].main \in {"update", "writing"} => Rewrites(p)'
      <4>1. procs[p].main \in {"update", "writing"} => Rewrites(p)
        BY DEF FileInv
      <4>2. CASE Reads(p)
        <5>1. file \in Seq(Seq(Words)) /\ (~cut => file = whole)
          BY <4>2, <2>5, <3>1 DEF Reads, TypeInv
        <5>2. QED
          BY <5>1, <4>2 DEF Reads, Rewrites
      <4>3. CASE ~Reads(p)
        BY <4>1, <4>3, <2>1, <2>9 DEF TakesMutex, Empties, Writes, GoesOn, Rewrites
      <4>4. QED
        BY <4>2, <4>3
    <3>5. procs'[p].main = "writing" /\ ~procs'[p].missed => file' = << >>
      BY <2>1, <2>9 DEF TakesMutex, Reads, Empties, Writes, GoesOn, FileInv
    <3>6. QED
      BY <2>3, <2>4, <3>1, <3>2, <3>3, <3>4, <3>5
  <2>10. QED
    <3>1. procs[p].main = "off" => StartsAlone(p) \/ GoesOn(p) \/ Ends(p)
      BY <2>1 DEF TakesMutex, Reads, Empties, Writes
    <3>2. QED
      BY <3>1, <2>6, <2>7, <2>8, <2>9
<1>4. QED
  BY <1>1, <1>2, <1>3 DEF Next

\* Only the join ends a server, and no thread is started for one that ended.
LEMMA ThreadStep ==
  ASSUME TypeInv, NoThreadLeft, [Next]_vars
  PROVE  NoThreadLeft'
<1>0. procs \in [Procs -> Process]
  BY DEF TypeInv
<1>1. CASE UNCHANGED vars \/ UserEdits
  BY <1>0, <1>1 DEF UserEdits, NoThreadLeft, vars, Process
<1>2. ASSUME NEW p \in Procs,
             Main(p) \/ ServerThread(p) \/ CloseEvent(p) \/ Handler(p) \/ Kill(p)
      PROVE  NoThreadLeft'
  <2>1. procs \in [Procs -> Process] /\ procs[p] \in Process
    BY DEF TypeInv
  <2>2. ASSUME procs'[p].server = "deleted" => procs'[p].thread \in {"none", "ended"},
               \A q \in Procs \ {p} : procs'[q] = procs[q]
        PROVE  NoThreadLeft'
    BY <2>2 DEF NoThreadLeft
  <2>3. procs[p].server = "deleted" => procs[p].thread \in {"none", "ended"}
    BY DEF NoThreadLeft
  <2>4. CASE Exit(p)
    BY <2>1, <2>2, <2>4 DEF Exit, Off
  <2>5. CASE OpenMutex(p) \/ CreateMutex(p) \/ Truncate(p) \/ CannotWrite(p) \/ Write(p)
    BY <2>1, <2>2, <2>3, <2>5 DEF OpenMutex, CreateMutex, Truncate, CannotWrite, Write, To, Process
  <2>6. CASE Read(p)
    BY <2>1, <2>2, <2>3, <2>6 DEF Read, Process
  <2>7. CASE NewServer(p)
    BY <2>1, <2>2, <2>3, <2>7 DEF NewServer, Process
  <2>8. CASE start(p)
    BY <2>1, <2>2, <2>3, <2>8 DEF start, Process
  <2>9. CASE NewHeader(p)
    BY <2>1, <2>2, <2>3, <2>9 DEF NewHeader, Process
  <2>10. CASE ServerThread(p)
    BY <2>1, <2>2, <2>3, <2>10 DEF ServerThread, CreateContext, DestroyContext, Process
  <2>11. CASE CloseEvent(p)
    BY <2>1, <2>2, <2>3, <2>11 DEF CloseEvent, Process
  <2>12. CASE stop(p)
    BY <2>1, <2>2, <2>3, <2>12 DEF stop, Process
  <2>13. CASE join(p)
    BY <2>1, <2>2, <2>3, <2>13 DEF join, Ended, Process
  <2>14. CASE PortInvalid(p) \/ ExitProcess(p) \/ Kill(p)
    BY <2>4, <2>14 DEF PortInvalid, ExitProcess, Kill
  <2>15. QED
    BY <1>2, <2>5, <2>6, <2>7, <2>8, <2>9, <2>10, <2>11, <2>12, <2>13, <2>14
       DEF Main, Handler
<1>3. QED
  BY <1>1, <1>2 DEF Next

Inv == TypeInv /\ Solo /\ FileInv /\ NoThreadLeft

-----------------------------------------------------------------------------
(* The theorems. *)

LEMMA Invariance ==
  ASSUME ~Together
  PROVE  Spec => []Inv
<1>1. Init => Inv
  <2>1. Init => NoThreadLeft
    BY DEF Init, NoThreadLeft, Off
  <2>2. QED
    BY <2>1, TypeInit, SoloInit DEF Inv
<1>2. Inv /\ [Next]_vars => Inv'
  BY TypeStep, SoloStep, ThreadStep DEF Inv
<1>3. QED
  BY <1>1, <1>2, PTL DEF Spec

\* Two processes that are not started in the same instant never run together;
\* a running one works with values of the file or defaults, and deletes its
\* server only when no thread uses it.
THEOREM RunsAlone ==
  ASSUME ~Together
  PROVE  Spec => []OneServer
<1>1. Inv => OneServer
  <2>1. SUFFICES ASSUME Inv
                 PROVE  OneServer
    OBVIOUS
  <2>2. TypeOK
    <3>1. SUFFICES ASSUME NEW p \in Procs
                   PROVE  /\ procs[p].main \in Mains
                          /\ \A a \in Attributes : procs[p].values.attribute[a] # "unset"
                          /\ procs[p].values.weight \in {"0", "1"}
                          /\ procs[p].car \in Cars \cup {<< >>}
                          /\ procs[p].server \in {"none", "live", "deleted"}
                          /\ procs[p].thread \in {"none", "starting", "running", "ended"}
                          /\ procs[p].handler \in {"none", "stop", "join", "exit"}
                          /\ {procs[p].handle, procs[p].running, procs[p].missed} \subseteq BOOLEAN
      BY DEF TypeOK, Mains
    <3>2. procs[p] \in Process
      BY <2>1 DEF Inv, TypeInv
    <3>3. \A a \in Attributes : procs[p].values.attribute[a] \in Words
      BY <3>2 DEF Process
    <3>4. "unset" \notin Words
      BY ConfigFileAssumption
    <3>5. QED
      BY <3>2, <3>3, <3>4 DEF Process
  <2>3. OneInstance
    <3> DEFINE holders == {p \in Procs : procs[p].handle}
    <3>1. \A p, q \in holders : p = q
      BY <2>1 DEF Inv, Solo, Running
    <3>2. CASE holders = {}
      BY <3>2, FS_EmptySet DEF OneInstance
    <3>3. CASE holders # {}
      <4>1. PICK p \in holders : TRUE
        BY <3>3
      <4>2. holders = {p}
        BY <4>1, <3>1
      <4>3. Cardinality({p}) = 1
        BY FS_Singleton
      <4>4. QED
        BY <4>2, <4>3 DEF OneInstance
    <3>4. QED
      BY <3>2, <3>3
  <2>4. QED
    BY <2>1, <2>2, <2>3 DEF Inv, OneServer
<1>2. QED
  BY <1>1, Invariance, PTL

\* However the user edits the file and whenever a process ends: a rewriting that
\* is finished keeps every attribute, the number to six digits, and the setting of
\* every car, unless the user edited the file after it was read or a process ended
\* between the truncation and the close; it always leaves the file saying what the
\* program works with, and nothing to add.  No car's name begins another's.
THEOREM SettingsSurvive ==
  ASSUME NamesApart(Cars), ~Together
  PROVE  Spec => SettingsKept
<1> DEFINE Keeps == \A p \in Procs : Finishes(p) =>
                      /\ ~procs[p].missed /\ ~cut => Kept(whole, file', Cars)
                      /\ ~UpdateRequired(file', procs[p].car)
                      /\ Values(file', procs[p].car) = AsWritten(procs[p].values)
<1>1. Inv /\ [Next]_vars => [Keeps]_vars
  <2>1. SUFFICES ASSUME Inv, [Next]_vars, NEW p \in Procs, Finishes(p)
                 PROVE  /\ ~procs[p].missed /\ ~cut => Kept(whole, file', Cars)
                        /\ ~UpdateRequired(file', procs[p].car)
                        /\ Values(file', procs[p].car) = AsWritten(procs[p].values)
    OBVIOUS
  <2>2. procs[p].main = "writing" /\ procs'[p].main \in {"check", "loop"}
    BY <2>1 DEF Finishes
  <2>3. PICK r \in Procs : Main(r) \/ ServerThread(r) \/ CloseEvent(r) \/ Handler(r) \/ Kill(r)
    <3>1. procs[p] \in Process
      BY <2>1 DEF Inv, TypeInv
    <3>2. ~UserEdits /\ ~UNCHANGED vars
      <4>1. procs' = procs => procs'[p].main = "writing"
        BY <2>2
      <4>2. UserEdits => procs'[p].main = procs[p].main
        BY <3>1 DEF UserEdits, Process
      <4>3. QED
        BY <2>2, <4>1, <4>2 DEF vars
    <3>3. QED
      BY <2>1, <3>2 DEF Next
  <2>4. /\ Others(r)
        /\ \/ StartsAlone(r) \/ TakesMutex(r) \/ Reads(r) \/ Empties(r) \/ Writes(r)
           \/ GoesOn(r) \/ Ends(r)
    BY <2>1, <2>3, Effects DEF Inv
  <2>5. r = p
    BY <2>2, <2>4 DEF Others
  <2>6. Writes(p)
    BY <2>2, <2>4, <2>5 DEF StartsAlone, TakesMutex, Reads, Empties, GoesOn, Ends
  <2>7. PICK old \in Seq(Seq(Words)) :
          /\ procs[p].new = Rewritten(old, procs[p].car)
          /\ procs[p].values = Values(old, procs[p].car)
          /\ ~procs[p].missed /\ ~cut => old = whole
    BY <2>1, <2>2 DEF Inv, FileInv, Rewrites
  <2> DEFINE front == Rewritten(old, procs[p].car)
  <2>8. PICK n \in 1 .. Len(file) + 1 : file' = front \o SubSeq(file, n, Len(file))
    BY <2>6, <2>7 DEF Writes, Over
  <2> DEFINE rest == SubSeq(file, n, Len(file))
  <2>9. /\ procs[p].car \in Cars \cup {<< >>}
        /\ Cars \subseteq Seq(Words) \ {<< >>}
        /\ file \in Seq(Seq(Words))
    BY <2>1, LifecycleAssumption DEF Inv, TypeInv, Process
  <2>10. /\ rest \in Seq(Seq(Words))
         /\ file = << >> => rest = << >>
    BY <2>8, <2>9, RestType
  <2> HIDE DEF rest
  <2>11. /\ Values(file', procs[p].car) = AsWritten(procs[p].values)
         /\ ~UpdateRequired(file', procs[p].car)
    <3>1. LET new == Rewritten(old, procs[p].car) \o rest
          IN  /\ Values(new, procs[p].car) = AsWritten(Values(old, procs[p].car))
              /\ ~UpdateRequired(new, procs[p].car)
      BY <2>9, <2>10, RestIgnored
    <3>2. file' = Rewritten(old, procs[p].car) \o rest
      BY <2>8 DEF rest
    <3>3. QED
      BY <3>1, <3>2, <2>7
  <2>12. ASSUME ~procs[p].missed, ~cut
         PROVE  Kept(whole, file', Cars)
    <3>1. file = << >>
      BY <2>1, <2>2, <2>12 DEF Inv, FileInv
    <3>2. front \in Seq(Seq(Words)) /\ Kept(old, front, Cars)
      <4>1. procs[p].car \in Seq(Words)
        BY <2>9, EmptySeq
      <4>2. QED
        BY <2>9, <4>1, RewrittenFacts, RewritingKeeps
    <3> HIDE DEF front
    <3>3. file' = front
      BY <3>1, <3>2, <2>8, <2>10, ConcatEmptySeq DEF rest
    <3>4. QED
      BY <3>2, <3>3, <2>7, <2>12
  <2>13. QED
    BY <2>11, <2>12
<1>2. QED
  BY <1>1, Invariance, PTL DEF Spec, SettingsKept
=============================================================================

------------------------ MODULE TelemetryLoggerProofs ------------------------
(***************************************************************************)
(* Proofs about the telemetry server and its logger: a poll takes what is  *)
(* polled or set in its own tick (OfThisTick), the client's file is part   *)
(* of what was published (LogIsSubsequence), and what is read from a       *)
(* closed file is what its head says (FilesReadable).                      *)
(*                                                                         *)
(* The inductive invariant has the tables of irsdkServer (a name has its   *)
(* place in each header, or none), the sample that is filled (zero but for *)
(* what was set since the reset), the source (its times and laps are not   *)
(* ahead of the ticks), and for each open file that the counts in memory   *)
(* tell the truth of its records (Tells).                                  *)
(*                                                                         *)
(* readtest's lines are made by FlattenSeq, a recursive function: that its *)
(* cells stand under their columns is shown by induction on the number of  *)
(* variables, with the least number that fails (Counting).                 *)
(***************************************************************************)
EXTENDS TelemetryLogger, FiniteSetTheorems, SequenceTheorems, WellFoundedInduction, TLAPS

(* The tables of the server. *)

\* irsdkMemServer or irsdkDiskServer.
Servers == [vars : Seq(Names), ptrs : SUBSET Polled, final : BOOLEAN]
Proper(server) == /\ server \in Servers /\ server.ptrs \subseteq ToSet(server.vars)
                  /\ Len(server.vars) < bufLength

Entries == [name : Names, memIndex : Nat, diskIndex : Nat]

\* Each name of a table has its place among the variables of a header, or 0 if it is not
\* one of them; and each variable is in the table.
Placed(names, index, list) ==
  /\ \A i \in DOMAIN names :
       /\ index[i] \in 0 .. Len(list)
       /\ IF index[i] = 0 THEN names[i] \notin ToSet(list) ELSE list[index[i]] = names[i]
  /\ \A n \in ToSet(list) : \E i \in DOMAIN names : names[i] = n

NamesIn(table) == [i \in DOMAIN table |-> table[i].name]
MemIn(table) == [i \in DOMAIN table |-> table[i].memIndex]
DiskIn(table) == [i \in DOMAIN table |-> table[i].diskIndex]

LookupInv ==
  /\ Proper(mem) /\ Proper(disk)
  /\ varLookup \in Seq(Entries)
  /\ \A i, j \in DOMAIN varLookup : varLookup[i].name = varLookup[j].name => i = j
  /\ up => /\ Placed(NamesIn(varLookup), MemIn(varLookup), mem.vars)
           /\ Placed(NamesIn(varLookup), DiskIn(varLookup), disk.vars)

\* Where the program is, and what its header says.
StepInv ==
  /\ csv \in BOOLEAN /\ up \in BOOLEAN /\ session \in 0 .. MaxSessions
  /\ step \in {"register", "finalize", "reset", "poll", "update"}
  /\ up => session > 0
  /\ ~up => varLookup = << >> /\ file = 0 /\ step = "register"
  /\ up /\ step \in {"register", "finalize"} => ~mem.final /\ ~disk.final
  /\ step \in {"reset", "poll", "update"} => mem.final /\ disk.final
  /\ mem.final \/ count = 0
  /\ disk.final \/ file = 0

\* Times and laps come with the ticks.
SourceInv ==
  /\ source \in [Polled -> Values]
  /\ count \in 0 .. MaxTicks
  /\ \A n \in {Time, Lap} : source[n] <= count /\ (step = "update" => source[n] < count)

\* The sample that is filled.
Given(server, set) == [n \in ToSet(server.vars) |-> IF n \in set THEN 1 ELSE 0]
Fresh(server) == Given(server, setSinceReset)

RowInv ==
  /\ rows \in [1 .. bufCount -> Samples] /\ curBuf \in 1 .. bufCount /\ row \in Samples
  /\ setSinceReset \subseteq Names \ Polled
  /\ step = "poll" => rows[curBuf] = Fresh(mem) /\ row = Fresh(disk)

\* The samples published.
HistoryInv ==
  /\ history \in Seq(Samples) /\ count = Len(history)
  /\ \A i \in DOMAIN history : DOMAIN history[i] = ToSet(mem.vars)

Counts == [count : Nat, start : Int, end : Int, laps : Nat, lastLap : Int]
Files == [vars : Seq(Names), records : Seq(Samples), sub : Counts, closed : BOOLEAN]

FitsHeader(f) == \A r \in DOMAIN f.records : DOMAIN f.records[r] = ToSet(f.vars)

\* The first of the first n records with a lap beyond all before it.
NewLaps(records, n) ==
  {i \in 1 .. n : \A j \in 1 .. i - 1 : records[j][Lap] < records[i][Lap]}

MostIn(records, n, name, v) ==
  /\ \E i \in 1 .. n : v = records[i][name]
  /\ \A i \in 1 .. n : records[i][name] <= v

\* What the counts say of the first n records is true.
Tells(text, counts, names, records, n) ==
  /\ counts \in Counts
  /\ counts.count = n
  /\ Time \in ToSet(names) =>
       IF n = 0 THEN text => counts.start = -1
       ELSE counts.start = records[1][Time] /\ MostIn(records, n, Time, counts.end)
  /\ Lap \in ToSet(names) =>
       /\ counts.laps = Cardinality(NewLaps(records, n))
       /\ IF n = 0 THEN text => counts.lastLap = -1
          ELSE MostIn(records, n, Lap, counts.lastLap)

FilesInv(list) ==
  /\ list \in Seq(Files)
  /\ \A f \in DOMAIN list : FitsHeader(list[f])

ClosedInv(text, list) ==
  \A f \in DOMAIN list : list[f].closed =>
    Tells(text, list[f].sub, list[f].vars, list[f].records, Len(list[f].records))

DiskInv ==
  /\ FilesInv(files) /\ ClosedInv(csv, files)
  /\ file \in 0 .. Len(files)
  /\ file > 0 => /\ files[file].vars = disk.vars /\ ~files[file].closed
                 /\ Tells(csv, sub, disk.vars, files[file].records, Len(files[file].records))

ServerInv == LookupInv /\ StepInv /\ SourceInv /\ RowInv /\ HistoryInv /\ DiskInv

\* The client: its buffer is made for the header of the session it logs, and the counts
\* in memory are those of the records, but for one that is not counted yet.
ClientInv ==
  /\ running \in BOOLEAN /\ pc \in {"top", "count"}
  /\ seen \in 0 .. MaxTicks
  /\ data = NoData \/ data \in Seq(Names)
  /\ running /\ data # NoData => mem.final /\ data = mem.vars /\ seen <= count
  /\ FilesInv(logs) /\ g_file \in 0 .. Len(logs)
  /\ g_file > 0 => /\ running /\ data # NoData
                   /\ logs[g_file].vars = mem.vars /\ ~logs[g_file].closed
                   /\ Len(logs[g_file].records) > 0
                   /\ LET records == logs[g_file].records
                      IN Tells(csv, g_diskSubHeader, mem.vars, records,
                               IF pc = "count" THEN Len(records) - 1 ELSE Len(records))
  /\ running /\ pc = "count" => g_file > 0

LogsInv == ClosedInv(csv, logs)

\* The records of the open file are samples of this session, in their order, none later
\* than the last that was seen.
InOrder(records, samples, last) ==
  \E place \in [DOMAIN records -> 1 .. last] :
    \A i \in DOMAIN records :
      records[i] = samples[place[i]] /\ \A j \in 1 .. i - 1 : place[j] < place[i]

OrderInv == g_file > 0 => InOrder(logs[g_file].records, history, seen)

LoggerInv == ClientInv /\ OrderInv

\* The inductive invariant. LogsInv is not part of it: it needs that ctrl-c is handled at rest.
LoggerIInv == ServerInv /\ LoggerInv

-------------------------------------------------------------------------------
(* Facts about the constants and the operators of the model. *)

\* A set of natural numbers that is not empty has a least element.
LEMMA LeastElement ==
  ASSUME NEW T, T \subseteq Nat, T # {}
  PROVE  \E x \in T : \A y \in T : x <= y
<1>1. \E x \in T : \A y \in T : << y, x >> \notin OpToRel(<, Nat)
  BY NatLessThanWellFounded, WFMin
<1>2. PICK x \in T : \A y \in T : << y, x >> \notin OpToRel(<, Nat)
  BY <1>1
<1>3. ASSUME NEW y \in T
      PROVE  x <= y
  <2>1. x \in Nat /\ y \in Nat
    OBVIOUS
  <2>2. << y, x >> \notin OpToRel(<, Nat)
    BY <1>2
  <2>3. ~(y < x)
    BY <2>1, <2>2 DEF OpToRel
  <2>4. QED
    BY <2>1, <2>3
<1>4. QED
  BY <1>3

\* A sequence of numbers that is not empty has a greatest one: one that the fewest
\* others exceed.
LEMMA Greatest ==
  ASSUME NEW s \in Seq(Nat), s # << >>
  PROVE  /\ Max(ToSet(s)) \in Nat
         /\ \A i \in DOMAIN s : s[i] <= Max(ToSet(s))
<1> DEFINE I == DOMAIN s
           more(i) == {j \in I : s[j] > s[i]}
           T == {Cardinality(more(i)) : i \in I}
<1>1. I = 1 .. Len(s) /\ Len(s) \in Nat \ {0} /\ \A i \in I : s[i] \in Nat
  OBVIOUS
<1>2. IsFiniteSet(I)
  <2> HIDE DEF I
  <2>1. QED
    BY <1>1, FS_Interval
<1>3. \A i \in I : IsFiniteSet(more(i)) /\ Cardinality(more(i)) \in Nat
  <2>1. \A i \in I : more(i) \subseteq I
    OBVIOUS
  <2> HIDE DEF I, more
  <2>2. QED
    BY <2>1, <1>2, FS_Subset, FS_CardinalityType
<1>4. T \subseteq Nat /\ T # {}
  <2> HIDE DEF I
  <2>1. I # {}
    BY <1>1
  <2>2. QED
    BY <2>1, <1>3
<1>5. PICK m \in T : \A y \in T : m <= y
  <2> HIDE DEF T
  <2>1. QED
    BY <1>4, LeastElement
<1>6. PICK i \in I : m = Cardinality(more(i))
  OBVIOUS
<1>7. ASSUME NEW j \in I
      PROVE  s[j] <= s[i]
  <2>1. SUFFICES ASSUME ~(s[j] <= s[i])
                 PROVE  FALSE
    OBVIOUS
  <2>2. s[j] \in Nat /\ s[i] \in Nat /\ s[j] > s[i]
    BY <2>1, <1>1
  <2>3. more(j) \subseteq more(i)
    <3>1. ASSUME NEW k \in more(j)
          PROVE  k \in more(i)
      <4>1. k \in I /\ s[k] \in Nat /\ s[k] > s[j]
        BY <1>1
      <4>2. s[k] > s[i]
        BY <4>1, <2>2
      <4>3. QED
        BY <4>1, <4>2
    <3>2. QED
      BY <3>1
  <2>4. j \in more(i) /\ j \notin more(j)
    BY <2>2
  <2> HIDE DEF more
  <2>5. Cardinality(more(j)) < Cardinality(more(i))
    <3>1. /\ Cardinality(more(j)) <= Cardinality(more(i))
          /\ Cardinality(more(j)) = Cardinality(more(i)) => more(j) = more(i)
      BY <2>3, <1>3, FS_Subset
    <3>2. QED
      BY <3>1, <2>4, <1>3
  <2>6. Cardinality(more(i)) <= Cardinality(more(j))
    BY <1>5, <1>6
  <2>7. QED
    BY <2>5, <2>6, <1>3
<1>8. ToSet(s) \subseteq Nat /\ s[i] \in ToSet(s) /\ \A y \in ToSet(s) : s[i] >= y
  <2>1. \A y \in ToSet(s) : \E j \in I : y = s[j]
    BY DEF ToSet
  <2> HIDE DEF I
  <2>2. s[i] \in ToSet(s)
    BY DEF ToSet, I
  <2>3. \A y \in ToSet(s) : y \in Nat /\ s[i] >= y
    BY <2>1, <1>1, <1>7
  <2>4. QED
    BY <2>2, <2>3
<1>9. Max(ToSet(s)) \in ToSet(s) /\ \A y \in ToSet(s) : Max(ToSet(s)) >= y
  BY <1>8 DEF Max
<1>10. \A j \in DOMAIN s : s[j] \in ToSet(s)
  BY DEF ToSet
<1>11. QED
  BY <1>8, <1>9, <1>10

\* The constants.
LEMMA ConstantFacts ==
  /\ MaxTicks \in Nat /\ MaxSessions \in Nat
  /\ \A s \in 1 .. MaxSessions : Ticks[s] \in 0 .. MaxTicks
  /\ Values = 0 .. MaxTicks + 1
  /\ Time \in Polled /\ Lap \in Polled /\ Polled \subseteq Names
  /\ bufCount \in Nat \ {0} /\ bufLength \in Nat \ {0} /\ MaxFiles \in Nat
<1>1. Ticks \in Seq(Nat) /\ Ticks # << >>
  BY ServerAssumption
<1>2. MaxTicks \in Nat /\ \A s \in DOMAIN Ticks : Ticks[s] <= MaxTicks
  BY <1>1, Greatest DEF MaxTicks
<1>3. DOMAIN Ticks = 1 .. MaxSessions /\ MaxSessions \in Nat /\ \A s \in DOMAIN Ticks : Ticks[s] \in Nat
  BY <1>1 DEF MaxSessions
<1>4. \A s \in 1 .. MaxSessions : Ticks[s] \in 0 .. MaxTicks
  BY <1>2, <1>3
<1>5. QED
  BY <1>2, <1>3, <1>4, ServerAssumption DEF Values

\* A sample is a function on some of the names.
LEMMA SampleFacts ==
  /\ \A f : f \in Samples <=> \E N \in SUBSET Names : f \in [N -> Values]
  /\ \A f \in Samples : DOMAIN f \subseteq Names /\ \A n \in DOMAIN f : f[n] \in Values
  /\ << >> \in Samples
<1>1. \A f : f \in Samples <=> \E N \in SUBSET Names : f \in [N -> Values]
  BY DEF Samples
<1>2. << >> \in [{} -> Values]
  OBVIOUS
<1>3. QED
  BY <1>1, <1>2

\* The index of a name in a list, if it is there.
LEMMA IndexFacts ==
  ASSUME NEW list \in Seq(Names), NEW name
  PROVE  /\ nameToIndex(list, name) \in 0 .. Len(list)
         /\ nameToIndex(list, name) = 0 <=> name \notin ToSet(list)
         /\ nameToIndex(list, name) # 0 => list[nameToIndex(list, name)] = name
<1>1. DOMAIN list = 1 .. Len(list) /\ Len(list) \in Nat
  OBVIOUS
<1>2. CASE name \in ToSet(list)
  <2>1. PICK i \in DOMAIN list : list[i] = name
    BY <1>2 DEF ToSet
  <2>2. nameToIndex(list, name) \in DOMAIN list /\ list[nameToIndex(list, name)] = name
    BY <2>1, <1>2 DEF nameToIndex
  <2>3. QED
    BY <2>2, <1>1, <1>2
<1>3. CASE name \notin ToSet(list)
  BY <1>1, <1>3 DEF nameToIndex
<1>4. QED
  BY <1>2, <1>3

\* A name appended.
LEMMA AppendedNames ==
  ASSUME NEW list \in Seq(Names), NEW name \in Names
  PROVE  /\ Append(list, name) \in Seq(Names)
         /\ ToSet(Append(list, name)) = ToSet(list) \cup {name}
         /\ Len(Append(list, name)) = Len(list) + 1
         /\ \A i \in 1 .. Len(list) : Append(list, name)[i] = list[i]
         /\ ToSet(list) \subseteq Names
<1>1. /\ Append(list, name) \in Seq(Names) /\ Len(list) \in Nat
      /\ Len(Append(list, name)) = Len(list) + 1
      /\ \A i \in 1 .. Len(list) : Append(list, name)[i] = list[i]
      /\ Append(list, name)[Len(list) + 1] = name
      /\ DOMAIN list = 1 .. Len(list) /\ DOMAIN Append(list, name) = 1 .. Len(list) + 1
      /\ \A i \in DOMAIN list : list[i] \in Names
  OBVIOUS
<1>2. ASSUME NEW n
      PROVE  n \in ToSet(Append(list, name)) <=> n \in ToSet(list) \cup {name}
  <2>1. n \in ToSet(list) <=> \E i \in 1 .. Len(list) : n = list[i]
    BY <1>1 DEF ToSet
  <2>2. n \in ToSet(Append(list, name)) <=> \E i \in 1 .. Len(list) + 1 : n = Append(list, name)[i]
    BY <1>1 DEF ToSet
  <2>3. 1 .. Len(list) + 1 = (1 .. Len(list)) \cup {Len(list) + 1}
    BY <1>1
  <2>4. QED
    BY <2>1, <2>2, <2>3, <1>1
<1>3. QED
  BY <1>1, <1>2 DEF ToSet

\* regVar of one of the two servers: a name is added at the end, or nothing is.
LEMMA RegisteredFacts ==
  ASSUME NEW server, Proper(server), NEW name \in Names, NEW pointer \in BOOLEAN,
         pointer => name \in Polled
  PROVE  LET new == Registered(server, name, pointer)
         IN /\ Proper(new) /\ new.final = server.final
            /\ \/ new.vars = server.vars
               \/ /\ ~server.final /\ name \notin ToSet(server.vars)
                  /\ new.vars = Append(server.vars, name)
<1> DEFINE new == Registered(server, name, pointer)
           ptrs == IF pointer THEN server.ptrs \cup {name} ELSE server.ptrs \ {name}
           list == server.vars
<1>1. /\ list \in Seq(Names) /\ server.ptrs \subseteq Polled /\ server.final \in BOOLEAN
      /\ server = [vars |-> list, ptrs |-> server.ptrs, final |-> server.final]
      /\ server.ptrs \subseteq ToSet(list) /\ Len(list) < bufLength /\ Len(list) \in Nat
  BY DEF Proper, Servers
<1>2. bufLength \in Nat
  BY ConstantFacts
<1>3. ptrs \subseteq Polled /\ ptrs \subseteq ToSet(list) \cup {name}
  BY <1>1
<1>4. CASE name \in ToSet(list)
  <2>1. new = [vars |-> list, ptrs |-> ptrs, final |-> server.final]
    BY <1>1, <1>4 DEF Registered
  <2> HIDE DEF ptrs, new
  <2>2. QED
    BY <2>1, <1>1, <1>3, <1>4 DEF Proper, Servers, new
<1>5. CASE name \notin ToSet(list) /\ ~server.final /\ Len(list) + 1 < bufLength
  <2>1. new = [vars |-> Append(list, name), ptrs |-> ptrs, final |-> server.final]
    BY <1>1, <1>5 DEF Registered
  <2>2. /\ Append(list, name) \in Seq(Names) /\ Len(Append(list, name)) = Len(list) + 1
        /\ ToSet(Append(list, name)) = ToSet(list) \cup {name}
    BY <1>1, AppendedNames
  <2> HIDE DEF ptrs, new
  <2>3. QED
    BY <2>1, <2>2, <1>1, <1>3, <1>5 DEF Proper, Servers, new
<1>6. CASE name \notin ToSet(list) /\ ~(~server.final /\ Len(list) + 1 < bufLength)
  <2>1. new = server
    BY <1>6 DEF Registered
  <2>2. QED
    BY <2>1
<1>7. QED
  BY <1>4, <1>5, <1>6

\* A name that is new to the table is not among the variables of a header.
LEMMA PlacedNew ==
  ASSUME NEW table \in Seq(Entries), NEW name \in Names, NEW list \in Seq(Names),
         \A i \in DOMAIN table : table[i].name # name,
         NEW entry \in Entries, entry.name = name, entry.memIndex = 0, entry.diskIndex = 0
  PROVE  /\ Placed(NamesIn(table), MemIn(table), list) =>
              Placed(NamesIn(Append(table, entry)), MemIn(Append(table, entry)), list)
         /\ Placed(NamesIn(table), DiskIn(table), list) =>
              Placed(NamesIn(Append(table, entry)), DiskIn(Append(table, entry)), list)
<1> DEFINE more == Append(table, entry)
           n == Len(table)
<1>1. /\ DOMAIN table = 1 .. n /\ DOMAIN more = 1 .. n + 1 /\ n \in Nat
      /\ \A i \in 1 .. n : more[i] = table[i]
      /\ more[n + 1] = entry
  OBVIOUS
<1> HIDE DEF more, n
<1>2. ASSUME NEW old, NEW new, DOMAIN old = 1 .. n, DOMAIN new = 1 .. n + 1,
             \A i \in 1 .. n : new[i] = old[i], new[n + 1] = 0,
             Placed(NamesIn(table), old, list)
      PROVE  Placed(NamesIn(more), new, list)
  <2> DEFINE a == NamesIn(table)
             b == NamesIn(more)
  <2>1. /\ DOMAIN a = 1 .. n /\ DOMAIN b = 1 .. n + 1
        /\ \A i \in 1 .. n : b[i] = a[i]
        /\ b[n + 1] = name
        /\ \A i \in 1 .. n : a[i] # name
    BY <1>1, SMTT(30) DEF NamesIn
  <2> HIDE DEF a, b
  <2>2. name \notin ToSet(list)
    <3>1. \A x \in ToSet(list) : \E i \in 1 .. n : a[i] = x
      BY <1>2, <2>1 DEF Placed, a
    <3>2. QED
      BY <3>1, <2>1
  <2>3. 1 .. n + 1 = (1 .. n) \cup {n + 1} /\ Len(list) \in Nat
    BY <1>1
  <2>4. \A i \in 1 .. n : /\ old[i] \in 0 .. Len(list)
                          /\ IF old[i] = 0 THEN a[i] \notin ToSet(list) ELSE list[old[i]] = a[i]
    BY <1>2, <2>1 DEF Placed, a
  <2>5. \A i \in 1 .. n + 1 : /\ new[i] \in 0 .. Len(list)
                              /\ IF new[i] = 0 THEN b[i] \notin ToSet(list) ELSE list[new[i]] = b[i]
    <3>1. ASSUME NEW i \in 1 .. n
          PROVE  /\ new[i] \in 0 .. Len(list)
                 /\ IF new[i] = 0 THEN b[i] \notin ToSet(list) ELSE list[new[i]] = b[i]
      BY <2>1, <2>4, <1>2
    <3>2. /\ new[n + 1] \in 0 .. Len(list)
          /\ IF new[n + 1] = 0 THEN b[n + 1] \notin ToSet(list) ELSE list[new[n + 1]] = b[n + 1]
      BY <2>1, <2>2, <2>3, <1>2
    <3>3. QED
      BY <3>1, <3>2, <2>3
  <2>6. \A x \in ToSet(list) : \E i \in 1 .. n + 1 : b[i] = x
    <3>1. \A x \in ToSet(list) : \E i \in 1 .. n : a[i] = x
      BY <1>2, <2>1 DEF Placed, a
    <3>2. QED
      BY <3>1, <2>1, <2>3
  <2>7. QED
    BY <2>1, <2>5, <2>6 DEF Placed, b
<1>3. /\ DOMAIN MemIn(table) = 1 .. n /\ DOMAIN MemIn(more) = 1 .. n + 1
      /\ \A i \in 1 .. n : MemIn(more)[i] = MemIn(table)[i]
      /\ MemIn(more)[n + 1] = 0
      /\ DOMAIN DiskIn(table) = 1 .. n /\ DOMAIN DiskIn(more) = 1 .. n + 1
      /\ \A i \in 1 .. n : DiskIn(more)[i] = DiskIn(table)[i]
      /\ DiskIn(more)[n + 1] = 0
  BY <1>1 DEF MemIn, DiskIn
<1>4. QED
  BY <1>2, <1>3 DEF more

\* The place of a name is found anew after the name has been registered.
LEMMA PlacedAgain ==
  ASSUME NEW names, NEW old, NEW list \in Seq(Names), Placed(names, old, list),
         \A i, j \in DOMAIN names : names[i] = names[j] => i = j,
         NEW k \in DOMAIN names, names[k] \in Names,
         NEW longer \in Seq(Names), longer = list \/ longer = Append(list, names[k]),
         NEW new, \A i \in DOMAIN names : i # k => new[i] = old[i],
         new[k] = nameToIndex(longer, names[k])
  PROVE  Placed(names, new, longer)
<1>1. /\ Len(list) \in Nat /\ Len(longer) \in Nat /\ Len(list) <= Len(longer)
      /\ \A i \in 1 .. Len(list) : longer[i] = list[i]
      /\ ToSet(list) \subseteq ToSet(longer)
      /\ ToSet(longer) \subseteq ToSet(list) \cup {names[k]}
  <2>1. CASE longer = list
    BY <2>1
  <2>2. CASE longer = Append(list, names[k])
    <3>1. /\ ToSet(longer) = ToSet(list) \cup {names[k]}
          /\ Len(longer) = Len(list) + 1
          /\ \A i \in 1 .. Len(list) : longer[i] = list[i]
      BY <2>2, AppendedNames
    <3>2. QED
      BY <3>1
  <2>3. QED
    BY <2>1, <2>2
<1>2. /\ new[k] \in 0 .. Len(longer)
      /\ IF new[k] = 0 THEN names[k] \notin ToSet(longer) ELSE longer[new[k]] = names[k]
  BY IndexFacts
<1>3. ASSUME NEW i \in DOMAIN names, i # k
      PROVE  /\ new[i] \in 0 .. Len(longer)
             /\ IF new[i] = 0 THEN names[i] \notin ToSet(longer) ELSE longer[new[i]] = names[i]
  <2>1. /\ old[i] \in 0 .. Len(list) /\ new[i] = old[i]
        /\ IF old[i] = 0 THEN names[i] \notin ToSet(list) ELSE list[old[i]] = names[i]
    BY <1>3 DEF Placed
  <2>2. names[i] # names[k]
    BY <1>3
  <2>3. CASE old[i] = 0
    <3>1. names[i] \notin ToSet(longer)
      BY <2>1, <2>2, <2>3, <1>1
    <3>2. QED
      BY <3>1, <2>1, <2>3, <1>1
  <2>4. CASE old[i] # 0
    <3>1. old[i] \in 1 .. Len(list)
      BY <2>1, <2>4, <1>1
    <3>2. QED
      BY <3>1, <2>1, <2>4, <1>1
  <2>5. QED
    BY <2>3, <2>4
<1>4. \A n \in ToSet(longer) : \E i \in DOMAIN names : names[i] = n
  BY <1>1 DEF Placed
<1>5. QED
  BY <1>2, <1>3, <1>4 DEF Placed

\* regVar keeps the table true, and changes no header that is final.
LEMMA Registering ==
  ASSUME LookupInv, up, up', NEW name \in Names,
         NEW pointer \in BOOLEAN, NEW live \in BOOLEAN, NEW log \in BOOLEAN,
         pointer => name \in Polled, regVar(name, pointer, live, log)
  PROVE  /\ LookupInv'
         /\ mem'.final = mem.final /\ disk'.final = disk.final
         /\ mem.final => mem'.vars = mem.vars
         /\ disk.final => disk'.vars = disk.vars
<1> DEFINE list == [i \in DOMAIN varLookup |-> varLookup[i].name]
           known == nameToIndex(list, name)
           entry == [name |-> name, memIndex |-> 0, diskIndex |-> 0]
           entries == IF known > 0 THEN varLookup ELSE NewEntry(name)
           index == IF known > 0 THEN known ELSE Len(entries)
           n == Len(entries)
<1>1. /\ mem' = IF live THEN Registered(mem, name, pointer) ELSE mem
      /\ disk' = IF log THEN Registered(disk, name, pointer) ELSE disk
      /\ varLookup' = [entries EXCEPT
           ![index].memIndex = IF live THEN nameToIndex(mem'.vars, name) ELSE @,
           ![index].diskIndex = IF log THEN nameToIndex(disk'.vars, name) ELSE @]
  BY DEF regVar, memRegVar, diskRegVar
<1>2. /\ Proper(mem) /\ Proper(disk) /\ varLookup \in Seq(Entries)
      /\ \A i, j \in DOMAIN varLookup : varLookup[i].name = varLookup[j].name => i = j
      /\ Placed(NamesIn(varLookup), MemIn(varLookup), mem.vars)
      /\ Placed(NamesIn(varLookup), DiskIn(varLookup), disk.vars)
  BY DEF LookupInv
<1>3. /\ Proper(mem') /\ mem'.final = mem.final
      /\ mem'.vars = mem.vars \/ (live /\ ~mem.final /\ mem'.vars = Append(mem.vars, name))
  <2>1. CASE live
    BY <2>1, <1>1, <1>2, RegisteredFacts
  <2>2. CASE ~live
    BY <2>2, <1>1, <1>2
  <2>3. QED
    BY <2>1, <2>2
<1>4. /\ Proper(disk') /\ disk'.final = disk.final
      /\ disk'.vars = disk.vars \/ (log /\ ~disk.final /\ disk'.vars = Append(disk.vars, name))
  <2>1. CASE log
    BY <2>1, <1>1, <1>2, RegisteredFacts
  <2>2. CASE ~log
    BY <2>2, <1>1, <1>2
  <2>3. QED
    BY <2>1, <2>2
<1>5. /\ mem.vars \in Seq(Names) /\ mem'.vars \in Seq(Names)
      /\ disk.vars \in Seq(Names) /\ disk'.vars \in Seq(Names)
  BY <1>2, <1>3, <1>4 DEF Proper, Servers
<1>6. list \in Seq(Names) /\ DOMAIN list = DOMAIN varLookup /\ Len(list) = Len(varLookup)
      /\ DOMAIN varLookup = 1 .. Len(varLookup) /\ Len(varLookup) \in Nat
  <2>1. \A i \in 1 .. Len(varLookup) : varLookup[i].name \in Names
    <3>1. \A i \in 1 .. Len(varLookup) : varLookup[i] \in Entries
      BY <1>2
    <3>2. QED
      BY <3>1 DEF Entries
  <2>2. DOMAIN varLookup = 1 .. Len(varLookup) /\ Len(varLookup) \in Nat
    BY <1>2
  <2>3. QED
    BY <2>1, <2>2
<1>7. /\ known \in 0 .. Len(varLookup)
      /\ known # 0 => varLookup[known].name = name
      /\ known = 0 => \A i \in DOMAIN varLookup : varLookup[i].name # name
  <2> HIDE DEF known
  <2>1. /\ known \in 0 .. Len(list)
        /\ known = 0 <=> name \notin ToSet(list)
        /\ known # 0 => list[known] = name
    BY <1>6, IndexFacts DEF known
  <2>2. known # 0 => known \in DOMAIN varLookup
    BY <2>1, <1>6
  <2>3. \A i \in DOMAIN varLookup : list[i] = varLookup[i].name /\ list[i] \in ToSet(list)
    BY <1>6 DEF ToSet
  <2>4. QED
    BY <2>1, <2>2, <2>3, <1>6
<1> HIDE DEF known, list
<1>8. /\ entries \in Seq(Entries) /\ index \in DOMAIN entries /\ entries[index].name = name
      /\ \A i, j \in DOMAIN entries : entries[i].name = entries[j].name => i = j
      /\ Placed(NamesIn(entries), MemIn(entries), mem.vars)
      /\ Placed(NamesIn(entries), DiskIn(entries), disk.vars)
  <2>1. CASE known > 0
    <3>1. entries = varLookup /\ index = known
      BY <2>1
    <3>2. known \in DOMAIN varLookup /\ known # 0
      BY <2>1, <1>6, <1>7
    <3> HIDE DEF entries, index
    <3>3. QED
      BY <3>1, <3>2, <1>2, <1>7
  <2>2. CASE ~(known > 0)
    <3>1. known = 0
      BY <2>2, <1>6, <1>7
    <3>2. entries = Append(varLookup, entry) /\ index = Len(entries)
      BY <2>2 DEF NewEntry
    <3>3. entry \in Entries
      BY DEF Entries
    <3> HIDE DEF entries, index, entry
    <3>4. /\ entries \in Seq(Entries) /\ Len(entries) = Len(varLookup) + 1
          /\ DOMAIN entries = 1 .. Len(varLookup) + 1
          /\ \A i \in 1 .. Len(varLookup) : entries[i] = varLookup[i]
          /\ entries[Len(varLookup) + 1] = entry
      BY <3>2, <3>3, <1>2
    <3>5. entry.name = name /\ entry.memIndex = 0 /\ entry.diskIndex = 0
      BY DEF entry
    <3>6. /\ Placed(NamesIn(entries), MemIn(entries), mem.vars)
          /\ Placed(NamesIn(entries), DiskIn(entries), disk.vars)
      BY <3>1, <3>2, <3>3, <3>5, <1>2, <1>5, <1>7, PlacedNew
    <3>7. \A i \in 1 .. Len(varLookup) : entries[i].name # name
      BY <3>1, <3>4, <1>6, <1>7
    <3>8. ASSUME NEW i \in DOMAIN entries, NEW j \in DOMAIN entries,
                 entries[i].name = entries[j].name
          PROVE  i = j
      <4>1. i \in 1 .. Len(varLookup) \/ i = Len(varLookup) + 1
        BY <3>4, <1>6
      <4>2. j \in 1 .. Len(varLookup) \/ j = Len(varLookup) + 1
        BY <3>4, <1>6
      <4>3. QED
        BY <4>1, <4>2, <3>4, <3>5, <3>7, <3>8, <1>2, <1>6
    <3>9. index \in DOMAIN entries /\ entries[index].name = name
      BY <3>2, <3>4, <3>5, <1>6
    <3>10. QED
      BY <3>4, <3>6, <3>8, <3>9
  <2>3. QED
    BY <2>1, <2>2
<1> HIDE DEF entries, index
<1>9. /\ varLookup' \in Seq(Entries) /\ DOMAIN varLookup' = DOMAIN entries
      /\ \A i \in DOMAIN entries : varLookup'[i].name = entries[i].name
      /\ \A i \in DOMAIN entries : i # index => varLookup'[i] = entries[i]
      /\ varLookup'[index].memIndex =
           IF live THEN nameToIndex(mem'.vars, name) ELSE entries[index].memIndex
      /\ varLookup'[index].diskIndex =
           IF log THEN nameToIndex(disk'.vars, name) ELSE entries[index].diskIndex
  <2> DEFINE m == IF live THEN nameToIndex(mem'.vars, name) ELSE entries[index].memIndex
             d == IF log THEN nameToIndex(disk'.vars, name) ELSE entries[index].diskIndex
  <2>1. entries[index] \in Entries
    BY <1>8
  <2>2. m \in Nat /\ d \in Nat
    <3>1. \A list2 \in Seq(Names) : nameToIndex(list2, name) \in Nat
      BY IndexFacts
    <3>2. entries[index].memIndex \in Nat /\ entries[index].diskIndex \in Nat
      BY <2>1 DEF Entries
    <3>3. QED
      BY <3>1, <3>2, <1>5
  <2>3. varLookup' = [entries EXCEPT ![index] = [name |-> name, memIndex |-> m, diskIndex |-> d]]
    <3>1. entries[index] = [name |-> name, memIndex |-> entries[index].memIndex,
                            diskIndex |-> entries[index].diskIndex]
      BY <2>1, <1>8 DEF Entries
    <3>2. varLookup' = [entries EXCEPT ![index] = [[@ EXCEPT !.memIndex = m] EXCEPT !.diskIndex = d]]
      BY <1>1, <1>8
    <3>3. \A r \in Entries : [[r EXCEPT !.memIndex = m] EXCEPT !.diskIndex = d]
             = [name |-> r.name, memIndex |-> m, diskIndex |-> d]
      <4>1. SUFFICES ASSUME NEW r \in Entries
                     PROVE  [[r EXCEPT !.memIndex = m] EXCEPT !.diskIndex = d]
                              = [name |-> r.name, memIndex |-> m, diskIndex |-> d]
        OBVIOUS
      <4> DEFINE s == [r EXCEPT !.memIndex = m]
      <4>2. s = [name |-> r.name, memIndex |-> m, diskIndex |-> r.diskIndex]
        BY DEF Entries
      <4> HIDE DEF s
      <4>3. [s EXCEPT !.diskIndex = d] = [name |-> r.name, memIndex |-> m, diskIndex |-> d]
        BY <4>2
      <4>4. QED
        BY <4>3 DEF s
    <3>4. QED
      BY <3>2, <3>3, <2>1, <1>8
  <2> HIDE DEF m, d
  <2>4. [name |-> name, memIndex |-> m, diskIndex |-> d] \in Entries
    BY <2>2 DEF Entries
  <2>5. QED
    BY <2>3, <2>4, <1>8 DEF m, d
<1>10. NamesIn(varLookup') = NamesIn(entries)
  BY <1>9 DEF NamesIn
<1>11. /\ \A i, j \in DOMAIN NamesIn(entries) : NamesIn(entries)[i] = NamesIn(entries)[j] => i = j
       /\ DOMAIN NamesIn(entries) = DOMAIN entries
       /\ NamesIn(entries)[index] = name
       /\ index \in DOMAIN NamesIn(entries) /\ NamesIn(entries)[index] \in Names
  BY <1>8 DEF NamesIn
<1>12. Placed(NamesIn(entries), MemIn(varLookup'), mem'.vars)
  <2>1. CASE live
    <3>1. \A i \in DOMAIN entries : i # index => MemIn(varLookup')[i] = MemIn(entries)[i]
      BY <1>9 DEF MemIn
    <3>2. MemIn(varLookup')[index] = nameToIndex(mem'.vars, name)
      BY <2>1, <1>8, <1>9 DEF MemIn
    <3>3. \A i \in DOMAIN NamesIn(entries) : i # index => MemIn(varLookup')[i] = MemIn(entries)[i]
      BY <3>1, <1>11
    <3>4. mem'.vars = mem.vars \/ mem'.vars = Append(mem.vars, NamesIn(entries)[index])
      BY <1>3, <1>11
    <3>5. MemIn(varLookup')[index] = nameToIndex(mem'.vars, NamesIn(entries)[index])
      BY <3>2, <1>11
    <3>6. Placed(NamesIn(entries), MemIn(entries), mem.vars)
      BY <1>8
    <3>7. index \in DOMAIN NamesIn(entries) /\ NamesIn(entries)[index] \in Names
      BY <1>11
    <3>8. \A i, j \in DOMAIN NamesIn(entries) : NamesIn(entries)[i] = NamesIn(entries)[j] => i = j
      BY <1>11
    <3>9. mem.vars \in Seq(Names) /\ mem'.vars \in Seq(Names)
      BY <1>5
    <3>10. QED
      BY <3>3, <3>4, <3>5, <3>6, <3>7, <3>8, <3>9, PlacedAgain
  <2>2. CASE ~live
    <3>1. MemIn(varLookup') = MemIn(entries)
      BY <2>2, <1>8, <1>9 DEF MemIn
    <3>2. QED
      BY <3>1, <2>2, <1>1, <1>8
  <2>3. QED
    BY <2>1, <2>2
<1>13. Placed(NamesIn(entries), DiskIn(varLookup'), disk'.vars)
  <2>1. CASE log
    <3>1. \A i \in DOMAIN entries : i # index => DiskIn(varLookup')[i] = DiskIn(entries)[i]
      BY <1>9 DEF DiskIn
    <3>2. DiskIn(varLookup')[index] = nameToIndex(disk'.vars, name)
      BY <2>1, <1>8, <1>9 DEF DiskIn
    <3>3. \A i \in DOMAIN NamesIn(entries) : i # index => DiskIn(varLookup')[i] = DiskIn(entries)[i]
      BY <3>1, <1>11
    <3>4. disk'.vars = disk.vars \/ disk'.vars = Append(disk.vars, NamesIn(entries)[index])
      BY <1>4, <1>11
    <3>5. DiskIn(varLookup')[index] = nameToIndex(disk'.vars, NamesIn(entries)[index])
      BY <3>2, <1>11
    <3>6. Placed(NamesIn(entries), DiskIn(entries), disk.vars)
      BY <1>8
    <3>7. index \in DOMAIN NamesIn(entries) /\ NamesIn(entries)[index] \in Names
      BY <1>11
    <3>8. \A i, j \in DOMAIN NamesIn(entries) : NamesIn(entries)[i] = NamesIn(entries)[j] => i = j
      BY <1>11
    <3>9. disk.vars \in Seq(Names) /\ disk'.vars \in Seq(Names)
      BY <1>5
    <3>10. QED
      BY <3>3, <3>4, <3>5, <3>6, <3>7, <3>8, <3>9, PlacedAgain
  <2>2. CASE ~log
    <3>1. DiskIn(varLookup') = DiskIn(entries)
      BY <2>2, <1>8, <1>9 DEF DiskIn
    <3>2. QED
      BY <3>1, <2>2, <1>1, <1>8
  <2>3. QED
    BY <2>1, <2>2
<1>14. \A i, j \in DOMAIN varLookup' : varLookup'[i].name = varLookup'[j].name => i = j
  BY <1>8, <1>9
<1>15. LookupInv'
  BY <1>3, <1>4, <1>9, <1>10, <1>12, <1>13, <1>14 DEF LookupInv
<1>16. QED
  BY <1>3, <1>4, <1>15

(* The counts. *)

\* A file that begins.
LEMMA HeaderFacts ==
  ASSUME NEW text \in BOOLEAN, NEW names \in Seq(Names)
  PROVE  /\ logHeader(text, names) \in Files
         /\ logHeader(text, names).vars = names /\ logHeader(text, names).records = << >>
         /\ ~logHeader(text, names).closed
         /\ logHeader(text, names).sub.count = 0 /\ logHeader(text, names).sub.laps = 0
         /\ text => logHeader(text, names).sub.start = -1 /\ logHeader(text, names).sub.lastLap = -1
<1>1. << >> \in Seq(Samples)
  OBVIOUS
<1>2. CASE text
  BY <1>1, <1>2 DEF logHeader, logHeaderToCSV, NewFile, Files, Counts
<1>3. CASE ~text
  BY <1>1, <1>3 DEF logHeader, logHeaderToIBT, NewFile, Files, Counts
<1>4. QED
  BY <1>2, <1>3

\* The counts of a file that begins tell no record.
LEMMA TellsNone ==
  ASSUME NEW text \in BOOLEAN, NEW names \in Seq(Names), NEW records
  PROVE  Tells(text, logHeader(text, names).sub, names, records, 0)
<1> DEFINE counts == logHeader(text, names).sub
<1>1. /\ counts \in Counts /\ counts.count = 0 /\ counts.laps = 0
      /\ text => counts.start = -1 /\ counts.lastLap = -1
  BY HeaderFacts DEF Files
<1> HIDE DEF counts
<1>2. NewLaps(records, 0) = {}
  BY DEF NewLaps
<1>3. Cardinality(NewLaps(records, 0)) = 0
  BY <1>2, FS_EmptySet
<1>4. QED
  BY <1>1, <1>3 DEF Tells, counts

\* They tell of the records up to the n-th only.
LEMMA TellsSame ==
  ASSUME NEW text \in BOOLEAN, NEW counts, NEW names, NEW records, NEW other, NEW n \in Nat,
         \A i \in 1 .. n : other[i] = records[i],
         Tells(text, counts, names, records, n)
  PROVE  Tells(text, counts, names, other, n)
<1>1. NewLaps(other, n) = NewLaps(records, n)
  <2>1. \A i \in 1 .. n : \A j \in 1 .. i - 1 : j \in 1 .. n
    OBVIOUS
  <2>2. \A i \in 1 .. n : (\A j \in 1 .. i - 1 : other[j][Lap] < other[i][Lap])
                      <=> (\A j \in 1 .. i - 1 : records[j][Lap] < records[i][Lap])
    BY <2>1
  <2>3. QED
    BY <2>2 DEF NewLaps
<1>2. \A name, v : MostIn(records, n, name, v) => MostIn(other, n, name, v)
  BY DEF MostIn
<1>3. n # 0 => other[1] = records[1]
  OBVIOUS
<1>4. QED
  BY <1>1, <1>2, <1>3 DEF Tells

\* Counting a record changes the times of the counts only if it has a time.
LEMMA TimedFacts ==
  ASSUME NEW c \in Counts, NEW sample, NEW first \in BOOLEAN,
         Time \in DOMAIN sample => sample[Time] \in Nat
  PROVE  LET new == Timed(c, sample, first)
         IN /\ new \in Counts
            /\ new.count = c.count /\ new.laps = c.laps /\ new.lastLap = c.lastLap
            /\ Time \in DOMAIN sample =>
                 /\ new.start = IF first THEN sample[Time] ELSE c.start
                 /\ new.end = IF first THEN sample[Time] ELSE Max2(c.end, sample[Time])
<1>1. CASE Time \notin DOMAIN sample
  BY <1>1 DEF Timed
<1>2. CASE Time \in DOMAIN sample
  <2> DEFINE b == IF first THEN sample[Time] ELSE c.start
             e == IF first THEN sample[Time] ELSE Max2(c.end, sample[Time])
             new == Timed(c, sample, first)
  <2>1. /\ c = [count |-> c.count, start |-> c.start, end |-> c.end, laps |-> c.laps,
                lastLap |-> c.lastLap]
        /\ c.count \in Nat /\ c.start \in Int /\ c.end \in Int /\ c.laps \in Nat /\ c.lastLap \in Int
    BY DEF Counts
  <2>2. b \in Int /\ e \in Int
    BY <1>2, <2>1 DEF Max2
  <2>3. new = [[c EXCEPT !.start = b] EXCEPT !.end = e]
    BY <1>2, <2>1 DEF Timed
  <2> HIDE DEF b, e, new
  <2> DEFINE d == [c EXCEPT !.start = b]
  <2>4. d = [count |-> c.count, start |-> b, end |-> c.end, laps |-> c.laps, lastLap |-> c.lastLap]
    BY <2>1
  <2>5. new = [d EXCEPT !.end = e]
    BY <2>3
  <2> HIDE DEF d
  <2>6. new = [count |-> c.count, start |-> b, end |-> e, laps |-> c.laps, lastLap |-> c.lastLap]
    BY <2>4, <2>5
  <2>7. QED
    BY <2>1, <2>2, <2>6 DEF new, b, e, Counts
<1>3. QED
  BY <1>1, <1>2

\* It changes the laps of the counts only if it has a lap.
LEMMA LappedFacts ==
  ASSUME NEW c \in Counts, NEW sample, NEW before \in Int,
         Lap \in DOMAIN sample => sample[Lap] \in Nat
  PROVE  LET new == Lapped(c, sample, before)
         IN /\ new \in Counts
            /\ new.count = c.count /\ new.start = c.start /\ new.end = c.end
            /\ Lap \in DOMAIN sample =>
                 /\ new.laps = IF before < sample[Lap] THEN c.laps + 1 ELSE c.laps
                 /\ new.lastLap = Max2(before, sample[Lap])
<1>1. CASE Lap \notin DOMAIN sample
  BY <1>1 DEF Lapped
<1>2. CASE Lap \in DOMAIN sample
  <2> DEFINE l == IF before < sample[Lap] THEN c.laps + 1 ELSE c.laps
             m == Max2(before, sample[Lap])
             new == Lapped(c, sample, before)
  <2>1. /\ c = [count |-> c.count, start |-> c.start, end |-> c.end, laps |-> c.laps,
                lastLap |-> c.lastLap]
        /\ c.count \in Nat /\ c.start \in Int /\ c.end \in Int /\ c.laps \in Nat /\ c.lastLap \in Int
    BY DEF Counts
  <2>2. l \in Nat /\ m \in Int
    BY <1>2, <2>1 DEF Max2
  <2>3. new = [[c EXCEPT !.laps = l] EXCEPT !.lastLap = m]
    BY <1>2, <2>1 DEF Lapped
  <2> HIDE DEF l, m, new
  <2> DEFINE d == [c EXCEPT !.laps = l]
  <2>4. d = [count |-> c.count, start |-> c.start, end |-> c.end, laps |-> l, lastLap |-> c.lastLap]
    BY <2>1
  <2>5. new = [d EXCEPT !.lastLap = m]
    BY <2>3
  <2> HIDE DEF d
  <2>6. new = [count |-> c.count, start |-> c.start, end |-> c.end, laps |-> l, lastLap |-> m]
    BY <2>4, <2>5
  <2>7. QED
    BY <2>1, <2>2, <2>6 DEF new, l, m, Counts
<1>3. QED
  BY <1>1, <1>2

\* The greatest of one record more.
LEMMA MostMore ==
  ASSUME NEW records, NEW n \in Nat, NEW name, NEW v \in Int,
         \A i \in 1 .. n + 1 : records[i][name] \in Int
  PROVE  /\ n = 0 => MostIn(records, n + 1, name, records[n + 1][name])
         /\ MostIn(records, n, name, v) => MostIn(records, n + 1, name, Max2(v, records[n + 1][name]))
<1> DEFINE x == records[n + 1][name]
<1>1. 1 .. n + 1 = (1 .. n) \cup {n + 1} /\ n + 1 \in 1 .. n + 1 /\ x \in Int
  OBVIOUS
<1>2. n = 0 => MostIn(records, n + 1, name, x)
  BY <1>1 DEF MostIn
<1>3. ASSUME MostIn(records, n, name, v)
      PROVE  MostIn(records, n + 1, name, Max2(v, x))
  <2>1. PICK k \in 1 .. n : v = records[k][name]
    BY <1>3 DEF MostIn
  <2>2. \A i \in 1 .. n : records[i][name] <= v
    BY <1>3 DEF MostIn
  <2>3. CASE v < x
    <3>1. Max2(v, x) = x
      BY <2>3 DEF Max2
    <3>2. \A i \in 1 .. n + 1 : records[i][name] <= x
      BY <2>2, <2>3, <1>1
    <3>3. QED
      BY <3>1, <3>2, <1>1 DEF MostIn
  <2>4. CASE ~(v < x)
    <3>1. Max2(v, x) = v
      BY <2>4 DEF Max2
    <3>2. \A i \in 1 .. n + 1 : records[i][name] <= v
      BY <2>2, <2>4, <1>1
    <3>3. QED
      BY <3>1, <3>2, <2>1, <1>1 DEF MostIn
  <2>5. QED
    BY <2>3, <2>4
<1>4. QED
  BY <1>2, <1>3

\* A record is the first of a lap if its lap is beyond the greatest of those before it.
LEMMA LapsMore ==
  ASSUME NEW records, NEW n \in Nat, NEW v \in Int,
         \A i \in 1 .. n + 1 : records[i][Lap] \in Int,
         n > 0 => MostIn(records, n, Lap, v),
         n = 0 => v < records[n + 1][Lap]
  PROVE  Cardinality(NewLaps(records, n + 1)) =
           IF v < records[n + 1][Lap] THEN Cardinality(NewLaps(records, n)) + 1
           ELSE Cardinality(NewLaps(records, n))
<1> DEFINE x == records[n + 1][Lap]
           old == NewLaps(records, n)
<1>1. 1 .. n + 1 = (1 .. n) \cup {n + 1} /\ n + 1 \notin 1 .. n /\ x \in Int
  OBVIOUS
<1>2. IsFiniteSet(old) /\ n + 1 \notin old
  <2>1. old \subseteq 1 .. n /\ IsFiniteSet(1 .. n)
    BY FS_Interval DEF NewLaps
  <2>2. QED
    BY <2>1, <1>1, FS_Subset
<1>3. (\A j \in 1 .. n : records[j][Lap] < x) <=> v < x
  <2>1. CASE n = 0
    BY <2>1
  <2>2. CASE n > 0
    <3>1. PICK k \in 1 .. n : v = records[k][Lap]
      BY <2>2 DEF MostIn
    <3>2. \A i \in 1 .. n : records[i][Lap] <= v /\ records[i][Lap] \in Int
      BY <2>2, <1>1 DEF MostIn
    <3>3. QED
      BY <3>1, <3>2, <1>1
  <2>3. QED
    BY <2>1, <2>2
<1>4. NewLaps(records, n + 1) = IF v < x THEN old \cup {n + 1} ELSE old
  <2>1. NewLaps(records, n + 1) =
          {i \in 1 .. n + 1 : \A j \in 1 .. i - 1 : records[j][Lap] < records[i][Lap]}
    BY DEF NewLaps
  <2>2. old = {i \in 1 .. n : \A j \in 1 .. i - 1 : records[j][Lap] < records[i][Lap]}
    BY DEF NewLaps
  <2>3. (\A j \in 1 .. (n + 1) - 1 : records[j][Lap] < x) <=> v < x
    BY <1>3
  <2>4. CASE v < x
    BY <2>1, <2>2, <2>3, <2>4, <1>1
  <2>5. CASE ~(v < x)
    BY <2>1, <2>2, <2>3, <2>5, <1>1
  <2>6. QED
    BY <2>4, <2>5
<1>5. QED
  BY <1>2, <1>4, FS_AddElement

\* Counting one more record.
LEMMA TellsMore ==
  ASSUME NEW text \in BOOLEAN, NEW counts, NEW names, NEW records, NEW n \in Nat,
         \A i \in 1 .. n + 1 : DOMAIN records[i] = ToSet(names),
         \A i \in 1 .. n + 1 : \A m \in ToSet(names) : records[i][m] \in Nat,
         Tells(text, counts, names, records, n)
  PROVE  Tells(text, Counted(text, counts, records[n + 1]), names, records, n + 1)
<1> DEFINE s == records[n + 1]
           new == Counted(text, counts, s)
           c == [counts EXCEPT !.count = @ + 1]
<1>1. /\ n + 1 \in 1 .. n + 1 /\ 1 \in 1 .. n + 1
      /\ DOMAIN s = ToSet(names)
      /\ counts \in Counts /\ counts.count = n
  BY DEF Tells
<1>2. /\ c \in Counts /\ c.count = n + 1 /\ c.start = counts.start /\ c.end = counts.end
      /\ c.laps = counts.laps /\ c.lastLap = counts.lastLap
  BY <1>1 DEF Counts
<1>3. /\ Time \in DOMAIN s => s[Time] \in Nat
      /\ Lap \in DOMAIN s => s[Lap] \in Nat
  BY <1>1
<1>4. counts.start \in Int /\ counts.lastLap \in Int /\ counts.end \in Int /\ counts.laps \in Nat
  BY <1>1 DEF Counts
<1> HIDE DEF s, c, new
<1>5. \E first \in BOOLEAN, before \in Int :
        /\ new = Lapped(Timed(c, s, first), s, before)
        /\ Time \in DOMAIN s => (first <=> n = 0)
        /\ Lap \in DOMAIN s => /\ n = 0 => before < s[Lap]
                               /\ n > 0 => before = counts.lastLap
  <2>1. CASE text
    <3>1. new = Lapped(Timed(c, s, counts.start < 0), s, counts.lastLap)
      BY <2>1 DEF new, Counted, CountedCSV, c
    <3>2. Time \in DOMAIN s => (counts.start < 0 <=> n = 0)
      <4>1. SUFFICES ASSUME Time \in DOMAIN s
                     PROVE  counts.start < 0 <=> n = 0
        OBVIOUS
      <4>2. CASE n = 0
        BY <4>1, <4>2, <2>1, <1>1 DEF Tells
      <4>3. CASE n # 0
        <5>1. counts.start = records[1][Time] /\ records[1][Time] \in Nat
          BY <4>1, <4>3, <1>1 DEF Tells
        <5>2. QED
          BY <5>1, <4>3
      <4>4. QED
        BY <4>2, <4>3
    <3>3. Lap \in DOMAIN s /\ n = 0 => counts.lastLap < s[Lap]
      <4>1. Lap \in DOMAIN s /\ n = 0 => counts.lastLap = -1
        BY <2>1, <1>1 DEF Tells
      <4>2. QED
        BY <4>1, <1>3
    <3>4. (counts.start < 0) \in BOOLEAN
      OBVIOUS
    <3>5. QED
      BY <3>1, <3>2, <3>3, <3>4, <1>4
  <2>2. CASE ~text
    <3> DEFINE first == counts.count = 0
               before == IF first /\ Lap \in DOMAIN s THEN s[Lap] - 1 ELSE counts.lastLap
    <3>1. new = Lapped(Timed(c, s, first), s, before)
      BY <2>2 DEF new, Counted, CountedIBT, c
    <3>2. before \in Int
      BY <1>3, <1>4
    <3>3. (first <=> n = 0) /\ first \in BOOLEAN
      BY <1>1
    <3>4. Lap \in DOMAIN s => /\ n = 0 => before < s[Lap]
                              /\ n > 0 => before = counts.lastLap
      BY <1>1, <1>3
    <3> HIDE DEF first, before
    <3>5. QED
      BY <3>1, <3>2, <3>3, <3>4
  <2>3. QED
    BY <2>1, <2>2
<1>6. PICK first \in BOOLEAN, before \in Int :
        /\ new = Lapped(Timed(c, s, first), s, before)
        /\ Time \in DOMAIN s => (first <=> n = 0)
        /\ Lap \in DOMAIN s => /\ n = 0 => before < s[Lap]
                               /\ n > 0 => before = counts.lastLap
  BY <1>5
<1> DEFINE d == Timed(c, s, first)
<1>7. /\ d \in Counts /\ d.count = n + 1 /\ d.laps = counts.laps
      /\ Time \in DOMAIN s =>
           /\ d.start = IF first THEN s[Time] ELSE counts.start
           /\ d.end = IF first THEN s[Time] ELSE Max2(counts.end, s[Time])
  BY <1>2, <1>3, TimedFacts
<1> HIDE DEF d
<1>8. /\ new \in Counts /\ new.count = n + 1 /\ new.start = d.start /\ new.end = d.end
      /\ Lap \in DOMAIN s =>
           /\ new.laps = IF before < s[Lap] THEN counts.laps + 1 ELSE counts.laps
           /\ new.lastLap = Max2(before, s[Lap])
  <2>1. new = Lapped(d, s, before)
    BY <1>6 DEF d
  <2>2. QED
    BY <2>1, <1>3, <1>7, LappedFacts
<1>9. ASSUME Time \in ToSet(names)
      PROVE  /\ new.start = records[1][Time]
             /\ MostIn(records, n + 1, Time, new.end)
  <2>1. \A i \in 1 .. n + 1 : records[i][Time] \in Int
    BY <1>9
  <2>2. CASE n = 0
    <3>1. new.start = s[Time] /\ new.end = s[Time]
      BY <2>2, <1>1, <1>6, <1>7, <1>8, <1>9
    <3>2. MostIn(records, n + 1, Time, s[Time])
      BY <2>1, <2>2, MostMore DEF s
    <3>3. QED
      BY <3>1, <3>2, <2>2 DEF s
  <2>3. CASE n # 0
    <3>1. new.start = counts.start /\ new.end = Max2(counts.end, s[Time])
      BY <2>3, <1>1, <1>6, <1>7, <1>8, <1>9
    <3>2. counts.start = records[1][Time] /\ MostIn(records, n, Time, counts.end)
      BY <2>3, <1>9 DEF Tells
    <3>3. MostIn(records, n + 1, Time, Max2(counts.end, s[Time]))
      BY <2>1, <3>2, <1>4, MostMore DEF s
    <3>4. QED
      BY <3>1, <3>2, <3>3
  <2>4. QED
    BY <2>2, <2>3
<1>10. ASSUME Lap \in ToSet(names)
       PROVE  /\ new.laps = Cardinality(NewLaps(records, n + 1))
              /\ MostIn(records, n + 1, Lap, new.lastLap)
  <2>1. \A i \in 1 .. n + 1 : records[i][Lap] \in Int
    BY <1>10
  <2>2. counts.laps = Cardinality(NewLaps(records, n))
    BY <1>10 DEF Tells
  <2>3. n > 0 => MostIn(records, n, Lap, before)
    BY <1>1, <1>6, <1>10 DEF Tells
  <2>4. n = 0 => before < records[n + 1][Lap]
    BY <1>1, <1>6, <1>10 DEF s
  <2>5. new.laps = Cardinality(NewLaps(records, n + 1))
    <3>1. Cardinality(NewLaps(records, n + 1)) =
            IF before < records[n + 1][Lap] THEN Cardinality(NewLaps(records, n)) + 1
            ELSE Cardinality(NewLaps(records, n))
      BY <2>1, <2>3, <2>4, LapsMore
    <3>2. QED
      BY <3>1, <2>2, <1>1, <1>8, <1>10 DEF s
  <2>6. new.lastLap = Max2(before, s[Lap])
    BY <1>1, <1>8, <1>10
  <2>7. MostIn(records, n + 1, Lap, Max2(before, s[Lap]))
    <3>1. CASE n = 0
      <4>1. Max2(before, s[Lap]) = s[Lap]
        BY <3>1, <2>4 DEF Max2, s
      <4>2. MostIn(records, n + 1, Lap, s[Lap])
        BY <3>1, <2>1, MostMore DEF s
      <4>3. QED
        BY <4>1, <4>2
    <3>2. CASE n # 0
      BY <3>2, <2>1, <2>3, MostMore DEF s
    <3>3. QED
      BY <3>1, <3>2
  <2>8. QED
    BY <2>5, <2>6, <2>7
<1>11. QED
  <2>1. n + 1 # 0
    OBVIOUS
  <2>2. QED
    BY <2>1, <1>8, <1>9, <1>10 DEF Tells, new, s

(* The files. *)

\* The parts of a file.
LEMMA FileFacts ==
  ASSUME NEW f \in Files
  PROVE  /\ f.vars \in Seq(Names) /\ f.records \in Seq(Samples) /\ f.sub \in Counts
         /\ f.closed \in BOOLEAN
         /\ f = [vars |-> f.vars, records |-> f.records, sub |-> f.sub, closed |-> f.closed]
         /\ Len(f.records) \in Nat /\ DOMAIN f.records = 1 .. Len(f.records)
BY DEF Files

\* A record is appended.
LEMMA LoggedFacts ==
  ASSUME NEW f \in Files, FitsHeader(f), NEW sample \in Samples, DOMAIN sample = ToSet(f.vars)
  PROVE  /\ Logged(f, sample) \in Files /\ FitsHeader(Logged(f, sample))
         /\ Logged(f, sample).vars = f.vars /\ Logged(f, sample).closed = f.closed
         /\ Logged(f, sample).records = Append(f.records, sample)
         /\ Len(Append(f.records, sample)) = Len(f.records) + 1
         /\ \A i \in 1 .. Len(f.records) : Append(f.records, sample)[i] = f.records[i]
         /\ Append(f.records, sample)[Len(f.records) + 1] = sample
<1> DEFINE more == Append(f.records, sample)
           n == Len(f.records)
<1>1. /\ f.vars \in Seq(Names) /\ f.records \in Seq(Samples) /\ f.sub \in Counts
      /\ f.closed \in BOOLEAN
      /\ f = [vars |-> f.vars, records |-> f.records, sub |-> f.sub, closed |-> f.closed]
      /\ n \in Nat /\ DOMAIN f.records = 1 .. n
  BY FileFacts
<1>2. /\ more \in Seq(Samples) /\ Len(more) = n + 1 /\ DOMAIN more = 1 .. n + 1
      /\ \A i \in 1 .. n : more[i] = f.records[i]
      /\ more[n + 1] = sample
  BY <1>1
<1>3. Logged(f, sample) = [f EXCEPT !.records = more]
  BY DEF Logged
<1> HIDE DEF more
<1>4. Logged(f, sample) = [vars |-> f.vars, records |-> more, sub |-> f.sub, closed |-> f.closed]
  BY <1>1, <1>3
<1>5. FitsHeader(Logged(f, sample))
  <2>1. \A i \in 1 .. n : DOMAIN f.records[i] = ToSet(f.vars)
    BY <1>1 DEF FitsHeader
  <2>2. 1 .. n + 1 = (1 .. n) \cup {n + 1}
    BY <1>1
  <2>3. \A i \in 1 .. n + 1 : DOMAIN more[i] = ToSet(f.vars)
    BY <2>1, <2>2, <1>2
  <2>4. QED
    BY <2>3, <1>2, <1>4 DEF FitsHeader
<1>6. Logged(f, sample) \in Files
  BY <1>1, <1>2, <1>4 DEF Files
<1>7. QED
  BY <1>2, <1>4, <1>5, <1>6 DEF more

\* One more record of a file that is open.
LEMMA RecordLogged ==
  ASSUME NEW text \in BOOLEAN, NEW list, FilesInv(list), NEW f \in DOMAIN list, ~list[f].closed,
         NEW sample \in Samples, DOMAIN sample = ToSet(list[f].vars),
         NEW new, new = [g \in DOMAIN list |-> IF g = f THEN Logged(list[g], sample) ELSE list[g]]
  PROVE  /\ FilesInv(new)
         /\ ClosedInv(text, list) => ClosedInv(text, new)
         /\ DOMAIN new = DOMAIN list /\ Len(new) = Len(list)
         /\ new[f] = Logged(list[f], sample) /\ ~new[f].closed
<1> DEFINE file2 == Logged(list[f], sample)
<1>1. list \in Seq(Files) /\ list[f] \in Files /\ FitsHeader(list[f])
  BY DEF FilesInv
<1>2. /\ file2 \in Files /\ FitsHeader(file2) /\ file2.vars = list[f].vars /\ ~file2.closed
  BY <1>1, LoggedFacts
<1> HIDE DEF file2
<1>3. /\ new \in Seq(Files) /\ DOMAIN new = DOMAIN list /\ Len(new) = Len(list)
      /\ new[f] = file2
      /\ \A g \in DOMAIN list : g # f => new[g] = list[g]
  BY <1>1, <1>2 DEF file2
<1>4. FilesInv(new)
  BY <1>2, <1>3 DEF FilesInv
<1>5. ClosedInv(text, list) => ClosedInv(text, new)
  BY <1>2, <1>3 DEF ClosedInv
<1>6. QED
  BY <1>2, <1>3, <1>4, <1>5 DEF file2

\* One more file.
LEMMA FileOpened ==
  ASSUME NEW text \in BOOLEAN, NEW list, FilesInv(list), NEW f \in Files, FitsHeader(f), ~f.closed
  PROVE  /\ FilesInv(Append(list, f))
         /\ ClosedInv(text, list) => ClosedInv(text, Append(list, f))
         /\ Len(Append(list, f)) = Len(list) + 1 /\ Len(list) \in Nat
         /\ Len(list) + 1 \in DOMAIN Append(list, f)
         /\ Append(list, f)[Len(list) + 1] = f
<1> DEFINE new == Append(list, f)
           n == Len(list)
<1>1. list \in Seq(Files) /\ DOMAIN list = 1 .. n /\ n \in Nat
  BY DEF FilesInv
<1>2. /\ new \in Seq(Files) /\ Len(new) = n + 1 /\ DOMAIN new = (1 .. n) \cup {n + 1}
      /\ \A g \in 1 .. n : new[g] = list[g]
      /\ new[n + 1] = f
  BY <1>1
<1> HIDE DEF new, n
<1>3. FilesInv(new)
  BY <1>1, <1>2 DEF FilesInv
<1>4. ClosedInv(text, list) => ClosedInv(text, new)
  BY <1>1, <1>2 DEF ClosedInv
<1>5. QED
  BY <1>1, <1>2, <1>3, <1>4 DEF new, n

\* A file is closed with its counts.
LEMMA FileClosed ==
  ASSUME NEW text \in BOOLEAN, NEW list, FilesInv(list), NEW f \in 0 .. Len(list), NEW counts,
         f > 0 => counts \in Counts,
         NEW new, new = [g \in DOMAIN list |-> IF g = f THEN logClose(list[g], counts) ELSE list[g]]
  PROVE  /\ FilesInv(new) /\ Len(new) = Len(list)
         /\ ClosedInv(text, list) /\ (f > 0 => Tells(text, counts, list[f].vars, list[f].records,
                                                     Len(list[f].records)))
              => ClosedInv(text, new)
<1>1. list \in Seq(Files) /\ DOMAIN list = 1 .. Len(list) /\ Len(list) \in Nat
      /\ \A g \in DOMAIN list : list[g] \in Files /\ FitsHeader(list[g])
  BY DEF FilesInv
<1>2. ASSUME NEW g \in DOMAIN list, g = f
      PROVE  /\ logClose(list[g], counts) \in Files /\ FitsHeader(logClose(list[g], counts))
             /\ logClose(list[g], counts).vars = list[g].vars
             /\ logClose(list[g], counts).records = list[g].records
             /\ logClose(list[g], counts).sub = counts
  <2> DEFINE old == list[g]
  <2>1. old \in Files /\ FitsHeader(old)
    BY <1>1
  <2>2. /\ old.vars \in Seq(Names) /\ old.records \in Seq(Samples)
        /\ old = [vars |-> old.vars, records |-> old.records, sub |-> old.sub, closed |-> old.closed]
    BY <2>1, FileFacts
  <2>3. counts \in Counts
    BY <1>1, <1>2
  <2> HIDE DEF old
  <2>4. logClose(old, counts)
          = [vars |-> old.vars, records |-> old.records, sub |-> counts, closed |-> TRUE]
    <3> DEFINE c == [old EXCEPT !.sub = counts]
    <3>1. c = [vars |-> old.vars, records |-> old.records, sub |-> counts, closed |-> old.closed]
      BY <2>2
    <3>2. logClose(old, counts) = [c EXCEPT !.closed = TRUE]
      BY DEF logClose
    <3> HIDE DEF c
    <3>3. QED
      BY <3>1, <3>2
  <2>5. logClose(old, counts) \in Files
    BY <2>2, <2>3, <2>4 DEF Files
  <2>6. FitsHeader(logClose(old, counts))
    BY <2>1, <2>4 DEF FitsHeader
  <2>7. QED
    BY <2>4, <2>5, <2>6 DEF old
<1>3. /\ DOMAIN new = 1 .. Len(list)
      /\ \A g \in DOMAIN list : new[g] = IF g = f THEN logClose(list[g], counts) ELSE list[g]
  BY <1>1
<1>4. new \in Seq(Files) /\ Len(new) = Len(list)
  <2>1. \A g \in 1 .. Len(list) : (IF g = f THEN logClose(list[g], counts) ELSE list[g]) \in Files
    BY <1>1, <1>2
  <2>2. QED
    BY <2>1, <1>1
<1>5. FilesInv(new)
  BY <1>1, <1>2, <1>3, <1>4 DEF FilesInv
<1>6. ASSUME ClosedInv(text, list),
             f > 0 => Tells(text, counts, list[f].vars, list[f].records, Len(list[f].records))
      PROVE  ClosedInv(text, new)
  <2>1. ASSUME NEW g \in DOMAIN new, new[g].closed
        PROVE  Tells(text, new[g].sub, new[g].vars, new[g].records, Len(new[g].records))
    <3>1. CASE g = f
      BY <3>1, <1>1, <1>2, <1>3, <1>6
    <3>2. CASE g # f
      BY <3>2, <2>1, <1>1, <1>3, <1>6 DEF ClosedInv
    <3>3. QED
      BY <3>1, <3>2
  <2>2. QED
    BY <2>1 DEF ClosedInv
<1>7. QED
  BY <1>4, <1>5, <1>6

-------------------------------------------------------------------------------
(* The server: each action keeps ServerInv. *)

\* The initial states.
LEMMA ServerBegins == ServerInit => ServerInv
<1> SUFFICES ASSUME ServerInit
             PROVE  ServerInv
  OBVIOUS
<1>1. /\ csv \in BOOLEAN /\ up = FALSE /\ session = 0
      /\ varLookup = << >> /\ mem = NoVars /\ disk = NoVars
      /\ rows = [b \in 1 .. bufCount |-> << >>] /\ curBuf = 1 /\ count = 0 /\ history = << >>
      /\ row = << >> /\ files = << >> /\ file = 0
      /\ step = "register" /\ source = [n \in Polled |-> 0] /\ setSinceReset = {}
  BY DEF ServerInit
<1>2. /\ MaxTicks \in Nat /\ MaxSessions \in Nat /\ Values = 0 .. MaxTicks + 1
      /\ Time \in Polled /\ Lap \in Polled /\ Polled \subseteq Names
      /\ bufCount \in Nat \ {0} /\ bufLength \in Nat \ {0}
  BY ConstantFacts
<1>3. Proper(NoVars)
  <2>1. NoVars \in Servers /\ NoVars.ptrs = {} /\ Len(NoVars.vars) = 0
    BY DEF NoVars, Servers
  <2>2. QED
    BY <2>1, <1>2 DEF Proper
<1>4. LookupInv
  BY <1>1, <1>3 DEF LookupInv
<1>5. StepInv
  <2>1. ~mem.final /\ ~disk.final
    BY <1>1 DEF NoVars
  <2>2. session \in 0 .. MaxSessions
    BY <1>1, <1>2
  <2>3. QED
    BY <2>1, <2>2, <1>1 DEF StepInv
<1>6. SourceInv
  BY <1>1, <1>2 DEF SourceInv
<1>7. RowInv
  BY <1>1, <1>2, SampleFacts DEF RowInv
<1>8. HistoryInv
  BY <1>1 DEF HistoryInv
<1>9. DiskInv
  BY <1>1 DEF DiskInv, FilesInv, ClosedInv
<1>10. QED
  BY <1>4, <1>5, <1>6, <1>7, <1>8, <1>9 DEF ServerInv

\* The steps before the header is final, and those after it that leave its names.
LEMMA HeaderStep ==
  ASSUME ServerInv, LookupInv', up, up',
         UNCHANGED << csv, session, memVars, diskVars, source, setSinceReset >>,
         mem.final => mem'.final /\ mem'.vars = mem.vars,
         disk.final => disk'.final /\ disk'.vars = disk.vars,
         step' \in {"register", "finalize", "reset"},
         step' # "reset" => ~mem'.final /\ ~disk'.final,
         step' = "reset" => mem'.final /\ disk'.final
  PROVE  ServerInv'
<1>1. /\ UNCHANGED << csv, session, rows, curBuf, count, history, row, enableLogging, files, file,
                      sub, source, setSinceReset >>
  BY DEF memVars, diskVars
<1>2. StepInv'
  <2>1. /\ csv \in BOOLEAN /\ session \in 0 .. MaxSessions /\ session > 0
        /\ (mem.final \/ count = 0) /\ (disk.final \/ file = 0)
    BY DEF ServerInv, StepInv
  <2>2. /\ csv' \in BOOLEAN /\ session' \in 0 .. MaxSessions /\ session' > 0
        /\ count' = count /\ file' = file
    BY <2>1, <1>1
  <2>3. mem'.final \/ count' = 0
    BY <2>1, <2>2
  <2>4. disk'.final \/ file' = 0
    BY <2>1, <2>2
  <2>5. /\ up' \in BOOLEAN
        /\ up' => session' > 0
        /\ ~up' => varLookup' = << >> /\ file' = 0 /\ step' = "register"
    BY <2>2
  <2>6. /\ step' \in {"register", "finalize", "reset", "poll", "update"}
        /\ up' /\ step' \in {"register", "finalize"} => ~mem'.final /\ ~disk'.final
        /\ step' \in {"reset", "poll", "update"} => mem'.final /\ disk'.final
    OBVIOUS
  <2>7. QED
    BY <2>2, <2>3, <2>4, <2>5, <2>6 DEF StepInv
<1>3. SourceInv'
  BY <1>1 DEF ServerInv, SourceInv
<1>4. RowInv'
  BY <1>1 DEF ServerInv, RowInv
<1>5. HistoryInv'
  <2>1. /\ history \in Seq(Samples) /\ count = Len(history)
        /\ \A i \in DOMAIN history : DOMAIN history[i] = ToSet(mem.vars)
        /\ mem.final \/ count = 0
    BY DEF ServerInv, HistoryInv, StepInv
  <2>2. CASE mem.final
    BY <2>1, <2>2, <1>1 DEF HistoryInv
  <2>3. CASE count = 0
    <3>1. DOMAIN history = {}
      <4>1. DOMAIN history = 1 .. Len(history)
        BY <2>1
      <4>2. QED
        BY <4>1, <2>1, <2>3
    <3>2. QED
      BY <3>1, <2>1, <1>1 DEF HistoryInv
  <2>4. QED
    BY <2>1, <2>2, <2>3
<1>6. DiskInv'
  <2>1. file > 0 => disk.final
    BY DEF ServerInv, StepInv
  <2>2. QED
    BY <2>1, <1>1 DEF ServerInv, DiskInv
<1>7. QED
  BY <1>2, <1>3, <1>4, <1>5, <1>6 DEF ServerInv

\* Every registration is a call of regVar.
LEMMA Registrations ==
  ASSUME ServerInv, RegisterVar \/ RegisterAgain
  PROVE  \E name \in Names, pointer \in BOOLEAN, live \in BOOLEAN, log \in BOOLEAN :
           (pointer => name \in Polled) /\ regVar(name, pointer, live, log)
<1>1. CASE RegisterVar
  <2> DEFINE n == Order[Len(varLookup) + 1]
  <2>1. Len(varLookup) < Len(Order) /\ regVar(n, n \in Polled, TRUE, n \notin LiveOnly)
    BY <1>1 DEF RegisterVar
  <2>2. n \in Names
    <3>1. Order \in Seq(Names) /\ Len(varLookup) \in Nat
      BY ServerAssumption DEF ServerInv, LookupInv
    <3>2. QED
      BY <3>1, <2>1
  <2>3. (n \in Polled) \in BOOLEAN /\ (n \notin LiveOnly) \in BOOLEAN
    OBVIOUS
  <2> HIDE DEF n
  <2>4. QED
    BY <2>1, <2>2, <2>3
<1>2. CASE RegisterAgain
  BY <1>2 DEF RegisterAgain
<1>3. QED
  BY <1>1, <1>2

\* RegisterVar and RegisterAgain.
LEMMA ServerRegisters ==
  ASSUME ServerInv, RegisterVar \/ RegisterAgain
  PROVE  ServerInv'
<1>1. /\ UNCHANGED << csv, up, session, memVars, diskVars, source, setSinceReset >> /\ up
      /\ \/ step = "register" /\ step' = step
         \/ step = "update" /\ step' = "reset"
  BY DEF RegisterVar, RegisterAgain
<1>2. PICK name \in Names, pointer \in BOOLEAN, live \in BOOLEAN, log \in BOOLEAN :
        (pointer => name \in Polled) /\ regVar(name, pointer, live, log)
  BY Registrations
<1>3. LookupInv /\ up'
  BY <1>1 DEF ServerInv
<1>4. /\ LookupInv'
      /\ mem'.final = mem.final /\ disk'.final = disk.final
      /\ mem.final => mem'.vars = mem.vars
      /\ disk.final => disk'.vars = disk.vars
  BY <1>1, <1>2, <1>3, Registering
<1>5. /\ step = "register" => ~mem.final /\ ~disk.final
      /\ step = "update" => mem.final /\ disk.final
  BY <1>1 DEF ServerInv, StepInv
<1>6. QED
  BY <1>1, <1>3, <1>4, <1>5, HeaderStep

\* A header keeps its names, and is final for good.
LEMMA HeadsKept ==
  ASSUME ServerInv, AllRegistered \/ reRegVar \/ finalizeHeader
  PROVE  /\ Proper(mem') /\ Proper(disk') /\ mem'.vars = mem.vars /\ disk'.vars = disk.vars
         /\ mem.final => mem'.final
         /\ disk.final => disk'.final
         /\ step = "finalize" => mem'.final /\ disk'.final
<1>1. ASSUME NEW server, Proper(server)
      PROVE  /\ Proper([server EXCEPT !.final = TRUE])
             /\ [server EXCEPT !.final = TRUE].vars = server.vars
             /\ [server EXCEPT !.final = TRUE].final
             /\ \A i : /\ Proper(Unpolled(server, i))
                       /\ Unpolled(server, i).vars = server.vars
                       /\ Unpolled(server, i).final = server.final
  <2>1. /\ server.vars \in Seq(Names) /\ server.ptrs \subseteq Polled /\ server.final \in BOOLEAN
        /\ server = [vars |-> server.vars, ptrs |-> server.ptrs, final |-> server.final]
        /\ server.ptrs \subseteq ToSet(server.vars) /\ Len(server.vars) < bufLength
    BY <1>1 DEF Proper, Servers
  <2>2. [server EXCEPT !.final = TRUE] = [vars |-> server.vars, ptrs |-> server.ptrs, final |-> TRUE]
    <3> DEFINE yes == TRUE
    <3> HIDE DEF yes
    <3>1. [server EXCEPT !.final = yes] = [vars |-> server.vars, ptrs |-> server.ptrs, final |-> yes]
      BY <2>1
    <3>2. QED
      BY <3>1 DEF yes
  <2>3. ASSUME NEW ptrs \in SUBSET Polled, NEW final \in BOOLEAN, ptrs \subseteq ToSet(server.vars)
        PROVE  Proper([vars |-> server.vars, ptrs |-> ptrs, final |-> final])
    BY <2>1, <2>3 DEF Proper, Servers
  <2>4. ASSUME NEW i
        PROVE  /\ Proper(Unpolled(server, i))
               /\ Unpolled(server, i).vars = server.vars
               /\ Unpolled(server, i).final = server.final
    <3>1. CASE i > 0
      <4> DEFINE ptrs == server.ptrs \ {server.vars[i]}
      <4>1. ptrs \subseteq Polled /\ ptrs \subseteq ToSet(server.vars)
        BY <2>1
      <4>2. Unpolled(server, i) = [server EXCEPT !.ptrs = ptrs]
        BY <3>1 DEF Unpolled
      <4> HIDE DEF ptrs
      <4>3. Unpolled(server, i) = [vars |-> server.vars, ptrs |-> ptrs, final |-> server.final]
        BY <4>2, <2>1
      <4>4. QED
        BY <4>1, <4>3, <2>1, <2>3
    <3>2. CASE ~(i > 0)
      BY <3>2, <1>1 DEF Unpolled
    <3>3. QED
      BY <3>1, <3>2
  <2>5. Proper([server EXCEPT !.final = TRUE])
    BY <2>1, <2>2, <2>3
  <2>6. QED
    BY <2>2, <2>4, <2>5
<1>2. Proper(mem) /\ Proper(disk)
  BY DEF ServerInv, LookupInv
<1>3. CASE AllRegistered
  BY <1>2, <1>3 DEF AllRegistered, lookupVars
<1>4. CASE reRegVar
  <2>1. step = "update" /\ \E i, j : mem' = Unpolled(mem, i) /\ disk' = Unpolled(disk, j)
    BY <1>4 DEF reRegVar, memReRegVar, diskReRegVar
  <2>2. PICK i, j : mem' = Unpolled(mem, i) /\ disk' = Unpolled(disk, j)
    BY <2>1
  <2>3. Proper(mem') /\ mem'.vars = mem.vars /\ mem'.final = mem.final
    BY <2>2, <1>2, <1>1
  <2>4. Proper(disk') /\ disk'.vars = disk.vars /\ disk'.final = disk.final
    BY <2>2, <1>2, <1>1
  <2>5. step # "finalize"
    BY <2>1
  <2>6. QED
    BY <2>3, <2>4, <2>5
<1>5. CASE finalizeHeader
  <2>1. mem' = [mem EXCEPT !.final = TRUE] /\ disk' = [disk EXCEPT !.final = TRUE]
    BY <1>5 DEF finalizeHeader, memFinalizeHeader, diskFinalizeHeader
  <2>2. Proper(mem') /\ mem'.vars = mem.vars /\ mem'.final
    BY <2>1, <1>2, <1>1
  <2>3. Proper(disk') /\ disk'.vars = disk.vars /\ disk'.final
    BY <2>1, <1>2, <1>1
  <2>4. QED
    BY <2>2, <2>3
<1>6. QED
  BY <1>3, <1>4, <1>5

\* AllRegistered, reRegVar and finalizeHeader.
LEMMA ServerHeads ==
  ASSUME ServerInv, AllRegistered \/ reRegVar \/ finalizeHeader
  PROVE  ServerInv'
<1>1. /\ UNCHANGED << csv, up, session, varLookup, memVars, diskVars, source, setSinceReset >> /\ up
      /\ \/ step = "register" /\ step' = "finalize" /\ UNCHANGED << mem, disk >>
         \/ step = "update" /\ step' = "reset"
         \/ step = "finalize" /\ step' = "reset"
  BY DEF AllRegistered, reRegVar, finalizeHeader, lookupVars
<1>2. /\ Proper(mem') /\ Proper(disk') /\ mem'.vars = mem.vars /\ disk'.vars = disk.vars
      /\ mem.final => mem'.final
      /\ disk.final => disk'.final
      /\ step = "finalize" => mem'.final /\ disk'.final
  BY HeadsKept
<1>3. LookupInv' /\ up'
  <2>1. up'
    BY <1>1
  <2>2. QED
    BY <2>1, <1>1, <1>2 DEF ServerInv, LookupInv
<1>4. /\ step = "register" => ~mem.final /\ ~disk.final
      /\ step = "update" => mem.final /\ disk.final
  BY <1>1 DEF ServerInv, StepInv
<1>5. QED
  BY <1>1, <1>2, <1>3, <1>4, HeaderStep

\* Samples that are made for a header.
LEMMA MadeSamples ==
  ASSUME NEW server, Proper(server)
  PROVE  /\ ToSet(server.vars) \subseteq Names
         /\ \A f : f \in [ToSet(server.vars) -> Values] => f \in Samples
         /\ 0 \in Values /\ 1 \in Values
         /\ Zero(server) \in Samples
<1>1. server.vars \in Seq(Names)
  BY DEF Proper, Servers
<1>2. ToSet(server.vars) \subseteq Names
  BY <1>1 DEF ToSet
<1>3. \A f : f \in [ToSet(server.vars) -> Values] => f \in Samples
  BY <1>2, SampleFacts
<1>4. 0 \in Values /\ 1 \in Values
  BY ConstantFacts
<1>5. Zero(server) \in [ToSet(server.vars) -> Values]
  BY <1>4 DEF Zero
<1>6. QED
  BY <1>2, <1>3, <1>4, <1>5

\* setVar writes a sample.
LEMMA SetFacts ==
  ASSUME NEW server, Proper(server), NEW sample \in Samples, NEW index \in Nat
  PROVE  SetAt(sample, server, index) \in Samples
<1>1. /\ \A f : f \in [ToSet(server.vars) -> Values] => f \in Samples
      /\ 0 \in Values /\ 1 \in Values
  BY MadeSamples
<1>2. \A n : ValueIn(sample, n) \in Values
  BY <1>1, SampleFacts DEF ValueIn
<1>3. CASE index = 0
  BY <1>3 DEF SetAt
<1>4. CASE index # 0
  <2>1. SetAt(sample, server, index) \in [ToSet(server.vars) -> Values]
    BY <1>1, <1>2, <1>4 DEF SetAt
  <2>2. QED
    BY <2>1, <1>1
<1>5. QED
  BY <1>3, <1>4

\* It adds the variable to those that were set, if the sample has it.
LEMMA SetGiven ==
  ASSUME NEW server, NEW index \in Nat, NEW now, NEW after,
         \A n \in ToSet(server.vars) :
           n \in after <=> n \in now \/ (index # 0 /\ n = server.vars[index])
  PROVE  SetAt(Given(server, now), server, index) = Given(server, after)
<1> DEFINE set == ToSet(server.vars)
<1> HIDE DEF set
<1>1. CASE index = 0
  <2>1. SetAt(Given(server, now), server, index) = Given(server, now)
    BY <1>1 DEF SetAt
  <2>2. \A n \in set : n \in after <=> n \in now
    BY <1>1 DEF set
  <2>3. [n \in set |-> IF n \in now THEN 1 ELSE 0] = [n \in set |-> IF n \in after THEN 1 ELSE 0]
    BY <2>2
  <2>4. QED
    BY <2>1, <2>3 DEF set, Given
<1>2. CASE index # 0
  <2> DEFINE old == Given(server, now)
             name == server.vars[index]
  <2>1. SetAt(old, server, index) = [n \in set |-> IF n = name THEN 1 ELSE ValueIn(old, n)]
    BY <1>2 DEF SetAt, set
  <2>2. \A n \in set : ValueIn(old, n) = IF n \in now THEN 1 ELSE 0
    BY DEF ValueIn, Given, set
  <2>3. \A n \in set : n \in after <=> n \in now \/ n = name
    BY <1>2 DEF set
  <2> HIDE DEF old, name
  <2>4. \A n \in set : (IF n = name THEN 1 ELSE ValueIn(old, n)) = IF n \in after THEN 1 ELSE 0
    BY <2>2, <2>3
  <2>5. SetAt(old, server, index) = [n \in set |-> IF n \in after THEN 1 ELSE 0]
    BY <2>1, <2>4
  <2>6. QED
    BY <2>5 DEF Given, set, old
<1>3. QED
  BY <1>1, <1>2

\* resetSampleVars: nothing is set.
LEMMA ServerResets ==
  ASSUME ServerInv, resetSampleVars
  PROVE  ServerInv'
<1>1. /\ up /\ step = "reset" /\ step' = "poll" /\ setSinceReset' = {}
      /\ rows' = [rows EXCEPT ![curBuf] = Zero(mem)] /\ row' = Zero(disk)
      /\ UNCHANGED << csv, up, session, varLookup, mem, disk, curBuf, count, history, enableLogging,
                      files, file, sub, source >>
  BY DEF resetSampleVars, ResetBuffer, ResetRow, lookupVars
<1>2. LookupInv' /\ HistoryInv' /\ DiskInv'
  BY <1>1 DEF ServerInv, LookupInv, HistoryInv, DiskInv
<1>3. StepInv' /\ SourceInv'
  BY <1>1 DEF ServerInv, StepInv, SourceInv
<1>4. RowInv'
  <2>1. Proper(mem) /\ Proper(disk) /\ rows \in [1 .. bufCount -> Samples] /\ curBuf \in 1 .. bufCount
    BY DEF ServerInv, LookupInv, RowInv
  <2>2. Zero(mem) \in Samples /\ Zero(disk) \in Samples
    BY <2>1, MadeSamples
  <2>3. rows' \in [1 .. bufCount -> Samples] /\ rows'[curBuf'] = Zero(mem) /\ row' \in Samples
    BY <2>1, <2>2, <1>1
  <2>4. Zero(mem) = Fresh(mem)' /\ Zero(disk) = Fresh(disk)'
    BY <1>1 DEF Fresh, Given, Zero
  <2>5. QED
    BY <2>1, <2>3, <2>4, <1>1 DEF RowInv
<1>5. QED
  BY <1>2, <1>3, <1>4 DEF ServerInv

\* setVar.
LEMMA ServerSets ==
  ASSUME ServerInv, setVar
  PROVE  ServerInv'
<1>1. /\ up /\ step \in {"poll", "update"}
      /\ UNCHANGED << csv, up, session, varLookup, mem, disk, curBuf, count, history, enableLogging,
                      files, file, sub, step, source >>
  BY DEF setVar, lookupVars
<1>2. LookupInv' /\ HistoryInv' /\ DiskInv'
  BY <1>1 DEF ServerInv, LookupInv, HistoryInv, DiskInv
<1>3. StepInv' /\ SourceInv'
  BY <1>1 DEF ServerInv, StepInv, SourceInv
<1>4. PICK i \in DOMAIN varLookup :
        /\ varLookup[i].name \in Names \ (Polled \cup setSinceReset)
        /\ setSinceReset' = setSinceReset \cup {varLookup[i].name}
        /\ rows' = [rows EXCEPT ![curBuf] = SetAt(@, mem, varLookup[i].memIndex)]
        /\ row' = SetAt(row, disk, varLookup[i].diskIndex)
  BY DEF setVar, memSetVar, diskSetVar
<1> DEFINE name == varLookup[i].name
           m == varLookup[i].memIndex
           d == varLookup[i].diskIndex
<1>5. /\ m \in Nat /\ IF m = 0 THEN name \notin ToSet(mem.vars) ELSE mem.vars[m] = name
      /\ d \in Nat /\ IF d = 0 THEN name \notin ToSet(disk.vars) ELSE disk.vars[d] = name
  <2>1. varLookup \in Seq(Entries)
        /\ Placed(NamesIn(varLookup), MemIn(varLookup), mem.vars)
        /\ Placed(NamesIn(varLookup), DiskIn(varLookup), disk.vars)
    BY <1>1 DEF ServerInv, LookupInv
  <2>2. m \in Nat /\ d \in Nat
    <3>1. varLookup[i] \in Entries
      BY <2>1
    <3>2. QED
      BY <3>1 DEF Entries
  <2>3. /\ i \in DOMAIN NamesIn(varLookup) /\ NamesIn(varLookup)[i] = name
        /\ MemIn(varLookup)[i] = m /\ DiskIn(varLookup)[i] = d
    BY DEF NamesIn, MemIn, DiskIn
  <2> HIDE DEF name, m, d
  <2>4. QED
    BY <2>1, <2>2, <2>3 DEF Placed
<1> HIDE DEF name, m, d
<1>6. RowInv'
  <2>1. /\ Proper(mem) /\ Proper(disk) /\ rows \in [1 .. bufCount -> Samples]
        /\ curBuf \in 1 .. bufCount /\ row \in Samples /\ rows[curBuf] \in Samples
        /\ setSinceReset \subseteq Names \ Polled
    BY DEF ServerInv, LookupInv, RowInv
  <2>2. /\ rows' = [rows EXCEPT ![curBuf] = SetAt(rows[curBuf], mem, m)]
        /\ row' = SetAt(row, disk, d) /\ setSinceReset' = setSinceReset \cup {name} /\ name \in Names \ Polled
    BY <1>4 DEF name, m, d
  <2>3. SetAt(rows[curBuf], mem, m) \in Samples
    BY <2>1, <2>2, <1>5, SetFacts
  <2>4. SetAt(row, disk, d) \in Samples
    BY <2>1, <2>2, <1>5, SetFacts
  <2>5. ASSUME step = "poll"
        PROVE  rows'[curBuf] = Fresh(mem)' /\ row' = Fresh(disk)'
    <3>1. rows[curBuf] = Fresh(mem) /\ row = Fresh(disk)
      BY <2>5 DEF ServerInv, RowInv
    <3>2. rows[curBuf] = Given(mem, setSinceReset) /\ row = Given(disk, setSinceReset)
      BY <3>1 DEF Fresh
    <3>4. SetAt(Given(mem, setSinceReset), mem, m) = Given(mem, setSinceReset')
      <4>1. \A n \in ToSet(mem.vars) : n \in setSinceReset' <=> n \in setSinceReset \/ (m # 0 /\ n = mem.vars[m])
        BY <2>2, <1>5
      <4>2. m \in Nat
        BY <1>5
      <4>3. QED
        BY ONLY <4>1, <4>2, SetGiven, SMTT(30)
    <3>5. SetAt(Given(disk, setSinceReset), disk, d) = Given(disk, setSinceReset')
      <4>1. \A n \in ToSet(disk.vars) : n \in setSinceReset' <=> n \in setSinceReset \/ (d # 0 /\ n = disk.vars[d])
        BY <2>2, <1>5
      <4>2. d \in Nat
        BY <1>5
      <4>3. QED
        BY ONLY <4>1, <4>2, SetGiven, SMTT(30)
    <3>6. /\ Fresh(mem)' = Given(mem, setSinceReset')
          /\ Fresh(disk)' = Given(disk, setSinceReset')
      BY <2>2, <1>1 DEF Fresh, Given
    <3>7. rows'[curBuf] = SetAt(rows[curBuf], mem, m)
      BY <2>1, <2>2
    <3>8. QED
      BY <3>2, <3>4, <3>5, <3>6, <3>7, <2>2
  <2>6. rows' \in [1 .. bufCount -> Samples] /\ row' \in Samples
    BY <2>1, <2>2, <2>3, <2>4
  <2>7. setSinceReset' \subseteq Names \ Polled
    BY <2>1, <2>2
  <2>8. QED
    BY <2>1, <2>5, <2>6, <2>7, <1>1 DEF RowInv
<1>7. QED
  BY <1>2, <1>3, <1>6 DEF ServerInv

\* Update: the times do not get ahead of the ticks.
LEMMA ServerUpdates ==
  ASSUME ServerInv, Update
  PROVE  ServerInv'
<1>1. /\ up /\ step = "update" /\ step' = "reset"
      /\ UNCHANGED << csv, up, session, varLookup, mem, disk, rows, curBuf, count, history, row,
                      files, file, sub, setSinceReset >>
  BY DEF Update, lookupVars, memVars
<1>2. LookupInv' /\ HistoryInv' /\ DiskInv'
  BY <1>1 DEF ServerInv, LookupInv, HistoryInv, DiskInv
<1>3. StepInv' /\ RowInv'
  BY <1>1 DEF ServerInv, StepInv, RowInv
<1>4. SourceInv'
  <2>1. /\ source \in [Polled -> Values] /\ count \in 0 .. MaxTicks
        /\ source[Time] < count /\ source[Lap] < count
    BY <1>1 DEF ServerInv, SourceInv
  <2>2. /\ Time \in Polled /\ Lap \in Polled /\ Values = 0 .. MaxTicks + 1 /\ MaxTicks \in Nat
    BY ConstantFacts
  <2>3. source[Time] \in Nat /\ source[Lap] \in Nat
    BY <2>1, <2>2
  <2>4. /\ source' \in [Polled -> Values]
        /\ source'[Time] <= count /\ source'[Lap] <= count
    <3>1. ASSUME NEW l \in {source[Lap], source[Lap] + 1, 0},
                 source' = [n \in Polled |->
                              CASE n = Time -> source[Time] + 1 [] n = Lap -> l [] OTHER -> 1]
          PROVE  /\ source' \in [Polled -> Values]
                 /\ source'[Time] <= count /\ source'[Lap] <= count
      <4>1. l \in Nat /\ l <= count /\ source[Time] + 1 \in Nat /\ source[Time] + 1 <= count
        BY <2>1, <2>3
      <4>2. l \in Values /\ source[Time] + 1 \in Values /\ 1 \in Values
        BY <4>1, <2>1, <2>2
      <4>3. QED
        BY <3>1, <4>1, <4>2, <2>2
    <3>2. ASSUME source' = [n \in Polled |-> IF n \in {Time, Lap} THEN 0 ELSE 1]
          PROVE  /\ source' \in [Polled -> Values]
                 /\ source'[Time] <= count /\ source'[Lap] <= count
      BY <3>2, <2>1, <2>2
    <3>3. QED
      BY <3>1, <3>2 DEF Update
  <2>5. QED
    BY <2>1, <2>4, <1>1 DEF SourceInv
<1>5. QED
  BY <1>2, <1>3, <1>4 DEF ServerInv

\* A header without variables.
LEMMA NoVarsFacts == Proper(NoVars) /\ ~NoVars.final
<1>1. NoVars \in Servers /\ NoVars.ptrs = {} /\ Len(NoVars.vars) = 0 /\ ~NoVars.final
  BY DEF NoVars, Servers
<1>2. QED
  BY <1>1, ConstantFacts DEF Proper

\* The sample, the source and the table, when the program begins or is gone.
LEMMA ServerEmpty ==
  ASSUME count' \in 0 .. MaxTicks, curBuf' \in 1 .. bufCount,
         rows' = [b \in 1 .. bufCount |-> << >>], row' = << >>, step' = "register",
         source' = [n \in Polled |-> 0], setSinceReset' = {}
  PROVE  SourceInv' /\ RowInv'
<1>1. /\ MaxTicks \in Nat /\ Values = 0 .. MaxTicks + 1 /\ Time \in Polled /\ Lap \in Polled
      /\ << >> \in Samples
  BY ConstantFacts, SampleFacts
<1>2. source' \in [Polled -> Values] /\ source'[Time] = 0 /\ source'[Lap] = 0
  BY <1>1
<1>3. SourceInv'
  BY <1>1, <1>2 DEF SourceInv
<1>4. rows' \in [1 .. bufCount -> Samples]
  BY <1>1
<1>5. RowInv'
  BY <1>1, <1>4 DEF RowInv
<1>6. QED
  BY <1>3, <1>5

\* Exit and Dies.
LEMMA ServerGoes ==
  ASSUME ServerInv, Exit \/ Dies
  PROVE  ServerInv'
<1>1. /\ up /\ up' = FALSE /\ varLookup' = << >> /\ disk' = NoVars
      /\ rows' = [b \in 1 .. bufCount |-> << >>] /\ row' = << >> /\ file' = 0
      /\ step' = "register" /\ source' = [n \in Polled |-> 0] /\ setSinceReset' = {}
      /\ UNCHANGED << csv, session, mem, curBuf, count, history >>
  BY DEF Exit, Dies, Gone
<1>2. SourceInv' /\ RowInv'
  <2>1. count' \in 0 .. MaxTicks /\ curBuf' \in 1 .. bufCount
    BY <1>1 DEF ServerInv, SourceInv, RowInv
  <2>2. QED
    BY <2>1, <1>1, ServerEmpty
<1>3. LookupInv'
  <2>1. Proper(mem') /\ Proper(disk')
    BY <1>1, NoVarsFacts DEF ServerInv, LookupInv
  <2>2. QED
    BY <2>1, <1>1 DEF LookupInv
<1>4. StepInv'
  <2>1. /\ csv' \in BOOLEAN /\ session' \in 0 .. MaxSessions /\ (mem'.final \/ count' = 0)
    BY <1>1 DEF ServerInv, StepInv
  <2>2. QED
    BY <2>1, <1>1 DEF StepInv
<1>5. HistoryInv'
  BY <1>1 DEF ServerInv, HistoryInv
<1>6. DiskInv'
  <2>1. /\ FilesInv(files) /\ ClosedInv(csv, files) /\ file \in 0 .. Len(files) /\ csv \in BOOLEAN
        /\ file > 0 => Tells(csv, sub, files[file].vars, files[file].records, Len(files[file].records))
    BY DEF ServerInv, DiskInv, StepInv
  <2>2. FilesInv(files') /\ ClosedInv(csv, files') /\ Len(files') \in Nat
    <3>1. CASE Exit
      <4>1. files' = [g \in DOMAIN files |-> IF g = file THEN logClose(files[g], sub) ELSE files[g]]
        BY <3>1 DEF Exit, Shutdown
      <4>2. file > 0 => sub \in Counts
        BY <2>1 DEF Tells
      <4>3. FilesInv(files') /\ ClosedInv(csv, files')
        BY <4>1, <4>2, <2>1, FileClosed
      <4>4. QED
        BY <4>3 DEF FilesInv
    <3>2. CASE Dies
      BY <3>2, <2>1 DEF Dies, FilesInv
    <3>3. QED
      BY <3>1, <3>2
  <2>3. QED
    BY <2>2, <1>1 DEF DiskInv
<1>7. QED
  BY <1>2, <1>3, <1>4, <1>5, <1>6 DEF ServerInv

\* Start.
LEMMA ServerStarts ==
  ASSUME ServerInv, Start
  PROVE  ServerInv'
<1>1. /\ session < MaxSessions /\ up' = TRUE /\ session' = session + 1
      /\ varLookup' = << >> /\ mem' = NoVars /\ disk' = NoVars
      /\ rows' = [b \in 1 .. bufCount |-> << >>] /\ curBuf' = 1 /\ count' = 0 /\ history' = << >>
      /\ row' = << >> /\ file' = 0
      /\ step' = "register" /\ source' = [n \in Polled |-> 0] /\ setSinceReset' = {}
      /\ UNCHANGED << csv, files >>
  BY DEF Start
<1>2. SourceInv' /\ RowInv'
  <2>1. count' \in 0 .. MaxTicks /\ curBuf' \in 1 .. bufCount
    BY <1>1, ConstantFacts
  <2>2. QED
    BY <2>1, <1>1, ServerEmpty
<1>3. LookupInv'
  <2>1. /\ Placed(NamesIn(<< >>), MemIn(<< >>), NoVars.vars)
        /\ Placed(NamesIn(<< >>), DiskIn(<< >>), NoVars.vars)
    BY DEF Placed, NamesIn, MemIn, DiskIn, NoVars, ToSet
  <2>2. QED
    BY <2>1, <1>1, NoVarsFacts DEF LookupInv
<1>4. StepInv'
  <2>1. /\ csv' \in BOOLEAN /\ session' \in 0 .. MaxSessions /\ session' > 0
    BY <1>1, ConstantFacts DEF ServerInv, StepInv
  <2>2. ~mem'.final /\ ~disk'.final
    BY <1>1, NoVarsFacts
  <2>3. QED
    BY <2>1, <2>2, <1>1 DEF StepInv
<1>5. HistoryInv'
  BY <1>1 DEF HistoryInv
<1>6. DiskInv'
  <2>1. FilesInv(files) /\ ClosedInv(csv, files) /\ Len(files) \in Nat
    BY DEF ServerInv, DiskInv, FilesInv
  <2>2. QED
    BY <2>1, <1>1 DEF DiskInv
<1>7. QED
  BY <1>2, <1>3, <1>4, <1>5, <1>6 DEF ServerInv

\* The records of a file have numbers for the variables of its header.
LEMMA RecordFacts ==
  ASSUME NEW f \in Files, FitsHeader(f)
  PROVE  \A i \in 1 .. Len(f.records) :
           /\ DOMAIN f.records[i] = ToSet(f.vars)
           /\ \A n \in ToSet(f.vars) : f.records[i][n] \in Nat
<1>1. f.records \in Seq(Samples) /\ DOMAIN f.records = 1 .. Len(f.records)
  BY FileFacts
<1>2. ASSUME NEW i \in 1 .. Len(f.records)
      PROVE  /\ DOMAIN f.records[i] = ToSet(f.vars)
             /\ \A n \in ToSet(f.vars) : f.records[i][n] \in Nat
  <2>1. f.records[i] \in Samples
    BY <1>1
  <2>2. DOMAIN f.records[i] = ToSet(f.vars)
    BY <1>1 DEF FitsHeader
  <2>3. \A n \in DOMAIN f.records[i] : f.records[i][n] \in Values
    BY <2>1, SampleFacts
  <2>4. Values \subseteq Nat
    BY ConstantFacts
  <2>5. QED
    BY <2>2, <2>3, <2>4
<1>3. QED
  BY <1>2

\* The file that is open has a record more, which is counted.
LEMMA RecordCounted ==
  ASSUME NEW text \in BOOLEAN, NEW list, FilesInv(list), NEW f \in DOMAIN list, ~list[f].closed,
         NEW names, list[f].vars = names,
         NEW counts, Tells(text, counts, names, list[f].records, Len(list[f].records)),
         NEW sample \in Samples, DOMAIN sample = ToSet(names),
         NEW new, new = [g \in DOMAIN list |-> IF g = f THEN Logged(list[g], sample) ELSE list[g]]
  PROVE  /\ FilesInv(new) /\ DOMAIN new = DOMAIN list /\ Len(new) = Len(list)
         /\ ClosedInv(text, list) => ClosedInv(text, new)
         /\ new[f].vars = names /\ ~new[f].closed
         /\ new[f].records = Append(list[f].records, sample)
         /\ Len(list[f].records) \in Nat
         /\ Len(new[f].records) = Len(list[f].records) + 1
         /\ \A i \in 1 .. Len(list[f].records) : new[f].records[i] = list[f].records[i]
         /\ new[f].records[Len(new[f].records)] = sample
         /\ Tells(text, counts, names, new[f].records, Len(new[f].records) - 1)
         /\ Tells(text, Counted(text, counts, sample), names, new[f].records, Len(new[f].records))
<1> DEFINE old == list[f].records
           records == new[f].records
           n == Len(old)
<1>1. /\ FilesInv(new) /\ DOMAIN new = DOMAIN list /\ Len(new) = Len(list)
      /\ ClosedInv(text, list) => ClosedInv(text, new)
      /\ new[f] = Logged(list[f], sample) /\ ~new[f].closed
  <2>1. DOMAIN sample = ToSet(list[f].vars)
    OBVIOUS
  <2>2. QED
    BY <2>1, RecordLogged
<1>2. list[f] \in Files /\ FitsHeader(list[f]) /\ n \in Nat
  <2>1. list \in Seq(Files) /\ FitsHeader(list[f])
    BY DEF FilesInv
  <2>2. list[f] \in Files
    BY <2>1
  <2>3. QED
    BY <2>1, <2>2, FileFacts
<1>3. /\ new[f] \in Files /\ FitsHeader(new[f]) /\ new[f].vars = names
      /\ records = Append(old, sample) /\ Len(records) = n + 1
      /\ \A i \in 1 .. n : records[i] = old[i]
      /\ records[n + 1] = sample
  BY <1>1, <1>2, LoggedFacts
<1>4. Tells(text, counts, names, records, n)
  <2> HIDE DEF records, old
  <2>1. Tells(text, counts, names, old, n)
    BY DEF old
  <2>2. QED
    BY <2>1, <1>2, <1>3, TellsSame
<1>5. Tells(text, Counted(text, counts, sample), names, records, n + 1)
  <2>1. \A i \in 1 .. n + 1 : /\ DOMAIN records[i] = ToSet(names)
                              /\ \A m \in ToSet(names) : records[i][m] \in Nat
    BY <1>3, RecordFacts
  <2> HIDE DEF records, n
  <2>2. Tells(text, Counted(text, counts, records[n + 1]), names, records, n + 1)
    BY <2>1, <1>2, <1>4, TellsMore
  <2>3. QED
    BY <2>2, <1>3
<1>6. Len(records) - 1 = n
  <2> HIDE DEF records, n
  <2>1. QED
    BY <1>2, <1>3
<1> HIDE DEF records, n, old
<1>7. QED
  BY <1>1, <1>2, <1>3, <1>4, <1>5, <1>6 DEF records, n, old

\* The samples that are polled.
LEMMA FilledFacts ==
  ASSUME SourceInv, NEW server, Proper(server)
  PROVE  /\ Filled(server, Given(server, setSinceReset)) = Expected(server)
         /\ Expected(server) \in Samples /\ DOMAIN Expected(server) = ToSet(server.vars)
<1> DEFINE set == ToSet(server.vars)
<1> HIDE DEF set
<1>1. /\ \A f : f \in [set -> Values] => f \in Samples
      /\ 0 \in Values /\ 1 \in Values
  BY MadeSamples DEF set
<1>2. source \in [Polled -> Values] /\ server.ptrs \subseteq Polled
  BY DEF SourceInv, Proper, Servers
<1>3. DOMAIN Given(server, setSinceReset) = set
      /\ \A n \in set : Given(server, setSinceReset)[n] = IF n \in setSinceReset THEN 1 ELSE 0
  BY DEF Given, set
<1>4. Expected(server) = [n \in set |-> IF n \in server.ptrs THEN source[n]
                                        ELSE IF n \in setSinceReset THEN 1 ELSE 0]
  BY DEF Expected, set
<1>5. \A n \in set : (IF n \in server.ptrs THEN source[n] ELSE IF n \in setSinceReset THEN 1 ELSE 0) \in Values
  BY <1>1, <1>2
<1>6. Expected(server) \in [set -> Values]
  BY <1>4, <1>5
<1>7. Filled(server, Given(server, setSinceReset)) = Expected(server)
  BY <1>3, <1>4 DEF Filled
<1>8. QED
  BY <1>1, <1>4, <1>6, <1>7 DEF set

\* What the log has after the poll.
LEMMA DiskPolled ==
  ASSUME DiskInv, csv \in BOOLEAN, Proper(disk), NEW sample \in Samples,
         DOMAIN sample = ToSet(disk.vars), Filled(disk, row) = sample, PollDisk,
         UNCHANGED << csv, disk >>
  PROVE  /\ DiskInv' /\ row' = sample
         /\ file' > 0 => files'[file'].records[Len(files'[file'].records)] = sample
<1>1. /\ FilesInv(files) /\ ClosedInv(csv, files) /\ file \in 0 .. Len(files)
      /\ files \in Seq(Files) /\ DOMAIN files = 1 .. Len(files) /\ Len(files) \in Nat
      /\ file > 0 => /\ files[file].vars = disk.vars /\ ~files[file].closed
                     /\ Tells(csv, sub, disk.vars, files[file].records, Len(files[file].records))
  BY DEF DiskInv, FilesInv
<1>2. disk.vars \in Seq(Names)
  BY DEF Proper, Servers
<1>3. row' = sample
  BY DEF PollDisk
<1> DEFINE Into(list, f, counts) == LogInto(list, f, counts, sample)
           head == logHeader(csv, disk.vars)
<1>4. \/ Into(Append(files, head), Len(files) + 1, head.sub)
      \/ file = 0 /\ UNCHANGED << files, file, sub >>
      \/ file > 0 /\ Into(files, file, sub)
      \/ file > 0 /\ files' = [files EXCEPT ![file] = logClose(@, sub)] /\ file' = 0
  BY DEF PollDisk
<1>5. ASSUME NEW list, NEW f \in DOMAIN list, NEW counts, FilesInv(list), ClosedInv(csv, list),
             list[f].vars = disk.vars, ~list[f].closed,
             Tells(csv, counts, disk.vars, list[f].records, Len(list[f].records)),
             Into(list, f, counts)
      PROVE  /\ DiskInv'
             /\ file' > 0 => files'[file'].records[Len(files'[file'].records)] = sample
  <2>1. /\ files' = [list EXCEPT ![f] = Logged(@, sample)] /\ file' = f
        /\ sub' = Counted(csv, counts, sample)
    BY <1>5 DEF LogInto
  <2>2. /\ FilesInv(files') /\ ClosedInv(csv, files') /\ DOMAIN files' = DOMAIN list
        /\ files'[f].vars = disk.vars /\ ~files'[f].closed
        /\ files'[f].records[Len(files'[f].records)] = sample
        /\ Tells(csv, Counted(csv, counts, sample), disk.vars, files'[f].records,
                 Len(files'[f].records))
    <3>1. /\ FilesInv(list) /\ f \in DOMAIN list /\ ~list[f].closed /\ list[f].vars = disk.vars
          /\ Tells(csv, counts, disk.vars, list[f].records, Len(list[f].records))
          /\ csv \in BOOLEAN
          /\ files' = [g \in DOMAIN list |-> IF g = f THEN Logged(list[g], sample) ELSE list[g]]
          /\ sample \in Samples /\ DOMAIN sample = ToSet(disk.vars)
      BY <2>1, <1>5
    <3>2. ClosedInv(csv, list)
      BY <1>5
    <3>3. QED
      BY ONLY <3>1, <3>2, RecordCounted
  <2>3. f \in 0 .. Len(files')
    <3>1. files' \in Seq(Files) /\ f \in DOMAIN files'
      BY <2>2 DEF FilesInv
    <3>2. QED
      BY <3>1
  <2>4. QED
    BY <2>1, <2>2, <2>3 DEF DiskInv
<1>6. CASE Into(Append(files, head), Len(files) + 1, head.sub)
  <2> DEFINE list == Append(files, head)
             f == Len(files) + 1
  <2>1. /\ head \in Files /\ head.vars = disk.vars /\ head.records = << >> /\ ~head.closed
        /\ FitsHeader(head)
    <3>1. /\ head \in Files /\ head.vars = disk.vars /\ head.records = << >> /\ ~head.closed
      BY <1>2, HeaderFacts
    <3> HIDE DEF head
    <3>2. QED
      BY <3>1 DEF FitsHeader
  <2>2. Tells(csv, head.sub, disk.vars, << >>, 0)
    BY <1>2, TellsNone
  <2> HIDE DEF head
  <2>3. /\ FilesInv(list) /\ ClosedInv(csv, list) /\ f \in DOMAIN list /\ list[f] = head
    BY <2>1, <1>1, FileOpened
  <2> HIDE DEF list, f, Into
  <2>4. Into(list, f, head.sub)
    BY <1>6 DEF list, f
  <2>5. Len(<< >>) = 0
    OBVIOUS
  <2>6. Tells(csv, head.sub, disk.vars, list[f].records, Len(list[f].records))
    BY <2>1, <2>2, <2>3, <2>5
  <2>7. QED
    BY <2>1, <2>3, <2>4, <2>6, <1>3, <1>5
<1>7. CASE file > 0 /\ Into(files, file, sub)
  <2>1. file \in DOMAIN files
    BY <1>1, <1>7
  <2> HIDE DEF Into
  <2>2. QED
    BY <2>1, <1>1, <1>3, <1>5, <1>7
<1>8. CASE file = 0 /\ UNCHANGED << files, file, sub >>
  BY <1>1, <1>3, <1>8 DEF DiskInv
<1>9. CASE file > 0 /\ files' = [files EXCEPT ![file] = logClose(@, sub)] /\ file' = 0
  <2>1. files' = [g \in DOMAIN files |-> IF g = file THEN logClose(files[g], sub) ELSE files[g]]
    BY <1>1, <1>9
  <2>2. sub \in Counts
    BY <1>1, <1>9 DEF Tells
  <2>3. FilesInv(files') /\ ClosedInv(csv, files')
    BY <2>1, <2>2, <1>1, FileClosed
  <2>4. 0 \in 0 .. Len(files')
    BY <2>3 DEF FilesInv
  <2>5. QED
    BY <2>3, <2>4, <1>3, <1>9 DEF DiskInv
<1>10. QED
  BY <1>4, <1>6, <1>7, <1>8, <1>9

\* A poll takes the values of its tick, in memory and in the log.
LEMMA ServerPolls ==
  ASSUME ServerInv, pollSampleVars
  PROVE  /\ ServerInv'
         /\ history' = Append(history, Expected(mem))
         /\ file' > 0 => files'[file'].records[Len(files'[file'].records)] = Expected(disk)
<1>1. /\ up /\ step = "poll" /\ step' = "update" /\ count < Ticks[session] /\ PollMem /\ PollDisk
      /\ UNCHANGED << csv, up, session, varLookup, mem, disk, enableLogging, source, setSinceReset >>
  BY DEF pollSampleVars, lookupVars
<1>2. /\ Proper(mem) /\ Proper(disk) /\ SourceInv /\ csv \in BOOLEAN /\ mem.final /\ disk.final
      /\ rows[curBuf] = Given(mem, setSinceReset) /\ row = Given(disk, setSinceReset) /\ DiskInv
  BY <1>1 DEF ServerInv, LookupInv, StepInv, RowInv, Fresh
<1>3. /\ Filled(mem, rows[curBuf]) = Expected(mem)
      /\ Expected(mem) \in Samples /\ DOMAIN Expected(mem) = ToSet(mem.vars)
  BY <1>2, FilledFacts
<1>4. /\ Filled(disk, row) = Expected(disk)
      /\ Expected(disk) \in Samples /\ DOMAIN Expected(disk) = ToSet(disk.vars)
  BY <1>2, FilledFacts
<1>5. /\ rows' = [rows EXCEPT ![curBuf] = Expected(mem)] /\ history' = Append(history, Expected(mem))
      /\ count' = count + 1 /\ curBuf' = (curBuf % bufCount) + 1
  BY <1>1, <1>3 DEF PollMem
<1>6. /\ DiskInv' /\ row' = Expected(disk)
      /\ file' > 0 => files'[file'].records[Len(files'[file'].records)] = Expected(disk)
  BY <1>1, <1>2, <1>4, DiskPolled
<1>7. LookupInv'
  BY <1>1 DEF ServerInv, LookupInv
<1>8. StepInv'
  BY <1>1, <1>2 DEF ServerInv, StepInv
<1>9. SourceInv'
  <2>1. /\ source \in [Polled -> Values] /\ count \in 0 .. MaxTicks
        /\ source[Time] <= count /\ source[Lap] <= count /\ session \in 1 .. MaxSessions
    BY <1>1 DEF ServerInv, SourceInv, StepInv
  <2>2. /\ Time \in Polled /\ Lap \in Polled /\ Values = 0 .. MaxTicks + 1
        /\ Ticks[session] \in 0 .. MaxTicks /\ MaxTicks \in Nat
    BY <2>1, ConstantFacts
  <2>3. /\ count' \in 0 .. MaxTicks /\ source[Time] < count' /\ source[Lap] < count'
        /\ source[Time] <= count' /\ source[Lap] <= count'
    BY <2>1, <2>2, <1>1, <1>5
  <2>4. QED
    BY <2>1, <2>3, <1>1 DEF SourceInv
<1>10. RowInv'
  <2>1. /\ rows \in [1 .. bufCount -> Samples] /\ curBuf \in 1 .. bufCount
        /\ setSinceReset \subseteq Names \ Polled
    BY DEF ServerInv, RowInv
  <2>2. curBuf' \in 1 .. bufCount
    <3>1. bufCount \in Nat \ {0}
      BY ConstantFacts
    <3>2. QED
      BY <3>1, <2>1, <1>5
  <2>3. rows' \in [1 .. bufCount -> Samples]
    BY <2>1, <1>3, <1>5
  <2>4. QED
    BY <2>1, <2>2, <2>3, <1>1, <1>4, <1>6 DEF RowInv
<1>11. HistoryInv'
  <2>1. /\ history \in Seq(Samples) /\ count = Len(history)
        /\ \A i \in 1 .. count : DOMAIN history[i] = ToSet(mem.vars)
    BY DEF ServerInv, HistoryInv
  <2>2. /\ history' \in Seq(Samples) /\ Len(history') = count + 1 /\ count \in Nat
        /\ DOMAIN history' = (1 .. count) \cup {count + 1}
        /\ \A i \in 1 .. count : history'[i] = history[i]
        /\ history'[count + 1] = Expected(mem)
    BY <2>1, <1>3, <1>5
  <2>3. \A i \in DOMAIN history' : DOMAIN history'[i] = ToSet(mem'.vars)
    BY <2>1, <2>2, <1>1, <1>3
  <2>4. QED
    BY <2>2, <2>3, <1>5 DEF HistoryInv
<1>12. QED
  BY <1>5, <1>6, <1>7, <1>8, <1>9, <1>10, <1>11 DEF ServerInv

-------------------------------------------------------------------------------
(* All of it. *)

\* Every step of the server; a header that is final keeps its names, and samples are only
\* added, until the program is started again.
LEMMA ServerSteps ==
  ASSUME ServerInv, [ServerNext]_serverVars
  PROVE  /\ ServerInv' /\ csv' = csv
         /\ session' = session =>
              /\ mem.final => mem'.final /\ mem'.vars = mem.vars
              /\ count <= count' /\ \A i \in 1 .. count : history'[i] = history[i]
<1>1. /\ history \in Seq(Samples) /\ count = Len(history) /\ count \in Nat
      /\ mem.final => mem.vars = mem.vars
  BY DEF ServerInv, HistoryInv
<1>2. ASSUME UNCHANGED << csv, mem, count, history >>
      PROVE  /\ csv' = csv
             /\ mem.final => mem'.final /\ mem'.vars = mem.vars
             /\ count <= count' /\ \A i \in 1 .. count : history'[i] = history[i]
  BY <1>1, <1>2
<1>3. CASE UNCHANGED serverVars
  <2>1. /\ ServerInv'
        /\ UNCHANGED << csv, mem, count, history >>
    BY <1>3 DEF serverVars, lookupVars, memVars, diskVars, ServerInv, LookupInv, StepInv, SourceInv,
                RowInv, HistoryInv, DiskInv, Fresh, Given
  <2>2. QED
    BY <2>1, <1>2
<1>4. CASE RegisterVar \/ RegisterAgain
  <2>1. ServerInv'
    BY <1>4, ServerRegisters
  <2>2. UNCHANGED << csv, count, history >> /\ up /\ up'
    <3>1. UNCHANGED << csv, count, history, up >> /\ up
      BY <1>4 DEF RegisterVar, RegisterAgain, memVars
    <3>2. QED
      BY <3>1
  <2>3. mem.final => mem'.final /\ mem'.vars = mem.vars
    <3>1. \E name \in Names, pointer \in BOOLEAN, live \in BOOLEAN, log \in BOOLEAN :
            (pointer => name \in Polled) /\ regVar(name, pointer, live, log)
      BY <1>4, Registrations
    <3>2. LookupInv
      BY DEF ServerInv
    <3>3. QED
      BY <3>1, <3>2, <2>2, Registering
  <2>4. QED
    BY <2>1, <2>2, <2>3, <1>1
<1>5. CASE AllRegistered \/ reRegVar \/ finalizeHeader
  <2>1. ServerInv'
    BY <1>5, ServerHeads
  <2>2. UNCHANGED << csv, count, history >> /\ mem'.vars = mem.vars /\ (mem.final => mem'.final)
    <3>1. UNCHANGED << csv, count, history >>
      BY <1>5 DEF AllRegistered, reRegVar, finalizeHeader, memVars
    <3>2. QED
      BY <3>1, <1>5, HeadsKept
  <2>3. QED
    BY <2>1, <2>2, <1>1
<1>6. CASE resetSampleVars
  BY <1>6, <1>2, ServerResets DEF resetSampleVars, lookupVars
<1>7. CASE setVar
  BY <1>7, <1>2, ServerSets DEF setVar, lookupVars
<1>8. CASE Update
  BY <1>8, <1>2, ServerUpdates DEF Update, lookupVars, memVars
<1>9. CASE pollSampleVars
  <2>1. ServerInv' /\ history' = Append(history, Expected(mem))
    BY <1>9, ServerPolls
  <2>2. csv' = csv /\ mem' = mem /\ count' = count + 1
    BY <1>9 DEF pollSampleVars, lookupVars, PollMem
  <2>3. \A i \in 1 .. count : history'[i] = history[i]
    BY <2>1, <1>1
  <2>4. QED
    BY <2>1, <2>2, <2>3, <1>1
<1>10. CASE Exit \/ Dies
  <2>1. UNCHANGED << csv, mem, count, history >>
    BY <1>10 DEF Exit, Dies, Gone
  <2>2. QED
    BY <2>1, <1>2, <1>10, ServerGoes
<1>11. CASE Start
  <2>1. csv' = csv /\ session' = session + 1
    BY <1>11 DEF Start
  <2>2. session \in Nat
    BY DEF ServerInv, StepInv
  <2>3. ServerInv'
    BY <1>11, ServerStarts
  <2>4. QED
    BY <2>1, <2>2, <2>3
<1>12. QED
  BY <1>3, <1>4, <1>5, <1>6, <1>7, <1>8, <1>9, <1>10, <1>11 DEF ServerNext

\* The records of the open file when the client has one more sample.
LEMMA OrderedMore ==
  ASSUME NEW records, NEW samples, NEW last \in Nat, NEW k \in Nat, DOMAIN records = 1 .. k,
         InOrder(records, samples, last), NEW n \in Nat, last < n,
         NEW more, DOMAIN more = 1 .. k + 1, \A i \in 1 .. k : more[i] = records[i],
         more[k + 1] = samples[n]
  PROVE  InOrder(more, samples, n)
<1>1. PICK place \in [1 .. k -> 1 .. last] :
        \A i \in 1 .. k : records[i] = samples[place[i]] /\ \A j \in 1 .. i - 1 : place[j] < place[i]
  BY DEF InOrder
<1> DEFINE new == [i \in 1 .. k + 1 |-> IF i = k + 1 THEN n ELSE place[i]]
<1>2. 1 .. k + 1 = (1 .. k) \cup {k + 1} /\ k + 1 \notin 1 .. k
  OBVIOUS
<1>3. \A i \in 1 .. k : new[i] = place[i] /\ place[i] \in 1 .. last
  BY <1>2
<1>4. new[k + 1] = n /\ DOMAIN new = 1 .. k + 1
  BY <1>2
<1>5. new \in [1 .. k + 1 -> 1 .. n]
  <2>1. \A i \in 1 .. k + 1 : (IF i = k + 1 THEN n ELSE place[i]) \in 1 .. n
    BY <1>2, <1>3
  <2>2. QED
    BY <2>1
<1> HIDE DEF new
<1>6. ASSUME NEW i \in 1 .. k + 1
      PROVE  more[i] = samples[new[i]] /\ \A j \in 1 .. i - 1 : new[j] < new[i]
  <2>1. CASE i = k + 1
    <3>1. \A j \in 1 .. i - 1 : j \in 1 .. k
      BY <2>1
    <3>2. QED
      BY <3>1, <2>1, <1>3, <1>4
  <2>2. CASE i # k + 1
    <3>1. i \in 1 .. k /\ \A j \in 1 .. i - 1 : j \in 1 .. k
      BY <2>2
    <3>2. QED
      BY <3>1, <1>1, <1>3
  <2>3. QED
    BY <2>1, <2>2
<1>7. QED
  BY <1>5, <1>6 DEF InOrder

\* Samples are added.
LEMMA OrderedLater ==
  ASSUME NEW records, NEW samples, NEW later, NEW last \in Nat,
         \A i \in 1 .. last : later[i] = samples[i],
         InOrder(records, samples, last)
  PROVE  InOrder(records, later, last)
<1>1. PICK place \in [DOMAIN records -> 1 .. last] :
        \A i \in DOMAIN records :
          records[i] = samples[place[i]] /\ \A j \in 1 .. i - 1 : place[j] < place[i]
  BY DEF InOrder
<1>2. \A i \in DOMAIN records : later[place[i]] = samples[place[i]]
  OBVIOUS
<1>3. QED
  BY <1>1, <1>2 DEF InOrder

\* What the client has is not changed by the server, but for another session.
LEMMA ServerLeavesClient ==
  ASSUME ServerInv, LoggerInv, [ServerNext]_serverVars, UNCHANGED loggerVars,
         session' # session => ~running \/ data = NoData
  PROVE  LoggerInv' /\ (LogsInv => LogsInv')
<1>1. /\ csv' = csv
      /\ session' = session =>
           /\ mem.final => mem'.final /\ mem'.vars = mem.vars
           /\ count <= count' /\ \A i \in 1 .. count : history'[i] = history[i]
  BY ServerSteps
<1>2. UNCHANGED << running, pc, data, seen, logs, g_file, g_diskSubHeader >>
  BY DEF loggerVars
<1>3. count \in Nat /\ count' \in Nat
  <2>1. ServerInv'
    BY ServerSteps
  <2>2. QED
    BY <2>1 DEF ServerInv, HistoryInv
<1>4. running /\ data # NoData =>
        /\ mem'.final /\ mem'.vars = mem.vars /\ data = mem.vars /\ seen <= count /\ seen <= count'
        /\ \A i \in 1 .. seen : history'[i] = history[i]
  <2>1. SUFFICES ASSUME running, data # NoData
                 PROVE  /\ mem'.final /\ mem'.vars = mem.vars /\ data = mem.vars /\ seen <= count
                        /\ seen <= count'
                        /\ \A i \in 1 .. seen : history'[i] = history[i]
    OBVIOUS
  <2>2. session' = session
    BY <2>1
  <2>3. mem.final /\ data = mem.vars /\ seen <= count /\ seen \in Nat
    BY <2>1 DEF LoggerInv, ClientInv
  <2>4. /\ mem'.final /\ mem'.vars = mem.vars /\ count <= count'
        /\ \A i \in 1 .. count : history'[i] = history[i]
    BY <2>2, <2>3, <1>1
  <2>5. \A i \in 1 .. seen : i \in 1 .. count
    BY <2>3, <1>3
  <2>6. QED
    BY <2>3, <2>4, <2>5, <1>3
<1>5. ClientInv'
  <2>1. g_file > 0 => running /\ data # NoData
    BY DEF LoggerInv, ClientInv
  <2>2. /\ running' \in BOOLEAN /\ pc' \in {"top", "count"} /\ seen' \in 0 .. MaxTicks
        /\ data' = NoData \/ data' \in Seq(Names)
        /\ FilesInv(logs') /\ g_file' \in 0 .. Len(logs')
        /\ running' /\ pc' = "count" => g_file' > 0
    BY <1>2 DEF LoggerInv, ClientInv
  <2>3. running' /\ data' # NoData => mem'.final /\ data' = mem'.vars /\ seen' <= count'
    BY <1>2, <1>4
  <2>4. g_file' > 0 => /\ running' /\ data' # NoData
                       /\ logs'[g_file'].vars = mem'.vars /\ ~logs'[g_file'].closed
                       /\ Len(logs'[g_file'].records) > 0
                       /\ LET records == logs'[g_file'].records
                          IN Tells(csv', g_diskSubHeader', mem'.vars, records,
                                   IF pc' = "count" THEN Len(records) - 1 ELSE Len(records))
    BY <2>1, <1>1, <1>2, <1>4 DEF LoggerInv, ClientInv
  <2>5. QED
    BY <2>2, <2>3, <2>4 DEF ClientInv
<1>6. OrderInv'
  <2>1. SUFFICES ASSUME g_file > 0
                 PROVE  InOrder(logs[g_file].records, history', seen)
    BY <1>2 DEF OrderInv
  <2>2. running /\ data # NoData
    BY <2>1 DEF LoggerInv, ClientInv
  <2>3. InOrder(logs[g_file].records, history, seen) /\ seen \in Nat
    BY <2>1 DEF LoggerInv, OrderInv, ClientInv
  <2>4. \A i \in 1 .. seen : history'[i] = history[i]
    BY <2>2, <1>4
  <2>5. QED
    BY <2>3, <2>4, OrderedLater
<1>7. LogsInv => LogsInv'
  BY <1>1, <1>2 DEF LogsInv
<1>8. QED
  BY <1>5, <1>6, <1>7 DEF LoggerInv

\* The parts of the invariant that every action of the client needs.
LEMMA ClientFacts ==
  ASSUME ServerInv, LoggerInv
  PROVE  /\ seen \in Nat /\ seen <= MaxTicks /\ count \in Nat /\ count <= MaxTicks /\ MaxTicks \in Nat
         /\ count = Len(history) /\ history \in Seq(Samples)
         /\ \A i \in 1 .. count : history[i] \in Samples /\ DOMAIN history[i] = ToSet(mem.vars)
         /\ csv \in BOOLEAN /\ mem.vars \in Seq(Names)
         /\ FilesInv(logs) /\ logs \in Seq(Files) /\ DOMAIN logs = 1 .. Len(logs) /\ Len(logs) \in Nat
         /\ g_file \in 0 .. Len(logs)
<1>1. /\ history \in Seq(Samples) /\ count = Len(history) /\ count \in 0 .. MaxTicks
      /\ \A i \in DOMAIN history : DOMAIN history[i] = ToSet(mem.vars)
      /\ csv \in BOOLEAN /\ Proper(mem)
  BY DEF ServerInv, HistoryInv, SourceInv, StepInv, LookupInv
<1>2. seen \in 0 .. MaxTicks /\ FilesInv(logs) /\ logs \in Seq(Files) /\ g_file \in 0 .. Len(logs)
  BY DEF LoggerInv, ClientInv, FilesInv
<1>3. mem.vars \in Seq(Names)
  BY <1>1 DEF Proper, Servers
<1>4. MaxTicks \in Nat
  BY ConstantFacts
<1>5. \A i \in 1 .. count : history[i] \in Samples
  BY <1>1
<1>6. QED
  BY <1>1, <1>2, <1>3, <1>4, <1>5

\* initData: no file is open.
LEMMA ClientBegins ==
  ASSUME ServerInv, LoggerInv, initData
  PROVE  LoggerInv' /\ (LogsInv => LogsInv')
<1>1. /\ running /\ pc = "top" /\ up /\ mem.final
      /\ data = NoData \/ Len(data) # Len(mem.vars)
      /\ seen' \in seen + 1 .. count /\ data' = mem.vars
      /\ UNCHANGED << csv, mem, count, history, running, pc, logs, g_file, g_diskSubHeader >>
  BY DEF initData, connected, serverVars, lookupVars, memVars
<1>2. g_file = 0
  <2>1. SUFFICES ASSUME g_file > 0
                 PROVE  FALSE
    BY ClientFacts
  <2>2. data # NoData /\ data = mem.vars
    BY <2>1 DEF LoggerInv, ClientInv
  <2>3. QED
    BY <2>2, <1>1
<1>3. seen' \in 0 .. MaxTicks /\ seen' <= count /\ mem.vars \in Seq(Names)
  BY <1>1, ClientFacts
<1>4. ClientInv'
  BY <1>1, <1>2, <1>3 DEF LoggerInv, ClientInv
<1>5. OrderInv' /\ (LogsInv => LogsInv')
  BY <1>1, <1>2 DEF OrderInv, LogsInv
<1>6. QED
  BY <1>4, <1>5 DEF LoggerInv

\* logDataToIBT and logDataToCSV.
LEMMA ClientLogs ==
  ASSUME ServerInv, LoggerInv, LogData(logHeader(csv, mem.vars))
  PROVE  LoggerInv' /\ (LogsInv => LogsInv')
<1> DEFINE head == logHeader(csv, mem.vars)
<1>1. PICK n \in 1 .. count :
        /\ NewSample(n)
        /\ \/ /\ g_file > 0 /\ logs' = [logs EXCEPT ![g_file] = Logged(@, history[n])]
              /\ UNCHANGED << g_file, g_diskSubHeader >>
           \/ /\ g_file = 0 /\ Len(logs) < MaxFiles
              /\ logs' = Append(logs, Logged(head, history[n]))
              /\ g_file' = Len(logs) + 1 /\ g_diskSubHeader' = head.sub
        /\ pc' = "count"
        /\ UNCHANGED << serverVars, running, data >>
  BY DEF LogData
<1>2. /\ running /\ pc = "top" /\ data # NoData /\ n > seen /\ seen' = n /\ pc' = "count"
      /\ UNCHANGED << csv, mem, count, history, running, data >>
  BY <1>1 DEF NewSample, serverVars, lookupVars, memVars
<1>3. /\ mem.final /\ data = mem.vars /\ n \in Nat /\ seen' \in 0 .. MaxTicks /\ seen' <= count
      /\ mem.vars \in Seq(Names) /\ data \in Seq(Names)
      /\ history[n] \in Samples /\ DOMAIN history[n] = ToSet(mem.vars) /\ csv \in BOOLEAN
  BY <1>2, ClientFacts DEF LoggerInv, ClientInv
<1>4. /\ FilesInv(logs) /\ logs \in Seq(Files) /\ DOMAIN logs = 1 .. Len(logs) /\ Len(logs) \in Nat
      /\ g_file \in 0 .. Len(logs) /\ seen \in Nat
  BY ClientFacts
<1> HIDE DEF head
\* It is enough that the new file is right.
<1>5. ASSUME FilesInv(logs'), g_file' \in DOMAIN logs',
             logs'[g_file'].vars = mem.vars, ~logs'[g_file'].closed,
             Len(logs'[g_file'].records) > 0,
             Tells(csv, g_diskSubHeader', mem.vars, logs'[g_file'].records,
                   Len(logs'[g_file'].records) - 1),
             InOrder(logs'[g_file'].records, history, n),
             LogsInv => ClosedInv(csv, logs')
      PROVE  LoggerInv' /\ (LogsInv => LogsInv')
  <2>1. g_file' \in 0 .. Len(logs') /\ g_file' > 0
    <3>1. DOMAIN logs' = 1 .. Len(logs') /\ Len(logs') \in Nat
      BY <1>5 DEF FilesInv
    <3>2. QED
      BY <3>1, <1>5
  <2>2. ClientInv'
    BY <2>1, <1>2, <1>3, <1>5 DEF LoggerInv, ClientInv
  <2>3. OrderInv' /\ (LogsInv => LogsInv')
    BY <1>2, <1>5 DEF OrderInv, LogsInv
  <2>4. QED
    BY <2>2, <2>3 DEF LoggerInv
<1>6. CASE /\ g_file > 0 /\ logs' = [logs EXCEPT ![g_file] = Logged(@, history[n])]
           /\ UNCHANGED << g_file, g_diskSubHeader >>
  <2> DEFINE old == logs[g_file].records
             records == logs'[g_file].records
             k == Len(old)
  <2>1. /\ g_file \in DOMAIN logs /\ logs[g_file].vars = mem.vars /\ ~logs[g_file].closed
        /\ Tells(csv, g_diskSubHeader, mem.vars, old, k)
        /\ InOrder(old, history, seen)
    <3>1. g_file \in DOMAIN logs /\ pc # "count"
      BY <1>2, <1>4, <1>6
    <3>2. QED
      BY <3>1, <1>6 DEF LoggerInv, ClientInv, OrderInv
  <2>2. logs' = [g \in DOMAIN logs |-> IF g = g_file THEN Logged(logs[g], history[n]) ELSE logs[g]]
    BY <2>1, <1>4, <1>6
  <2>3. /\ FilesInv(logs') /\ DOMAIN logs' = DOMAIN logs
        /\ ClosedInv(csv, logs) => ClosedInv(csv, logs')
        /\ logs'[g_file].vars = mem.vars /\ ~logs'[g_file].closed
        /\ k \in Nat /\ Len(records) = k + 1
        /\ \A i \in 1 .. k : records[i] = old[i]
        /\ records[Len(records)] = history[n]
        /\ Tells(csv, g_diskSubHeader, mem.vars, records, Len(records) - 1)
    <3> DEFINE s == history[n]
    <3>1. s \in Samples /\ DOMAIN s = ToSet(mem.vars)
      BY <1>3
    <3>2. logs' = [g \in DOMAIN logs |-> IF g = g_file THEN Logged(logs[g], s) ELSE logs[g]]
      BY <2>2
    <3>3. /\ FilesInv(logs) /\ g_file \in DOMAIN logs /\ ~logs[g_file].closed
          /\ logs[g_file].vars = mem.vars /\ csv \in BOOLEAN
          /\ Tells(csv, g_diskSubHeader, mem.vars, logs[g_file].records, Len(logs[g_file].records))
      BY <2>1, <1>3, <1>4
    <3> HIDE DEF s
    <3>4. /\ FilesInv(logs') /\ DOMAIN logs' = DOMAIN logs
          /\ ClosedInv(csv, logs) => ClosedInv(csv, logs')
          /\ logs'[g_file].vars = mem.vars /\ ~logs'[g_file].closed
          /\ k \in Nat /\ Len(records) = k + 1
          /\ \A i \in 1 .. k : records[i] = old[i]
          /\ records[Len(records)] = s
          /\ Tells(csv, g_diskSubHeader, mem.vars, records, Len(records) - 1)
      <4>1. FilesInv(logs') /\ DOMAIN logs' = DOMAIN logs
        BY <3>1, <3>2, <3>3, RecordCounted
      <4>2. (ClosedInv(csv, logs) => ClosedInv(csv, logs'))
        BY <3>1, <3>2, <3>3, RecordCounted
      <4>3. logs'[g_file].vars = mem.vars /\ ~logs'[g_file].closed
        BY <3>1, <3>2, <3>3, RecordCounted
      <4>4. k \in Nat /\ Len(records) = k + 1
        BY <3>1, <3>2, <3>3, RecordCounted
      <4>5. \A i \in 1 .. k : records[i] = old[i]
        <5>1. logs[g_file] \in Files /\ FitsHeader(logs[g_file]) /\ DOMAIN s = ToSet(logs[g_file].vars)
          BY <3>1, <3>3, <1>4 DEF FilesInv
        <5>2. logs'[g_file] = Logged(logs[g_file], s)
          BY <3>2, <3>3
        <5>3. /\ \A i \in 1 .. Len(old) : Append(old, s)[i] = old[i]
              /\ Logged(logs[g_file], s).records = Append(old, s)
          BY <5>1, <3>1, LoggedFacts
        <5>4. QED
          BY <5>2, <5>3
      <4>6. records[Len(records)] = s
        BY <3>1, <3>2, <3>3, RecordCounted
      <4>7. Tells(csv, g_diskSubHeader, mem.vars, records, Len(records) - 1)
        BY <3>1, <3>2, <3>3, RecordCounted
      <4>8. QED
        BY <4>1, <4>2, <4>3, <4>4, <4>5, <4>6, <4>7
    <3>5. QED
      BY <3>4 DEF s
  <2>4. DOMAIN old = 1 .. k /\ DOMAIN records = 1 .. k + 1
    <3>1. logs \in Seq(Files) /\ logs' \in Seq(Files)
      BY <2>3, <1>4 DEF FilesInv
    <3>2. logs[g_file] \in Files /\ logs'[g_file] \in Files
      BY <3>1, <2>1, <2>3
    <3>3. QED
      BY <3>2, <2>3, FileFacts
  <2> HIDE DEF k, records, old
  <2>5. InOrder(records, history, n)
    <3>1. seen < n /\ records[k + 1] = history[n] /\ seen \in Nat /\ n \in Nat
      BY <2>3, <1>2, <1>3, <1>4
    <3>2. QED
      BY <3>1, <2>1, <2>3, <2>4, OrderedMore
  <2>6. g_file' = g_file /\ g_diskSubHeader' = g_diskSubHeader
    BY <1>6
  <2>7. Len(records) > 0
    BY <2>3
  <2>8. LogsInv => ClosedInv(csv, logs')
    BY <2>3 DEF LogsInv
  <2>9. QED
    BY <2>1, <2>3, <2>5, <2>6, <2>7, <2>8, <1>5 DEF records
<1>7. CASE /\ g_file = 0 /\ Len(logs) < MaxFiles
           /\ logs' = Append(logs, Logged(head, history[n]))
           /\ g_file' = Len(logs) + 1 /\ g_diskSubHeader' = head.sub
  <2> DEFINE new == Logged(head, history[n])
  <2>1. head \in Files /\ head.vars = mem.vars /\ head.records = << >> /\ ~head.closed
    BY <1>3, HeaderFacts DEF head
  <2>2. FitsHeader(head) /\ Len(head.records) = 0
    BY <2>1 DEF FitsHeader
  <2>3. /\ new \in Files /\ FitsHeader(new) /\ new.vars = mem.vars /\ ~new.closed
        /\ new.records = Append(head.records, history[n])
        /\ Len(Append(head.records, history[n])) = Len(head.records) + 1
        /\ Append(head.records, history[n])[Len(head.records) + 1] = history[n]
    <3>1. DOMAIN history[n] = ToSet(head.vars)
      BY <2>1, <1>3
    <3> HIDE DEF new
    <3>2. QED
      BY <3>1, <2>1, <2>2, <1>3, LoggedFacts DEF new
  <2>4. Len(new.records) = 1 /\ new.records[1] = history[n] /\ DOMAIN new.records = 1 .. 1
    <3>1. Len(new.records) = 1 /\ new.records[1] = history[n]
      BY <2>2, <2>3
    <3> HIDE DEF new
    <3>2. QED
      BY <3>1, <2>3, FileFacts
  <2> HIDE DEF new
  <2>5. /\ FilesInv(logs') /\ (ClosedInv(csv, logs) => ClosedInv(csv, logs'))
        /\ g_file' \in DOMAIN logs' /\ logs'[g_file'] = new
    <3>1. logs' = Append(logs, new) /\ g_file' = Len(logs) + 1
      BY <1>7 DEF new
    <3>2. QED
      BY <3>1, <2>3, <1>3, <1>4, FileOpened
  <2>6. Tells(csv, head.sub, mem.vars, new.records, 0)
    BY <1>3, TellsNone DEF head
  <2>7. InOrder(new.records, history, n)
    <3> DEFINE place == [i \in 1 .. 1 |-> n]
    <3>1. place \in [DOMAIN new.records -> 1 .. n]
      BY <2>4, <1>3
    <3>2. \A i \in DOMAIN new.records :
            new.records[i] = history[place[i]] /\ \A j \in 1 .. i - 1 : place[j] < place[i]
      BY <2>4
    <3> HIDE DEF place
    <3>3. QED
      BY <3>1, <3>2 DEF InOrder
  <2>8. Len(new.records) > 0 /\ Len(new.records) - 1 = 0 /\ g_diskSubHeader' = head.sub
    BY <2>4, <1>7
  <2>9. LogsInv => ClosedInv(csv, logs')
    BY <2>5 DEF LogsInv
  <2>10. QED
    BY <2>3, <2>5, <2>6, <2>7, <2>8, <2>9, <1>5
<1>8. QED
  BY <1>1, <1>6, <1>7 DEF head

\* CountRecord: the last record is counted.
LEMMA ClientCounts ==
  ASSUME ServerInv, LoggerInv, CountRecord
  PROVE  LoggerInv' /\ (LogsInv => LogsInv')
<1>1. /\ running /\ pc = "count" /\ pc' = "top"
      /\ g_diskSubHeader' =
           Counted(csv, g_diskSubHeader, logs[g_file].records[Len(logs[g_file].records)])
      /\ UNCHANGED << csv, mem, count, history, running, data, seen, logs, g_file >>
  BY DEF CountRecord, serverVars, lookupVars, memVars
<1> DEFINE records == logs[g_file].records
           n == Len(records) - 1
<1>2. /\ g_file > 0 /\ logs[g_file].vars = mem.vars /\ Len(records) > 0
      /\ Tells(csv, g_diskSubHeader, mem.vars, records, n)
  BY <1>1 DEF LoggerInv, ClientInv
<1>3. logs[g_file] \in Files /\ FitsHeader(logs[g_file]) /\ csv \in BOOLEAN
  <2>1. g_file \in DOMAIN logs /\ logs \in Seq(Files) /\ FilesInv(logs) /\ csv \in BOOLEAN
    BY <1>2, ClientFacts
  <2>2. logs[g_file] \in Files
    BY <2>1
  <2>3. QED
    BY <2>1, <2>2 DEF FilesInv
<1>4. n \in Nat /\ n + 1 = Len(records)
  <2>1. Len(records) \in Nat
    BY <1>3, FileFacts
  <2> HIDE DEF records
  <2>2. QED
    BY <2>1, <1>2
<1>5. \A i \in 1 .. n + 1 : /\ DOMAIN records[i] = ToSet(mem.vars)
                            /\ \A m \in ToSet(mem.vars) : records[i][m] \in Nat
  <2> HIDE DEF n
  <2>1. QED
    BY <1>2, <1>3, <1>4, RecordFacts
<1>6. Tells(csv, g_diskSubHeader', mem.vars, records, Len(records))
  <2> HIDE DEF n, records
  <2>1. Tells(csv, Counted(csv, g_diskSubHeader, records[n + 1]), mem.vars, records, n + 1)
    BY <1>2, <1>3, <1>4, <1>5, TellsMore
  <2>2. g_diskSubHeader' = Counted(csv, g_diskSubHeader, records[n + 1])
    BY <1>1, <1>4 DEF records
  <2>3. QED
    BY <2>1, <2>2, <1>4
<1>7. ClientInv'
  BY <1>1, <1>2, <1>6 DEF LoggerInv, ClientInv
<1>8. OrderInv' /\ (LogsInv => LogsInv')
  BY <1>1 DEF LoggerInv, OrderInv, LogsInv
<1>9. QED
  BY <1>7, <1>8 DEF LoggerInv

\* OpenFails and Older: no file is open.
LEMMA ClientWaits ==
  ASSUME ServerInv, LoggerInv, OpenFails \/ Older
  PROVE  LoggerInv' /\ (LogsInv => LogsInv')
<1>1. /\ running /\ pc = "top"
      /\ UNCHANGED << csv, mem, count, history, running, pc, data, logs, g_file, g_diskSubHeader >>
      /\ \/ g_file = 0 /\ data # NoData /\ \E n \in 1 .. count : seen' = n
         \/ seen > count /\ seen' = count
  BY DEF OpenFails, Older, NewSample, serverVars, lookupVars, memVars
<1>2. g_file = 0 /\ seen' \in 0 .. MaxTicks /\ (data # NoData => seen' <= count)
  <2>1. CASE g_file = 0 /\ data # NoData /\ \E n \in 1 .. count : seen' = n
    BY <2>1, ClientFacts
  <2>2. CASE seen > count /\ seen' = count
    <3>1. data = NoData
      BY <2>2, <1>1, ClientFacts DEF LoggerInv, ClientInv
    <3>2. QED
      BY <3>1, <2>2, ClientFacts DEF LoggerInv, ClientInv
  <2>3. QED
    BY <2>1, <2>2, <1>1
<1>3. ClientInv'
  BY <1>1, <1>2 DEF LoggerInv, ClientInv
<1>4. OrderInv' /\ (LogsInv => LogsInv')
  BY <1>1, <1>2 DEF OrderInv, LogsInv
<1>5. QED
  BY <1>3, <1>4 DEF LoggerInv

\* SessionEnded and Quit: the file is closed, with all its records counted if no record was
\* being written.
LEMMA ClientEnds ==
  ASSUME ServerInv, LoggerInv, SessionEnded \/ Quit
  PROVE  LoggerInv' /\ (LogsInv /\ pc = "top" => LogsInv')
<1>1. /\ UNCHANGED << csv, mem, count, history, pc, g_diskSubHeader >>
      /\ logs' = [f \in DOMAIN logs |->
                    IF f = g_file THEN logClose(logs[f], g_diskSubHeader) ELSE logs[f]]
      /\ g_file' = 0 /\ data' = NoData /\ running
  BY DEF SessionEnded, Quit, end_session, close_file, serverVars, lookupVars, memVars
<1>2. /\ seen' \in 0 .. MaxTicks
      /\ (running' = running /\ pc = "top") \/ running' = FALSE
  <2>1. seen \in 0 .. MaxTicks /\ 0 \in 0 .. MaxTicks
    BY ClientFacts
  <2>2. CASE SessionEnded
    <3>1. running' = running /\ pc = "top" /\ (seen' = 0 \/ seen' = seen)
      BY <2>2 DEF SessionEnded
    <3>2. QED
      BY <2>1, <3>1
  <2>3. CASE Quit
    BY <2>1, <2>3 DEF Quit
  <2>4. QED
    BY <2>2, <2>3
<1>3. /\ FilesInv(logs) /\ g_file \in 0 .. Len(logs) /\ csv \in BOOLEAN /\ Len(logs) \in Nat
      /\ g_file > 0 => g_diskSubHeader \in Counts
      /\ g_file > 0 /\ pc = "top" =>
           Tells(csv, g_diskSubHeader, logs[g_file].vars, logs[g_file].records,
                 Len(logs[g_file].records))
  <2>1. FilesInv(logs) /\ g_file \in 0 .. Len(logs) /\ csv \in BOOLEAN /\ Len(logs) \in Nat
    BY ClientFacts
  <2>2. g_file > 0 => g_diskSubHeader \in Counts
    BY DEF LoggerInv, ClientInv, Tells
  <2>3. g_file > 0 /\ pc = "top" =>
           Tells(csv, g_diskSubHeader, logs[g_file].vars, logs[g_file].records,
                 Len(logs[g_file].records))
    BY DEF LoggerInv, ClientInv
  <2>4. QED
    BY <2>1, <2>2, <2>3
<1>4. /\ FilesInv(logs') /\ Len(logs') = Len(logs)
      /\ LogsInv /\ pc = "top" => ClosedInv(csv, logs')
  BY <1>1, <1>3, FileClosed, SMTT(30) DEF LogsInv
<1>5. ClientInv'
  <2>1. 0 \in 0 .. Len(logs')
    BY <1>3, <1>4
  <2>2. running' \in BOOLEAN /\ pc' \in {"top", "count"} /\ (running' => pc' # "count")
    BY <1>1, <1>2 DEF LoggerInv, ClientInv
  <2>3. QED
    BY <2>1, <2>2, <1>1, <1>2, <1>4 DEF ClientInv
<1>6. OrderInv' /\ (LogsInv /\ pc = "top" => LogsInv')
  BY <1>1, <1>4 DEF OrderInv, LogsInv
<1>7. QED
  BY <1>5, <1>6 DEF LoggerInv

\* Every step.
LEMMA LoggerSteps ==
  ASSUME ServerInv, LoggerInv, [Next]_vars
  PROVE  /\ ServerInv' /\ LoggerInv'
         /\ CtrlCAtRest => (LogsInv => LogsInv')
<1>1. CASE Server
  <2>1. ServerNext /\ UNCHANGED loggerVars /\ (session' # session => ~running \/ data = NoData)
    BY <1>1 DEF Server
  <2>2. QED
    BY <2>1, ServerSteps, ServerLeavesClient
<1>2. ASSUME UNCHANGED serverVars
      PROVE  ServerInv'
  BY <1>2, ServerSteps
<1>3. CASE initData
  <2>1. UNCHANGED serverVars
    BY <1>3 DEF initData
  <2>2. QED
    BY <2>1, <1>2, <1>3, ClientBegins
<1>4. CASE logDataToIBT \/ logDataToCSV
  <2>1. LogData(logHeader(csv, mem.vars))
    BY <1>4 DEF logDataToIBT, logDataToCSV, logHeader
  <2>2. UNCHANGED serverVars
    BY <2>1 DEF LogData
  <2>3. QED
    BY <2>1, <2>2, <1>2, ClientLogs
<1>5. CASE CountRecord
  <2>1. UNCHANGED serverVars
    BY <1>5 DEF CountRecord
  <2>2. QED
    BY <2>1, <1>2, <1>5, ClientCounts
<1>6. CASE OpenFails \/ Older
  <2>1. UNCHANGED serverVars
    BY <1>6 DEF OpenFails, Older
  <2>2. QED
    BY <2>1, <1>2, <1>6, ClientWaits
<1>7. CASE SessionEnded \/ Quit
  <2>1. UNCHANGED serverVars
    BY <1>7 DEF SessionEnded, Quit
  <2>2. CtrlCAtRest => pc = "top"
    BY <1>7 DEF SessionEnded, Quit
  <2>3. QED
    BY <2>1, <2>2, <1>2, <1>7, ClientEnds
<1>8. CASE UNCHANGED vars
  <2>1. UNCHANGED serverVars /\ UNCHANGED loggerVars /\ session' = session
    BY <1>8 DEF vars, serverVars
  <2>2. QED
    BY <2>1, <1>2, ServerLeavesClient
<1>9. QED
  BY <1>1, <1>3, <1>4, <1>5, <1>6, <1>7, <1>8 DEF Next, Logger

\* The initial states.
LEMMA LoggerBegins == Init => ServerInv /\ LoggerInv /\ LogsInv
<1> SUFFICES ASSUME Init
             PROVE  ServerInv /\ LoggerInv /\ LogsInv
  OBVIOUS
<1>1. ServerInv
  BY ServerBegins DEF Init
<1>2. running = TRUE /\ pc = "top" /\ data = NoData /\ seen = 0 /\ logs = << >> /\ g_file = 0
  BY DEF Init
<1>3. FilesInv(logs) /\ ClosedInv(csv, logs)
  BY <1>2 DEF FilesInv, ClosedInv
<1>4. 0 \in 0 .. MaxTicks
  BY ConstantFacts
<1>5. ClientInv
  BY <1>2, <1>3, <1>4 DEF ClientInv
<1>6. QED
  BY <1>1, <1>2, <1>3, <1>5 DEF LoggerInv, OrderInv, LogsInv

-------------------------------------------------------------------------------
(* What readtest writes: the columns of a line are those of the names. *)

\* Induction from 1 to m, for a set of numbers.
LEMMA Counting ==
  ASSUME NEW m \in Nat, NEW S, 1 \in S, \A i \in 2 .. m : i - 1 \in S => i \in S
  PROVE  \A i \in 1 .. m : i \in S
<1> DEFINE T == (1 .. m) \ S
<1>1. SUFFICES ASSUME T # {}
               PROVE  FALSE
  OBVIOUS
<1>2. PICK x \in T : \A y \in T : x <= y
  <2>1. T \subseteq Nat
    OBVIOUS
  <2> HIDE DEF T
  <2>2. QED
    BY <2>1, <1>1, LeastElement
<1>3. x \in 2 .. m /\ x \notin S
  OBVIOUS
<1>4. x - 1 \in S
  <2>1. x - 1 \in 1 .. m /\ ~(x <= x - 1)
    BY <1>3
  <2>2. QED
    BY <2>1, <1>2
<1>5. QED
  BY <1>3, <1>4

\* The sequences that FlattenSeq makes on the way.
Flattens(f, T, seqs, L) ==
  /\ f \in [1 .. L -> Seq(T)]
  /\ f[1] = seqs[1] /\ \A i \in 2 .. L : f[i] = f[i - 1] \o seqs[i]
  /\ FlattenSeq(seqs) = f[L]

\* They exist.
LEMMA Flattening ==
  ASSUME NEW T, NEW seqs \in Seq(Seq(T)), seqs # << >>, NEW L, L = Len(seqs)
  PROVE  \E f : Flattens(f, T, seqs, L)
<1> DEFINE Next1(f, i) == IF i = 1 THEN seqs[i] ELSE f[i - 1] \o seqs[i]
           Part(f, m) == f = [i \in 1 .. m |-> Next1(f, i)]
           S == {m \in 1 .. L : \E f : Part(f, m)}
<1>1. L \in Nat \ {0} /\ DOMAIN seqs = 1 .. L /\ \A i \in 1 .. L : seqs[i] \in Seq(T)
  OBVIOUS
<1>2. 1 \in S
  <2> DEFINE f == [i \in 1 .. 1 |-> seqs[1]]
  <2>1. \A i \in 1 .. 1 : i = 1
    OBVIOUS
  <2>2. Part(f, 1)
    BY <2>1
  <2> HIDE DEF Part
  <2>3. QED
    BY <2>2, <1>1
<1>3. ASSUME NEW m \in 2 .. L, m - 1 \in S
      PROVE  m \in S
  <2>1. PICK f : Part(f, m - 1)
    BY <1>3
  <2> DEFINE g == [i \in 1 .. m |-> IF i = m THEN f[m - 1] \o seqs[m] ELSE f[i]]
  <2>2. \A i \in 1 .. m - 1 : f[i] = Next1(f, i)
    BY <2>1
  <2>3. \A i \in 1 .. m : g[i] = IF i = m THEN f[m - 1] \o seqs[m] ELSE f[i]
    OBVIOUS
  <2>4. ASSUME NEW i \in 1 .. m
        PROVE  g[i] = Next1(g, i)
    <3>1. CASE i = m
      <4>1. m \in 1 .. m /\ m - 1 \in 1 .. m /\ m - 1 # m /\ m # 1
        OBVIOUS
      <4> HIDE DEF g
      <4>2. g[m] = f[m - 1] \o seqs[m] /\ g[m - 1] = f[m - 1]
        BY <4>1, <2>3
      <4>3. QED
        BY <3>1, <4>1, <4>2
    <3>2. CASE i # m
      <4>1. i \in 1 .. m - 1 /\ g[i] = f[i]
        BY <3>2, <2>3
      <4>2. i # 1 => i - 1 \in 1 .. m /\ i - 1 # m
        BY <4>1
      <4>3. i # 1 => g[i - 1] = f[i - 1]
        BY <4>2, <2>3
      <4> HIDE DEF g
      <4>4. QED
        BY <4>1, <4>3, <2>2
    <3>3. QED
      BY <3>1, <3>2
  <2>5. g = [i \in 1 .. m |-> g[i]]
    OBVIOUS
  <2> HIDE DEF g
  <2>6. Part(g, m)
    BY <2>4, <2>5
  <2> HIDE DEF Part
  <2>7. QED
    BY <2>6, <1>1
<1>4. L \in S
  <2> HIDE DEF S
  <2>1. \A i \in 1 .. L : i \in S
    BY <1>1, <1>2, <1>3, Counting
  <2>2. QED
    BY <2>1, <1>1
<1> DEFINE f == CHOOSE g : Part(g, L)
<1>5. Part(f, L)
  <2>1. \E g : Part(g, L)
    BY <1>4
  <2> HIDE DEF Part
  <2>2. QED
    BY <2>1
<1>6. FlattenSeq(seqs) = f[L]
  BY <1>1 DEF FlattenSeq
<1> HIDE DEF f
<1>7. DOMAIN f = 1 .. L /\ \A i \in 1 .. L : f[i] = IF i = 1 THEN seqs[i] ELSE f[i - 1] \o seqs[i]
  BY <1>5
<1>8. f[1] = seqs[1] /\ \A i \in 2 .. L : f[i] = f[i - 1] \o seqs[i]
  <2>1. 1 \in 1 .. L /\ \A i \in 2 .. L : i \in 1 .. L /\ i # 1
    BY <1>1
  <2> HIDE DEF Part
  <2>2. QED
    BY <2>1, <1>7
<1>9. \A i \in 1 .. L : f[i] \in Seq(T)
  <2> DEFINE R == {i \in 1 .. L : f[i] \in Seq(T)}
  <2>1. 1 \in R
    BY <1>1, <1>8
  <2>2. \A i \in 2 .. L : i - 1 \in R => i \in R
    <3>1. SUFFICES ASSUME NEW i \in 2 .. L, i - 1 \in R
                   PROVE  i \in R
      OBVIOUS
    <3>2. f[i - 1] \in Seq(T) /\ seqs[i] \in Seq(T) /\ f[i] = f[i - 1] \o seqs[i] /\ i \in 1 .. L
      <4>1. i \in 1 .. L
        OBVIOUS
      <4>2. f[i - 1] \in Seq(T)
        BY <3>1
      <4> HIDE DEF R
      <4>3. QED
        BY <4>1, <4>2, <1>1, <1>8
    <3>3. f[i] \in Seq(T)
      BY <3>2, ConcatProperties
    <3>4. QED
      BY <3>2, <3>3
  <2> HIDE DEF R
  <2>3. \A i \in 1 .. L : i \in R
    BY <2>1, <2>2, <1>1, Counting
  <2>4. QED
    BY <2>3 DEF R
<1>10. f \in [1 .. L -> Seq(T)]
  <2>1. f = [i \in 1 .. L |-> f[i]]
    BY <1>5
  <2>2. QED
    BY <2>1, <1>9
<1>11. QED
  BY <1>6, <1>8, <1>10 DEF Flattens

\* Each cell of a line is the value of the variable of its column.
Aligned(record, columns, line) ==
  /\ Len(line) = Len(columns)
  /\ \A c \in 1 .. Len(columns) : line[c] = record[columns[c][1]]

\* Aligned parts make aligned wholes.
LEMMA AlignedConcat ==
  ASSUME NEW record, NEW P, NEW V, NEW a \in Seq(P), NEW b \in Seq(P),
         NEW x \in Seq(V), NEW y \in Seq(V), Aligned(record, a, x), Aligned(record, b, y)
  PROVE  Aligned(record, a \o b, x \o y)
<1>1. /\ Len(a \o b) = Len(a) + Len(b)
      /\ \A i \in 1 .. Len(a) + Len(b) : (a \o b)[i] = IF i <= Len(a) THEN a[i] ELSE b[i - Len(a)]
  BY ConcatProperties
<1>2. /\ Len(x \o y) = Len(x) + Len(y)
      /\ \A i \in 1 .. Len(x) + Len(y) : (x \o y)[i] = IF i <= Len(x) THEN x[i] ELSE y[i - Len(x)]
  BY ConcatProperties
<1>3. /\ Len(x) = Len(a) /\ Len(y) = Len(b) /\ Len(a) \in Nat /\ Len(b) \in Nat
      /\ \A c \in 1 .. Len(a) : x[c] = record[a[c][1]]
      /\ \A c \in 1 .. Len(b) : y[c] = record[b[c][1]]
  BY DEF Aligned
<1> DEFINE ab == a \o b
           xy == x \o y
<1>4. /\ Len(ab) = Len(a) + Len(b) /\ Len(xy) = Len(a) + Len(b)
      /\ \A i \in 1 .. Len(a) + Len(b) : ab[i] = IF i <= Len(a) THEN a[i] ELSE b[i - Len(a)]
      /\ \A i \in 1 .. Len(a) + Len(b) : xy[i] = IF i <= Len(a) THEN x[i] ELSE y[i - Len(a)]
  BY <1>1, <1>2, <1>3
<1> HIDE DEF ab, xy
<1>5. ASSUME NEW c \in 1 .. Len(a) + Len(b)
      PROVE  xy[c] = record[ab[c][1]]
  <2>1. CASE c <= Len(a)
    <3>1. c \in 1 .. Len(a)
      BY <2>1, <1>3
    <3>2. QED
      BY <3>1, <2>1, <1>3, <1>4
  <2>2. CASE ~(c <= Len(a))
    <3>1. c - Len(a) \in 1 .. Len(b)
      BY <2>2, <1>3
    <3>2. QED
      BY <3>1, <2>2, <1>3, <1>4
  <2>3. QED
    BY <2>1, <2>2
<1>6. QED
  BY <1>4, <1>5 DEF Aligned, ab, xy

Pairs(names) == ToSet(names) \X {1, 2}

\* The line of a record is aligned with the names.
LEMMA LineFacts ==
  ASSUME NEW names \in Seq(Names), NEW record \in Samples, DOMAIN record = ToSet(names)
  PROVE  /\ writeCSVVarHeaders(names) \in Seq(Pairs(names))
         /\ Aligned(record, writeCSVVarHeaders(names), writeCSVData(names, record))
<1> DEFINE L == Len(names)
           A == [i \in DOMAIN names |-> [j \in cells(names[i]) |-> << names[i], j >>]]
           B == [i \in DOMAIN names |-> [j \in cells(names[i]) |-> record[names[i]]]]
           P == Pairs(names)
<1>1. DOMAIN names = 1 .. L /\ L \in Nat /\ \A i \in 1 .. L : names[i] \in ToSet(names)
  BY DEF ToSet
<1>2. writeCSVVarHeaders(names) = FlattenSeq(A) /\ writeCSVData(names, record) = FlattenSeq(B)
  BY DEF writeCSVVarHeaders, writeCSVData
<1>3. ASSUME NEW i \in 1 .. L
      PROVE  A[i] \in Seq(P) /\ B[i] \in Seq(Values) /\ Aligned(record, A[i], B[i])
  <2> DEFINE n == names[i]
  <2>1. /\ A[i] = [j \in cells(n) |-> << n, j >>]
        /\ B[i] = [j \in cells(n) |-> record[n]]
    BY <1>1
  <2>2. n \in ToSet(names) /\ record[n] \in Values
    BY <1>1, SampleFacts
  <2> HIDE DEF n, A, B
  <2>3. PICK w \in {1, 2} : cells(n) = 1 .. w
    BY DEF cells
  <2>4. \A j \in 1 .. w : j \in {1, 2} /\ << n, j >> \in P
    BY <2>2 DEF Pairs
  <2>5. A[i] \in Seq(P) /\ Len(A[i]) = w
    <3> HIDE DEF P
    <3>1. QED
      BY <2>1, <2>3, <2>4
  <2>6. B[i] \in Seq(Values) /\ Len(B[i]) = w
    BY <2>1, <2>2, <2>3
  <2>7. \A c \in 1 .. w : A[i][c] = << n, c >> /\ B[i][c] = record[n]
    BY <2>1, <2>3
  <2>8. \A c \in 1 .. w : B[i][c] = record[A[i][c][1]]
    BY <2>7
  <2>9. QED
    BY <2>5, <2>6, <2>8 DEF Aligned
<1>4. /\ DOMAIN A = 1 .. L /\ DOMAIN B = 1 .. L
      /\ A = [i \in 1 .. L |-> A[i]] /\ B = [i \in 1 .. L |-> B[i]]
  BY <1>1
<1> HIDE DEF A, B, P, L
<1>5. A \in Seq(Seq(P)) /\ Len(A) = L /\ B \in Seq(Seq(Values)) /\ Len(B) = L
  <2>1. ASSUME NEW T, NEW s, s = [i \in 1 .. L |-> s[i]], \A i \in 1 .. L : s[i] \in T
        PROVE  s \in Seq(T) /\ Len(s) = L
    BY <1>1, <2>1
  <2>2. A \in Seq(Seq(P)) /\ Len(A) = L
    BY <2>1, <1>3, <1>4
  <2>3. B \in Seq(Seq(Values)) /\ Len(B) = L
    BY <2>1, <1>3, <1>4
  <2>4. QED
    BY <2>2, <2>3
<1>6. CASE L = 0
  <2>1. FlattenSeq(A) = A /\ FlattenSeq(B) = B
    BY <1>5, <1>6 DEF FlattenSeq
  <2>2. A = << >> /\ B = << >>
    BY <1>5, <1>6, EmptySeq
  <2>3. Aligned(record, << >>, << >>) /\ << >> \in Seq(P)
    BY DEF Aligned
  <2>4. QED
    BY <2>1, <2>2, <2>3, <1>2 DEF P
<1>7. CASE L # 0
  <2>1. A # << >> /\ B # << >>
    BY <1>5, <1>7
  <2>2. PICK f : Flattens(f, P, A, L)
    BY <2>1, <1>5, Flattening
  <2>3. PICK g : Flattens(g, Values, B, L)
    BY <2>1, <1>5, Flattening
  <2> DEFINE S == {i \in 1 .. L : Aligned(record, f[i], g[i])}
  <2>4. 1 \in S
    BY <2>2, <2>3, <1>1, <1>3, <1>7 DEF Flattens
  <2>5. ASSUME NEW i \in 2 .. L, i - 1 \in S
        PROVE  i \in S
    <3>1. i \in 1 .. L /\ i - 1 \in 1 .. L /\ Aligned(record, f[i - 1], g[i - 1])
      BY <2>5
    <3> HIDE DEF S
    <3>2. /\ f[i - 1] \in Seq(P) /\ g[i - 1] \in Seq(Values) /\ A[i] \in Seq(P) /\ B[i] \in Seq(Values)
          /\ Aligned(record, A[i], B[i])
      BY <3>1, <1>3, <2>2, <2>3 DEF Flattens
    <3>3. Aligned(record, f[i - 1] \o A[i], g[i - 1] \o B[i])
      BY <3>1, <3>2, AlignedConcat
    <3>4. QED
      BY <3>1, <3>3, <2>2, <2>3 DEF S, Flattens
  <2> HIDE DEF S
  <2>6. \A i \in 1 .. L : i \in S
    BY <2>4, <2>5, <1>1, Counting
  <2>7. L \in 1 .. L
    BY <1>1, <1>7
  <2>8. Aligned(record, f[L], g[L]) /\ f[L] \in Seq(P)
    BY <2>2, <2>6, <2>7 DEF S, Flattens
  <2>9. QED
    BY <2>2, <2>3, <2>8, <1>2 DEF P, Flattens
<1>8. QED
  BY <1>6, <1>7

\* The head of a file whose counts are true announces what is read from it.
LEMMA HeadAnnounces ==
  ASSUME NEW text \in BOOLEAN, NEW f \in Files, FitsHeader(f),
         Tells(text, f.sub, f.vars, f.records, Len(f.records))
  PROVE  Announces(irsdk_diskread(f))
<1> DEFINE n == Len(f.records)
           records == f.records
           columns == writeCSVVarHeaders(f.vars)
           lines == [r \in DOMAIN records |-> writeCSVData(f.vars, records[r])]
           read == irsdk_diskread(f)
           In(name) == {c \in DOMAIN columns : columns[c] = << name, 1 >>}
<1>1. /\ f.vars \in Seq(Names) /\ records \in Seq(Samples) /\ n \in Nat /\ DOMAIN records = 1 .. n
  BY FileFacts
<1>2. read.head = f.sub /\ read.columns = columns /\ read.lines = lines
  BY DEF irsdk_diskread
<1>3. \A i \in 1 .. n : records[i] \in Samples /\ DOMAIN records[i] = ToSet(f.vars)
  BY <1>1 DEF FitsHeader
<1>4. DOMAIN lines = 1 .. n /\ \A i \in 1 .. n : lines[i] = writeCSVData(f.vars, records[i])
  BY <1>1
<1>5. Len(lines) = n
  BY <1>1
<1> HIDE DEF lines, columns, records, n, read
<1>6. \A i \in 1 .. n : Aligned(records[i], columns, lines[i])
  BY <1>1, <1>3, <1>4, LineFacts DEF columns
<1>7. columns \in Seq(Pairs(f.vars))
  <2> DEFINE zero == [m \in ToSet(f.vars) |-> 0]
  <2>1. ToSet(f.vars) \subseteq Names /\ 0 \in Values
    BY <1>1, ConstantFacts DEF ToSet
  <2>2. zero \in [ToSet(f.vars) -> Values]
    BY <2>1
  <2>3. zero \in Samples /\ DOMAIN zero = ToSet(f.vars)
    BY <2>1, <2>2, SampleFacts
  <2> HIDE DEF zero
  <2>4. QED
    BY <2>3, <1>1, LineFacts DEF columns
<1>8. ASSUME NEW name, NEW c \in In(name)
      PROVE  name \in ToSet(f.vars) /\ \A i \in 1 .. n : lines[i][c] = records[i][name]
  <2>1. columns \in Seq(Pairs(f.vars)) /\ columns[c] = << name, 1 >> /\ c \in 1 .. Len(columns)
    <3>1. c \in DOMAIN columns /\ columns[c] = << name, 1 >>
      BY <1>8
    <3>2. DOMAIN columns = 1 .. Len(columns)
      BY <1>7
    <3>3. QED
      BY <3>1, <3>2, <1>7
  <2>2. columns[c] \in Pairs(f.vars)
    BY <2>1
  <2>3. name \in ToSet(f.vars)
    BY <2>1, <2>2 DEF Pairs
  <2>4. \A i \in 1 .. n : lines[i][c] = records[i][columns[c][1]]
    BY <2>1, <1>6 DEF Aligned
  <2>5. QED
    BY <2>1, <2>3, <2>4
<1>9. f.sub.count = n /\ \A i \in 1 .. n : Len(lines[i]) = Len(columns)
  BY <1>6 DEF Aligned, Tells, n
<1>10. ASSUME n > 0, NEW c \in In(Time)
       PROVE  /\ f.sub.start = lines[1][c]
              /\ \E i \in 1 .. n : f.sub.end = lines[i][c]
              /\ \A i \in 1 .. n : lines[i][c] <= f.sub.end
  <2>1. Time \in ToSet(f.vars) /\ \A i \in 1 .. n : lines[i][c] = records[i][Time]
    BY <1>8, <1>10
  <2>2. f.sub.start = records[1][Time] /\ MostIn(records, n, Time, f.sub.end)
    BY <2>1, <1>10 DEF Tells, n, records
  <2>3. 1 \in 1 .. n
    BY <1>1, <1>10
  <2>4. QED
    BY <2>1, <2>2, <2>3 DEF MostIn
<1>11. ASSUME NEW c \in In(Lap)
       PROVE  f.sub.laps = Cardinality({i \in 1 .. n : \A j \in 1 .. i - 1 : lines[j][c] < lines[i][c]})
  <2> DEFINE new == {i \in 1 .. n : \A j \in 1 .. i - 1 : lines[j][c] < lines[i][c]}
  <2>1. new = NewLaps(records, n)
    <3>1. \A i \in 1 .. n : lines[i][c] = records[i][Lap] /\ \A j \in 1 .. i - 1 : j \in 1 .. n
      BY <1>1, <1>8
    <3>2. \A i \in 1 .. n : (\A j \in 1 .. i - 1 : lines[j][c] < lines[i][c])
                              <=> \A j \in 1 .. i - 1 : records[j][Lap] < records[i][Lap]
      BY <3>1
    <3>3. QED
      BY <3>2 DEF NewLaps
  <2>2. Lap \in ToSet(f.vars)
    BY <1>8, <1>11
  <2>3. f.sub.laps = Cardinality(NewLaps(records, n))
    BY <2>2 DEF Tells, records, n
  <2> HIDE DEF new
  <2>4. QED
    BY <2>1, <2>3 DEF new
<1>12. QED
  BY <1>2, <1>5, <1>9, <1>10, <1>11 DEF Announces, read

-------------------------------------------------------------------------------
(* The theorems. *)

\* The invariant holds.
LEMMA LoggerInductive == Spec => []LoggerIInv
<1>1. Init => LoggerIInv
  BY LoggerBegins DEF LoggerIInv
<1>2. LoggerIInv /\ [Next]_vars => LoggerIInv'
  BY LoggerSteps DEF LoggerIInv
<1>3. QED
  BY <1>1, <1>2, PTL DEF Spec

\* What the invariant says of the types and of the records.
LEMMA LoggerTypes == LoggerIInv => TypeOK /\ RecordsFitHeader
<1> SUFFICES ASSUME LoggerIInv
             PROVE  TypeOK /\ RecordsFitHeader
  OBVIOUS
<1>1. ServerInv /\ LoggerInv
  BY DEF LoggerIInv
<1>2. /\ Proper(mem) /\ Proper(disk) /\ varLookup \in Seq(Entries)
      /\ up => /\ Placed(NamesIn(varLookup), MemIn(varLookup), mem.vars)
               /\ Placed(NamesIn(varLookup), DiskIn(varLookup), disk.vars)
      /\ ~up => varLookup = << >>
  BY <1>1 DEF ServerInv, LookupInv, StepInv
<1>3. /\ csv \in BOOLEAN /\ up \in BOOLEAN /\ session \in 0 .. MaxSessions
      /\ step \in {"register", "finalize", "reset", "poll", "update"}
      /\ source \in [Polled -> Values] /\ setSinceReset \subseteq Names \ Polled
      /\ rows \in [1 .. bufCount -> Samples] /\ curBuf \in 1 .. bufCount /\ row \in Samples
      /\ count = Len(history)
      /\ FilesInv(files) /\ file \in 0 .. Len(files)
  BY <1>1 DEF ServerInv, StepInv, SourceInv, RowInv, HistoryInv, DiskInv
<1>4. \A i \in DOMAIN varLookup :
        /\ varLookup[i].name \in Names
        /\ varLookup[i].memIndex \in 0 .. Len(mem.vars)
        /\ varLookup[i].diskIndex \in 0 .. Len(disk.vars)
  <2>1. ASSUME NEW i \in DOMAIN varLookup
        PROVE  /\ varLookup[i].name \in Names
               /\ varLookup[i].memIndex \in 0 .. Len(mem.vars)
               /\ varLookup[i].diskIndex \in 0 .. Len(disk.vars)
    <3>1. up
      BY <1>2
    <3>2. varLookup[i].name \in Names
      <4>1. varLookup[i] \in Entries
        BY <1>2
      <4>2. QED
        BY <4>1 DEF Entries
    <3>3. /\ i \in DOMAIN NamesIn(varLookup)
          /\ MemIn(varLookup)[i] = varLookup[i].memIndex
          /\ DiskIn(varLookup)[i] = varLookup[i].diskIndex
      BY DEF NamesIn, MemIn, DiskIn
    <3>4. QED
      BY <3>1, <3>2, <3>3, <1>2 DEF Placed
  <2>2. QED
    BY <2>1
<1>5. \A s \in {mem, disk} :
        s.vars \in Seq(Names) /\ s.ptrs \subseteq ToSet(s.vars) /\ Len(s.vars) < bufLength
  BY <1>2 DEF Proper, Servers
<1>6. ServerTypeOK
  BY <1>3, <1>4, <1>5 DEF ServerTypeOK
<1>7. TypeOK
  BY <1>1, <1>6 DEF TypeOK, LoggerInv, ClientInv
<1>8. FilesInv(logs)
  BY <1>1 DEF LoggerInv, ClientInv
<1>9. RecordsFitHeader
  BY <1>3, <1>8 DEF FilesInv, FitsHeader, RecordsFitHeader
<1>10. QED
  BY <1>7, <1>9

\* A record of a file, of the server as of the client, has the variables of its header,
\* and every variable of the model its type, wherever ctrl-c comes.
THEOREM LoggerTypesHold == Spec => [](TypeOK /\ RecordsFitHeader)
BY LoggerInductive, LoggerTypes, PTL

\* OfThisTick: a poll gives both samples what is polled and what was set since the reset of
\* its tick, and zero for the rest, values set after the poll before included; nothing else
\* is a poll.
THEOREM TicksOwn == Spec => OfThisTick
<1> DEFINE Own == step = "poll" /\ step' = "update" =>
             /\ history' = Append(history, Expected(mem))
             /\ file' > 0 => files'[file'].records[Len(files'[file'].records)] = Expected(disk)
<1>1. LoggerIInv /\ [Next]_vars => [Own]_vars
  <2> SUFFICES ASSUME LoggerIInv, Next, step = "poll", step' = "update"
               PROVE  /\ history' = Append(history, Expected(mem))
                      /\ file' > 0 => files'[file'].records[Len(files'[file'].records)] = Expected(disk)
    BY DEF Own
  <2>1. CASE Server
    <3>1. ServerNext
      BY <2>1 DEF Server
    <3>2. pollSampleVars
      BY <3>1 DEF ServerNext, RegisterVar, AllRegistered, RegisterAgain, reRegVar, finalizeHeader,
                  resetSampleVars, setVar, Update, Exit, Dies, Gone, Start
    <3>3. QED
      BY <3>2, ServerPolls DEF LoggerIInv
  <2>2. CASE Logger
    <3>1. UNCHANGED serverVars
      BY <2>2 DEF Logger, initData, logDataToIBT, logDataToCSV, LogData, OpenFails, CountRecord, Older,
                  SessionEnded, Quit
    <3>2. step' = step
      BY <3>1 DEF serverVars
    <3>3. QED
      BY <3>2
  <2>3. QED
    BY <2>1, <2>2 DEF Next
<1>2. QED
  BY <1>1, LoggerInductive, PTL DEF Spec, OfThisTick, Own

\* LogIsSubsequence: whatever samples the client misses, and whenever the server is started
\* anew, its open file holds samples of the running session, each once and in their order.
THEOREM LogOrdered == Spec => []LogIsSubsequence
<1>1. LoggerIInv => LogIsSubsequence
  <2> SUFFICES ASSUME LoggerIInv, g_file > 0
               PROVE  \E place \in [DOMAIN logs[g_file].records -> DOMAIN history] :
                        \A i \in DOMAIN logs[g_file].records :
                          /\ logs[g_file].records[i] = history[place[i]]
                          /\ \A j \in 1 .. i - 1 : place[j] < place[i]
    BY DEF LogIsSubsequence
  <2> DEFINE records == logs[g_file].records
  <2> HIDE DEF records
  <2>1. InOrder(records, history, seen)
    BY DEF LoggerIInv, LoggerInv, OrderInv, records
  <2>2. PICK place \in [DOMAIN records -> 1 .. seen] :
          \A i \in DOMAIN records :
            records[i] = history[place[i]] /\ \A j \in 1 .. i - 1 : place[j] < place[i]
    BY <2>1 DEF InOrder
  <2>3. seen <= count /\ seen \in Nat /\ count \in Nat /\ DOMAIN history = 1 .. count
    <3>1. seen <= count
      BY DEF LoggerIInv, LoggerInv, ClientInv
    <3>2. QED
      BY <3>1, ClientFacts DEF LoggerIInv
  <2>4. place \in [DOMAIN records -> DOMAIN history]
    <3>1. \A i \in 1 .. seen : i \in DOMAIN history
      BY <2>3
    <3>2. QED
      BY <3>1
  <2>5. QED
    BY <2>2, <2>4 DEF records
<1>2. QED
  BY <1>1, LoggerInductive, PTL

\* FilesReadable: if ctrl-c is handled between two samples, then what readtest makes of a
\* file that was closed is what its head announces.
THEOREM FilesRead ==
  ASSUME CtrlCAtRest
  PROVE  Spec => []FilesReadable
<1> DEFINE Inv == LoggerIInv /\ LogsInv
<1>1. Init => Inv
  BY LoggerBegins DEF LoggerIInv
<1>2. Inv /\ [Next]_vars => Inv'
  BY LoggerSteps DEF LoggerIInv
<1>3. Inv => FilesReadable
  <2> SUFFICES ASSUME Inv
               PROVE  FilesReadable
    OBVIOUS
  <2>1. /\ csv \in BOOLEAN
        /\ FilesInv(files) /\ ClosedInv(csv, files) /\ FilesInv(logs) /\ ClosedInv(csv, logs)
    BY DEF LoggerIInv, ServerInv, StepInv, DiskInv, LoggerInv, ClientInv, LogsInv
  <2>2. ASSUME NEW list, FilesInv(list), ClosedInv(csv, list), NEW f \in DOMAIN list, list[f].closed
        PROVE  Announces(irsdk_diskread(list[f]))
    <3>1. list[f] \in Files /\ FitsHeader(list[f])
      BY <2>2 DEF FilesInv
    <3>2. Tells(csv, list[f].sub, list[f].vars, list[f].records, Len(list[f].records))
      BY <2>2 DEF ClosedInv
    <3>3. QED
      BY <3>1, <3>2, <2>1, HeadAnnounces
  <2>3. ClosedFilesTrue
    BY <2>1, <2>2 DEF ClosedFilesTrue
  <2>4. QED
    BY <2>3, LoggerTypes DEF FilesReadable
<1>4. QED
  BY <1>1, <1>2, <1>3, PTL DEF Spec

===============================================================================

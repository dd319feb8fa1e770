--------------------------- MODULE RunnerProofs ---------------------------
(***************************************************************************)
(* Proof that the runner of agenc-test tells the truth: the points it       *)
(* prints are those of the selected tests, in order and once, the verdicts  *)
(* are the ones that are due, but for two failures that are lost, and the   *)
(* counters agree with the points.                                          *)
(*                                                                         *)
(* All that is ever printed is appended to one stream, whichever process    *)
(* prints it and whatever stays in a buffer.  The proof follows the stream: *)
(* a round of the loop adds some diagnostics and one point to it.           *)
(***************************************************************************)
EXTENDS TestRunner, FiniteSetTheorems, SequenceTheorems, TLAPS

-----------------------------------------------------------------------------
(* Types                                                                    *)

Tests == AllTests \cup {NULL}
Kinds == {"point", "diag", "bail", "plan", "name"}
Verdicts == {"ok", "not ok", "SKIP"}
Lines == [kind : Kinds, test : Tests, num : Nat, verdict : Verdicts \cup {""}]

Memory == [current : Tests, current_failed : BOOLEAN, skipped_current : BOOLEAN,
           diag : Seq(Tests), have_jmp : BOOLEAN, crash_name : Tests, buf : Seq(Lines)]
Frames == [phase : {"none", "setup", "body", "teardown", "done"}, setup_done : BOOLEAN]
Children == [state : {"none", "running", "terminated", "unforked"}, by : {"exit", "signal"}, code : Nat]
Counters == [tests_run : Nat, tests_passed : Nat, tests_failed : Nat, tests_skipped : Nat]
Fates == [test : Tests, failed : BOOLEAN, skipped : BOOLEAN, bodied : BOOLEAN, torn : BOOLEAN,
          end : {"running", "returned", "exited", "died", "unforked"}, code : Nat]
Options == [isolate : BOOLEAN, fail_fast : BOOLEAN, list_only : BOOLEAN, xml : BOOLEAN,
            filter : Filters \cup {{}}]

Typed ==
  /\ options \in Options /\ manual \in Seq(Manual) /\ list \in Seq(AllTests)
  /\ i \in Nat \ {0} /\ n \in Nat
  /\ pc \in {"start", "loop", "inside", "waiting", "plan", "exited", "dead"}
  /\ counters \in Counters /\ mem \in [runner : Memory, child : Memory]
  /\ frame \in Frames /\ child \in Children /\ out \in Seq(Lines) /\ err \in Seq(Tests)
  /\ fate \in Fates

-----------------------------------------------------------------------------
(* The order of the list                                                    *)

LEMMA ToSetFinite ==
  ASSUME NEW S, NEW s \in Seq(S)
  PROVE  /\ IsFiniteSet(ToSet(s)) /\ ToSet(s) \subseteq S
         /\ IsInjective(s) => Cardinality(ToSet(s)) = Len(s)
<1>1. s \in Surjection(1..Len(s), ToSet(s))
  BY DEF Surjection, ToSet
<1>2. IsFiniteSet(1..Len(s)) /\ Cardinality(1..Len(s)) = Len(s)
  <2>1. PICK m \in Nat : m = Len(s)
    OBVIOUS
  <2>2. IsFiniteSet(1..m) /\ Cardinality(1..m) = m
    BY FS_Interval
  <2> QED
    BY <2>1, <2>2
<1>3. IsInjective(s) => s \in Injection(1..Len(s), ToSet(s))
  BY <1>1 DEF Surjection, Injection
<1> QED
  BY <1>1, <1>2, <1>3, FS_Surjection DEF ToSet

Rank(set, t) == Cardinality({u \in set : u < t})

\* Among the members of a finite set of numbers every place is taken.
LEMMA RankIsBijective ==
  ASSUME NEW set, set \subseteq Nat, IsFiniteSet(set), NEW m \in Nat, m = Cardinality(set)
  PROVE  /\ \A t \in set : Rank(set, t) \in 0..(m - 1)
         /\ \A t, u \in set : t < u => Rank(set, t) < Rank(set, u)
         /\ \A k \in 0..(m - 1) : \E t \in set : Rank(set, t) = k
<1>1. \A t \in set : /\ IsFiniteSet({u \in set : u < t}) /\ Rank(set, t) \in Nat
                     /\ t \notin {u \in set : u < t}
  BY FS_Subset, FS_CardinalityType DEF Rank
<1>2. ASSUME NEW t \in set, NEW S, IsFiniteSet(S), {u \in set : u < t} \cup {t} \subseteq S
      PROVE  Rank(set, t) + 1 <= Cardinality(S)
  <2>1. Cardinality({u \in set : u < t} \cup {t}) = Rank(set, t) + 1
    BY <1>1, FS_AddElement, Zenon DEF Rank
  <2> QED
    BY <1>2, <2>1, FS_Subset
<1>3. \A t \in set : Rank(set, t) \in 0..(m - 1)
  <2> TAKE t \in set
  <2>1. Rank(set, t) + 1 <= Cardinality(set)
    <3>1. {u \in set : u < t} \cup {t} \subseteq set
      OBVIOUS
    <3> QED
      BY <1>2, <3>1
  <2>2. Rank(set, t) \in Nat
    BY <1>1
  <2> QED
    BY <2>1, <2>2
<1>4. ASSUME NEW t \in set, NEW u \in set, t < u
      PROVE  Rank(set, t) < Rank(set, u)
  <2>1. {v \in set : v < t} \cup {t} \subseteq {v \in set : v < u}
    <3>1. t \in Nat /\ u \in Nat /\ \A v \in set : v \in Nat
      OBVIOUS
    <3>2. \A v \in set : v < t => v < u
      BY <1>4, <3>1
    <3> QED
      BY <1>4, <3>2, Zenon
  <2>2. Rank(set, t) + 1 <= Cardinality({v \in set : v < u})
    BY <1>1, <1>2, <2>1
  <2>3. Cardinality({v \in set : v < u}) = Rank(set, u)
    BY Zenon DEF Rank
  <2>4. Rank(set, t) \in Nat /\ Rank(set, u) \in Nat
    BY <1>1
  <2> QED
    BY <2>2, <2>3, <2>4
<1>5. \A k \in 0..(m - 1) : \E t \in set : Rank(set, t) = k
  <2> DEFINE f == [t \in set |-> Rank(set, t)]
  <2>1. f \in [set -> 0..(m - 1)]
    BY <1>3
  <2>2. f \in Injection(set, 0..(m - 1))
    <3>1. ASSUME NEW t \in set, NEW u \in set, f[t] = f[u]
          PROVE  t = u
      <4>1. Rank(set, t) = Rank(set, u) /\ Rank(set, t) \in Nat
        BY <1>1, <3>1
      <4>2. ~(t < u) /\ ~(u < t)
        BY <1>4, <4>1
      <4>3. t \in Nat /\ u \in Nat
        OBVIOUS
      <4> QED
        BY <4>2, <4>3
    <3> HIDE DEF f
    <3> QED
      BY <2>1, <3>1 DEF Injection, IsInjective
  <2>3. IsFiniteSet(0..(m - 1)) /\ Cardinality(0..(m - 1)) = m
    <3>1. 0 \in Int /\ m - 1 \in Int
      OBVIOUS
    <3> QED
      BY <3>1, FS_Interval
  <2> HIDE DEF f
  <2>4. f \in Surjection(set, 0..(m - 1))
    BY <2>2, <2>3, FS_Injection
  <2> QED
    BY <2>4 DEF f, Surjection
<1> QED
  BY <1>3, <1>4, <1>5

\* The list holds the tests it was given, once each, in ascending order.
LEMMA ListSorted ==
  ASSUME NEW S, S \subseteq Nat, NEW s \in Seq(S), IsInjective(s), NEW r, r = InFileLineOrder(s)
  PROVE  /\ r \in Seq(S) /\ ToSet(r) = ToSet(s)
         /\ \A j, k \in DOMAIN r : j < k => r[j] < r[k]
<1> DEFINE set == ToSet(s)
           m   == Len(s)
<1>1. set \subseteq S /\ set \subseteq Nat /\ IsFiniteSet(set) /\ m \in Nat /\ m = Cardinality(set)
  <2>1. IsFiniteSet(ToSet(s)) /\ ToSet(s) \subseteq S /\ Cardinality(ToSet(s)) = Len(s)
    BY ToSetFinite, Zenon
  <2>2. Len(s) \in Nat
    OBVIOUS
  <2>3. ToSet(s) \subseteq Nat
    BY <2>1, Zenon
  <2> QED
    BY <2>1, <2>2, <2>3, Zenon
<1>2. r = [j \in 1..m |-> CHOOSE t \in set : Rank(set, t) = j - 1]
  BY DEF InFileLineOrder, Rank
<1> HIDE DEF set, m
<1>3. \A j \in 1..m : r[j] \in set /\ Rank(set, r[j]) = j - 1
  <2> TAKE j \in 1..m
  <2>1. j - 1 \in 0..(m - 1)
    BY <1>1
  <2>2. \E t \in set : Rank(set, t) = j - 1
    BY <1>1, <2>1, RankIsBijective
  <2> QED
    BY <1>2, <2>2
<1>4. r \in Seq(S) /\ DOMAIN r = 1..m
  <2>1. \A j \in 1..m : r[j] \in S
    BY <1>1, <1>3
  <2>2. r \in [1..m -> S]
    BY <1>2, <2>1
  <2> QED
    BY <1>1, <2>2
<1>5. \A j, k \in DOMAIN r : j < k => r[j] < r[k]
  <2> SUFFICES ASSUME NEW j \in 1..m, NEW k \in 1..m, j < k, ~(r[j] < r[k])
               PROVE  FALSE
    BY <1>4
  <2>1. r[j] \in set /\ r[k] \in set /\ Rank(set, r[j]) = j - 1 /\ Rank(set, r[k]) = k - 1
    BY <1>3
  <2>2. r[k] < r[j] \/ r[k] = r[j]
    <3>1. r[j] \in Nat /\ r[k] \in Nat
      BY <1>1, <2>1
    <3> QED
      BY <3>1
  <2>3. r[k] < r[j] => Rank(set, r[k]) < Rank(set, r[j])
    BY <1>1, <2>1, RankIsBijective
  <2> QED
    BY <1>1, <2>1, <2>2, <2>3
<1>6. ToSet(r) = set
  <2>1. ToSet(r) \subseteq set
    BY <1>3, <1>4 DEF ToSet
  <2>2. ASSUME NEW t \in set
        PROVE  t \in ToSet(r)
    <3>1. Rank(set, t) \in 0..(m - 1)
      BY <1>1, RankIsBijective
    <3>2. PICK j : j = Rank(set, t) + 1
      OBVIOUS
    <3>3. j \in 1..m /\ Rank(set, t) = j - 1
      BY <1>1, <3>1, <3>2
    <3>4. r[j] \in set /\ Rank(set, r[j]) = Rank(set, t)
      BY <1>3, <3>3
    <3>5. ~(r[j] < t) /\ ~(t < r[j])
      <4>1. /\ r[j] < t => Rank(set, r[j]) < Rank(set, t)
            /\ t < r[j] => Rank(set, t) < Rank(set, r[j])
        BY <1>1, <3>4, RankIsBijective
      <4> QED
        BY <3>1, <3>4, <4>1
    <3>6. r[j] \in Nat /\ t \in Nat
      BY <1>1, <3>4
    <3>7. r[j] = t
      BY <3>5, <3>6
    <3> QED
      BY <1>4, <3>3, <3>7 DEF ToSet
  <2> QED
    BY <2>1, <2>2
<1> QED
  BY <1>4, <1>5, <1>6 DEF set

LEMMA MinOfTwo ==
  ASSUME NEW a \in Nat, NEW b \in Nat
  PROVE  Min({a, b}) = IF a <= b THEN a ELSE b
<1>1. PICK m : m = IF a <= b THEN a ELSE b
  OBVIOUS
<1>2. m \in {a, b} /\ \A x \in {a, b} : m <= x
  BY <1>1
<1>3. PICK c : c = Min({a, b})
  OBVIOUS
<1>4. c \in {a, b} /\ \A x \in {a, b} : c <= x
  BY <1>2, <1>3, Zenon DEF Min
<1>5. c \in Nat /\ m \in Nat /\ c <= m /\ m <= c
  BY <1>2, <1>4
<1> QED
  BY <1>1, <1>3, <1>5

\* What tt_collect returns: registered tests in order, and all of them if there is room.
LEMMA CollectedSorted ==
  ASSUME NEW reg \in Seq(Manual), IsInjective(reg), NEW all, all = Section \o reg, NEW r,
         r = InFileLineOrder(SubSeq(all, 1, Min({ListCap, Len(all)})))
  PROVE  /\ r \in Seq(AllTests)
         /\ \A j, k \in DOMAIN r : j < k => r[j] < r[k]
         /\ Cardinality(ToSet(Section) \cup ToSet(reg)) <= ListCap =>
              ToSet(r) = ToSet(Section) \cup ToSet(reg)
<1>1. Section \in Seq(AllTests) /\ reg \in Seq(AllTests) /\ AllTests \subseteq Nat /\ ListCap \in Nat
  <2>1. Section \in Seq(Nat) /\ AllTests \subseteq Nat /\ ListCap \in Nat
    BY TestRunnerAssumption
  <2>2. \A j \in 1..Len(Section) : Section[j] \in AllTests
    BY <2>1 DEF AllTests, ToSet
  <2>3. Section \in [1..Len(Section) -> AllTests] /\ Len(Section) \in Nat
    BY <2>1, <2>2
  <2>4. \A j \in 1..Len(reg) : reg[j] \in AllTests
    BY DEF AllTests
  <2>5. reg \in [1..Len(reg) -> AllTests] /\ Len(reg) \in Nat
    BY <2>4
  <2>6. Section \in Seq(AllTests)
    BY <2>3
  <2>7. reg \in Seq(AllTests)
    BY <2>5
  <2> QED
    BY <2>1, <2>6, <2>7
<1>2. /\ all \in Seq(AllTests) /\ Len(all) = Len(Section) + Len(reg)
      /\ Len(Section) \in Nat /\ Len(reg) \in Nat /\ Len(all) \in Nat
      /\ \A j \in 1..Len(all) : all[j] = IF j <= Len(Section) THEN Section[j] ELSE reg[j - Len(Section)]
  BY <1>1, ConcatProperties, LenProperties
<1>3. IsInjective(all)
  <2> SUFFICES ASSUME NEW j \in 1..Len(all), NEW k \in 1..Len(all), all[j] = all[k]
               PROVE  j = k
    BY <1>2 DEF IsInjective
  <2>1. \A x \in 1..Len(Section), y \in 1..Len(reg) : Section[x] # reg[y]
    <3>1. \A x \in 1..Len(Section) : Section[x] \in ToSet(Section)
      BY <1>1 DEF ToSet
    <3>2. \A y \in 1..Len(reg) : reg[y] \in Manual
      OBVIOUS
    <3> QED
      BY <3>1, <3>2, TestRunnerAssumption
  <2>2. \A x, y \in 1..Len(Section) : Section[x] = Section[y] => x = y
    BY <1>1, TestRunnerAssumption
  <2>3. \A x, y \in 1..Len(reg) : reg[x] = reg[y] => x = y
    BY DEF IsInjective
  <2>4. CASE j <= Len(Section) /\ k <= Len(Section)
    BY <1>2, <2>2, <2>4
  <2>5. CASE j > Len(Section) /\ k > Len(Section)
    <3>1. reg[j - Len(Section)] = reg[k - Len(Section)]
      BY <1>2, <2>5
    <3>2. j - Len(Section) \in 1..Len(reg) /\ k - Len(Section) \in 1..Len(reg)
      BY <1>2, <2>5
    <3>3. j - Len(Section) = k - Len(Section)
      BY <2>3, <3>1, <3>2
    <3> QED
      BY <1>2, <3>3
  <2>6. CASE j <= Len(Section) /\ k > Len(Section)
    <3>1. Section[j] = reg[k - Len(Section)]
      BY <1>2, <2>6
    <3> QED
      BY <1>2, <2>1, <2>6, <3>1
  <2>7. CASE j > Len(Section) /\ k <= Len(Section)
    <3>1. Section[k] = reg[j - Len(Section)]
      BY <1>2, <2>7
    <3> QED
      BY <1>2, <2>1, <2>7, <3>1
  <2> QED
    BY <1>2, <2>4, <2>5, <2>6, <2>7
<1>4. PICK m : m = Min({ListCap, Len(all)})
  OBVIOUS
<1>5. m \in Nat /\ m <= Len(all) /\ (Len(all) <= ListCap => m = Len(all))
  BY <1>1, <1>2, <1>4, MinOfTwo
<1>6. PICK s : s = SubSeq(all, 1, m)
  OBVIOUS
<1>7. s \in Seq(AllTests) /\ Len(s) = m /\ \A j \in 1..m : s[j] = all[j]
  <2>1. \A j \in 1..m : all[j] \in AllTests
    BY <1>2, <1>5
  <2> QED
    BY <1>5, <1>6, <2>1, SubSeqProperties
<1>8. IsInjective(s)
  <2>1. DOMAIN s = 1..m /\ DOMAIN all = 1..Len(all)
    BY <1>2, <1>7
  <2>2. \A x, y \in 1..Len(all) : all[x] = all[y] => x = y
    BY <1>3, <2>1 DEF IsInjective
  <2>3. \A x \in 1..m : x \in 1..Len(all)
    BY <1>2, <1>5
  <2>4. \A x, y \in DOMAIN s : s[x] = s[y] => x = y
    BY <1>7, <2>1, <2>2, <2>3
  <2> QED
    BY <2>4 DEF IsInjective
<1>9. r = InFileLineOrder(s)
  BY <1>4, <1>6
<1>10. /\ r \in Seq(AllTests) /\ ToSet(r) = ToSet(s)
       /\ \A j, k \in DOMAIN r : j < k => r[j] < r[k]
  BY <1>1, <1>7, <1>8, <1>9, ListSorted
<1>11. ToSet(all) = ToSet(Section) \cup ToSet(reg)
  <2>1. ToSet(all) \subseteq ToSet(Section) \cup ToSet(reg)
    <3> SUFFICES ASSUME NEW j \in 1..Len(all)
                 PROVE  all[j] \in ToSet(Section) \cup ToSet(reg)
      BY <1>2 DEF ToSet
    <3>1. CASE j <= Len(Section)
      BY <1>1, <1>2, <3>1 DEF ToSet
    <3>2. CASE j > Len(Section)
      <4>1. j - Len(Section) \in 1..Len(reg) /\ all[j] = reg[j - Len(Section)]
        BY <1>2, <3>2
      <4> QED
        BY <4>1 DEF ToSet
    <3> QED
      BY <1>2, <3>1, <3>2
  <2>2. \A j \in 1..Len(Section) : Section[j] \in ToSet(all)
    <3> TAKE j \in 1..Len(Section)
    <3>1. j \in 1..Len(all) /\ all[j] = Section[j]
      BY <1>2
    <3> QED
      BY <1>2, <3>1 DEF ToSet
  <2>3. \A j \in 1..Len(reg) : reg[j] \in ToSet(all)
    <3> TAKE j \in 1..Len(reg)
    <3>1. PICK k : k = j + Len(Section)
      OBVIOUS
    <3>2. k \in 1..Len(all) /\ k - Len(Section) = j /\ ~(k <= Len(Section))
      BY <1>2, <3>1
    <3>3. all[k] = reg[j] /\ k \in DOMAIN all
      BY <1>2, <3>2
    <3> QED
      BY <3>3, Zenon DEF ToSet
  <2>4. DOMAIN Section = 1..Len(Section) /\ DOMAIN reg = 1..Len(reg)
    BY <1>1
  <2>5. ToSet(Section) \subseteq ToSet(all) /\ ToSet(reg) \subseteq ToSet(all)
    BY <2>2, <2>3, <2>4 DEF ToSet
  <2> QED
    BY <2>1, <2>5
<1>12. Cardinality(ToSet(all)) = Len(all)
  BY <1>2, <1>3, ToSetFinite
<1>13. Len(all) <= ListCap => s = all
  <2>1. SubSeq(all, 1, Len(all)) = all
    BY <1>2, SubSeqFull
  <2> QED
    BY <1>5, <1>6, <2>1
<1> QED
  BY <1>10, <1>11, <1>12, <1>13

-----------------------------------------------------------------------------
(* The two memories                                                         *)

Memories == [runner : Memory, child : Memory]

LEMMA MemoryPut ==
  ASSUME mem \in Memories, NEW m \in Memory, NEW g
  PROVE  /\ g = [mem EXCEPT !["runner"] = m] =>
              g \in Memories /\ g.runner = m /\ g.child = mem.child
         /\ g = [mem EXCEPT !["child"] = m] =>
              g \in Memories /\ g.child = m /\ g.runner = mem.runner
BY DEF Memories

LEMMA MemoryFields ==
  ASSUME NEW m \in Memory
  PROVE  /\ m.current \in Tests /\ m.current_failed \in BOOLEAN /\ m.skipped_current \in BOOLEAN
         /\ m.diag \in Seq(Tests) /\ m.have_jmp \in BOOLEAN /\ m.crash_name \in Tests /\ m.buf \in Seq(Lines)
BY DEF Memory

LEMMA Entered ==
  ASSUME NEW m \in Memory, NEW t \in AllTests
  PROVE  /\ EnterBody(m, t) \in Memory /\ EnterBody(m, t).current = t
         /\ EnterBody(m, t).current_failed = FALSE /\ EnterBody(m, t).skipped_current = FALSE
         /\ EnterBody(m, t).diag = <<>> /\ EnterBody(m, t).crash_name = m.crash_name
         /\ EnterBody(m, t).buf = m.buf
<1>1. <<>> \in Seq(Tests) /\ t \in Tests
  BY DEF Tests
<1>2. PICK e : e = EnterBody(m, t)
  OBVIOUS
<1>3. e = [m EXCEPT !.current = t, !.current_failed = FALSE, !.skipped_current = FALSE,
                    !.diag = <<>>, !.have_jmp = TRUE]
  BY <1>2, Zenon DEF EnterBody
<1>4. /\ e \in Memory /\ e.current = t /\ e.current_failed = FALSE /\ e.skipped_current = FALSE
      /\ e.diag = <<>> /\ e.crash_name = m.crash_name /\ e.buf = m.buf
  BY <1>1, <1>3 DEF Memory
<1> QED
  BY <1>2, <1>4, Zenon

LEMMA FailureRecorded ==
  ASSUME NEW m \in Memory, NEW e, e = FailRecorded(m)
  PROVE  /\ e \in Memory /\ e.current = m.current /\ e.current_failed = TRUE
         /\ e.skipped_current = m.skipped_current /\ e.have_jmp = m.have_jmp
         /\ e.crash_name = m.crash_name /\ e.buf = m.buf
         /\ e.diag \in {m.diag, Append(m.diag, m.current)}
<1>1. PICK d : d = IF Len(m.diag) < DiagCap THEN Append(m.diag, m.current) ELSE m.diag
  OBVIOUS
<1>2. d \in Seq(Tests)
  BY <1>1 DEF Memory
<1>3. e = [m EXCEPT !.current_failed = TRUE, !.diag = d]
  BY <1>1, Zenon DEF FailRecorded
<1> QED
  BY <1>1, <1>2, <1>3 DEF Memory

-----------------------------------------------------------------------------
(* Where the runner stands, and what each process knows of the test it runs *)

Control ==
  /\ pc = "start" => /\ options = NoOptions /\ list = <<>> /\ i = 1 /\ n = 0 /\ out = <<>>
                     /\ mem.runner.buf = <<>> /\ counters = NoCounters /\ fate = NoFate
  /\ pc \notin {"inside", "waiting"} => frame.phase = "none" /\ child.state = "none"
  /\ pc = "inside" => frame.phase # "none" /\ child.state = "none" /\ ~Forks(fate.test)
  /\ pc = "waiting" => /\ Forks(fate.test) /\ mem.runner.buf = <<>>
                       /\ child.state # "none" /\ (frame.phase # "none" <=> child.state = "running")
  /\ pc \in {"inside", "waiting"} => i \in Selected /\ list[i] = fate.test
  /\ mem.runner.crash_name = NULL /\ mem.child.buf = <<>>

\* The memory m of the process that runs the test agrees with what the test did.
Told(m, p, f) ==
  /\ f.test \in AllTests /\ f.end = "running"
  /\ m.current = f.test /\ m.current_failed = f.failed /\ m.skipped_current = f.skipped
  /\ \A j \in DOMAIN m.diag : m.diag[j] = f.test
  /\ m.crash_name = IF p = "child" /\ f.test \notin Deaths THEN f.test ELSE NULL

TestTold ==
  /\ frame.phase # "none" /\ child.state # "running" => Told(mem.runner, "runner", fate)
  /\ frame.phase # "none" /\ child.state = "running" => Told(mem.child, "child", fate)

\* The result of a test that did what f says, and what waitpid tells of its child.
Earned(f) == IF f.skipped THEN TT_SKIP ELSE IF f.failed THEN TT_FAIL ELSE TT_PASS

ChildTold ==
  /\ child.state = "unforked" => fate.end = "unforked" /\ child.by = "exit" /\ child.code = TT_FAIL
  /\ child.state = "terminated" =>
       \/ fate.end = "died" /\ child.by = "signal" /\ child.code = fate.code
       \/ fate.end = "exited" /\ child.by = "exit" /\ child.code = fate.code
       \/ fate.end = "returned" /\ child.by = "exit" /\ child.code = Earned(fate)

\* What was handed to tt_register is in its array, or more was handed over than it holds.
Handed(tests, all) ==
  /\ IsFiniteSet(all) /\ ToSet(tests) \subseteq all /\ Len(tests) <= Cardinality(all)
  /\ ToSet(tests) = all \/ (Len(tests) >= ManualCap /\ Cardinality(all) > ManualCap)

\* A test registers once, and the list is made once.
Ordered ==
  /\ Handed(manual, asked)
  /\ \A j, k \in DOMAIN manual : manual[j] = manual[k] => j = k
  /\ pc # "start" => list = Collected

ProcessInv == Typed /\ Control /\ Ordered /\ TestTold /\ ChildTold

\* What no step of a test body touches.
Aside == UNCHANGED <<options, manual, asked, list, i, n, counters, xml>>

LEMMA EmptyTyped ==
  /\ <<>> \in Seq(Lines) /\ <<>> \in Seq(Tests) /\ <<>> \in Seq(AllTests) /\ <<>> \in Seq(Manual)
  /\ NoMemory \in Memory /\ NoFrame \in Frames /\ NoChild \in Children /\ NoFate \in Fates
  /\ NoCounters \in Counters /\ NoOptions \in Options
<1>1. /\ <<>> \in Seq(Lines) /\ <<>> \in Seq(Tests) /\ <<>> \in Seq(AllTests) /\ <<>> \in Seq(Manual)
  OBVIOUS
<1> QED
  BY <1>1 DEF NoMemory, Memory, NoFrame, Frames, NoChild, Children, NoFate, Fates,
              NoCounters, Counters, NoOptions, Options, Tests

-----------------------------------------------------------------------------
(* Steps of a test body                                                     *)

LEMMA BodyProcess ==
  ASSUME ProcessInv, frame.phase # "none"
  PROVE  /\ P \in {"runner", "child"} /\ (P = "child" <=> child.state = "running")
         /\ P = "runner" <=> pc = "inside"
         /\ P = "child" <=> pc = "waiting"
         /\ mem[P] \in Memory /\ Told(mem[P], P, fate)
         /\ P = "runner" => mem[P] = mem.runner
         /\ P = "child" => mem[P] = mem.child
<1>1. pc \in {"inside", "waiting"} /\ mem \in Memories
  BY DEF ProcessInv, Control, Typed, Memories
<1>2. mem["runner"] = mem.runner /\ mem["child"] = mem.child /\ mem.runner \in Memory /\ mem.child \in Memory
  BY <1>1 DEF Memories
<1> QED
  BY <1>1, <1>2 DEF P, ProcessInv, Control, TestTold

LEMMA BodyContinues ==
  ASSUME ProcessInv, frame.phase # "none", NEW m \in Memory, Told(m, P, fate'), m.buf = mem[P].buf,
         mem' = [mem EXCEPT ![P] = m], frame' \in Frames, frame'.phase # "none",
         fate' \in Fates, fate'.test = fate.test, UNCHANGED <<run, i, pc, counters, child, out, err>>
  PROVE  ProcessInv'
<1>1. /\ P \in {"runner", "child"} /\ (P = "child" <=> child.state = "running")
      /\ P = "runner" <=> pc = "inside"
      /\ P = "child" <=> pc = "waiting"
      /\ P = "runner" => mem[P] = mem.runner
      /\ P = "child" => mem[P] = mem.child
  BY BodyProcess
<1>2. mem \in Memories
  BY DEF ProcessInv, Typed, Memories
<1>3. Typed'
  <2>1. mem' \in Memories
    BY <1>1, <1>2, MemoryPut
  <2> QED
    BY <2>1 DEF ProcessInv, Typed, Memories, run
<1>4. /\ P = "runner" => mem'.runner = m /\ mem'.child = mem.child
      /\ P = "child" => mem'.child = m /\ mem'.runner = mem.runner
  BY <1>1, <1>2, MemoryPut
<1>5. m.crash_name = IF P = "child" /\ fate.test \notin Deaths THEN fate.test ELSE NULL
  BY DEF Told
<1>6. mem'.runner.crash_name = NULL /\ mem'.child.buf = <<>> /\ (pc = "waiting" => mem'.runner.buf = <<>>)
  BY <1>1, <1>4, <1>5 DEF ProcessInv, Control
<1>7. UNCHANGED <<options, list, i, pc, child>> /\ pc \in {"inside", "waiting"}
  BY DEF run, ProcessInv, Control
<1>8. Control'
  BY <1>6, <1>7 DEF ProcessInv, Control, Forks, Selected
<1>9. TestTold'
  BY <1>1, <1>4, <1>7 DEF TestTold
<1>10. ChildTold'
  BY <1>7 DEF ProcessInv, Control, ChildTold
<1>11. Ordered'
  BY <1>7 DEF ProcessInv, Ordered, Collected, run
<1> QED
  BY <1>3, <1>8, <1>9, <1>10, <1>11 DEF ProcessInv

\* The test goes on, and its process has noted what it did.
Continues ==
  /\ frame.phase # "none" /\ frame'.phase # "none" /\ frame' \in Frames
  /\ fate' \in Fates /\ fate'.test = fate.test
  /\ UNCHANGED <<run, i, pc, counters, child, out, err, ends>>
  /\ \E m \in Memory : Told(m, P, fate') /\ m.buf = mem[P].buf /\ mem' = [mem EXCEPT ![P] = m]

LEMMA ContinuesKeeps ==
  ASSUME ProcessInv, Continues
  PROVE  ProcessInv' /\ mem'.runner.buf = mem.runner.buf
<1>1. PICK m \in Memory : Told(m, P, fate') /\ m.buf = mem[P].buf /\ mem' = [mem EXCEPT ![P] = m]
  BY DEF Continues
<1>2. ProcessInv'
  BY <1>1, BodyContinues, Zenon DEF Continues
<1>3. mem'.runner.buf = mem.runner.buf
  BY <1>1, BodyProcess, MemoryPut DEF Continues, ProcessInv, Typed, Memories
<1> QED
  BY <1>2, <1>3

\* Noting what happened, and leaving the body or not.
LEMMA AbortContinues ==
  ASSUME ProcessInv, frame.phase # "none", NEW m \in Memory, Told(m, P, fate'), m.buf = mem[P].buf,
         Abort(m) \/ LeaveBody(m), fate' \in Fates, fate'.test = fate.test,
         UNCHANGED <<run, i, pc, counters, child, out, err, ends>>
  PROVE  Continues
<1>1. frame \in Frames
  BY DEF ProcessInv, Typed
<1>2. CASE LeaveBody(m)
  <2>1. PICK l : l = [m EXCEPT !.have_jmp = FALSE]
    OBVIOUS
  <2>2. l \in Memory /\ Told(l, P, fate') /\ l.buf = mem[P].buf
    BY <2>1 DEF Memory, Told
  <2>3. mem' = [mem EXCEPT ![P] = l]
    BY <1>2, <2>1, Zenon DEF LeaveBody
  <2>4. frame' \in Frames /\ frame'.phase # "none"
    BY <1>1, <1>2 DEF LeaveBody, Frames
  <2> QED
    BY <2>2, <2>3, <2>4, Zenon DEF Continues
<1>3. CASE mem' = [mem EXCEPT ![P] = m] /\ UNCHANGED frame
  BY <1>1, <1>3, Zenon DEF Continues
<1> QED
  BY <1>2, <1>3, Zenon DEF Abort

LEMMA InBodyRuns ==
  ASSUME InBody \/ frame.phase \in {"setup", "body", "teardown", "done"}
  PROVE  frame.phase # "none"
BY DEF InBody

LEMMA FailureTold ==
  ASSUME NEW m \in Memory, NEW p, NEW f, Told(m, p, f), NEW e, e = FailRecorded(m), NEW g,
         g.test = f.test, g.end = f.end, g.failed = TRUE, g.skipped = f.skipped
  PROVE  Told(e, p, g)
<1>1. /\ e \in Memory /\ e.current = m.current /\ e.current_failed = TRUE
      /\ e.skipped_current = m.skipped_current /\ e.crash_name = m.crash_name /\ e.buf = m.buf
  BY FailureRecorded
<1>2. (\A j \in DOMAIN m.diag : m.diag[j] = f.test) /\ m.current = f.test
  BY DEF Told
<1>3. \A j \in DOMAIN e.diag : e.diag[j] = f.test
  <2>1. e.diag \in {m.diag, Append(m.diag, m.current)}
    BY FailureRecorded
  <2>2. m.diag \in Seq(Tests)
    BY DEF Memory
  <2> QED
    BY <1>2, <2>1, <2>2
<1> QED
  BY <1>1, <1>3 DEF Told

LEMMA ExpectFailsContinues ==
  ASSUME ProcessInv, ExpectFails
  PROVE  Continues
<1>1. frame.phase # "none" /\ frame \in Frames /\ fate \in Fates
  BY InBodyRuns DEF ExpectFails, ProcessInv, Typed
<1>2. mem[P] \in Memory /\ Told(mem[P], P, fate)
  BY <1>1, BodyProcess
<1>3. PICK m : m = FailRecorded(mem[P])
  OBVIOUS
<1>4. /\ fate' \in Fates /\ fate'.test = fate.test /\ fate'.end = fate.end
      /\ fate'.failed = TRUE /\ fate'.skipped = fate.skipped
  BY <1>1 DEF ExpectFails, Fates
<1>5. m \in Memory /\ Told(m, P, fate') /\ m.buf = mem[P].buf
  <2>1. Told(m, P, fate')
    BY <1>2, <1>3, <1>4, FailureTold, Zenon
  <2> QED
    BY <1>2, <1>3, <2>1, FailureRecorded
<1>6. mem' = [mem EXCEPT ![P] = m]
  BY <1>3, Zenon DEF ExpectFails
<1> QED
  BY <1>1, <1>4, <1>5, <1>6 DEF ExpectFails, Continues

LEMMA AssertFailsContinues ==
  ASSUME ProcessInv, AssertFails
  PROVE  Continues
<1>1. frame.phase # "none" /\ fate \in Fates
  BY InBodyRuns DEF AssertFails, ProcessInv, Typed
<1>2. mem[P] \in Memory /\ Told(mem[P], P, fate)
  BY <1>1, BodyProcess
<1>3. PICK m : m = FailRecorded(mem[P])
  OBVIOUS
<1>4. /\ fate' \in Fates /\ fate'.test = fate.test /\ fate'.end = fate.end
      /\ fate'.failed = TRUE /\ fate'.skipped = fate.skipped
  BY <1>1 DEF AssertFails, Fates
<1>5. m \in Memory /\ Told(m, P, fate') /\ m.buf = mem[P].buf
  <2>1. Told(m, P, fate')
    BY <1>2, <1>3, <1>4, FailureTold, Zenon
  <2> QED
    BY <1>2, <1>3, <2>1, FailureRecorded
<1>6. Abort(m) /\ UNCHANGED <<run, i, pc, counters, child, out, err, ends>>
  BY <1>3, Zenon DEF AssertFails
<1> QED
  BY <1>1, <1>4, <1>5, <1>6, AbortContinues, Zenon

LEMMA SkipContinues ==
  ASSUME ProcessInv, Skip
  PROVE  Continues
<1>1. frame.phase # "none" /\ fate \in Fates
  BY InBodyRuns DEF Skip, ProcessInv, Typed
<1>2. mem[P] \in Memory /\ Told(mem[P], P, fate)
  BY <1>1, BodyProcess
<1>3. PICK m : m = [mem[P] EXCEPT !.skipped_current = TRUE]
  OBVIOUS
<1>4. fate' = [fate EXCEPT !.skipped = TRUE] /\ fate' \in Fates /\ fate'.test = fate.test
  BY <1>1 DEF Skip, Fates
<1>5. m \in Memory /\ Told(m, P, fate') /\ m.buf = mem[P].buf
  BY <1>1, <1>2, <1>3, <1>4 DEF Told, Fates, Memory
<1>6. Abort(m) /\ UNCHANGED <<run, i, pc, counters, child, out, err, ends>>
  BY <1>3, Zenon DEF Skip
<1> QED
  BY <1>1, <1>4, <1>5, <1>6, AbortContinues, Zenon

\* setup and teardown return without a word to the harness.
LEMMA ReturnContinues ==
  ASSUME ProcessInv, SetupReturns \/ BodyReturns \/ TeardownReturns
  PROVE  Continues
<1>1. frame.phase # "none" /\ fate \in Fates /\ frame \in Frames
  BY InBodyRuns DEF SetupReturns, BodyReturns, TeardownReturns, ProcessInv, Typed
<1>2. mem[P] \in Memory /\ Told(mem[P], P, fate) /\ P \in {"runner", "child"}
  BY <1>1, BodyProcess
<1>3. CASE BodyReturns
  <2>1. /\ LeaveBody(mem[P]) /\ UNCHANGED <<run, i, pc, counters, child, out, err, ends, fate>>
    BY <1>3, Zenon DEF BodyReturns
  <2>2. UNCHANGED <<run, i, pc, counters, child, out, err, ends>> /\ fate' = fate
    BY <2>1
  <2> QED
    BY <1>1, <1>2, <2>1, <2>2, AbortContinues, Zenon
<1>4. CASE SetupReturns \/ TeardownReturns
  <2>1. mem' = [mem EXCEPT ![P] = mem[P]]
    BY <1>2, <1>4 DEF SetupReturns, TeardownReturns, ProcessInv, Typed
  <2>2. /\ fate' \in Fates /\ fate'.test = fate.test /\ fate'.end = fate.end
        /\ fate'.failed = fate.failed /\ fate'.skipped = fate.skipped
    BY <1>1, <1>4 DEF SetupReturns, TeardownReturns, Fates
  <2>3. frame' \in Frames /\ frame'.phase # "none"
    <3>1. CASE SetupReturns
      BY <3>1 DEF SetupReturns, Frames
    <3>2. CASE TeardownReturns
      BY <1>1, <3>2 DEF TeardownReturns, Frames
    <3> QED
      BY <1>4, <3>1, <3>2
  <2>4. Told(mem[P], P, fate')
    BY <1>2, <2>2 DEF Told
  <2>5. UNCHANGED <<run, i, pc, counters, child, out, err, ends>>
    BY <1>4 DEF SetupReturns, TeardownReturns
  <2> QED
    BY <1>1, <1>2, <2>1, <2>2, <2>3, <2>4, <2>5, Zenon DEF Continues
<1> QED
  BY <1>3, <1>4

-----------------------------------------------------------------------------
(* The end of a test                                                        *)

LEMMA LinesTyped ==
  ASSUME NEW t \in Tests, NEW k \in Nat, NEW v \in Verdicts
  PROVE  /\ Point(k, t, v) \in Lines /\ Point(k, t, v).kind = "point" /\ Point(k, t, v).num = k
         /\ Point(k, t, v).test = t /\ Point(k, t, v).verdict = v
         /\ DiagLine(t) \in Lines /\ DiagLine(t).kind = "diag" /\ DiagLine(t).test = t
         /\ BailOut \in Lines /\ BailOut.kind = "bail"
         /\ Plan(k) \in Lines /\ Plan(k).kind = "plan"
         /\ Name(t) \in Lines /\ Name(t).kind = "name"
<1>1. NULL \in Tests /\ 0 \in Nat /\ "" \in Verdicts \cup {""} /\ v \in Verdicts \cup {""}
  BY DEF Tests
<1>2. "point" \in Kinds /\ "diag" \in Kinds /\ "bail" \in Kinds /\ "plan" \in Kinds /\ "name" \in Kinds
  BY DEF Kinds
<1>3. /\ Point(k, t, v) \in Lines /\ Point(k, t, v).kind = "point" /\ Point(k, t, v).num = k
      /\ Point(k, t, v).test = t /\ Point(k, t, v).verdict = v
  BY <1>1, <1>2 DEF Line, Lines, Point
<1>4. DiagLine(t) \in Lines /\ DiagLine(t).kind = "diag" /\ DiagLine(t).test = t
  BY <1>1, <1>2 DEF Line, Lines, DiagLine
<1>5. BailOut \in Lines /\ BailOut.kind = "bail"
  BY <1>1, <1>2 DEF Line, Lines, BailOut
<1>6. Plan(k) \in Lines /\ Plan(k).kind = "plan"
  BY <1>1, <1>2 DEF Line, Lines, Plan
<1>7. Name(t) \in Lines /\ Name(t).kind = "name"
  BY <1>1, <1>2 DEF Line, Lines, Name
<1> QED
  BY <1>3, <1>4, <1>5, <1>6, <1>7

\* The diagnostics of a test are lines about it, if it has failed, and nothing else.
LEMMA DiagnosticsTold ==
  ASSUME NEW m \in Memory, NEW p, NEW f, Told(m, p, f)
  PROVE  /\ Diagnostics(m) \in Seq(Lines) /\ Result(m) = Earned(f)
         /\ \A j \in DOMAIN Diagnostics(m) :
              /\ Diagnostics(m)[j].kind = "diag" /\ Diagnostics(m)[j].test = f.test
              /\ Earned(f) = TT_FAIL
<1>1. Result(m) = Earned(f)
  BY DEF Result, Earned, Told
<1>2. m.diag \in Seq(Tests) /\ \A j \in DOMAIN m.diag : m.diag[j] = f.test
  BY DEF Memory, Told
<1>3. CASE Result(m) = TT_FAIL
  <2>1. Diagnostics(m) = [j \in DOMAIN m.diag |-> DiagLine(m.diag[j])]
    BY <1>3 DEF Diagnostics
  <2>2. \A j \in DOMAIN m.diag : /\ DiagLine(m.diag[j]) \in Lines /\ DiagLine(m.diag[j]).kind = "diag"
                                 /\ DiagLine(m.diag[j]).test = f.test
    <3> TAKE j \in DOMAIN m.diag
    <3>1. m.diag[j] \in Tests /\ m.diag[j] = f.test
      BY <1>2
    <3>2. 0 \in Nat /\ "ok" \in Verdicts
      BY DEF Verdicts
    <3> QED
      BY <3>1, <3>2, LinesTyped
  <2>3. Len(m.diag) \in Nat /\ DOMAIN m.diag = 1..Len(m.diag)
    BY <1>2
  <2>4. Diagnostics(m) \in [1..Len(m.diag) -> Lines]
    BY <2>1, <2>2, <2>3
  <2>5. Diagnostics(m) \in Seq(Lines)
    BY <2>3, <2>4
  <2> QED
    BY <1>1, <1>3, <2>1, <2>2, <2>5
<1>4. CASE Result(m) # TT_FAIL
  <2>1. Diagnostics(m) = <<>>
    BY <1>4 DEF Diagnostics
  <2> QED
    BY <1>1, <2>1, EmptyTyped
<1> QED
  BY <1>3, <1>4

\* What ends a test in the process that runs it, but for a report.
LEMMA QuitKeeps ==
  ASSUME ProcessInv, frame.phase # "none", frame' = NoFrame, fate' \in Fates, fate'.test = fate.test,
         UNCHANGED <<run, i, counters>>, out' \in Seq(Lines), err' \in Seq(Tests),
         \/ /\ P = "child" /\ mem' = [mem EXCEPT !.child = NoMemory] /\ UNCHANGED pc
            /\ child' \in Children /\ child'.state = "terminated" /\ ChildTold'
         \/ /\ P = "runner" /\ pc' = "dead" /\ UNCHANGED child
            /\ mem' \in Memories /\ mem'.runner.crash_name = NULL /\ mem'.child = mem.child
  PROVE  ProcessInv'
<1>1. /\ P = "child" <=> child.state = "running"
      /\ P = "runner" <=> pc = "inside"
      /\ P = "child" <=> pc = "waiting"
  BY BodyProcess
<1>2. UNCHANGED <<options, manual, asked, list, n>> /\ mem \in Memories
  BY DEF run, ProcessInv, Typed, Memories
<1>3. frame'.phase = "none" /\ frame' \in Frames
  BY EmptyTyped DEF NoFrame
<1>4. TestTold' /\ Ordered'
  <2>1. TestTold'
    BY <1>3 DEF TestTold
  <2>2. pc # "start" /\ list = Collected
    BY <1>1, BodyProcess DEF ProcessInv, Ordered
  <2>3. list' = Collected'
    BY <1>2, <2>2 DEF Collected
  <2> QED
    BY <1>2, <2>1, <2>3 DEF ProcessInv, Ordered
<1>5. CASE P = "child"
  <2>1. /\ mem' = [mem EXCEPT !.child = NoMemory] /\ UNCHANGED pc
        /\ child' \in Children /\ child'.state = "terminated" /\ ChildTold'
    BY <1>5
  <2>2. mem' \in Memories /\ mem'.runner = mem.runner /\ mem'.child = NoMemory
    BY <1>2, <2>1, EmptyTyped, MemoryPut
  <2>3. Typed'
    BY <1>2, <1>3, <2>1, <2>2 DEF ProcessInv, Typed, Memories
  <2>4. Control'
    BY <1>1, <1>2, <1>3, <1>5, <2>1, <2>2 DEF ProcessInv, Control, Forks, Selected, NoMemory
  <2> QED
    BY <1>4, <2>1, <2>3, <2>4 DEF ProcessInv
<1>6. CASE P = "runner"
  <2>1. /\ pc' = "dead" /\ UNCHANGED child
        /\ mem' \in Memories /\ mem'.runner.crash_name = NULL /\ mem'.child = mem.child
    BY <1>6
  <2>2. child.state = "none" /\ mem.child.buf = <<>>
    BY <1>1, <1>6 DEF ProcessInv, Control
  <2>3. Typed'
    BY <1>2, <1>3, <2>1 DEF ProcessInv, Typed, Memories
  <2>4. Control'
    BY <1>3, <2>1, <2>2 DEF Control
  <2>5. ChildTold'
    BY <2>1, <2>2 DEF ChildTold
  <2> QED
    BY <1>4, <2>3, <2>4, <2>5 DEF ProcessInv
<1> QED
  BY <1>5, <1>6

LEMMA DiesProcess ==
  ASSUME ProcessInv, NEW sig \in Signals, Dies(sig)
  PROVE  ProcessInv' /\ UNCHANGED <<run, i, counters, out, xml>> /\ mem'.runner = mem.runner
<1>1. frame.phase # "none" /\ fate \in Fates /\ err \in Seq(Tests) /\ out \in Seq(Lines) /\ mem \in Memories
  BY InBodyRuns DEF Dies, ProcessInv, Typed, Memories
<1>2. sig \in Nat
  BY TestRunnerAssumption
<1>3. /\ P \in {"runner", "child"} /\ mem[P] \in Memory
      /\ P = "runner" => mem[P] = mem.runner
  BY <1>1, BodyProcess
<1>4. fate' \in Fates /\ fate'.test = fate.test /\ fate'.end = "died" /\ fate'.code = sig
  BY <1>1, <1>2 DEF Dies, Fates
<1>5. err' \in Seq(Tests)
  <2>1. mem[P].crash_name \in Tests
    BY <1>3, MemoryFields
  <2> QED
    BY <1>1, <2>1 DEF Dies
<1>6. frame' = NoFrame /\ UNCHANGED <<run, i, counters, out, xml>>
  BY DEF Dies
<1>7. CASE P = "child"
  <2>1. /\ child' = [state |-> "terminated", by |-> "signal", code |-> sig]
        /\ mem' = [mem EXCEPT !.child = NoMemory] /\ UNCHANGED pc
    BY <1>7 DEF Dies
  <2>2. child' \in Children /\ child'.state = "terminated" /\ ChildTold'
    BY <1>2, <1>4, <2>1 DEF Children, ChildTold
  <2>3. mem'.runner = mem.runner
    BY <1>1, <2>1, EmptyTyped, MemoryPut
  <2> QED
    BY <1>1, <1>4, <1>5, <1>6, <1>7, <2>1, <2>2, <2>3, QuitKeeps
<1>8. CASE P = "runner"
  <2>1. pc' = "dead" /\ UNCHANGED <<child, mem>>
    BY <1>8 DEF Dies
  <2>2. mem.runner.crash_name = NULL
    BY DEF ProcessInv, Control
  <2> QED
    BY <1>1, <1>4, <1>5, <1>6, <1>8, <2>1, <2>2, QuitKeeps
<1> QED
  BY <1>3, <1>7, <1>8

LEMMA ExitsProcess ==
  ASSUME ProcessInv, NEW code \in ExitCodes, Exits(code)
  PROVE  /\ ProcessInv' /\ UNCHANGED <<run, i, counters, err, xml>>
         /\ out' \o mem'.runner.buf = out \o mem.runner.buf
         /\ pc' = "dead" => out' = out \o mem.runner.buf
<1>1. /\ frame.phase # "none" /\ fate \in Fates /\ err \in Seq(Tests) /\ out \in Seq(Lines)
      /\ mem \in Memories /\ mem.runner \in Memory /\ mem.runner.buf \in Seq(Lines)
  BY InBodyRuns DEF Exits, ProcessInv, Typed, Memories, Memory
<1>2. code \in Nat
  BY TestRunnerAssumption
<1>3. /\ P \in {"runner", "child"}
      /\ P = "runner" => mem[P] = mem.runner
      /\ P = "child" => mem[P] = mem.child /\ pc = "waiting"
  BY <1>1, BodyProcess
<1>4. fate' \in Fates /\ fate'.test = fate.test /\ fate'.end = "exited" /\ fate'.code = code
  BY <1>1, <1>2 DEF Exits, Fates
<1>5. frame' = NoFrame /\ UNCHANGED <<run, i, counters, err, xml>> /\ out' = out \o mem[P].buf
  BY DEF Exits
<1>6. CASE P = "child"
  <2>1. /\ child' = [state |-> "terminated", by |-> "exit", code |-> code]
        /\ mem' = [mem EXCEPT !.child = NoMemory] /\ UNCHANGED pc
    BY <1>6 DEF Exits
  <2>2. child' \in Children /\ child'.state = "terminated" /\ ChildTold'
    BY <1>2, <1>4, <2>1 DEF Children, ChildTold
  <2>3. mem'.runner = mem.runner
    BY <1>1, <2>1, EmptyTyped, MemoryPut
  <2>4. mem[P].buf = <<>>
    BY <1>3, <1>6 DEF ProcessInv, Control
  <2>5. out' = out
    BY <1>1, <1>5, <2>4
  <2>6. ProcessInv'
    BY <1>1, <1>4, <1>5, <1>6, <2>1, <2>2, <2>5, QuitKeeps
  <2> QED
    BY <1>3, <1>5, <1>6, <2>1, <2>3, <2>5, <2>6
<1>7. CASE P = "runner"
  <2>1. /\ pc' = "dead" /\ UNCHANGED child /\ mem' = [mem EXCEPT !.runner.buf = <<>>]
        /\ out' = out \o mem.runner.buf
    BY <1>3, <1>5, <1>7 DEF Exits
  <2>2. PICK m : m = [mem.runner EXCEPT !.buf = <<>>]
    OBVIOUS
  <2>3. m \in Memory /\ m.buf = <<>> /\ m.crash_name = mem.runner.crash_name
    BY <1>1, <2>2, EmptyTyped DEF Memory
  <2>4. mem' \in Memories /\ mem'.runner = m /\ mem'.child = mem.child
    BY <1>1, <2>1, <2>2, <2>3 DEF Memories
  <2>5. out' \in Seq(Lines) /\ out' \o <<>> = out'
    BY <1>1, <2>1
  <2>6. mem'.runner.crash_name = NULL
    BY <2>3, <2>4 DEF ProcessInv, Control
  <2>7. ProcessInv'
    BY <1>1, <1>4, <1>5, <1>7, <2>1, <2>4, <2>5, <2>6, QuitKeeps
  <2> QED
    BY <1>5, <2>1, <2>3, <2>4, <2>5, <2>7
<1> QED
  BY <1>3, <1>6, <1>7

LEMMA ChildReturnsProcess ==
  ASSUME ProcessInv, ChildReturns
  PROVE  /\ ProcessInv' /\ UNCHANGED <<run, i, pc, counters, err, ends>> /\ mem'.runner = mem.runner
         /\ mem.runner.buf = <<>> /\ pc = "waiting"
         /\ Told(mem.child, "child", fate) /\ mem.child \in Memory
         /\ out' = out \o Diagnostics(mem.child)
         /\ child'.state = "terminated" /\ fate' = [fate EXCEPT !.end = "returned"]
<1>1. /\ frame.phase # "none" /\ fate \in Fates /\ err \in Seq(Tests) /\ out \in Seq(Lines)
      /\ mem \in Memories /\ mem.child.buf = <<>>
  BY DEF ChildReturns, ProcessInv, Typed, Memories, Control
<1>2. P = "child" /\ pc = "waiting" /\ Told(mem.child, "child", fate) /\ mem.child \in Memory
  BY <1>1, BodyProcess DEF ChildReturns
<1>3. mem.runner.buf = <<>>
  BY <1>2 DEF ProcessInv, Control
<1>4. PICK d : d = Diagnostics(mem.child)
  OBVIOUS
<1>5. d \in Seq(Lines) /\ Result(mem.child) = Earned(fate) /\ Earned(fate) \in Nat
  BY <1>2, <1>4, DiagnosticsTold DEF Earned, TT_PASS, TT_FAIL, TT_SKIP
<1>6. out' = out \o d
  BY <1>1, <1>4 DEF ChildReturns
<1>7. /\ fate' \in Fates /\ fate'.test = fate.test /\ fate'.end = "returned"
      /\ fate'.skipped = fate.skipped /\ fate'.failed = fate.failed
      /\ fate' = [fate EXCEPT !.end = "returned"]
  BY <1>1 DEF ChildReturns, Fates
<1>8. /\ frame' = NoFrame /\ UNCHANGED <<run, i, pc, counters, err, ends>>
      /\ mem' = [mem EXCEPT !.child = NoMemory]
      /\ child' = [state |-> "terminated", by |-> "exit", code |-> Earned(fate)]
  BY <1>5 DEF ChildReturns
<1>9. child' \in Children /\ child'.state = "terminated" /\ ChildTold'
  BY <1>5, <1>7, <1>8 DEF Children, ChildTold, Earned
<1>10. mem'.runner = mem.runner
  BY <1>1, <1>8, EmptyTyped, MemoryPut
<1>11. out' \in Seq(Lines)
  BY <1>1, <1>5, <1>6
<1>12. ProcessInv'
  BY <1>1, <1>2, <1>7, <1>8, <1>9, <1>11, QuitKeeps
<1> QED
  BY <1>2, <1>3, <1>4, <1>6, <1>7, <1>8, <1>9, <1>10, <1>12

-----------------------------------------------------------------------------
(* The stream, and what the runner prints                                   *)

\* All that was printed, whether it has left its buffer or not.
Full == out \o mem.runner.buf

LEMMA FullTyped ==
  ASSUME Typed
  PROVE  Full \in Seq(Lines)
<1>1. out \in Seq(Lines) /\ mem.runner.buf \in Seq(Lines)
  BY DEF Typed, Memory
<1> QED
  BY <1>1 DEF Full

LEMMA Written ==
  ASSUME Typed, NEW lines \in Seq(Lines),
         Write("runner", mem.runner, lines) \/ Flush("runner", mem.runner, lines)
  PROVE  /\ mem' \in Memories /\ mem'.child = mem.child
         /\ mem'.runner.crash_name = mem.runner.crash_name
         /\ out' \in Seq(Lines) /\ Full' = Full \o lines
         /\ Flush("runner", mem.runner, lines) => mem'.runner.buf = <<>>
<1>1. out \in Seq(Lines) /\ mem \in Memories /\ mem.runner \in Memory /\ mem.runner.buf \in Seq(Lines)
  BY DEF Typed, Memories, Memory
<1>2. CASE mem' = [mem EXCEPT !["runner"] = [mem.runner EXCEPT !.buf = @ \o lines]] /\ UNCHANGED out
  <2>1. PICK b : b = mem.runner.buf \o lines
    OBVIOUS
  <2>2. b \in Seq(Lines)
    BY <1>1, <2>1
  <2>3. PICK m : m = [mem.runner EXCEPT !.buf = b]
    OBVIOUS
  <2>4. m \in Memory /\ m.buf = b /\ m.crash_name = mem.runner.crash_name
    BY <1>1, <2>2, <2>3 DEF Memory
  <2>5. mem' = [mem EXCEPT !["runner"] = m]
    BY <1>2, <2>1, <2>3, Zenon
  <2>6. mem' \in Memories /\ mem'.runner = m /\ mem'.child = mem.child
    BY <1>1, <2>4, <2>5, MemoryPut
  <2>7. Full' = out \o b
    BY <1>2, <2>4, <2>6 DEF Full
  <2>8. out \o b = (out \o mem.runner.buf) \o lines
    <3>1. PICK o \in Seq(Lines), w \in Seq(Lines) : o = out /\ w = mem.runner.buf
      BY <1>1
    <3>2. (o \o w) \o lines = o \o (w \o lines)
      BY ConcatAssociative
    <3> QED
      BY <2>1, <3>1, <3>2, Zenon
  <2>9. Flush("runner", mem.runner, lines) => mem'.runner.buf = <<>>
    BY <1>1, EmptyTyped DEF Flush, Memories, Memory
  <2> QED
    BY <1>1, <1>2, <2>4, <2>6, <2>7, <2>8, <2>9 DEF Full
<1>3. CASE /\ mem' = [mem EXCEPT !["runner"] = [mem.runner EXCEPT !.buf = <<>>]]
           /\ out' = out \o mem.runner.buf \o lines
  <2>1. PICK m : m = [mem.runner EXCEPT !.buf = <<>>]
    OBVIOUS
  <2>2. m \in Memory /\ m.buf = <<>> /\ m.crash_name = mem.runner.crash_name
    BY <1>1, <2>1, EmptyTyped DEF Memory
  <2>3. mem' = [mem EXCEPT !["runner"] = m]
    BY <1>3, <2>1, Zenon
  <2>4. mem' \in Memories /\ mem'.runner = m /\ mem'.child = mem.child
    BY <1>1, <2>2, <2>3, MemoryPut
  <2>5. out' \in Seq(Lines)
    BY <1>1, <1>3
  <2>6. Full' = out' \o <<>>
    BY <2>2, <2>4 DEF Full
  <2>7. Full' = out'
    BY <2>5, <2>6
  <2> QED
    BY <1>3, <2>2, <2>4, <2>5, <2>7 DEF Full
<1> QED
  BY <1>2, <1>3, Zenon DEF Write, Flush

\* A report adds one point, behind it the diagnostics, and perhaps a bail out.
Reports(v, d) ==
  /\ counters' = Tally(v) /\ i' = i + 1 /\ pc' \in {"loop", "plan"}
  /\ UNCHANGED <<run, err, ends>>
  /\ \E q \in Seq(Lines) :
       /\ Full' = Full \o (<<Point(n, list[i], v)>> \o q)
       /\ \A j \in DOMAIN q : /\ q[j].kind # "point"
                              /\ q[j].kind = "diag" => j \in DOMAIN d /\ q[j] = d[j]
       /\ \A j \in DOMAIN d : \E k \in DOMAIN q : q[k] = d[j]
       /\ pc' = "plan" => Contains(q, BailOut)

LEMMA TallyTyped ==
  ASSUME counters \in Counters, NEW v
  PROVE  /\ Tally(v) \in Counters /\ Tally(v).tests_run = counters.tests_run + 1
         /\ Tally(v).tests_passed = counters.tests_passed + (IF v = "ok" THEN 1 ELSE 0)
         /\ Tally(v).tests_failed = counters.tests_failed + (IF v = "not ok" THEN 1 ELSE 0)
         /\ Tally(v).tests_skipped = counters.tests_skipped + (IF v = "SKIP" THEN 1 ELSE 0)
<1>1. PICK passed \in Nat : passed = IF v = "ok" THEN 1 ELSE 0
  OBVIOUS
<1>2. PICK failed \in Nat : failed = IF v = "not ok" THEN 1 ELSE 0
  OBVIOUS
<1>3. PICK skipped \in Nat : skipped = IF v = "SKIP" THEN 1 ELSE 0
  OBVIOUS
<1>4. Tally(v) = [counters EXCEPT !.tests_run = @ + 1, !.tests_passed = @ + passed,
                                  !.tests_failed = @ + failed, !.tests_skipped = @ + skipped]
  BY <1>1, <1>2, <1>3, Zenon DEF Tally
<1>5. Tally(v) = [tests_run |-> counters.tests_run + 1, tests_passed |-> counters.tests_passed + passed,
                   tests_failed |-> counters.tests_failed + failed,
                   tests_skipped |-> counters.tests_skipped + skipped]
  BY <1>4 DEF Counters
<1>6. /\ counters.tests_run \in Nat /\ counters.tests_passed \in Nat
      /\ counters.tests_failed \in Nat /\ counters.tests_skipped \in Nat
  BY DEF Counters
<1>7. Tally(v) \in Counters
  BY <1>5, <1>6 DEF Counters
<1>8. /\ Tally(v).tests_run = counters.tests_run + 1
      /\ Tally(v).tests_passed = counters.tests_passed + passed
      /\ Tally(v).tests_failed = counters.tests_failed + failed
      /\ Tally(v).tests_skipped = counters.tests_skipped + skipped
  BY <1>5
<1> QED
  BY <1>1, <1>2, <1>3, <1>7, <1>8, Zenon

LEMMA ReportProcess ==
  ASSUME ProcessInv, pc \in {"inside", "waiting"}, NEW v \in Verdicts, NEW d \in Seq(Lines),
         \A j \in DOMAIN d : d[j].kind = "diag", Report(v, d),
         frame'.phase = "none", frame' \in Frames, child' \in Children, child'.state = "none",
         fate' \in Fates
  PROVE  ProcessInv' /\ Reports(v, d)
<1>1. /\ Typed /\ counters \in Counters /\ n \in Nat /\ i \in Nat /\ list \in Seq(AllTests)
      /\ i \in DOMAIN list
  BY DEF ProcessInv, Typed, Control, Selected
<1>2. PICK bail : bail = (options.fail_fast /\ Tally(v).tests_failed > 0)
  OBVIOUS
<1>3. PICK b : b = IF bail THEN <<BailOut>> ELSE <<>>
  OBVIOUS
<1>4. PICK p : p = Point(n, list[i], v)
  OBVIOUS
<1>5. p \in Lines /\ BailOut \in Lines /\ BailOut.kind = "bail"
  <2>1. list[i] \in Tests
    BY <1>1 DEF Tests
  <2> QED
    BY <1>1, <1>4, <2>1, LinesTyped
<1>6. b \in Seq(Lines) /\ <<p>> \in Seq(Lines)
  BY <1>3, <1>5
<1>7. PICK q : q = d \o b
  OBVIOUS
<1>8. q \in Seq(Lines) /\ <<p>> \o d \o b = <<p>> \o q
  BY <1>6, <1>7, ConcatAssociative
<1>9. /\ counters' = Tally(v) /\ i' = i + 1 /\ UNCHANGED <<run, err, ends>>
      /\ Write("runner", mem.runner, <<p>> \o d \o b)
      /\ pc' = (IF bail THEN "plan" ELSE "loop")
  BY <1>2, <1>3, <1>4, Zenon DEF Report
<1>10. /\ mem' \in Memories /\ mem'.child = mem.child
       /\ mem'.runner.crash_name = mem.runner.crash_name
       /\ out' \in Seq(Lines) /\ Full' = Full \o (<<p>> \o q)
  <2>1. <<p>> \o q \in Seq(Lines)
    BY <1>6, <1>8
  <2>2. Write("runner", mem.runner, <<p>> \o q)
    BY <1>8, <1>9, Zenon
  <2> QED
    BY <1>1, <2>1, <2>2, Written
<1>11. Reports(v, d)
  <2>1. \A j \in DOMAIN q : /\ q[j].kind # "point"
                            /\ q[j].kind = "diag" => j \in DOMAIN d /\ q[j] = d[j]
    <3> TAKE j \in DOMAIN q
    <3>1. j \in 1..(Len(d) + Len(b)) /\ q[j] = IF j <= Len(d) THEN d[j] ELSE b[j - Len(d)]
      BY <1>6, <1>7, <1>8, ConcatProperties
    <3>2. CASE j <= Len(d)
      <4>1. j \in DOMAIN d /\ q[j] = d[j]
        BY <3>1, <3>2
      <4> QED
        BY <4>1
    <3>3. CASE ~(j <= Len(d))
      <4>1. q[j] = BailOut
        BY <1>3, <3>1, <3>3
      <4> QED
        BY <1>5, <4>1
    <3> QED
      BY <3>2, <3>3
  <2>2. \A j \in DOMAIN d : \E k \in DOMAIN q : q[k] = d[j]
    <3> TAKE j \in DOMAIN d
    <3>1. j \in DOMAIN q /\ q[j] = d[j]
      BY <1>6, <1>7, <1>8, ConcatProperties
    <3> QED
      BY <3>1
  <2>3. pc' = "plan" => Contains(q, BailOut)
    <3> SUFFICES ASSUME pc' = "plan"
                 PROVE  Contains(q, BailOut)
      OBVIOUS
    <3>1. b = <<BailOut>>
      BY <1>3, <1>9
    <3>2. PICK k : k = Len(d) + 1
      OBVIOUS
    <3>3. k \in 1..Len(q) /\ q[k] = BailOut
      BY <1>5, <1>7, <3>1, <3>2
    <3> QED
      BY <3>3 DEF Contains
  <2> QED
    BY <1>4, <1>8, <1>9, <1>10, <2>1, <2>2, <2>3 DEF Reports
<1>12. UNCHANGED <<options, manual, asked, list, n>>
  BY <1>9 DEF run
<1>13. Typed'
  <2>1. counters' \in Counters
    BY <1>1, <1>9, TallyTyped
  <2>2. i' \in Nat \ {0} /\ err' \in Seq(Tests)
    BY <1>1, <1>9 DEF Typed
  <2>3. pc' \in {"loop", "plan"}
    BY <1>9
  <2> QED
    BY <1>1, <1>10, <1>12, <2>1, <2>2, <2>3 DEF Typed, Memories
<1>14. Control'
  BY <1>9, <1>10 DEF ProcessInv, Control
<1>15. Ordered'
  BY <1>12 DEF ProcessInv, Ordered, Collected, Control
<1>16. TestTold' /\ ChildTold'
  BY DEF TestTold, ChildTold
<1> QED
  BY <1>11, <1>13, <1>14, <1>15, <1>16 DEF ProcessInv

LEMMA VerdictTyped ==
  /\ \A r : Verdict(r) \in Verdicts
  /\ \A t, s : ForkedVerdict(t, s) \in Verdicts
BY DEF Verdict, ForkedVerdict, Verdicts

LEMMA ReportInsideProcess ==
  ASSUME ProcessInv, ReportInside
  PROVE  /\ ProcessInv' /\ Reports(Verdict(Result(mem.runner)), Diagnostics(mem.runner))
         /\ Diagnostics(mem.runner) \in Seq(Lines)
         /\ Told(mem.runner, "runner", fate) /\ mem.runner \in Memory
         /\ fate' = [fate EXCEPT !.end = "returned"]
<1>1. /\ frame.phase # "none" /\ fate \in Fates /\ child \in Children /\ mem.runner \in Memory
      /\ pc = "inside"
  BY DEF ReportInside, ProcessInv, Typed
<1>2. Told(mem.runner, "runner", fate) /\ child.state = "none"
  BY <1>1, BodyProcess DEF ProcessInv, Control, TestTold
<1>3. PICK d : d = Diagnostics(mem.runner)
  OBVIOUS
<1>4. d \in Seq(Lines) /\ \A j \in DOMAIN d : d[j].kind = "diag"
  BY <1>1, <1>2, <1>3, DiagnosticsTold
<1>5. fate' \in Fates
  BY <1>1 DEF ReportInside, Fates
<1>6. frame'.phase = "none" /\ frame' \in Frames /\ UNCHANGED child
  BY EmptyTyped DEF ReportInside, NoFrame
<1>7. PICK v \in Verdicts : v = Verdict(Result(mem.runner))
  BY VerdictTyped
<1>8. Report(v, d) /\ fate' = [fate EXCEPT !.end = "returned"]
  BY <1>3, <1>7 DEF ReportInside
<1>9. ProcessInv' /\ Reports(v, d)
  BY <1>1, <1>2, <1>4, <1>5, <1>6, <1>8, ReportProcess
<1> QED
  BY <1>1, <1>2, <1>3, <1>4, <1>7, <1>8, <1>9

LEMMA ReportForkedProcess ==
  ASSUME ProcessInv, ReportForked
  PROVE  ProcessInv' /\ Reports(ForkedVerdict(list[i], WaitStatus), <<>>) /\ UNCHANGED fate
<1>1. /\ frame.phase = "none" /\ fate \in Fates /\ frame \in Frames /\ pc = "waiting"
  BY DEF ReportForked, ProcessInv, Typed, Control
<1>2. PICK v \in Verdicts : v = ForkedVerdict(list[i], WaitStatus)
  BY VerdictTyped
<1>3. Report(v, <<>>) /\ child' = NoChild /\ UNCHANGED <<frame, fate>>
  BY <1>2 DEF ReportForked
<1>4. child' \in Children /\ child'.state = "none"
  BY <1>3, EmptyTyped DEF NoChild
<1>5. <<>> \in Seq(Lines) /\ \A j \in DOMAIN <<>> : <<>>[j].kind = "diag"
  BY EmptyTyped
<1>6. ProcessInv' /\ Reports(v, <<>>)
  BY <1>1, <1>3, <1>4, <1>5, ReportProcess
<1> QED
  BY <1>2, <1>3, <1>6

-----------------------------------------------------------------------------
(* Steps between the tests                                                  *)

LEMMA HandedOver ==
  ASSUME NEW tests \in Seq(Manual), NEW all, NEW t \in Manual, Handed(tests, all), ~Contains(tests, t),
         NEW new, new = IF Len(tests) < ManualCap THEN Append(tests, t) ELSE tests
  PROVE  Handed(new, all \cup {t})
<1>1. /\ IsFiniteSet(all) /\ ToSet(tests) \subseteq all /\ Len(tests) <= Cardinality(all)
      /\ ToSet(tests) = all \/ (Len(tests) >= ManualCap /\ Cardinality(all) > ManualCap)
  BY DEF Handed
<1>2. Len(tests) \in Nat /\ Cardinality(all) \in Nat /\ ManualCap \in Nat
  BY <1>1, FS_CardinalityType, TestRunnerAssumption
<1>3. /\ IsFiniteSet(all \cup {t})
      /\ Cardinality(all \cup {t}) = IF t \in all THEN Cardinality(all) ELSE Cardinality(all) + 1
  BY <1>1, FS_AddElement
<1>4. t \notin ToSet(tests)
  BY DEF Contains, ToSet
<1>5. PICK u, c : u = all \cup {t} /\ c = Cardinality(u) /\ IsFiniteSet(u) /\ c \in Nat
  <2>1. Cardinality(all \cup {t}) \in Nat
    BY <1>3, FS_CardinalityType
  <2> QED
    BY <1>3, <2>1
<1>6. CASE Len(tests) < ManualCap
  <2>1. new = Append(tests, t) /\ ToSet(tests) = all
    BY <1>1, <1>2, <1>6
  <2>2. Len(new) = Len(tests) + 1 /\ DOMAIN new = 1..(Len(tests) + 1) /\ DOMAIN tests = 1..Len(tests)
        /\ (\A j \in 1..Len(tests) : new[j] = tests[j]) /\ new[Len(tests) + 1] = t
    BY <2>1
  <2>3. ToSet(new) = all \cup {t}
    <3>1. ASSUME NEW x \in ToSet(new)
          PROVE  x \in ToSet(tests) \cup {t}
      BY <1>2, <2>2 DEF ToSet
    <3>2. ASSUME NEW x \in ToSet(tests)
          PROVE  x \in ToSet(new)
      <4>1. PICK j \in 1..Len(tests) : x = tests[j]
        BY <2>2 DEF ToSet
      <4>2. j \in DOMAIN new /\ new[j] = x
        BY <1>2, <2>2, <4>1
      <4> QED
        BY <4>2 DEF ToSet
    <3>3. t \in ToSet(new)
      <4>1. Len(tests) + 1 \in DOMAIN new
        BY <1>2, <2>2
      <4> QED
        BY <2>2, <4>1 DEF ToSet
    <3> QED
      BY <2>1, <3>1, <3>2, <3>3
  <2>4. Len(new) <= c
    BY <1>1, <1>2, <1>3, <1>4, <1>5, <2>1, <2>2
  <2> QED
    BY <1>5, <2>3, <2>4 DEF Handed
<1>7. CASE ~(Len(tests) < ManualCap)
  <2>1. new = tests /\ Len(tests) >= ManualCap
    BY <1>2, <1>7
  <2>2. c >= Cardinality(all)
    BY <1>2, <1>3, <1>5
  <2>3. c > ManualCap
    <3>1. CASE ToSet(tests) = all
      BY <1>1, <1>2, <1>3, <1>4, <1>5, <2>1, <3>1
    <3>2. CASE Cardinality(all) > ManualCap
      BY <1>2, <1>5, <2>2, <3>2
    <3> QED
      BY <1>1, <3>1, <3>2
  <2>4. Len(new) <= c /\ ToSet(new) \subseteq u
    BY <1>1, <1>2, <1>5, <2>1, <2>2
  <2> QED
    BY <1>5, <2>1, <2>3, <2>4 DEF Handed
<1> QED
  BY <1>6, <1>7

LEMMA RegisterProcess ==
  ASSUME ProcessInv, NEW t \in Manual, Register(t)
  PROVE  /\ ProcessInv' /\ Full' = Full
         /\ pc = "start" /\ UNCHANGED <<options, list, i, n, pc, counters, mem, frame, child, out, err, fate, ends>>
<1>1. /\ pc = "start" /\ manual' = (IF Len(manual) < ManualCap THEN Append(manual, t) ELSE manual)
      /\ ~Contains(manual, t) /\ asked' = asked \cup {t}
      /\ UNCHANGED <<options, list, i, n, pc, counters, mem, frame, child, out, err, fate, ends>>
  BY DEF Register
<1>2. manual \in Seq(Manual)
  BY DEF ProcessInv, Typed
<1>3. manual' \in Seq(Manual)
  BY <1>1, <1>2
<1>4. Typed'
  BY <1>1, <1>3 DEF ProcessInv, Typed
<1>5. Control' /\ TestTold' /\ ChildTold'
  BY <1>1 DEF ProcessInv, Control, TestTold, ChildTold, Forks, Selected
<1>6. Handed(manual, asked)'
  <2>1. Handed(manual', asked')
    BY <1>1, <1>2, HandedOver DEF ProcessInv, Ordered
  <2> QED
    BY <2>1 DEF Handed
<1>7. \A j, k \in DOMAIN manual : manual[j] = manual[k] => j = k
  BY DEF ProcessInv, Ordered
<1>8. ASSUME manual' = Append(manual, t)
      PROVE  Ordered'
  <2>1. \A j \in 1..Len(manual) : manual[j] # t
    BY <1>1 DEF Contains
  <2>2. /\ Len(manual') = Len(manual) + 1 /\ DOMAIN manual' = 1..(Len(manual) + 1) /\ Len(manual) \in Nat
        /\ \A j \in 1..Len(manual) : manual'[j] = manual[j]
        /\ manual'[Len(manual) + 1] = t /\ DOMAIN manual = 1..Len(manual)
    BY <1>2, <1>8
  <2>3. \A j, k \in DOMAIN manual' : manual'[j] = manual'[k] => j = k
    <3> SUFFICES ASSUME NEW j \in 1..(Len(manual) + 1), NEW k \in 1..(Len(manual) + 1),
                        manual'[j] = manual'[k]
                 PROVE  j = k
      BY <2>2
    <3>1. CASE j \in 1..Len(manual) /\ k \in 1..Len(manual)
      BY <1>7, <2>2, <3>1
    <3>2. CASE j = Len(manual) + 1 /\ k \in 1..Len(manual)
      BY <2>1, <2>2, <3>2
    <3>3. CASE k = Len(manual) + 1 /\ j \in 1..Len(manual)
      BY <2>1, <2>2, <3>3
    <3>4. CASE j = Len(manual) + 1 /\ k = Len(manual) + 1
      BY <3>4
    <3> QED
      BY <2>2, <3>1, <3>2, <3>3, <3>4
  <2> QED
    BY <1>1, <1>6, <2>3 DEF Ordered
<1>9. ASSUME manual' = manual
      PROVE  Ordered'
  BY <1>1, <1>6, <1>7, <1>9 DEF Ordered
<1> QED
  BY <1>1, <1>4, <1>5, <1>8, <1>9 DEF ProcessInv, Full

\* --list prints names and stops, any other command line enters the loop.
LEMMA BeginProcess ==
  ASSUME ProcessInv, NEW opts \in CommandLines, Begin(opts)
  PROVE  /\ ProcessInv' /\ pc = "start" /\ options' = opts
         /\ UNCHANGED <<manual, asked, i, n, counters, frame, child, err, xml, fate>>
         /\ ~opts.list_only => pc' = "loop" /\ Full' = Full
         /\ opts.list_only => /\ pc' = "exited" /\ mem'.runner.buf = <<>>
                              /\ Full' \in Seq(Lines) /\ \A j \in DOMAIN Full' : Full'[j].kind = "name"
<1>1. /\ pc = "start" /\ options' = opts /\ list' = Collected
      /\ UNCHANGED <<manual, asked, i, n, counters, frame, child, err, xml, fate>>
  BY DEF Begin
<1>2. Typed /\ manual \in Seq(Manual) /\ IsInjective(manual) /\ mem \in Memories
  BY DEF ProcessInv, Typed, Ordered, IsInjective, Memories
<1>3. list' \in Seq(AllTests)
  <2>1. list' = InFileLineOrder(SubSeq(Section \o manual, 1, Min({ListCap, Len(Section \o manual)})))
    BY <1>1 DEF Collected
  <2> QED
    BY <1>2, <2>1, CollectedSorted
<1>4. options' \in Options
  BY <1>1 DEF CommandLines, Options
<1>5. frame.phase = "none" /\ child.state = "none" /\ mem.runner.crash_name = NULL /\ mem.child.buf = <<>>
  BY <1>1 DEF ProcessInv, Control
<1>6. Ordered'
  BY <1>1 DEF ProcessInv, Ordered, Collected
<1>7. TestTold' /\ ChildTold'
  BY <1>1, <1>5 DEF TestTold, ChildTold
<1>8. CASE opts.list_only
  <2>1. PICK names : names = [j \in DOMAIN list' |-> Name(list'[j])]
    OBVIOUS
  <2>2. names \in Seq(Lines) /\ \A j \in DOMAIN names : names[j].kind = "name"
    <3>1. \A j \in DOMAIN list' : Name(list'[j]) \in Lines /\ Name(list'[j]).kind = "name"
      <4> TAKE j \in DOMAIN list'
      <4>1. list'[j] \in Tests /\ 0 \in Nat /\ "ok" \in Verdicts
        BY <1>3 DEF Tests, Verdicts
      <4> QED
        BY <4>1, LinesTyped
    <3>2. Len(list') \in Nat /\ DOMAIN list' = 1..Len(list')
      BY <1>3
    <3>3. names \in [1..Len(list') -> Lines]
      BY <2>1, <3>1, <3>2
    <3> QED
      BY <2>1, <3>1, <3>2, <3>3
  <2>3. Flush("runner", mem.runner, names) /\ pc' = "exited"
    BY <1>8, <2>1, Zenon DEF Begin
  <2>4. /\ mem' \in Memories /\ mem'.child = mem.child
        /\ mem'.runner.crash_name = mem.runner.crash_name
        /\ out' \in Seq(Lines) /\ Full' = Full \o names /\ mem'.runner.buf = <<>>
    BY <1>2, <2>2, <2>3, Written
  <2>5. Full = <<>>
    BY <1>1 DEF ProcessInv, Control, Full
  <2>6. Full' = names
    BY <2>2, <2>4, <2>5
  <2>7. Typed'
    BY <1>1, <1>3, <1>4, <2>3, <2>4 DEF ProcessInv, Typed, Memories
  <2>8. Control'
    BY <1>1, <1>5, <2>3, <2>4 DEF Control
  <2> QED
    BY <1>1, <1>6, <1>7, <1>8, <2>2, <2>3, <2>4, <2>6, <2>7, <2>8 DEF ProcessInv
<1>9. CASE ~opts.list_only
  <2>1. pc' = "loop" /\ UNCHANGED <<mem, out, exit_code>>
    BY <1>9 DEF Begin
  <2>2. Typed'
    BY <1>1, <1>3, <1>4, <2>1 DEF ProcessInv, Typed, Memories
  <2>3. Control'
    BY <1>1, <1>5, <2>1 DEF Control
  <2> QED
    BY <1>1, <1>6, <1>7, <1>9, <2>1, <2>2, <2>3 DEF ProcessInv, Full
<1> QED
  BY <1>8, <1>9

LEMMA AtTestKnown ==
  ASSUME ProcessInv, NEW t, AtTest(t)
  PROVE  /\ pc = "loop" /\ i \in DOMAIN list /\ list[i] = t /\ t \in AllTests /\ frame.phase = "none"
         /\ child.state = "none" /\ mem.runner.crash_name = NULL /\ mem.child.buf = <<>>
         /\ mem \in Memories /\ mem.runner \in Memory /\ Typed
<1>1. list \in Seq(AllTests) /\ i \in Nat \ {0} /\ mem \in Memories /\ Typed
  BY DEF ProcessInv, Typed, Memories
<1> QED
  BY <1>1 DEF AtTest, ProcessInv, Control, Memories

LEMMA PassOverProcess ==
  ASSUME ProcessInv, NEW t \in AllTests, PassOver(t)
  PROVE  /\ ProcessInv' /\ Full' = Full /\ i' = i + 1 /\ pc = "loop" /\ i \in DOMAIN list \ Selected
         /\ UNCHANGED <<run, pc, counters, mem, frame, child, out, err, ends, fate>>
<1>1. /\ AtTest(t) /\ i' = i + 1 /\ t \notin options.filter
      /\ UNCHANGED <<options, manual, asked, list, n, pc, counters, mem, frame, child, out, err, ends, fate>>
  BY DEF PassOver, run
<1>2. Typed'
  BY <1>1 DEF ProcessInv, Typed
<1>3. Control' /\ Ordered' /\ TestTold' /\ ChildTold'
  BY <1>1 DEF ProcessInv, Control, TestTold, ChildTold, Ordered, Collected, AtTest
<1> QED
  BY <1>1, <1>2, <1>3, AtTestKnown DEF ProcessInv, Full, Selected, run

LEMMA FateStarts ==
  ASSUME NEW t \in AllTests
  PROVE  /\ [NoFate EXCEPT !.test = t] \in Fates /\ [NoFate EXCEPT !.test = t].test = t
         /\ [NoFate EXCEPT !.test = t].end = "running"
         /\ [NoFate EXCEPT !.test = t].failed = FALSE /\ [NoFate EXCEPT !.test = t].skipped = FALSE
         /\ [NoFate EXCEPT !.test = t].bodied = FALSE /\ [NoFate EXCEPT !.test = t].torn = FALSE
         /\ EnterFrame(t) \in Frames /\ EnterFrame(t).phase \in {"setup", "body"}
         /\ EnterFrame(t).setup_done = FALSE
<1>1. t \in Tests
  BY DEF Tests
<1> QED
  BY <1>1 DEF NoFate, Fates, EnterFrame, Frames

LEMMA RunInsideProcess ==
  ASSUME ProcessInv, NEW t \in AllTests, RunInside(t)
  PROVE  /\ ProcessInv' /\ Full' = Full /\ n' = n + 1 /\ pc = "loop" /\ pc' = "inside" /\ i \in Selected
         /\ UNCHANGED <<options, manual, asked, list, i, counters, child, out, err, ends>>
<1>1. /\ AtTest(t) /\ t \in options.filter /\ ~Forks(t) /\ n' = n + 1 /\ pc' = "inside"
      /\ UNCHANGED <<options, manual, asked, list, i, counters, child, out, err, ends>>
      /\ fate' = [NoFate EXCEPT !.test = t] /\ frame' = EnterFrame(t)
      /\ mem' = [mem EXCEPT !.runner = EnterBody(@, t)]
  BY DEF RunInside
<1>2. /\ pc = "loop" /\ i \in DOMAIN list /\ list[i] = t /\ t \in AllTests /\ frame.phase = "none"
      /\ child.state = "none" /\ mem.runner.crash_name = NULL /\ mem.child.buf = <<>>
      /\ mem \in Memories /\ mem.runner \in Memory
  BY <1>1, AtTestKnown
<1>3. PICK e : e = EnterBody(mem.runner, t)
  OBVIOUS
<1>4. /\ e \in Memory /\ e.current = t /\ e.current_failed = FALSE /\ e.skipped_current = FALSE
      /\ e.diag = <<>> /\ e.crash_name = mem.runner.crash_name /\ e.buf = mem.runner.buf
  BY <1>2, <1>3, Entered
<1>5. mem' = [mem EXCEPT !["runner"] = e]
  BY <1>1, <1>3, Zenon
<1>6. mem' \in Memories /\ mem'.runner = e /\ mem'.child = mem.child
  BY <1>2, <1>4, <1>5, MemoryPut
<1>7. /\ fate' \in Fates /\ fate'.test = t /\ fate'.end = "running"
      /\ fate'.failed = FALSE /\ fate'.skipped = FALSE
      /\ frame' \in Frames /\ frame'.phase \in {"setup", "body"}
  BY <1>1, FateStarts
<1>8. Typed'
  BY <1>1, <1>6, <1>7 DEF ProcessInv, Typed, Memories
<1>9. i \in Selected /\ Selected' = Selected /\ (Forks(t) <=> Forks(t)')
  BY <1>1, <1>2 DEF Selected, Forks
<1>10. Control'
  BY <1>1, <1>2, <1>4, <1>6, <1>7, <1>9 DEF Control, Forks
<1>11. Ordered'
  BY <1>1, <1>2 DEF ProcessInv, Ordered, Collected
<1>12. Told(mem'.runner, "runner", fate')
  <2>1. DOMAIN e.diag = {}
    BY <1>4
  <2>2. e.crash_name = NULL
    BY <1>2, <1>4
  <2> QED
    BY <1>2, <1>4, <1>6, <1>7, <2>1, <2>2 DEF Told
<1>13. TestTold' /\ ChildTold'
  BY <1>1, <1>2, <1>12 DEF TestTold, ChildTold
<1> QED
  BY <1>1, <1>2, <1>4, <1>6, <1>8, <1>9, <1>10, <1>11, <1>13 DEF ProcessInv, Full

LEMMA Flushed ==
  ASSUME Typed
  PROVE  /\ [mem.runner EXCEPT !.buf = <<>>] \in Memory /\ [mem.runner EXCEPT !.buf = <<>>].buf = <<>>
         /\ [mem.runner EXCEPT !.buf = <<>>].crash_name = mem.runner.crash_name
         /\ Full \in Seq(Lines) /\ Full \o <<>> = Full
<1>1. mem.runner \in Memory /\ <<>> \in Seq(Lines)
  BY DEF Typed
<1>2. /\ [mem.runner EXCEPT !.buf = <<>>] \in Memory /\ [mem.runner EXCEPT !.buf = <<>>].buf = <<>>
      /\ [mem.runner EXCEPT !.buf = <<>>].crash_name = mem.runner.crash_name
  BY <1>1 DEF Memory
<1>3. Full \in Seq(Lines)
  BY FullTyped
<1> QED
  BY <1>2, <1>3

LEMMA ChildEntered ==
  ASSUME NEW m \in Memory, NEW t \in AllTests, m.buf = <<>>
  PROVE  /\ ChildMemory(m, t) \in Memory /\ ChildMemory(m, t).current = t
         /\ ChildMemory(m, t).current_failed = FALSE /\ ChildMemory(m, t).skipped_current = FALSE
         /\ ChildMemory(m, t).diag = <<>> /\ ChildMemory(m, t).buf = <<>>
         /\ ChildMemory(m, t).crash_name = (IF t \in Deaths THEN NULL ELSE t)
<1>1. PICK e : e = EnterBody(m, t)
  OBVIOUS
<1>2. /\ e \in Memory /\ e.current = t /\ e.current_failed = FALSE /\ e.skipped_current = FALSE
      /\ e.diag = <<>> /\ e.buf = <<>>
  BY <1>1, Entered
<1>3. PICK named \in Tests : named = IF t \in Deaths THEN NULL ELSE t
  BY DEF Tests
<1>4. PICK c : c = [e EXCEPT !.crash_name = named]
  OBVIOUS
<1>5. c = ChildMemory(m, t)
  BY <1>1, <1>3, <1>4, Zenon DEF ChildMemory
<1>6. /\ c \in Memory /\ c.current = t /\ c.current_failed = FALSE /\ c.skipped_current = FALSE
      /\ c.diag = <<>> /\ c.buf = <<>> /\ c.crash_name = named
  BY <1>2, <1>4 DEF Memory
<1> QED
  BY <1>3, <1>5, <1>6

LEMMA ForkProcess ==
  ASSUME ProcessInv, NEW t \in AllTests, Fork(t)
  PROVE  /\ ProcessInv' /\ Full' = Full /\ n' = n + 1 /\ pc = "loop" /\ pc' = "waiting" /\ i \in Selected
         /\ UNCHANGED <<options, manual, asked, list, i, counters, err, ends>>
         /\ child'.state = "running" /\ fate'.end = "running"
<1>1. /\ AtTest(t) /\ t \in options.filter /\ Forks(t) /\ n' = n + 1 /\ pc' = "waiting"
      /\ UNCHANGED <<options, manual, asked, list, i, counters, err, ends>>
      /\ fate' = [NoFate EXCEPT !.test = t] /\ frame' = EnterFrame(t)
      /\ ForkFlushed(t) /\ child' = [NoChild EXCEPT !.state = "running"]
  BY DEF Fork
<1>2. /\ pc = "loop" /\ i \in DOMAIN list /\ list[i] = t /\ t \in AllTests
      /\ mem.runner.crash_name = NULL /\ mem \in Memories /\ Typed
  BY <1>1, AtTestKnown
<1>3. PICK r : r = [mem.runner EXCEPT !.buf = <<>>]
  OBVIOUS
<1>4. r \in Memory /\ r.buf = <<>> /\ r.crash_name = NULL
  BY <1>2, <1>3, Flushed
<1>5. PICK c : c = ChildMemory(r, t)
  OBVIOUS
<1>6. /\ c \in Memory /\ c.current = t /\ c.current_failed = FALSE /\ c.skipped_current = FALSE
      /\ c.diag = <<>> /\ c.buf = <<>> /\ c.crash_name = (IF t \in Deaths THEN NULL ELSE t)
  BY <1>4, <1>5, ChildEntered
<1>7. mem' = [runner |-> r, child |-> c] /\ out' = Full
  BY <1>1, <1>3, <1>5, Zenon DEF ForkFlushed, Full
<1>8. mem' \in Memories /\ mem'.runner = r /\ mem'.child = c
  BY <1>4, <1>6, <1>7 DEF Memories
<1>9. Full' = Full
  <2>1. Full' = Full \o <<>>
    BY <1>4, <1>7, <1>8 DEF Full
  <2> QED
    BY <1>2, <2>1, Flushed
<1>10. /\ fate' \in Fates /\ fate'.test = t /\ fate'.end = "running"
       /\ fate'.failed = FALSE /\ fate'.skipped = FALSE
       /\ frame' \in Frames /\ frame'.phase \in {"setup", "body"}
  BY <1>1, FateStarts
<1>11. child' \in Children /\ child'.state = "running"
  BY <1>1, EmptyTyped DEF NoChild, Children
<1>12. Typed'
  BY <1>1, <1>2, <1>7, <1>8, <1>10, <1>11, Flushed DEF Typed, Memories
<1>13. i \in Selected /\ Selected' = Selected /\ (Forks(t) <=> Forks(t)')
  BY <1>1, <1>2 DEF Selected, Forks
<1>14. Control'
  BY <1>1, <1>2, <1>4, <1>6, <1>8, <1>10, <1>11, <1>13 DEF Control, Forks
<1>15. Ordered'
  BY <1>1, <1>2 DEF ProcessInv, Ordered, Collected
<1>16. Told(mem'.child, "child", fate')
  <2>1. DOMAIN c.diag = {}
    BY <1>6
  <2> QED
    BY <1>6, <1>8, <1>10, <2>1 DEF Told
<1>17. TestTold' /\ ChildTold'
  BY <1>11, <1>16 DEF TestTold, ChildTold
<1> QED
  BY <1>1, <1>2, <1>9, <1>10, <1>11, <1>12, <1>13, <1>14, <1>15, <1>17 DEF ProcessInv

LEMMA ForkFailsProcess ==
  ASSUME ProcessInv, NEW t \in AllTests, ForkFails(t)
  PROVE  /\ ProcessInv' /\ Full' = Full /\ n' = n + 1 /\ pc = "loop" /\ pc' = "waiting" /\ i \in Selected
         /\ UNCHANGED <<options, manual, asked, list, i, counters, frame, err, ends>>
         /\ child'.state = "unforked" /\ fate'.end = "unforked"
<1>1. /\ AtTest(t) /\ t \in options.filter /\ Forks(t) /\ n' = n + 1 /\ pc' = "waiting"
      /\ UNCHANGED <<options, manual, asked, list, i, counters, frame, err, ends>>
      /\ fate' = [NoFate EXCEPT !.test = t, !.end = "unforked"]
      /\ Flush("runner", mem.runner, <<>>)
      /\ child' = [state |-> "unforked", by |-> "exit", code |-> TT_FAIL]
  BY DEF ForkFails
<1>2. /\ pc = "loop" /\ i \in DOMAIN list /\ list[i] = t /\ frame.phase = "none"
      /\ mem.runner.crash_name = NULL /\ mem.child.buf = <<>> /\ Typed
  BY <1>1, AtTestKnown
<1>3. /\ mem' \in Memories /\ mem'.child = mem.child /\ mem'.runner.crash_name = NULL
      /\ out' \in Seq(Lines) /\ Full' = Full \o <<>> /\ mem'.runner.buf = <<>>
  BY <1>1, <1>2, Written, EmptyTyped
<1>4. Full' = Full
  BY <1>2, <1>3, Flushed
<1>5. fate' \in Fates /\ fate'.test = t /\ fate'.end = "unforked"
  <2>1. t \in Tests
    BY DEF Tests
  <2> QED
    BY <1>1, <2>1 DEF NoFate, Fates
<1>6. /\ child' \in Children /\ child'.state = "unforked" /\ child'.by = "exit"
      /\ child'.code = TT_FAIL
  BY <1>1 DEF Children, TT_FAIL
<1>7. Typed'
  BY <1>1, <1>2, <1>3, <1>5, <1>6 DEF Typed, Memories
<1>8. i \in Selected /\ Selected' = Selected /\ (Forks(t) <=> Forks(t)')
  BY <1>1, <1>2 DEF Selected, Forks
<1>9. Control'
  BY <1>1, <1>2, <1>3, <1>5, <1>6, <1>8 DEF Control, Forks
<1>10. Ordered'
  BY <1>1, <1>2 DEF ProcessInv, Ordered, Collected
<1>11. TestTold' /\ ChildTold'
  BY <1>1, <1>2, <1>5, <1>6 DEF TestTold, ChildTold
<1> QED
  BY <1>1, <1>2, <1>4, <1>5, <1>6, <1>7, <1>8, <1>9, <1>10, <1>11 DEF ProcessInv

LEMMA FinishProcess ==
  ASSUME ProcessInv, Finish
  PROVE  /\ ProcessInv' /\ Full' = Full \o <<Plan(n)>> /\ mem'.runner.buf = <<>>
         /\ pc \in {"loop", "plan"} /\ (pc = "loop" => i > Len(list)) /\ pc' = "exited"
         /\ exit_code' = (IF counters.tests_failed = 0 THEN 0 ELSE 1)
         /\ xml' \in {XmlReport, xml}  \/ xml' = NoXml
         /\ UNCHANGED <<run, i, counters, frame, child, err, fate>>
<1>1. /\ pc = "plan" \/ (pc = "loop" /\ i > Len(list))
      /\ Flush("runner", mem.runner, <<Plan(n)>>) /\ pc' = "exited"
      /\ exit_code' = (IF counters.tests_failed = 0 THEN 0 ELSE 1)
      /\ UNCHANGED <<run, i, counters, frame, child, err, fate>>
      /\ xml' \in {XmlReport, xml} \/ xml' = NoXml
  BY DEF Finish
<1>2. Plan(n) \in Lines
  <2>1. NULL \in Tests /\ n \in Nat /\ "ok" \in Verdicts
    BY DEF ProcessInv, Typed, Tests, Verdicts
  <2> QED
    BY <2>1, LinesTyped
<1>3. Typed /\ <<Plan(n)>> \in Seq(Lines)
  BY <1>2 DEF ProcessInv
<1>4. /\ mem' \in Memories /\ mem'.child = mem.child
      /\ mem'.runner.crash_name = mem.runner.crash_name
      /\ out' \in Seq(Lines) /\ Full' = Full \o <<Plan(n)>> /\ mem'.runner.buf = <<>>
  BY <1>1, <1>3, Written
<1>5. UNCHANGED <<options, manual, asked, list, n>>
  BY <1>1 DEF run
<1>6. Typed'
  BY <1>1, <1>3, <1>4, <1>5 DEF Typed, Memories
<1>7. Control' /\ Ordered' /\ TestTold' /\ ChildTold'
  BY <1>1, <1>4, <1>5 DEF ProcessInv, Control, Ordered, Collected, TestTold, ChildTold
<1> QED
  BY <1>1, <1>4, <1>6, <1>7 DEF ProcessInv

LEMMA InitProcess ==
  ASSUME Init
  PROVE  ProcessInv /\ Full = <<>>
<1>1. Typed
  BY EmptyTyped DEF Init, Typed
<1>2. Control
  BY DEF Init, Control, NoFrame, NoChild, NoMemory
<1>3. Ordered /\ TestTold /\ ChildTold
  <2>1. Handed(<<>>, {})
    BY FS_EmptySet DEF Handed, ToSet
  <2> QED
    BY <2>1 DEF Init, Ordered, TestTold, ChildTold, NoFrame, NoChild
<1>4. Full = <<>>
  BY DEF Init, Full, NoMemory
<1> QED
  BY <1>1, <1>2, <1>3, <1>4 DEF ProcessInv

\* The steps of the runner and of the test bodies, by what they do to the stream.
Bodies == ExpectFails \/ AssertFails \/ Skip \/ SetupReturns \/ BodyReturns \/ TeardownReturns

LEMMA BodiesContinue ==
  ASSUME ProcessInv, Bodies
  PROVE  Continues
BY ExpectFailsContinues, AssertFailsContinues, SkipContinues, ReturnContinues DEF Bodies

LEMMA StepKinds ==
  ASSUME Next
  PROVE  \/ \E t \in Manual : Register(t)
         \/ \E opts \in CommandLines : Begin(opts)
         \/ Bodies
         \/ \E sig \in Signals : Dies(sig)
         \/ \E code \in ExitCodes : Exits(code)
         \/ \E t \in AllTests : PassOver(t)
         \/ \E t \in AllTests : RunInside(t)
         \/ \E t \in AllTests : Fork(t)
         \/ \E t \in AllTests : ForkFails(t)
         \/ ChildReturns \/ ReportInside \/ ReportForked \/ Finish
BY DEF Next, BodyStep, RunnerStep, Bodies

LEMMA NextProcess ==
  ASSUME ProcessInv, [Next]_vars
  PROVE  ProcessInv'
<1>1. CASE UNCHANGED vars
  <2>1. UNCHANGED <<options, manual, asked, list, i, n, pc, counters, mem, frame, child, out, err, fate>>
    BY <1>1 DEF vars
  <2>2. Typed'
    BY <2>1 DEF ProcessInv, Typed
  <2>3. Control' /\ Ordered' /\ TestTold' /\ ChildTold'
    BY <2>1 DEF ProcessInv, Control, Ordered, Collected, TestTold, ChildTold, Forks, Selected
  <2> QED
    BY <2>2, <2>3 DEF ProcessInv
<1>2. CASE Next
  <2>1. CASE \E t \in Manual : Register(t)
    BY <2>1, RegisterProcess
  <2>2. CASE \E opts \in CommandLines : Begin(opts)
    BY <2>2, BeginProcess
  <2>3. CASE Bodies
    BY <2>3, BodiesContinue, ContinuesKeeps
  <2>4. CASE \E sig \in Signals : Dies(sig)
    BY <2>4, DiesProcess
  <2>5. CASE \E code \in ExitCodes : Exits(code)
    BY <2>5, ExitsProcess
  <2>6. CASE \E t \in AllTests : PassOver(t)
    BY <2>6, PassOverProcess
  <2>7. CASE \E t \in AllTests : RunInside(t)
    BY <2>7, RunInsideProcess
  <2>8. CASE \E t \in AllTests : Fork(t)
    BY <2>8, ForkProcess
  <2>9. CASE \E t \in AllTests : ForkFails(t)
    BY <2>9, ForkFailsProcess
  <2>10. CASE ChildReturns \/ ReportInside \/ ReportForked \/ Finish
    BY <2>10, ChildReturnsProcess, ReportInsideProcess, ReportForkedProcess, FinishProcess
  <2> QED
    BY <1>2, <2>1, <2>2, <2>3, <2>4, <2>5, <2>6, <2>7, <2>8, <2>9, <2>10, StepKinds
<1> QED
  BY <1>1, <1>2

-----------------------------------------------------------------------------
(* Fixtures                                                                 *)

\* setup, the body and teardown, each behind the one before.
Paired ==
  /\ frame.phase = "setup" => ~frame.setup_done /\ ~fate.bodied /\ ~fate.torn
  /\ frame.phase = "body" => frame.setup_done = fate.bodied /\ ~fate.torn
  /\ frame.phase = "teardown" => frame.setup_done /\ fate.bodied /\ ~fate.torn
  /\ frame.phase = "done" => fate.torn = fate.bodied

\* Wherever a body is left from, setup_done says whether teardown is due.
LEMMA LandingPaired ==
  ASSUME Typed, Paired, InBody, NEW m, Abort(m) \/ LeaveBody(m) \/ UNCHANGED frame,
         fate'.bodied = fate.bodied, fate'.torn = fate.torn
  PROVE  Paired'
<1>1. frame \in Frames /\ fate \in Fates
  BY DEF Typed
<1>2. CASE frame' = [frame EXCEPT !.phase = IF frame.setup_done THEN "teardown" ELSE "done"]
  <2>1. frame'.setup_done = frame.setup_done /\ frame'.phase = IF frame.setup_done THEN "teardown" ELSE "done"
    BY <1>1, <1>2 DEF Frames
  <2>2. CASE frame.setup_done
    <3>1. fate.bodied /\ ~fate.torn
      BY <1>1, <2>2 DEF InBody, Paired
    <3> QED
      BY <2>1, <2>2, <3>1 DEF Paired
  <2>3. CASE ~frame.setup_done
    <3>1. fate.bodied = FALSE /\ fate.torn = FALSE
      BY <1>1, <2>3 DEF InBody, Paired, Fates, Frames
    <3> QED
      BY <2>1, <2>3, <3>1 DEF Paired
  <2> QED
    BY <2>2, <2>3
<1>3. CASE UNCHANGED frame
  BY <1>3 DEF Paired
<1> QED
  BY <1>2, <1>3 DEF Abort, LeaveBody

LEMMA BodiesPaired ==
  ASSUME Typed, Paired, Bodies
  PROVE  Paired'
<1>1. fate \in Fates /\ frame \in Frames
  BY DEF Typed
<1>2. CASE ExpectFails
  <2>1. InBody /\ UNCHANGED frame /\ fate'.bodied = fate.bodied /\ fate'.torn = fate.torn
    BY <1>1, <1>2 DEF ExpectFails, Fates
  <2> QED
    BY <2>1, LandingPaired
<1>3. CASE AssertFails
  <2>1. PICK m : m = FailRecorded(mem[P])
    OBVIOUS
  <2>2. InBody /\ Abort(m) /\ fate'.bodied = fate.bodied /\ fate'.torn = fate.torn
    BY <1>1, <1>3, <2>1 DEF AssertFails, Fates
  <2> QED
    BY <2>2, LandingPaired
<1>4. CASE Skip
  <2>1. PICK m : m = [mem[P] EXCEPT !.skipped_current = TRUE]
    OBVIOUS
  <2>2. InBody /\ fate' = [fate EXCEPT !.skipped = TRUE] /\ Abort(m)
    BY <1>4, <2>1, Zenon DEF Skip
  <2>3. fate'.bodied = fate.bodied /\ fate'.torn = fate.torn
    BY <1>1, <2>2 DEF Fates
  <2> QED
    BY <2>2, <2>3, LandingPaired
<1>5. CASE SetupReturns
  BY <1>1, <1>5 DEF SetupReturns, Paired, Frames, Fates
<1>6. CASE BodyReturns
  <2>1. InBody /\ LeaveBody(mem[P]) /\ fate' = fate
    BY <1>6 DEF BodyReturns, InBody
  <2>2. PICK m : m = mem[P]
    OBVIOUS
  <2>3. LeaveBody(m) /\ fate'.bodied = fate.bodied /\ fate'.torn = fate.torn
    BY <2>1, <2>2, Zenon
  <2> QED
    BY <2>1, <2>3, LandingPaired
<1>7. CASE TeardownReturns
  <2>1. fate.bodied /\ frame'.phase = "done" /\ fate'.torn = TRUE /\ fate'.bodied = fate.bodied
    BY <1>1, <1>7 DEF TeardownReturns, Paired, Frames, Fates
  <2> QED
    BY <1>1, <2>1 DEF Paired, Fates
<1> QED
  BY <1>2, <1>3, <1>4, <1>5, <1>6, <1>7 DEF Bodies

LEMMA NextPaired ==
  ASSUME ProcessInv, Paired, [Next]_vars
  PROVE  Paired'
<1>1. Typed
  BY DEF ProcessInv
<1>2. ASSUME frame'.phase = "none"
      PROVE  Paired'
  BY <1>2 DEF Paired
<1>3. ASSUME UNCHANGED <<frame, fate>>
      PROVE  Paired'
  BY <1>3 DEF Paired
<1>4. ASSUME NEW t \in AllTests, frame' = EnterFrame(t), fate' = [NoFate EXCEPT !.test = t]
      PROVE  Paired'
  BY <1>4, FateStarts DEF Paired
<1>5. CASE UNCHANGED vars
  BY <1>3, <1>5 DEF vars
<1>6. CASE Next
  <2>1. CASE \/ \E t \in Manual : Register(t)
             \/ \E opts \in CommandLines : Begin(opts)
             \/ \E t \in AllTests : PassOver(t)
             \/ ReportForked \/ Finish
    BY <1>3, <2>1 DEF Register, Begin, PassOver, ReportForked, Finish
  <2>2. CASE Bodies
    BY <1>1, <2>2, BodiesPaired
  <2>3. CASE \/ \E sig \in Signals : Dies(sig)
             \/ \E code \in ExitCodes : Exits(code)
             \/ ChildReturns \/ ReportInside
    <3>1. frame' = NoFrame
      BY <2>3 DEF Dies, Exits, ChildReturns, ReportInside
    <3> QED
      BY <1>2, <3>1 DEF NoFrame
  <2>4. CASE \E t \in AllTests : RunInside(t)
    BY <1>4, <2>4 DEF RunInside
  <2>5. CASE \E t \in AllTests : Fork(t)
    BY <1>4, <2>5 DEF Fork
  <2>6. CASE \E t \in AllTests : ForkFails(t)
    <3>1. frame'.phase = "none"
      BY <2>6, AtTestKnown DEF ForkFails
    <3> QED
      BY <1>2, <3>1
  <2> QED
    BY <1>6, <2>1, <2>2, <2>3, <2>4, <2>5, <2>6, StepKinds
<1> QED
  BY <1>5, <1>6

\* TEST_F (test.h): however the body of a fixture's test ended, a landing or a return,
\* teardown has run when the test function returns if setup was completed, and only then.
THEOREM TeardownAlwaysPaired == Spec => []TeardownPaired
<1>1. Init => ProcessInv /\ Paired
  BY InitProcess DEF Init, Paired, NoFrame
<1>2. ProcessInv /\ Paired /\ [Next]_vars => ProcessInv' /\ Paired'
  BY NextProcess, NextPaired
<1>3. Paired => TeardownPaired
  BY DEF Paired, TeardownPaired
<1> QED
  BY <1>1, <1>2, <1>3, PTL DEF Spec

-----------------------------------------------------------------------------
(* The crash handler                                                        *)

\* Only names of tests that wait for no signal are ever given to stderr.
Attributed ==
  /\ \A j \in DOMAIN err : err[j] \in AllTests \ Deaths
  /\ fate.end = "died" /\ fate.code \in Handled /\ options.isolate /\ fate.test \notin Deaths =>
       err # <<>> /\ Last(err) = fate.test

LEMMA DiesAttributed ==
  ASSUME ProcessInv, Attributed, NEW sig \in Signals, Dies(sig)
  PROVE  Attributed'
<1>1. frame.phase # "none" /\ fate \in Fates /\ err \in Seq(Tests)
  BY InBodyRuns DEF Dies, ProcessInv, Typed
<1>2. /\ P \in {"runner", "child"} /\ Told(mem[P], P, fate) /\ fate.test \in AllTests
      /\ P = "runner" <=> pc = "inside"
  BY <1>1, BodyProcess DEF Told
<1>3. mem[P].crash_name = IF P = "child" /\ fate.test \notin Deaths THEN fate.test ELSE NULL
  BY <1>2 DEF Told
<1>4. /\ err' = (IF sig \in Handled /\ mem[P].crash_name # NULL THEN Append(err, mem[P].crash_name) ELSE err)
      /\ fate'.end = "died" /\ fate'.code = sig /\ fate'.test = fate.test /\ UNCHANGED options
  BY <1>1 DEF Dies, Fates, run
<1>5. fate.test # NULL
  BY <1>2, TestRunnerAssumption
<1>6. CASE sig \in Handled /\ P = "child" /\ fate.test \notin Deaths
  <2>1. err' = Append(err, fate.test)
    BY <1>3, <1>4, <1>5, <1>6
  <2>2. \A j \in DOMAIN err : err[j] \in AllTests \ Deaths
    BY DEF Attributed
  <2>3. /\ Len(err') = Len(err) + 1 /\ DOMAIN err' = 1..(Len(err) + 1) /\ Len(err) \in Nat
        /\ \A j \in 1..Len(err) : err'[j] = err[j]
        /\ err'[Len(err) + 1] = fate.test /\ DOMAIN err = 1..Len(err)
    <3>1. fate.test \in Tests
      BY <1>2 DEF Tests
    <3> QED
      BY <1>1, <2>1, <3>1
  <2>4. \A j \in DOMAIN err' : err'[j] \in AllTests \ Deaths
    BY <1>2, <1>6, <2>2, <2>3
  <2>5. err' # <<>> /\ Last(err') = fate.test
    BY <2>3 DEF Last
  <2> QED
    BY <1>4, <2>4, <2>5 DEF Attributed
<1>7. CASE ~(sig \in Handled /\ P = "child" /\ fate.test \notin Deaths)
  <2>1. err' = err
    BY <1>3, <1>4, <1>7
  <2>2. P = "runner" => ~options.isolate
    BY <1>2 DEF ProcessInv, Control, Forks
  <2>3. ~(sig \in Handled /\ options.isolate /\ fate.test \notin Deaths)
    BY <1>2, <1>7, <2>2
  <2> QED
    BY <1>4, <2>1, <2>3 DEF Attributed
<1> QED
  BY <1>6, <1>7

LEMMA NextAttributed ==
  ASSUME ProcessInv, Attributed, [Next]_vars
  PROVE  Attributed'
<1>1. ASSUME UNCHANGED <<err, options>>, UNCHANGED fate \/ fate'.end # "died"
      PROVE  Attributed'
  BY <1>1 DEF Attributed
<1>2. CASE UNCHANGED vars
  BY <1>1, <1>2 DEF vars
<1>3. CASE Next
  <2>1. CASE \E t \in Manual : Register(t)
    BY <1>1, <2>1 DEF Register
  <2>2. CASE \E opts \in CommandLines : Begin(opts)
    <3>1. fate'.end # "died" /\ UNCHANGED err
      BY <2>2, BeginProcess DEF ProcessInv, Control, NoFate
    <3> QED
      BY <3>1 DEF Attributed
  <2>3. CASE Bodies
    <3>1. Continues
      BY <2>3, BodiesContinue
    <3>2. UNCHANGED <<err, options>> /\ fate'.end # "died"
      BY <3>1 DEF Continues, run, Told
    <3> QED
      BY <1>1, <3>2
  <2>4. CASE \E sig \in Signals : Dies(sig)
    BY <2>4, DiesAttributed
  <2>5. CASE \E code \in ExitCodes : Exits(code)
    <3>1. UNCHANGED <<err, options>> /\ fate'.end = "exited"
      BY <2>5 DEF Exits, run, ProcessInv, Typed, Fates
    <3> QED
      BY <1>1, <3>1
  <2>6. CASE \E t \in AllTests : PassOver(t)
    BY <1>1, <2>6 DEF PassOver, run
  <2>7. CASE \E t \in AllTests : RunInside(t)
    BY <1>1, <2>7, FateStarts DEF RunInside
  <2>8. CASE \E t \in AllTests : Fork(t)
    BY <1>1, <2>8, FateStarts DEF Fork
  <2>9. CASE \E t \in AllTests : ForkFails(t)
    BY <1>1, <2>9, ForkFailsProcess
  <2>10. CASE ChildReturns \/ ReportInside
    <3>1. UNCHANGED <<err, options>> /\ fate'.end = "returned"
      BY <2>10 DEF ChildReturns, ReportInside, Report, run, ProcessInv, Typed, Fates
    <3> QED
      BY <1>1, <3>1
  <2>11. CASE ReportForked \/ Finish
    BY <1>1, <2>11 DEF ReportForked, Report, Finish, run
  <2> QED
    BY <1>3, <2>1, <2>2, <2>3, <2>4, <2>5, <2>6, <2>7, <2>8, <2>9, <2>10, <2>11, StepKinds
<1> QED
  BY <1>2, <1>3

\* tt_crash_handler (test.h): under --isolate the last name on stderr is that of the
\* test that crashed, and the name of a death test is never there.
THEOREM CrashAlwaysNamed == Spec => []CrashNamed
<1>1. Init => ProcessInv /\ Attributed
  BY InitProcess DEF Init, Attributed, NoFate
<1>2. ProcessInv /\ Attributed /\ [Next]_vars => ProcessInv' /\ Attributed'
  BY NextProcess, NextAttributed
<1>3. Attributed => CrashNamed
  <2> SUFFICES ASSUME Attributed, fate.test \in Deaths
               PROVE  ~Contains(err, fate.test)
    BY DEF Attributed, CrashNamed
  <2> QED
    BY DEF Attributed, Contains
<1> QED
  BY <1>1, <1>2, <1>3, PTL DEF Spec

-----------------------------------------------------------------------------
(* Streams that grow                                                        *)

LEMMA NthNext ==
  ASSUME NEW places, IsFiniteSet(places), places \subseteq Nat \ {0}, NEW j \in Nat
  PROVE  /\ Nth(places, j) \in Nat /\ Nth(places, 0) = 0
         /\ Nth(places, j + 1) = Nth(places, j) + (IF j + 1 \in places THEN 1 ELSE 0)
         /\ (\A k \in places : k <= j) => Nth(places, j) = Cardinality(places)
<1>1. /\ IsFiniteSet({k \in places : k <= j}) /\ Cardinality({k \in places : k <= j}) \in Nat
      /\ j + 1 \notin {k \in places : k <= j}
  BY FS_Subset, FS_CardinalityType
<1>2. Nth(places, 0) = 0
  <2>1. {k \in places : k <= 0} = {}
    <3>1. \A k \in places : k \in Nat /\ k # 0
      OBVIOUS
    <3>2. \A k \in places : ~(k <= 0)
      BY <3>1
    <3> QED
      BY <3>2
  <2> QED
    BY <2>1, FS_EmptySet DEF Nth
<1>3. ASSUME j + 1 \in places
      PROVE  Nth(places, j + 1) = Nth(places, j) + 1
  <2>1. {k \in places : k <= j + 1} = {k \in places : k <= j} \cup {j + 1}
    <3>1. \A k \in places : k \in Nat /\ (k <= j + 1 <=> k <= j \/ k = j + 1)
      OBVIOUS
    <3> QED
      BY <1>3, <3>1
  <2>2. Cardinality({k \in places : k <= j} \cup {j + 1}) = Cardinality({k \in places : k <= j}) + 1
    BY <1>1, FS_AddElement, Zenon
  <2> QED
    BY <2>1, <2>2, Zenon DEF Nth
<1>4. ASSUME j + 1 \notin places
      PROVE  Nth(places, j + 1) = Nth(places, j)
  <2>1. {k \in places : k <= j + 1} = {k \in places : k <= j}
    <3>1. \A k \in places : k \in Nat /\ k # j + 1
      BY <1>4
    <3>2. \A k \in places : k <= j + 1 <=> k <= j
      BY <3>1
    <3> QED
      BY <3>2
  <2> QED
    BY <2>1, Zenon DEF Nth
<1>5. (\A k \in places : k <= j) => Nth(places, j) = Cardinality(places)
  <2>1. (\A k \in places : k <= j) => {k \in places : k <= j} = places
    OBVIOUS
  <2> QED
    BY <2>1, Zenon DEF Nth
<1>6. Nth(places, j) \in Nat
  BY <1>1, Zenon DEF Nth
<1> QED
  BY <1>2, <1>3, <1>4, <1>5, <1>6

LEMMA PointsFinite ==
  ASSUME NEW s \in Seq(Lines)
  PROVE  /\ IsFiniteSet(Points(s)) /\ Points(s) \subseteq 1..Len(s) /\ Points(s) \subseteq Nat \ {0}
         /\ \A v : IsFiniteSet(PointsWith(s, v)) /\ PointsWith(s, v) \subseteq Points(s)
<1>1. PICK m \in Nat : m = Len(s) /\ DOMAIN s = 1..m
  OBVIOUS
<1>2. IsFiniteSet(1..m)
  BY FS_Interval
<1>3. Points(s) \subseteq 1..m /\ \A v : PointsWith(s, v) \subseteq Points(s)
  BY <1>1 DEF Points, PointsWith
<1>4. IsFiniteSet(Points(s))
  BY <1>2, <1>3, FS_Subset
<1>5. \A v : IsFiniteSet(PointsWith(s, v))
  BY <1>3, <1>4, FS_Subset
<1> QED
  BY <1>1, <1>3, <1>4, <1>5

\* What was printed stays where it is, and keeps its number.
LEMMA PrefixKept ==
  ASSUME NEW s \in Seq(Lines), NEW q \in Seq(Lines)
  PROVE  /\ s \o q \in Seq(Lines) /\ Len(s \o q) = Len(s) + Len(q) /\ Len(s) \in Nat /\ Len(q) \in Nat
         /\ \A j \in 1..Len(s) : (s \o q)[j] = s[j]
         /\ \A j \in DOMAIN q : Len(s) + j \in DOMAIN (s \o q) /\ (s \o q)[Len(s) + j] = q[j]
         /\ \A j \in DOMAIN (s \o q) :
              j \in 1..Len(s) \/ (j - Len(s) \in DOMAIN q /\ (s \o q)[j] = q[j - Len(s)])
         /\ \A j \in 1..Len(s) : j \in Points(s \o q) <=> j \in Points(s)
         /\ \A j \in 1..Len(s) : Nth(Points(s \o q), j) = Nth(Points(s), j)
<1>0. PICK u : u = s \o q
  OBVIOUS
<1>1. /\ u \in Seq(Lines) /\ Len(u) = Len(s) + Len(q) /\ Len(s) \in Nat /\ Len(q) \in Nat
      /\ DOMAIN s = 1..Len(s) /\ DOMAIN q = 1..Len(q) /\ DOMAIN u = 1..(Len(s) + Len(q))
      /\ \A j \in 1..(Len(s) + Len(q)) : u[j] = IF j <= Len(s) THEN s[j] ELSE q[j - Len(s)]
  BY <1>0, ConcatProperties, LenProperties
<1>2. \A j \in 1..Len(s) : u[j] = s[j]
  BY <1>1
<1>3. \A j \in DOMAIN q : Len(s) + j \in DOMAIN u /\ u[Len(s) + j] = q[j]
  BY <1>1
<1>4. \A j \in DOMAIN u : j \in 1..Len(s) \/ (j - Len(s) \in DOMAIN q /\ u[j] = q[j - Len(s)])
  BY <1>1
<1>5. \A j \in 1..Len(s) : j \in Points(u) <=> j \in Points(s)
  BY <1>1, <1>2 DEF Points
<1>6. ASSUME NEW j \in 1..Len(s)
      PROVE  Nth(Points(u), j) = Nth(Points(s), j)
  <2>1. {k \in Points(u) : k <= j} = {k \in Points(s) : k <= j}
    <3>1. Points(u) \subseteq Nat \ {0} /\ Points(s) \subseteq Nat \ {0} /\ Points(s) \subseteq 1..Len(s)
      BY <1>1, PointsFinite
    <3>2. \A k \in Points(u) : k <= j => k \in 1..Len(s)
      BY <1>1, <3>1
    <3> QED
      BY <1>5, <3>1, <3>2
  <2> QED
    BY <2>1, Zenon DEF Nth
<1> QED
  BY <1>0, <1>1, <1>2, <1>3, <1>4, <1>5, <1>6

LEMMA QuietGrowth ==
  ASSUME NEW s \in Seq(Lines), NEW q \in Seq(Lines), \A j \in DOMAIN q : q[j].kind # "point"
  PROVE  Points(s \o q) = Points(s) /\ \A v : PointsWith(s \o q, v) = PointsWith(s, v)
<1>0. PICK u : u = s \o q
  OBVIOUS
<1>1. Points(s) \subseteq 1..Len(s)
  BY PointsFinite
<1>2. \A j \in Points(u) : j \in 1..Len(s)
  <2>1. \A j \in DOMAIN u : j \in 1..Len(s) \/ (j - Len(s) \in DOMAIN q /\ u[j] = q[j - Len(s)])
    BY <1>0, PrefixKept
  <2> QED
    BY <2>1 DEF Points
<1>3. \A j \in 1..Len(s) : u[j] = s[j] /\ (j \in Points(u) <=> j \in Points(s))
  BY <1>0, PrefixKept
<1>4. Points(u) = Points(s)
  BY <1>1, <1>2, <1>3
<1>5. \A v : PointsWith(u, v) = PointsWith(s, v)
  BY <1>1, <1>3, <1>4 DEF PointsWith
<1> QED
  BY <1>0, <1>4, <1>5

\* u is s with the point p behind it, at the place e.
Grown(s, p, u, e) ==
  /\ u \in Seq(Lines) /\ u[e] = p /\ e \in DOMAIN u /\ Points(u) = Points(s) \cup {e}
  /\ e \notin Points(s) /\ \A j \in Points(s) : j <= e
  /\ \A v : PointsWith(u, v) = PointsWith(s, v) \cup (IF p.verdict = v THEN {e} ELSE {})
  /\ Nth(Points(u), e) = Cardinality(Points(s)) + 1
  /\ \A j \in Points(s) : u[j] = s[j] /\ Nth(Points(u), j) = Nth(Points(s), j)

LEMMA PointGrowth ==
  ASSUME NEW s \in Seq(Lines), NEW p \in Lines, p.kind = "point", NEW q \in Seq(Lines),
         \A j \in DOMAIN q : q[j].kind # "point", NEW u, u = s \o (<<p>> \o q), NEW e, e = Len(s) + 1
  PROVE  Grown(s, p, u, e)
<1>1. PICK r : r = <<p>> \o q
  OBVIOUS
<1>2. /\ r \in Seq(Lines) /\ r[1] = p /\ 1 \in DOMAIN r /\ u = s \o r
      /\ \A j \in DOMAIN r : j = 1 \/ r[j].kind # "point"
  <2>1. <<p>> \in Seq(Lines) /\ Len(<<p>>) = 1 /\ <<p>>[1] = p
    OBVIOUS
  <2>2. /\ r \in Seq(Lines) /\ \A j \in 1..Len(<<p>>) : r[j] = <<p>>[j]
        /\ Len(r) = Len(<<p>>) + Len(q) /\ Len(q) \in Nat
        /\ \A j \in DOMAIN r : j \in 1..Len(<<p>>) \/ (j - Len(<<p>>) \in DOMAIN q /\ r[j] = q[j - Len(<<p>>)])
    BY <1>1, <2>1, PrefixKept
  <2>3. r[1] = p /\ 1 \in DOMAIN r
    BY <2>1, <2>2
  <2>4. \A j \in DOMAIN r : j = 1 \/ r[j].kind # "point"
    <3>1. \A j \in DOMAIN q : q[j].kind # "point"
      OBVIOUS
    <3> TAKE j \in DOMAIN r
    <3>2. j \in 1..1 \/ (j - 1 \in DOMAIN q /\ r[j] = q[j - 1])
      BY <2>1, <2>2
    <3> QED
      BY <3>1, <3>2
  <2> QED
    BY <1>1, <2>2, <2>3, <2>4
<1>3. /\ u \in Seq(Lines) /\ Len(s) \in Nat /\ \A j \in 1..Len(s) : u[j] = s[j]
      /\ \A j \in DOMAIN r : Len(s) + j \in DOMAIN u /\ u[Len(s) + j] = r[j]
      /\ \A j \in DOMAIN u : j \in 1..Len(s) \/ (j - Len(s) \in DOMAIN r /\ u[j] = r[j - Len(s)])
      /\ \A j \in 1..Len(s) : j \in Points(u) <=> j \in Points(s)
      /\ \A j \in 1..Len(s) : Nth(Points(u), j) = Nth(Points(s), j)
  <2>1. r \in Seq(Lines) /\ u = s \o r
    BY <1>2
  <2>2. u \in Seq(Lines) /\ Len(s) \in Nat /\ \A j \in 1..Len(s) : u[j] = s[j]
    BY <2>1, PrefixKept
  <2>3. \A j \in DOMAIN r : Len(s) + j \in DOMAIN u /\ u[Len(s) + j] = r[j]
    <3>1. \A j \in DOMAIN r : Len(s) + j \in DOMAIN (s \o r) /\ (s \o r)[Len(s) + j] = r[j]
      BY <2>1, PrefixKept, Zenon
    <3> QED
      BY <2>1, <3>1, Zenon
  <2>4. \A j \in DOMAIN u : j \in 1..Len(s) \/ (j - Len(s) \in DOMAIN r /\ u[j] = r[j - Len(s)])
    <3>1. \A j \in DOMAIN (s \o r) :
            j \in 1..Len(s) \/ (j - Len(s) \in DOMAIN r /\ (s \o r)[j] = r[j - Len(s)])
      BY <2>1, PrefixKept, Zenon
    <3> QED
      BY <2>1, <3>1, Zenon
  <2>5. \A j \in 1..Len(s) : j \in Points(u) <=> j \in Points(s)
    <3>1. \A j \in 1..Len(s) : j \in Points(s \o r) <=> j \in Points(s)
      BY <2>1, PrefixKept, Zenon
    <3> QED
      BY <2>1, <3>1, Zenon
  <2>6. \A j \in 1..Len(s) : Nth(Points(u), j) = Nth(Points(s), j)
    <3>1. \A j \in 1..Len(s) : Nth(Points(s \o r), j) = Nth(Points(s), j)
      BY <2>1, PrefixKept, Zenon
    <3> QED
      BY <2>1, <3>1, Zenon
  <2> QED
    BY <2>2, <2>3, <2>4, <2>5, <2>6
<1>4. Points(s) \subseteq 1..Len(s) /\ IsFiniteSet(Points(s)) /\ Points(s) \subseteq Nat \ {0}
  BY PointsFinite
<1>5. u[e] = p /\ e \in DOMAIN u /\ e \in Nat /\ e \notin Points(s) /\ \A j \in Points(s) : j <= e
  BY <1>2, <1>3, <1>4
<1>6. Points(u) = Points(s) \cup {e}
  <2>1. e \in Points(u)
    BY <1>5 DEF Points
  <2>2. \A j \in Points(s) : j \in Points(u)
    BY <1>3, <1>4
  <2>3. ASSUME NEW j \in Points(u)
        PROVE  j \in Points(s) \cup {e}
    <3>1. j \in DOMAIN u /\ u[j].kind = "point" /\ j \in Nat
      BY <1>3 DEF Points
    <3>2. CASE j \in 1..Len(s)
      BY <1>3, <3>2
    <3>3. CASE j - Len(s) \in DOMAIN r /\ u[j] = r[j - Len(s)]
      <4>1. j - Len(s) = 1
        BY <1>2, <3>1, <3>3
      <4> QED
        BY <1>3, <3>1, <4>1
    <3> QED
      BY <1>3, <3>1, <3>2, <3>3
  <2> QED
    BY <2>1, <2>2, <2>3
<1>7. \A v : PointsWith(u, v) = PointsWith(s, v) \cup (IF p.verdict = v THEN {e} ELSE {})
  <2> TAKE v
  <2>1. \A j \in Points(s) : u[j] = s[j] /\ j # e
    BY <1>3, <1>4, <1>5
  <2>2. CASE p.verdict = v
    BY <1>5, <1>6, <2>1, <2>2 DEF PointsWith
  <2>3. CASE p.verdict # v
    BY <1>5, <1>6, <2>1, <2>3 DEF PointsWith
  <2> QED
    BY <2>2, <2>3
<1>8. Nth(Points(u), e) = Cardinality(Points(s)) + 1
  <2>1. {k \in Points(u) : k <= e} = Points(s) \cup {e}
    BY <1>5, <1>6
  <2>2. Cardinality(Points(s) \cup {e}) = Cardinality(Points(s)) + 1
    BY <1>4, <1>5, FS_AddElement
  <2> QED
    BY <2>1, <2>2 DEF Nth
<1> QED
  BY <1>3, <1>4, <1>5, <1>6, <1>7, <1>8 DEF Grown

-----------------------------------------------------------------------------
(* Numbers and counters                                                     *)

\* The points of a stream are numbered as they come, and as the selected tests do.
Numbered(s) ==
  \A j \in Points(s) :
    /\ s[j].num = Nth(Points(s), j)
    /\ \E k \in Selected : s[j].test = list[k] /\ s[j].num = Nth(Selected, k)

Counted(s) ==
  /\ Cardinality(Points(s)) = counters.tests_run
  /\ Cardinality(PointsWith(s, "ok")) = counters.tests_passed
  /\ Cardinality(PointsWith(s, "not ok")) = counters.tests_failed
  /\ Cardinality(PointsWith(s, "SKIP")) = counters.tests_skipped

\* The round of the loop in hand: the tests before it are reported, and it is numbered.
Rounds ==
  /\ pc \notin {"start", "exited"} => ~options.list_only
  /\ Numbered(Full) /\ Counted(Full)
  /\ ~options.list_only =>
       /\ pc # "start" => counters.tests_run = Nth(Selected, i - 1)
       /\ pc \in {"loop", "plan"} => n = counters.tests_run
       /\ pc \in {"inside", "waiting"} => n = counters.tests_run + 1
       /\ pc = "plan" => Contains(Full, BailOut)

LEMMA SelectedFinite ==
  ASSUME NEW l \in Seq(AllTests), NEW wanted, NEW places, places = {k \in DOMAIN l : l[k] \in wanted}
  PROVE  IsFiniteSet(places) /\ places \subseteq Nat \ {0} /\ places \subseteq 1..Len(l)
<1>1. PICK m \in Nat : m = Len(l) /\ DOMAIN l = 1..m
  OBVIOUS
<1>2. IsFiniteSet(1..m)
  BY FS_Interval
<1>3. places \subseteq 1..m
  BY <1>1
<1>4. IsFiniteSet(places)
  BY <1>2, <1>3, FS_Subset
<1> QED
  BY <1>1, <1>3, <1>4

\* Lines that are no points change neither the numbers nor the counts.
LEMMA QuietRound ==
  ASSUME Typed, Numbered(Full), Counted(Full), NEW q \in Seq(Lines),
         \A j \in DOMAIN q : q[j].kind # "point",
         Full' = Full \o q, UNCHANGED <<options, list, counters>>
  PROVE  /\ Numbered(Full)' /\ Counted(Full)' /\ Points(Full)' = Points(Full)
         /\ \A j \in Points(Full) : Full'[j] = Full[j]
<1>1. PICK s \in Seq(Lines) : s = Full
  BY FullTyped
<1>2. PICK u : u = Full'
  OBVIOUS
<1>3. Points(s \o q) = Points(s) /\ \A v : PointsWith(s \o q, v) = PointsWith(s, v)
  BY QuietGrowth
<1>4. u = s \o q
  BY <1>1, <1>2
<1>5. Points(u) = Points(s) /\ \A v : PointsWith(u, v) = PointsWith(s, v)
  BY <1>3, <1>4, Zenon
<1>6. \A j \in Points(s) : u[j] = s[j]
  <2>1. \A j \in 1..Len(s) : (s \o q)[j] = s[j]
    BY PrefixKept
  <2>2. Points(s) \subseteq 1..Len(s)
    BY PointsFinite
  <2> QED
    BY <1>4, <2>1, <2>2
<1>7. Selected' = Selected /\ list' = list
  BY DEF Selected
<1>8. Numbered(u)'
  <2>1. Numbered(s)
    BY <1>1
  <2> QED
    BY <1>5, <1>6, <1>7, <2>1 DEF Numbered
<1>9. Counted(u)'
  <2>1. Counted(s)
    BY <1>1
  <2> QED
    BY <1>5, <2>1 DEF Counted
<1> QED
  BY <1>1, <1>2, <1>5, <1>6, <1>8, <1>9

\* The round that reports a test with the verdict v, numbers it and counts it.
LEMMA ReportRound ==
  ASSUME ProcessInv, Rounds, pc \in {"inside", "waiting"}, NEW v \in Verdicts, NEW d, Reports(v, d)
  PROVE  /\ Rounds'
         /\ Grown(Full, Point(n, list[i], v), Full', Len(Full) + 1)
<1>1. /\ counters' = Tally(v) /\ i' = i + 1 /\ pc' \in {"loop", "plan"} /\ UNCHANGED <<run, err, ends>>
  BY DEF Reports
<1>2. PICK q \in Seq(Lines) :
        /\ Full' = Full \o (<<Point(n, list[i], v)>> \o q)
        /\ \A j \in DOMAIN q : /\ q[j].kind # "point"
                               /\ q[j].kind = "diag" => j \in DOMAIN d /\ q[j] = d[j]
        /\ \A j \in DOMAIN d : \E k \in DOMAIN q : q[k] = d[j]
        /\ pc' = "plan" => Contains(q, BailOut)
  BY DEF Reports
<1>3. /\ Typed /\ counters \in Counters /\ n \in Nat /\ i \in Nat \ {0} /\ list \in Seq(AllTests)
      /\ i \in Selected /\ i \in DOMAIN list
  BY DEF ProcessInv, Typed, Control, Selected
<1>4. UNCHANGED <<options, list, n, manual, asked>>
  BY <1>1 DEF run
<1>5. PICK p \in Lines : /\ p = Point(n, list[i], v) /\ p.kind = "point" /\ p.num = n
                         /\ p.test = list[i] /\ p.verdict = v
  <2>1. list[i] \in Tests
    BY <1>3 DEF Tests
  <2> QED
    BY <1>3, <2>1, LinesTyped
<1>6. PICK s \in Seq(Lines) : s = Full
  BY <1>3, FullTyped
<1>7. PICK u : u = Full'
  OBVIOUS
<1>8. PICK e : e = Len(s) + 1
  OBVIOUS
<1>9. u = s \o (<<p>> \o q)
  BY <1>2, <1>5, <1>6, <1>7
<1>10. Grown(s, p, u, e)
  <2>1. \A j \in DOMAIN q : q[j].kind # "point"
    BY <1>2
  <2> QED
    BY <1>5, <1>8, <1>9, <2>1, PointGrowth
<1>11. /\ ~options.list_only /\ Numbered(s) /\ Counted(s)
       /\ counters.tests_run = Nth(Selected, i - 1) /\ n = counters.tests_run + 1
  BY <1>6 DEF Rounds
<1>12. IsFiniteSet(Selected) /\ Selected \subseteq Nat \ {0}
  BY <1>3, SelectedFinite DEF Selected
<1>13. Nth(Selected, i) = Nth(Selected, i - 1) + 1
  <2>1. PICK j \in Nat : j = i - 1
    BY <1>3
  <2>2. j + 1 = i
    BY <1>3, <2>1
  <2>3. Nth(Selected, j + 1) = Nth(Selected, j) + 1
    BY <1>3, <1>12, <2>2, NthNext
  <2> QED
    BY <2>1, <2>2, <2>3
<1>14. Selected' = Selected /\ list' = list
  BY <1>4 DEF Selected
<1>15. Numbered(u)'
  <2>1. u[e].num = Nth(Points(u), e)
    BY <1>5, <1>10, <1>11 DEF Grown, Counted
  <2>2. u[e].test = list[i] /\ u[e].num = Nth(Selected, i)
    <3>1. u[e] = p
      BY <1>10 DEF Grown
    <3>2. n = Nth(Selected, i)
      BY <1>11, <1>13
    <3> QED
      BY <1>5, <3>1, <3>2
  <2>3. \A j \in Points(s) : /\ u[j].num = Nth(Points(u), j)
                             /\ \E k \in Selected : u[j].test = list[k] /\ u[j].num = Nth(Selected, k)
    <3>1. \A j \in Points(s) : u[j] = s[j] /\ Nth(Points(u), j) = Nth(Points(s), j)
      BY <1>10, Zenon DEF Grown
    <3>2. \A j \in Points(s) :
            /\ s[j].num = Nth(Points(s), j)
            /\ \E k \in Selected : s[j].test = list[k] /\ s[j].num = Nth(Selected, k)
      BY <1>11, Zenon DEF Numbered
    <3> QED
      BY <3>1, <3>2, Zenon
  <2>4. \A j \in Points(u) : j \in Points(s) \/ j = e
    BY <1>10 DEF Grown
  <2>5. \A j \in Points(u) : /\ u[j].num = Nth(Points(u), j)
                             /\ \E k \in Selected : u[j].test = list[k] /\ u[j].num = Nth(Selected, k)
    BY <1>3, <2>1, <2>2, <2>3, <2>4
  <2> QED
    BY <1>14, <2>5 DEF Numbered
<1>16. /\ Cardinality(Points(u)) = counters.tests_run + 1
       /\ \A w : Cardinality(PointsWith(u, w)) =
                 Cardinality(PointsWith(s, w)) + (IF w = v THEN 1 ELSE 0)
  <2>1. IsFiniteSet(Points(s)) /\ \A w : IsFiniteSet(PointsWith(s, w)) /\ PointsWith(s, w) \subseteq Points(s)
    BY PointsFinite
  <2>2. e \notin Points(s) /\ Points(u) = Points(s) \cup {e}
    BY <1>10 DEF Grown
  <2>3. Cardinality(Points(u)) = Cardinality(Points(s)) + 1
    <3>1. Cardinality(Points(s) \cup {e}) = Cardinality(Points(s)) + 1
      BY <2>1, <2>2, FS_AddElement
    <3> QED
      BY <2>2, <3>1
  <2>4. ASSUME NEW w
        PROVE  Cardinality(PointsWith(u, w)) = Cardinality(PointsWith(s, w)) + (IF w = v THEN 1 ELSE 0)
    <3>1. PointsWith(u, w) = PointsWith(s, w) \cup (IF v = w THEN {e} ELSE {})
      BY <1>5, <1>10 DEF Grown
    <3>2. IsFiniteSet(PointsWith(s, w)) /\ e \notin PointsWith(s, w) /\ Cardinality(PointsWith(s, w)) \in Nat
      BY <2>1, <2>2, FS_CardinalityType
    <3>3. CASE w = v
      <4>1. Cardinality(PointsWith(s, w) \cup {e}) = Cardinality(PointsWith(s, w)) + 1
        BY <3>2, FS_AddElement
      <4>2. PointsWith(u, w) = PointsWith(s, w) \cup {e}
        BY <3>1, <3>3
      <4> QED
        BY <3>3, <4>1, <4>2
    <3>4. CASE w # v
      <4>1. PointsWith(u, w) = PointsWith(s, w)
        BY <3>1, <3>4
      <4> QED
        BY <3>2, <3>4, <4>1
    <3> QED
      BY <3>3, <3>4
  <2> QED
    BY <1>11, <2>3, <2>4 DEF Counted
<1>17. Counted(u)'
  <2>1. /\ counters'.tests_run = counters.tests_run + 1
        /\ counters'.tests_passed = counters.tests_passed + (IF v = "ok" THEN 1 ELSE 0)
        /\ counters'.tests_failed = counters.tests_failed + (IF v = "not ok" THEN 1 ELSE 0)
        /\ counters'.tests_skipped = counters.tests_skipped + (IF v = "SKIP" THEN 1 ELSE 0)
    BY <1>1, <1>3, TallyTyped
  <2>2. Cardinality(PointsWith(u, "ok")) = counters'.tests_passed
    BY <1>11, <1>16, <2>1 DEF Counted
  <2>3. Cardinality(PointsWith(u, "not ok")) = counters'.tests_failed
    BY <1>11, <1>16, <2>1 DEF Counted
  <2>4. Cardinality(PointsWith(u, "SKIP")) = counters'.tests_skipped
    BY <1>11, <1>16, <2>1 DEF Counted
  <2> QED
    BY <1>16, <2>1, <2>2, <2>3, <2>4 DEF Counted
<1>18. pc' = "plan" => Contains(u, BailOut)
  <2> SUFFICES ASSUME Contains(q, BailOut)
               PROVE  Contains(u, BailOut)
    BY <1>2
  <2>1. PICK j \in 1..Len(q) : q[j] = BailOut
    BY DEF Contains
  <2>2. PICK k : k = Len(s) + (1 + j)
    OBVIOUS
  <2>3. <<p>> \o q \in Seq(Lines) /\ 1 + j \in DOMAIN (<<p>> \o q) /\ (<<p>> \o q)[1 + j] = BailOut
    BY <2>1
  <2>4. k \in DOMAIN (s \o (<<p>> \o q)) /\ (s \o (<<p>> \o q))[k] = BailOut
    BY <2>2, <2>3, PrefixKept
  <2>5. DOMAIN u = 1..Len(u)
    BY <1>10 DEF Grown
  <2> QED
    BY <1>9, <2>4, <2>5 DEF Contains
<1>19. Grown(Full, Point(n, list[i], v), Full', Len(Full) + 1)
  BY <1>5, <1>6, <1>7, <1>8, <1>10
<1>20. Rounds'
  <2>1. ~options'.list_only
    BY <1>4, <1>11
  <2>2. counters'.tests_run = Nth(Selected', i' - 1) /\ n' = counters'.tests_run
    <3>1. counters'.tests_run = counters.tests_run + 1
      BY <1>1, <1>3, TallyTyped
    <3>2. i' - 1 = i /\ n' = n
      BY <1>1, <1>3, <1>4
    <3>3. counters'.tests_run = Nth(Selected, i) /\ n' = counters'.tests_run
      BY <1>11, <1>13, <3>1, <3>2
    <3> QED
      BY <1>14, <3>2, <3>3
  <2>3. Numbered(Full)' /\ Counted(Full)' /\ (pc' = "plan" => Contains(Full', BailOut))
    BY <1>7, <1>15, <1>17, <1>18
  <2> QED
    BY <1>1, <2>1, <2>2, <2>3 DEF Rounds
<1> QED
  BY <1>19, <1>20

\* Steps that print no point.
LEMMA OtherRound ==
  ASSUME Typed, Rounds, NEW q \in Seq(Lines), \A j \in DOMAIN q : q[j].kind # "point",
         Full' = Full \o q, UNCHANGED <<options, list, counters>>,
         pc = "start" <=> pc' = "start", pc = "exited" => pc' = "exited",
         Nth(Selected, i' - 1) = Nth(Selected, i - 1),
         pc' \in {"loop", "plan"} => pc \in {"loop", "plan"} /\ n' = n,
         pc' \in {"inside", "waiting"} => \/ pc = "loop" /\ n' = n + 1
                                          \/ pc \in {"inside", "waiting"} /\ n' = n,
         pc' = "plan" => pc = "plan" /\ Full' = Full
  PROVE  Rounds'
<1>1. Numbered(Full)' /\ Counted(Full)'
  <2>1. Numbered(Full) /\ Counted(Full)
    BY DEF Rounds
  <2> QED
    BY <2>1, QuietRound
<1>2. Selected' = Selected
  BY DEF Selected
<1> QED
  BY <1>1, <1>2 DEF Rounds

\* Steps that print nothing, and leave the loop where it is.
LEMMA SilentRound ==
  ASSUME Typed, Rounds, Full' = Full, UNCHANGED <<options, list, i, n, counters>>,
         pc' = pc \/ (pc' = "dead" /\ pc = "inside")
  PROVE  Rounds'
<1>1. PICK q \in Seq(Lines) : q = <<>>
  BY EmptyTyped
<1>2. Full' = Full \o q /\ \A j \in DOMAIN q : q[j].kind # "point"
  BY <1>1, Flushed
<1>3. Nth(Selected, i' - 1) = Nth(Selected, i - 1)
  BY Zenon
<1> QED
  BY <1>2, <1>3, OtherRound

LEMMA BeginRound ==
  ASSUME ProcessInv, Rounds, NEW opts \in CommandLines, Begin(opts)
  PROVE  Rounds'
<1>1. /\ ProcessInv' /\ pc = "start" /\ options' = opts
      /\ UNCHANGED <<manual, asked, i, n, counters, frame, child, err, xml, fate>>
      /\ ~opts.list_only => pc' = "loop" /\ Full' = Full
      /\ opts.list_only => /\ pc' = "exited" /\ mem'.runner.buf = <<>>
                           /\ Full' \in Seq(Lines) /\ \A j \in DOMAIN Full' : Full'[j].kind = "name"
  BY BeginProcess
<1>2. i = 1 /\ n = 0 /\ counters = NoCounters /\ Full = <<>>
  BY <1>1 DEF ProcessInv, Control, Full
<1>3. PICK u : u = Full'
  OBVIOUS
<1>4. Points(u) = {} /\ \A v : PointsWith(u, v) = {}
  <2>1. CASE opts.list_only
    BY <1>1, <1>3, <2>1 DEF Points, PointsWith
  <2>2. CASE ~opts.list_only
    <3>1. u = <<>>
      BY <1>1, <1>2, <1>3, <2>2
    <3> QED
      BY <3>1 DEF Points, PointsWith
  <2> QED
    BY <2>1, <2>2
<1>5. Numbered(u)'
  BY <1>4 DEF Numbered
<1>6. Counted(u)'
  <2>1. counters'.tests_run = 0 /\ counters'.tests_passed = 0 /\ counters'.tests_failed = 0 /\ counters'.tests_skipped = 0
    BY <1>1, <1>2 DEF NoCounters
  <2>2. Cardinality({}) = 0
    BY FS_EmptySet
  <2> QED
    BY <1>4, <2>1, <2>2 DEF Counted
<1>7. counters'.tests_run = Nth(Selected', i' - 1) /\ n' = counters'.tests_run
  <2>1. list' \in Seq(AllTests)
    BY <1>1 DEF ProcessInv, Typed
  <2>2. IsFiniteSet(Selected') /\ Selected' \subseteq Nat \ {0}
    BY <2>1, SelectedFinite DEF Selected
  <2>3. Nth(Selected', 0) = 0
    <3>1. 0 \in Nat
      OBVIOUS
    <3> QED
      BY <2>2, <3>1, NthNext
  <2>4. i' - 1 = 0 /\ n' = 0 /\ counters'.tests_run = 0
    BY <1>1, <1>2 DEF NoCounters
  <2> QED
    BY <2>3, <2>4
<1> QED
  BY <1>1, <1>3, <1>5, <1>6, <1>7 DEF Rounds

LEMMA NextRounds ==
  ASSUME ProcessInv, Rounds, [Next]_vars
  PROVE  Rounds'
<1>1. Typed /\ list \in Seq(AllTests) /\ i \in Nat \ {0} /\ n \in Nat
  BY DEF ProcessInv, Typed
<1>2. CASE UNCHANGED vars
  BY <1>1, <1>2, SilentRound DEF vars, Full
<1>3. CASE Next
  <2>1. CASE \E t \in Manual : Register(t)
    <3>1. Full' = Full /\ UNCHANGED <<options, list, i, n, pc, counters>>
      BY <2>1, RegisterProcess
    <3> QED
      BY <1>1, <3>1, SilentRound
  <2>2. CASE \E opts \in CommandLines : Begin(opts)
    BY <2>2, BeginRound
  <2>3. CASE Bodies
    <3>1. Continues
      BY <2>3, BodiesContinue
    <3>2. mem'.runner.buf = mem.runner.buf /\ UNCHANGED <<options, list, i, n, pc, counters, out>>
      BY <3>1, ContinuesKeeps DEF Continues, run
    <3> QED
      BY <1>1, <3>2, SilentRound DEF Full
  <2>4. CASE \E sig \in Signals : Dies(sig)
    <3>1. PICK sig \in Signals : Dies(sig)
      BY <2>4
    <3>2. UNCHANGED <<run, i, counters, out>> /\ mem'.runner = mem.runner
      BY <3>1, DiesProcess
    <3>3. pc' = pc \/ (pc' = "dead" /\ pc = "inside")
      BY <3>1, BodyProcess, InBodyRuns DEF Dies
    <3> QED
      BY <1>1, <3>2, <3>3, SilentRound DEF Full, run
  <2>5. CASE \E code \in ExitCodes : Exits(code)
    <3>1. PICK code \in ExitCodes : Exits(code)
      BY <2>5
    <3>2. UNCHANGED <<run, i, counters>> /\ Full' = Full
      BY <3>1, ExitsProcess DEF Full
    <3>3. pc' = pc \/ (pc' = "dead" /\ pc = "inside")
      BY <3>1, BodyProcess, InBodyRuns DEF Exits
    <3> QED
      BY <1>1, <3>2, <3>3, SilentRound DEF run
  <2>6. CASE \E t \in AllTests : PassOver(t)
    <3>1. /\ Full' = Full /\ i' = i + 1 /\ pc = "loop" /\ i \notin Selected
          /\ UNCHANGED <<options, list, n, pc, counters>>
      BY <2>6, PassOverProcess DEF run
    <3>2. PICK j \in Nat : j = i - 1 /\ j + 1 = i /\ i' - 1 = j + 1
      BY <1>1, <3>1
    <3>3. Nth(Selected, j + 1) = Nth(Selected, j) /\ Nth(Selected, j) \in Nat
      <4>1. IsFiniteSet(Selected) /\ Selected \subseteq Nat \ {0}
        BY <1>1, SelectedFinite DEF Selected
      <4>2. /\ Nth(Selected, j + 1) = Nth(Selected, j) + (IF j + 1 \in Selected THEN 1 ELSE 0)
            /\ Nth(Selected, j) \in Nat
        BY <4>1, NthNext
      <4> QED
        BY <3>1, <3>2, <4>2
    <3>4. Nth(Selected, i' - 1) = Nth(Selected, i - 1)
      BY <3>2, <3>3
    <3>5. PICK q \in Seq(Lines) : q = <<>>
      BY EmptyTyped
    <3>6. Full' = Full \o q /\ \A k \in DOMAIN q : q[k].kind # "point"
      BY <1>1, <3>1, <3>5, Flushed
    <3> QED
      BY <1>1, <3>1, <3>4, <3>6, OtherRound
  <2>7. CASE \E t \in AllTests : RunInside(t) \/ Fork(t) \/ ForkFails(t)
    <3>1. /\ Full' = Full /\ n' = n + 1 /\ pc = "loop" /\ pc' \in {"inside", "waiting"}
          /\ UNCHANGED <<options, list, i, counters>>
      BY <2>7, RunInsideProcess, ForkProcess, ForkFailsProcess
    <3>2. PICK q \in Seq(Lines) : q = <<>>
      BY EmptyTyped
    <3>3. Full' = Full \o q /\ \A k \in DOMAIN q : q[k].kind # "point"
      BY <1>1, <3>1, <3>2, Flushed
    <3>4. Nth(Selected, i' - 1) = Nth(Selected, i - 1)
      BY <3>1, Zenon
    <3> QED
      BY <1>1, <3>1, <3>3, <3>4, OtherRound
  <2>8. CASE ChildReturns
    <3>1. /\ UNCHANGED <<options, list, i, n, pc, counters>> /\ mem'.runner = mem.runner
          /\ mem.runner.buf = <<>> /\ pc = "waiting" /\ mem.child \in Memory
          /\ Told(mem.child, "child", fate) /\ out' = out \o Diagnostics(mem.child)
      BY <2>8, ChildReturnsProcess DEF run
    <3>2. PICK d : d = Diagnostics(mem.child)
      OBVIOUS
    <3>3. d \in Seq(Lines) /\ \A j \in DOMAIN d : d[j].kind # "point"
      BY <3>1, <3>2, DiagnosticsTold
    <3>4. Full' = Full \o d
      <4>1. Full = out /\ Full' = out'
        BY <1>1, <3>1, <3>2, <3>3 DEF Full, Typed
      <4> QED
        BY <3>1, <3>2, <4>1
    <3>5. Nth(Selected, i' - 1) = Nth(Selected, i - 1)
      BY <3>1, Zenon
    <3> QED
      BY <1>1, <3>1, <3>3, <3>4, <3>5, OtherRound
  <2>9. CASE ReportInside
    <3>1. Verdict(Result(mem.runner)) \in Verdicts /\ pc = "inside"
      BY <2>9, VerdictTyped DEF ReportInside
    <3> QED
      BY <2>9, <3>1, ReportInsideProcess, ReportRound
  <2>10. CASE ReportForked
    <3>1. ForkedVerdict(list[i], WaitStatus) \in Verdicts /\ pc = "waiting"
      BY <2>10, VerdictTyped DEF ReportForked
    <3> QED
      BY <2>10, <3>1, ReportForkedProcess, ReportRound
  <2>11. CASE Finish
    <3>1. /\ Full' = Full \o <<Plan(n)>> /\ pc \in {"loop", "plan"} /\ pc' = "exited"
          /\ UNCHANGED <<options, list, i, n, counters>>
      BY <2>11, FinishProcess DEF run
    <3>2. PICK q : q = <<Plan(n)>>
      OBVIOUS
    <3>3. q \in Seq(Lines) /\ \A j \in DOMAIN q : q[j].kind # "point"
      <4>1. NULL \in Tests /\ "ok" \in Verdicts
        BY DEF Tests, Verdicts
      <4>2. Plan(n) \in Lines /\ Plan(n).kind = "plan"
        BY <1>1, <4>1, LinesTyped
      <4> QED
        BY <3>2, <4>2
    <3>4. Nth(Selected, i' - 1) = Nth(Selected, i - 1)
      BY <3>1, Zenon
    <3> QED
      BY <1>1, <3>1, <3>2, <3>3, <3>4, OtherRound
  <2> QED
    BY <1>3, <2>1, <2>2, <2>3, <2>4, <2>5, <2>6, <2>7, <2>8, <2>9, <2>10, <2>11, StepKinds
<1> QED
  BY <1>2, <1>3

LEMMA InitRounds ==
  ASSUME Init
  PROVE  Rounds
<1>1. Full = <<>> /\ pc = "start" /\ counters = NoCounters /\ options = NoOptions
  BY InitProcess DEF Init
<1>2. Points(Full) = {} /\ \A v : PointsWith(Full, v) = {}
  BY <1>1 DEF Points, PointsWith
<1>3. Numbered(Full) /\ Counted(Full)
  <2>1. Cardinality({}) = 0
    BY FS_EmptySet
  <2> QED
    BY <1>1, <1>2, <2>1 DEF Numbered, Counted, NoCounters
<1> QED
  BY <1>1, <1>3 DEF Rounds

-----------------------------------------------------------------------------
(* The end of a run                                                         *)

\* The report and the exit code are made of the counters, once.
Ended ==
  /\ pc # "exited" => xml = NoXml
  /\ xml # NoXml => xml.tests = counters.tests_run /\ xml.failures = counters.tests_failed
  /\ pc = "exited" => mem.runner.buf = <<>>
  /\ Finished => /\ exit_code = (IF counters.tests_failed = 0 THEN 0 ELSE 1)
                 /\ Last(out) = Plan(counters.tests_run)
                 /\ counters.tests_run = Cardinality(Selected) \/ Contains(out, BailOut)

LEMMA FinishEnds ==
  ASSUME ProcessInv, Rounds, Ended, Finish
  PROVE  Ended'
<1>1. /\ ProcessInv' /\ Full' = Full \o <<Plan(n)>> /\ mem'.runner.buf = <<>>
      /\ pc \in {"loop", "plan"} /\ (pc = "loop" => i > Len(list)) /\ pc' = "exited"
      /\ exit_code' = (IF counters.tests_failed = 0 THEN 0 ELSE 1)
      /\ xml' \in {XmlReport, xml} \/ xml' = NoXml
      /\ UNCHANGED <<options, list, n, counters>>
  BY FinishProcess DEF run
<1>2. Typed /\ list \in Seq(AllTests) /\ i \in Nat \ {0} /\ n \in Nat
  BY DEF ProcessInv, Typed
<1>3. ~options.list_only /\ n = counters.tests_run /\ counters.tests_run = Nth(Selected, i - 1)
  BY <1>1 DEF Rounds
<1>4. PICK s \in Seq(Lines) : s = Full
  BY <1>2, FullTyped
<1>5. Plan(n) \in Lines
  <2>1. NULL \in Tests /\ "ok" \in Verdicts
    BY DEF Tests, Verdicts
  <2> QED
    BY <1>2, <2>1, LinesTyped
<1>6. out' = s \o <<Plan(n)>>
  <2>1. out' \in Seq(Lines)
    BY <1>1 DEF ProcessInv, Typed
  <2>2. Full' = out'
    BY <1>1, <2>1 DEF Full
  <2> QED
    BY <1>1, <1>4, <2>2
<1>7. Last(out') = Plan(n)
  <2>1. PICK p \in Lines : p = Plan(n)
    BY <1>5
  <2>2. Len(s \o <<p>>) = Len(s) + 1 /\ (s \o <<p>>)[Len(s) + 1] = p
    OBVIOUS
  <2> QED
    BY <1>6, <2>1, <2>2 DEF Last
<1>8. counters.tests_run = Cardinality(Selected) \/ Contains(out', BailOut)
  <2>1. CASE pc = "loop"
    <3>1. IsFiniteSet(Selected) /\ Selected \subseteq Nat \ {0} /\ Selected \subseteq 1..Len(list)
      BY <1>2, SelectedFinite DEF Selected
    <3>2. PICK j \in Nat : j = i - 1
      BY <1>2
    <3>3. \A k \in Selected : k <= j
      <4>1. i > Len(list)
        BY <1>1, <2>1
      <4>2. Len(list) \in Nat
        BY <1>2, LenProperties
      <4> QED
        BY <1>2, <3>1, <3>2, <4>1, <4>2
    <3>4. Nth(Selected, j) = Cardinality(Selected)
      BY <3>1, <3>3, NthNext
    <3> QED
      BY <1>3, <3>2, <3>4
  <2>2. CASE pc = "plan"
    <3>1. Contains(s, BailOut)
      BY <1>3, <1>4, <2>2 DEF Rounds
    <3>2. PICK j \in 1..Len(s) : s[j] = BailOut
      BY <3>1 DEF Contains
    <3>3. j \in 1..Len(s \o <<Plan(n)>>) /\ (s \o <<Plan(n)>>)[j] = BailOut
      BY <1>5, <3>2
    <3> QED
      BY <1>6, <3>3 DEF Contains
  <2> QED
    BY <1>1, <2>1, <2>2
<1>9. xml = NoXml
  BY <1>1 DEF Ended
<1>10. xml' # NoXml => xml'.tests = counters.tests_run /\ xml'.failures = counters.tests_failed
  BY <1>1, <1>9 DEF XmlReport
<1>11. Selected' = Selected
  BY <1>1 DEF Selected
<1> QED
  BY <1>1, <1>3, <1>7, <1>8, <1>10, <1>11 DEF Ended, Finished

LEMMA NextEnded ==
  ASSUME ProcessInv, Rounds, Ended, [Next]_vars
  PROVE  Ended'
<1>1. ASSUME pc # "exited", pc' # "exited", UNCHANGED xml
      PROVE  Ended'
  BY <1>1 DEF Ended, Finished
<1>2. CASE UNCHANGED vars
  BY <1>2 DEF vars, Ended, Finished, Selected
<1>3. CASE Next
  <2>1. CASE \E t \in Manual : Register(t)
    BY <1>1, <2>1, RegisterProcess DEF ends
  <2>2. CASE \E opts \in CommandLines : Begin(opts)
    <3>1. PICK opts \in CommandLines : Begin(opts)
      BY <2>2
    <3>2. /\ pc = "start" /\ options' = opts /\ UNCHANGED xml
          /\ ~opts.list_only => pc' = "loop"
          /\ opts.list_only => pc' = "exited" /\ mem'.runner.buf = <<>>
      BY <3>1, BeginProcess
    <3>3. xml' = NoXml
      BY <3>2 DEF Ended
    <3> QED
      BY <1>1, <3>2, <3>3 DEF Ended, Finished
  <2>3. CASE Bodies
    <3>1. Continues
      BY <2>3, BodiesContinue
    <3>2. pc \in {"inside", "waiting"} /\ pc' = pc /\ UNCHANGED xml
      BY <3>1, BodyProcess DEF Continues, ends
    <3> QED
      BY <1>1, <3>2
  <2>4. CASE \E sig \in Signals : Dies(sig)
    <3>1. pc \in {"inside", "waiting"} /\ pc' \in {pc, "dead"} /\ UNCHANGED xml
      BY <2>4, BodyProcess, InBodyRuns DEF Dies
    <3> QED
      BY <1>1, <3>1
  <2>5. CASE \E code \in ExitCodes : Exits(code)
    <3>1. pc \in {"inside", "waiting"} /\ pc' \in {pc, "dead"} /\ UNCHANGED xml
      BY <2>5, BodyProcess, InBodyRuns DEF Exits
    <3> QED
      BY <1>1, <3>1
  <2>6. CASE \E t \in AllTests : PassOver(t)
    BY <1>1, <2>6, PassOverProcess DEF ends
  <2>7. CASE \E t \in AllTests : RunInside(t) \/ Fork(t) \/ ForkFails(t)
    BY <1>1, <2>7, RunInsideProcess, ForkProcess, ForkFailsProcess DEF ends
  <2>8. CASE ChildReturns
    BY <1>1, <2>8, ChildReturnsProcess DEF ends
  <2>9. CASE ReportInside
    <3>1. pc = "inside" /\ pc' \in {"loop", "plan"} /\ UNCHANGED xml
      BY <2>9 DEF ReportInside, Report, ends
    <3> QED
      BY <1>1, <3>1
  <2>10. CASE ReportForked
    <3>1. pc = "waiting" /\ pc' \in {"loop", "plan"} /\ UNCHANGED xml
      BY <2>10 DEF ReportForked, Report, ends
    <3> QED
      BY <1>1, <3>1
  <2>11. CASE Finish
    BY <2>11, FinishEnds
  <2> QED
    BY <1>3, <2>1, <2>2, <2>3, <2>4, <2>5, <2>6, <2>7, <2>8, <2>9, <2>10, <2>11, StepKinds
<1> QED
  BY <1>2, <1>3

RunnerInv == ProcessInv /\ Rounds /\ Ended

LEMMA RunnerInvInductive ==
  /\ Init => RunnerInv
  /\ RunnerInv /\ [Next]_vars => RunnerInv'
<1>1. Init => RunnerInv
  <2>1. Init => Ended
    BY DEF Init, Ended, Finished
  <2> QED
    BY <2>1, InitProcess, InitRounds DEF RunnerInv
<1> QED
  BY <1>1, NextProcess, NextRounds, NextEnded DEF RunnerInv

\* tt_run_all (test.h): while the runner is alive its counters are the numbers of points
\* of each kind it has printed; at the end the exit code is 0 only if none says not ok,
\* and the head of the XML report repeats the counters.
THEOREM CountsAlwaysMatch == Spec => []CountsMatch
<1>1. Init => RunnerInv
  BY RunnerInvInductive
<1>2. RunnerInv /\ [Next]_vars => RunnerInv'
  BY RunnerInvInductive
<1>3. RunnerInv => CountsMatch
  <2> SUFFICES ASSUME RunnerInv, pc \notin {"start", "dead"}
               PROVE  /\ counters.tests_passed = Cardinality(PointsWith(Stream, "ok"))
                      /\ counters.tests_failed = Cardinality(PointsWith(Stream, "not ok"))
                      /\ counters.tests_skipped = Cardinality(PointsWith(Stream, "SKIP"))
                      /\ Finished => (exit_code = 0) = (PointsWith(Stream, "not ok") = {})
                      /\ xml # NoXml => xml.tests = Cardinality(Points(out)) /\ xml.failures = counters.tests_failed
    BY DEF CountsMatch
  <2>1. Stream = Full /\ Full \in Seq(Lines) /\ out \in Seq(Lines)
    BY FullTyped DEF Stream, Full, RunnerInv, ProcessInv, Typed
  <2>2. Counted(Full)
    BY DEF RunnerInv, Rounds
  <2>3. Finished => (exit_code = 0) = (PointsWith(Stream, "not ok") = {})
    <3> SUFFICES ASSUME Finished
                 PROVE  (exit_code = 0) = (PointsWith(Stream, "not ok") = {})
      OBVIOUS
    <3>1. exit_code = (IF counters.tests_failed = 0 THEN 0 ELSE 1)
      BY DEF RunnerInv, Ended
    <3>2. IsFiniteSet(PointsWith(Full, "not ok"))
      BY <2>1, PointsFinite
    <3>3. counters.tests_failed = 0 <=> PointsWith(Full, "not ok") = {}
      BY <2>2, <3>2, FS_EmptySet DEF Counted
    <3>4. CASE counters.tests_failed = 0
      <4>1. exit_code = 0 /\ PointsWith(Stream, "not ok") = {}
        BY <2>1, <3>1, <3>3, <3>4
      <4> QED
        BY <4>1, Zenon
    <3>5. CASE counters.tests_failed # 0
      <4>1. exit_code # 0
        BY <3>1, <3>5
      <4>2. PointsWith(Stream, "not ok") # {}
        BY <2>1, <3>3, <3>5, Zenon
      <4> QED
        BY <4>1, <4>2, Zenon
    <3> QED
      BY <3>4, <3>5
  <2>4. xml # NoXml => xml.tests = Cardinality(Points(out)) /\ xml.failures = counters.tests_failed
    <3> SUFFICES ASSUME xml # NoXml
                 PROVE  xml.tests = Cardinality(Points(out)) /\ xml.failures = counters.tests_failed
      OBVIOUS
    <3>1. xml.tests = counters.tests_run /\ xml.failures = counters.tests_failed /\ mem.runner.buf = <<>>
      BY DEF RunnerInv, Ended
    <3>2. out = Full
      BY <2>1, <3>1 DEF Full
    <3> QED
      BY <2>2, <3>1, <3>2 DEF Counted
  <2> QED
    BY <2>1, <2>2, <2>3, <2>4 DEF Counted
<1> QED
  BY <1>1, <1>2, <1>3, PTL DEF Spec

LEMMA StreamNumbered ==
  ASSUME RunnerInv
  PROVE  Numbered(Stream)
<1>1. Numbered(Full) /\ out \in Seq(Lines) /\ mem.runner.buf \in Seq(Lines)
  BY DEF RunnerInv, Rounds, ProcessInv, Typed, Memory
<1>2. CASE pc # "dead"
  BY <1>1, <1>2 DEF Stream, Full
<1>3. CASE pc = "dead"
  <2>1. PICK s \in Seq(Lines), q \in Seq(Lines) : s = out /\ q = mem.runner.buf
    BY <1>1
  <2>2. /\ \A j \in 1..Len(s) : (s \o q)[j] = s[j]
        /\ \A j \in 1..Len(s) : j \in Points(s \o q) <=> j \in Points(s)
        /\ \A j \in 1..Len(s) : Nth(Points(s \o q), j) = Nth(Points(s), j)
    BY PrefixKept
  <2>3. Points(s) \subseteq 1..Len(s)
    BY PointsFinite
  <2>4. Numbered(s \o q)
    BY <1>1, <2>1 DEF Full
  <2>5. Numbered(s)
    <3>1. PICK u : u = s \o q
      OBVIOUS
    <3>2. ASSUME NEW j \in Points(s)
          PROVE  j \in Points(u) /\ u[j] = s[j] /\ Nth(Points(u), j) = Nth(Points(s), j)
      <4>1. j \in 1..Len(s)
        BY <2>3
      <4> QED
        BY <2>2, <3>1, <4>1, Zenon
    <3> QED
      BY <2>4, <3>1, <3>2 DEF Numbered
  <2> QED
    BY <1>3, <2>1, <2>5 DEF Stream
<1> QED
  BY <1>2, <1>3

\* tt_run_all and tt_collect (test.h): whatever is buffered, flushed, forked or lost, the
\* stream has one point for each selected test so far, in file:line order, numbered from 1,
\* and at the end the plan; no test of the section or handed to tt_register
\* is missing while the two arrays have room.
THEOREM ReportAlwaysExact == Spec => []ReportExact
<1>1. Init => RunnerInv
  BY RunnerInvInductive
<1>2. RunnerInv /\ [Next]_vars => RunnerInv'
  BY RunnerInvInductive
<1>3. RunnerInv => ReportExact
  <2> SUFFICES ASSUME RunnerInv, pc # "start", ~options.list_only
               PROVE  LET points == Points(Stream)
                          registered == ToSet(Section) \cup asked
                      IN /\ \A j \in points :
                              /\ Stream[j].num = Nth(points, j)
                              /\ \E k \in Selected : Stream[j].test = list[k] /\ Stream[j].num = Nth(Selected, k)
                         /\ pc # "dead" => Cardinality(points) = counters.tests_run
                         /\ \A j, k \in DOMAIN list : j < k => list[j] < list[k]
                         /\ Cardinality(asked) <= ManualCap /\ Cardinality(registered) <= ListCap =>
                              ToSet(list) = registered
                         /\ Finished => /\ Last(out) = Plan(Cardinality(points))
                                        /\ Cardinality(points) = Cardinality(Selected) \/ Contains(out, BailOut)
    BY DEF ReportExact
  <2>1. Numbered(Stream)
    BY StreamNumbered
  <2>2. pc # "dead" => Cardinality(Points(Stream)) = counters.tests_run
    BY DEF RunnerInv, Rounds, Counted, Stream, Full
  <2>3. /\ \A j, k \in DOMAIN list : j < k => list[j] < list[k]
        /\ Cardinality(asked) <= ManualCap /\ Cardinality(ToSet(Section) \cup asked) <= ListCap =>
             ToSet(list) = ToSet(Section) \cup asked
    <3>1. list = InFileLineOrder(SubSeq(Section \o manual, 1, Min({ListCap, Len(Section \o manual)})))
      BY DEF RunnerInv, ProcessInv, Ordered, Collected
    <3>2. manual \in Seq(Manual) /\ IsInjective(manual)
      BY DEF RunnerInv, ProcessInv, Typed, Ordered, IsInjective
    <3>3. /\ \A j, k \in DOMAIN list : j < k => list[j] < list[k]
          /\ Cardinality(ToSet(Section) \cup ToSet(manual)) <= ListCap =>
               ToSet(list) = ToSet(Section) \cup ToSet(manual)
      BY <3>1, <3>2, CollectedSorted
    <3>4. Cardinality(asked) <= ManualCap => ToSet(manual) = asked
      <4>1. Handed(manual, asked)
        BY DEF RunnerInv, ProcessInv, Ordered
      <4>2. Cardinality(asked) \in Nat /\ ManualCap \in Nat
        BY <4>1, FS_CardinalityType, TestRunnerAssumption DEF Handed
      <4> QED
        BY <4>1, <4>2 DEF Handed
    <3> QED
      BY <3>3, <3>4
  <2>4. Finished => /\ Last(out) = Plan(counters.tests_run) /\ pc # "dead"
                    /\ counters.tests_run = Cardinality(Selected) \/ Contains(out, BailOut)
    BY DEF RunnerInv, Ended, Finished
  <2> QED
    BY <2>1, <2>2, <2>3, <2>4 DEF Numbered
<1> QED
  BY <1>1, <1>2, <1>3, PTL DEF Spec

-----------------------------------------------------------------------------
(* Verdicts                                                                 *)

\* What the runner prints about a test: the skip is looked at before the failure, and the
\* code of an exit is taken for the result.
Shown(f) ==
  CASE f.test \in Deaths  -> IF f.end = "died" /\ f.code = DeathSignal[f.test] THEN "ok" ELSE "not ok"
    [] f.test \notin Deaths /\ f.end = "returned" ->
         IF f.skipped THEN "SKIP" ELSE IF f.failed THEN "not ok" ELSE "ok"
    [] f.test \notin Deaths /\ f.end = "exited" -> Verdict(f.code)
    [] OTHER -> "not ok"

\* That is what is due, but for the two failures that are lost, where it is not.
LEMMA ShownDue ==
  ASSUME NEW f
  PROVE  Shown(f) = Due(f) <=> ~FailureLost(f)
<1>1. CASE f.test \in Deaths
  BY <1>1 DEF Shown, Due, FailureLost
<1>2. CASE f.test \notin Deaths /\ f.end = "returned"
  BY <1>2 DEF Shown, Due, FailureLost
<1>3. CASE f.test \notin Deaths /\ f.end = "exited"
  <2>1. CASE ~f.failed
    BY <1>3, <2>1 DEF Shown, Due, FailureLost
  <2>2. CASE f.failed
    <3>1. Shown(f) = Verdict(f.code) /\ Due(f) = "not ok"
      BY <1>3, <2>2 DEF Shown, Due
    <3>2. FailureLost(f) <=> f.code \in {TT_PASS, TT_SKIP}
      BY <1>3, <2>2 DEF FailureLost
    <3>3. Verdict(f.code) = "not ok" <=> f.code \notin {TT_PASS, TT_SKIP}
      BY DEF Verdict
    <3> QED
      BY <3>1, <3>2, <3>3
  <2> QED
    BY <2>1, <2>2
<1>4. CASE f.test \notin Deaths /\ f.end # "returned" /\ f.end # "exited"
  BY <1>4 DEF Shown, Due, FailureLost
<1> QED
  BY <1>1, <1>2, <1>3, <1>4

\* The last point of a stream is about the test in f, with the verdict the runner gives it.
LastTold(s, f) ==
  \E j \in Points(s) : (\A k \in Points(s) : k <= j) /\ s[j].test = f.test /\ s[j].verdict = Shown(f)

\* The test t is on a stream as failed.
Blamed(s, t) == \E k \in PointsWith(s, "not ok") : s[k].test = t

\* While its parent waits, a failed child has printed why, and is not on the stream yet.
Awaited == pc = "waiting" /\ child.state = "terminated" /\ fate.end = "returned" /\ Earned(fate) = TT_FAIL

Honest ==
  /\ pc \in {"loop", "plan", "exited"} /\ fate.test # NULL => LastTold(Full, fate)
  /\ \A j \in DOMAIN Full : Full[j].kind = "diag" =>
       Blamed(Full, Full[j].test) \/ (Awaited /\ Full[j].test = fate.test)

LEMMA EarnedShown ==
  ASSUME NEW f, f.end = "returned", f.skipped \in BOOLEAN, f.failed \in BOOLEAN
  PROVE  /\ f.test \notin Deaths => Shown(f) = Verdict(Earned(f))
         /\ Earned(f) = TT_FAIL => Shown(f) = "not ok"
<1>1. CASE f.test \in Deaths
  BY <1>1 DEF Shown
<1>2. CASE f.test \notin Deaths
  <2>1. Shown(f) = (IF f.skipped THEN "SKIP" ELSE IF f.failed THEN "not ok" ELSE "ok")
    BY <1>2 DEF Shown
  <2>2. CASE f.skipped
    BY <2>1, <2>2 DEF Earned, Verdict, TT_SKIP, TT_FAIL, TT_PASS
  <2>3. CASE ~f.skipped /\ f.failed
    <3>1. Earned(f) = TT_FAIL /\ Shown(f) = "not ok"
      BY <2>1, <2>3 DEF Earned
    <3>2. Verdict(TT_FAIL) = "not ok"
      BY DEF Verdict, TT_SKIP, TT_FAIL, TT_PASS
    <3> QED
      BY <3>1, <3>2
  <2>4. CASE ~f.skipped /\ ~f.failed
    BY <2>1, <2>4 DEF Earned, Verdict, TT_SKIP, TT_FAIL, TT_PASS
  <2> QED
    BY <1>2, <2>2, <2>3, <2>4
<1> QED
  BY <1>1, <1>2

LEMMA ForkedShown ==
  ASSUME ~ChldIgnored, ProcessInv, pc = "waiting", child.state \in {"terminated", "unforked"}
  PROVE  ForkedVerdict(list[i], WaitStatus) = Shown(fate)
<1>1. WaitStatus = child /\ list[i] = fate.test /\ ChildTold /\ fate \in Fates /\ child \in Children
  BY DEF WaitStatus, ProcessInv, Control, Typed
<1>2. CASE fate.end = "unforked" /\ child.by = "exit" /\ child.code = TT_FAIL
  <2>1. Shown(fate) = "not ok"
    BY <1>2 DEF Shown
  <2>2. ForkedVerdict(fate.test, child) = "not ok"
    BY <1>2 DEF ForkedVerdict, Verdict, TT_FAIL, TT_PASS, TT_SKIP
  <2> QED
    BY <1>1, <2>1, <2>2
<1>3. CASE fate.end = "died" /\ child.by = "signal" /\ child.code = fate.code
  <2>1. CASE fate.test \in Deaths
    BY <1>1, <1>3, <2>1 DEF ForkedVerdict, Shown
  <2>2. CASE fate.test \notin Deaths
    BY <1>1, <1>3, <2>2 DEF ForkedVerdict, Shown
  <2> QED
    BY <2>1, <2>2
<1>4. CASE fate.end = "exited" /\ child.by = "exit" /\ child.code = fate.code
  <2>1. CASE fate.test \in Deaths
    BY <1>1, <1>4, <2>1 DEF ForkedVerdict, Shown
  <2>2. CASE fate.test \notin Deaths
    BY <1>1, <1>4, <2>2 DEF ForkedVerdict, Shown
  <2> QED
    BY <2>1, <2>2
<1>5. CASE fate.end = "returned" /\ child.by = "exit" /\ child.code = Earned(fate)
  <2>1. fate.skipped \in BOOLEAN /\ fate.failed \in BOOLEAN
    BY <1>1 DEF Fates
  <2>2. CASE fate.test \in Deaths
    BY <1>1, <1>5, <2>2 DEF ForkedVerdict, Shown
  <2>3. CASE fate.test \notin Deaths
    <3>1. Shown(fate) = Verdict(Earned(fate))
      BY <1>5, <2>1, <2>3, EarnedShown
    <3>2. ForkedVerdict(fate.test, child) = Verdict(Earned(fate))
      BY <1>5, <2>3 DEF ForkedVerdict
    <3> QED
      BY <1>1, <3>1, <3>2
  <2> QED
    BY <2>2, <2>3
<1> QED
  BY <1>1, <1>2, <1>3, <1>4, <1>5 DEF ChildTold

\* Steps that print nothing.
LEMMA SilentHonest ==
  ASSUME Honest, ~(pc = "waiting" /\ child.state = "terminated"), Full' = Full,
         pc' \in {"loop", "plan", "exited"} /\ fate'.test # NULL =>
           pc \in {"loop", "plan", "exited"} /\ fate' = fate
  PROVE  Honest'
<1>1. PICK s : s = Full
  OBVIOUS
<1>2. \A j \in DOMAIN s : s[j].kind = "diag" => Blamed(s, s[j].test)
  BY <1>1 DEF Honest, Awaited
<1>3. \A j \in DOMAIN s : s[j].kind = "diag" => Blamed(s, s[j].test)'
  BY <1>2 DEF Blamed, PointsWith, Points
<1>4. pc' \in {"loop", "plan", "exited"} /\ fate'.test # NULL => LastTold(s, fate')
  BY <1>1 DEF Honest
<1>5. Full' = s
  BY <1>1
<1> QED
  BY <1>3, <1>4, <1>5 DEF Honest

\* Steps that print something, but no point.
LEMMA QuietHonest ==
  ASSUME Typed, Honest, UNCHANGED fate, NEW q \in Seq(Lines), Full' = Full \o q,
         \A j \in DOMAIN q : q[j].kind # "point", ~(pc = "waiting" /\ child.state = "terminated"),
         \A j \in DOMAIN q : q[j].kind # "diag",
         pc' \in {"loop", "plan", "exited"} => pc \in {"loop", "plan", "exited"}
  PROVE  Honest'
<1>1. PICK s \in Seq(Lines) : s = Full
  BY FullTyped
<1>2. PICK u : u = s \o q
  OBVIOUS
<1>3. Points(u) = Points(s) /\ \A v : PointsWith(u, v) = PointsWith(s, v)
  BY <1>2, QuietGrowth, Zenon
<1>4. /\ \A j \in 1..Len(s) : u[j] = s[j]
      /\ \A j \in DOMAIN u : j \in 1..Len(s) \/ (j - Len(s) \in DOMAIN q /\ u[j] = q[j - Len(s)])
  BY <1>2, PrefixKept
<1>5. Points(s) \subseteq 1..Len(s) /\ \A v : PointsWith(s, v) \subseteq Points(s)
  BY PointsFinite
<1>6. \A f : LastTold(s, f) => LastTold(u, f)
  BY <1>3, <1>4, <1>5 DEF LastTold
<1>7. \A t : Blamed(s, t) => Blamed(u, t)
  BY <1>3, <1>4, <1>5 DEF Blamed
<1>8. \A j \in DOMAIN u : u[j].kind = "diag" => Blamed(u, u[j].test)
  <2> SUFFICES ASSUME NEW j \in DOMAIN u, u[j].kind = "diag"
               PROVE  Blamed(u, u[j].test)
    OBVIOUS
  <2>1. j \in 1..Len(s) /\ u[j] = s[j]
    BY <1>4
  <2>2. Blamed(s, s[j].test)
    BY <1>1, <2>1 DEF Honest, Awaited
  <2> QED
    BY <1>7, <2>1, <2>2
<1>9. pc' \in {"loop", "plan", "exited"} /\ fate'.test # NULL => LastTold(u, fate')
  BY <1>1, <1>6 DEF Honest
<1>10. Full' = u
  BY <1>1, <1>2
<1> QED
  BY <1>8, <1>9, <1>10 DEF Honest

LEMMA ChildReturnsHonest ==
  ASSUME ProcessInv, Honest, ChildReturns
  PROVE  Honest'
<1>1. /\ UNCHANGED pc /\ mem'.runner = mem.runner
      /\ mem.runner.buf = <<>> /\ pc = "waiting" /\ mem.child \in Memory
      /\ Told(mem.child, "child", fate) /\ out' = out \o Diagnostics(mem.child)
      /\ child'.state = "terminated" /\ fate' = [fate EXCEPT !.end = "returned"]
  BY ChildReturnsProcess
<1>2. PICK d \in Seq(Lines) : /\ d = Diagnostics(mem.child)
                              /\ \A j \in DOMAIN d : /\ d[j].kind = "diag" /\ d[j].test = fate.test
                                                     /\ Earned(fate) = TT_FAIL
  BY <1>1, DiagnosticsTold
<1>3. PICK s \in Seq(Lines) : s = Full /\ s = out
  <2>1. out \in Seq(Lines) /\ Typed
    BY DEF ProcessInv, Typed
  <2> QED
    BY <1>1, <2>1 DEF Full
<1>4. PICK u : u = s \o d
  OBVIOUS
<1>5. Full' = u
  <2>1. u \in Seq(Lines)
    BY <1>4
  <2>2. Full' = u \o <<>>
    BY <1>1, <1>2, <1>3, <1>4 DEF Full
  <2> QED
    BY <2>1, <2>2
<1>6. Points(u) = Points(s) /\ \A v : PointsWith(u, v) = PointsWith(s, v)
  <2>1. \A j \in DOMAIN d : d[j].kind # "point"
    BY <1>2
  <2> QED
    BY <1>4, <2>1, QuietGrowth, Zenon
<1>7. /\ \A j \in 1..Len(s) : u[j] = s[j]
      /\ \A j \in DOMAIN u : j \in 1..Len(s) \/ (j - Len(s) \in DOMAIN d /\ u[j] = d[j - Len(s)])
  BY <1>4, PrefixKept
<1>8. \A t : Blamed(s, t) => Blamed(u, t)
  <2>1. Points(s) \subseteq 1..Len(s) /\ \A v : PointsWith(s, v) \subseteq Points(s)
    BY PointsFinite
  <2> QED
    BY <1>6, <1>7, <2>1 DEF Blamed
<1>9. /\ fate'.test = fate.test /\ fate'.end = "returned" /\ Earned(fate') = Earned(fate)
  <2>1. fate \in Fates
    BY DEF ProcessInv, Typed
  <2> QED
    BY <1>1, <2>1 DEF Fates, Earned
<1>10. \A j \in DOMAIN u : u[j].kind = "diag" => Blamed(u, u[j].test) \/ (Awaited' /\ u[j].test = fate'.test)
  <2> SUFFICES ASSUME NEW j \in DOMAIN u, u[j].kind = "diag"
               PROVE  Blamed(u, u[j].test) \/ (Awaited' /\ u[j].test = fate'.test)
    OBVIOUS
  <2>1. CASE j \in 1..Len(s)
    <3>1. ~Awaited
      BY DEF ChildReturns, Awaited
    <3>2. u[j] = s[j]
      BY <1>7, <2>1
    <3>3. Blamed(s, s[j].test)
      BY <1>3, <2>1, <3>1, <3>2 DEF Honest
    <3> QED
      BY <1>8, <3>2, <3>3
  <2>2. CASE j - Len(s) \in DOMAIN d /\ u[j] = d[j - Len(s)]
    <3>1. u[j].test = fate.test /\ Earned(fate) = TT_FAIL
      BY <1>2, <2>2
    <3> QED
      BY <1>1, <1>9, <3>1 DEF Awaited
  <2> QED
    BY <1>7, <2>1, <2>2
<1> QED
  BY <1>1, <1>5, <1>10 DEF Honest

\* The verdict v and the diagnostics d are what the test deserves.
Deserved(v, d) ==
  /\ v = Shown(fate') /\ fate'.test = fate.test
  /\ Awaited => v = "not ok"
  /\ \A j \in DOMAIN d : d[j].kind = "diag" => d[j].test = fate.test /\ v = "not ok"

\* The point of a report is the last one, tells the verdict its test gets, and answers
\* for the diagnostics that were waiting for it.
LEMMA ReportHonest ==
  ASSUME ProcessInv, Rounds, Honest, pc \in {"inside", "waiting"}, NEW v \in Verdicts,
         NEW d, Reports(v, d), Deserved(v, d)
  PROVE  Honest'
<1>1. Grown(Full, Point(n, list[i], v), Full', Len(Full) + 1)
  BY ReportRound, Zenon
<1>2. PICK q \in Seq(Lines) :
        /\ Full' = Full \o (<<Point(n, list[i], v)>> \o q)
        /\ \A j \in DOMAIN q : /\ q[j].kind # "point"
                               /\ q[j].kind = "diag" => j \in DOMAIN d /\ q[j] = d[j]
        /\ \A j \in DOMAIN d : \E k \in DOMAIN q : q[k] = d[j]
        /\ pc' = "plan" => Contains(q, BailOut)
  BY DEF Reports
<1>3. PICK p \in Lines : p = Point(n, list[i], v) /\ p.kind = "point" /\ p.test = fate.test /\ p.verdict = v
  <2>1. i \in DOMAIN list /\ list[i] = fate.test
    BY DEF ProcessInv, Control, Selected
  <2>2. list \in Seq(AllTests) /\ n \in Nat /\ i \in Nat \ {0}
    BY DEF ProcessInv, Typed
  <2>3. list[i] \in Tests
    BY <2>1, <2>2 DEF Tests
  <2>4. PICK p : p = Point(n, list[i], v)
    OBVIOUS
  <2>5. p \in Lines /\ p.kind = "point" /\ p.test = list[i] /\ p.verdict = v
    BY <2>2, <2>3, <2>4, LinesTyped
  <2> QED
    BY <2>1, <2>4, <2>5
<1>4. PICK s \in Seq(Lines) : s = Full
  BY FullTyped DEF ProcessInv
<1>5. PICK u : u = Full'
  OBVIOUS
<1>6. PICK e : e = Len(s) + 1 /\ Grown(s, p, u, e)
  BY <1>1, <1>3, <1>4, <1>5
<1>7. LastTold(u, fate')
  <2>1. e \in Points(u) /\ u[e] = p /\ \A k \in Points(u) : k <= e
    <3>1. Len(s) \in Nat
      BY LenProperties
    <3>2. e \in Nat
      BY <1>6, <3>1
    <3>3. /\ u[e] = p /\ Points(u) = Points(s) \cup {e}
          /\ \A k \in Points(s) : k <= e
      BY <1>6 DEF Grown
    <3> QED
      BY <3>2, <3>3
  <2> QED
    BY <1>3, <2>1 DEF LastTold, Deserved
<1>8. \A t : Blamed(s, t) => Blamed(u, t)
  <2>1. \A w : PointsWith(s, w) \subseteq Points(s)
    BY PointsFinite
  <2> QED
    BY <1>6, <2>1 DEF Blamed, Grown
<1>9. v = "not ok" => Blamed(u, fate.test)
  BY <1>3, <1>6 DEF Blamed, Grown
<1>10. \A j \in DOMAIN u : u[j].kind = "diag" => Blamed(u, u[j].test)
  <2> SUFFICES ASSUME NEW j \in DOMAIN u, u[j].kind = "diag"
               PROVE  Blamed(u, u[j].test)
    OBVIOUS
  <2>1. PICK r : r = <<p>> \o q
    OBVIOUS
  <2>2. PICK c : c = <<p>> /\ c \in Seq(Lines) /\ Len(c) = 1 /\ c[1] = p
    <3>1. <<p>> \in Seq(Lines) /\ Len(<<p>>) = 1 /\ <<p>>[1] = p
      OBVIOUS
    <3> QED
      BY <3>1
  <2>3. r = c \o q /\ r \in Seq(Lines) /\ u = s \o r
    <3>1. r = c \o q /\ u = s \o r
      BY <1>2, <1>3, <1>4, <1>5, <2>1, <2>2, Zenon
    <3>2. c \o q \in Seq(Lines)
      BY <2>2, PrefixKept
    <3> QED
      BY <3>1, <3>2, Zenon
  <2>4. /\ \A k \in 1..Len(s) : u[k] = s[k]
        /\ \A k \in DOMAIN u : k \in 1..Len(s) \/ (k - Len(s) \in DOMAIN r /\ u[k] = r[k - Len(s)])
    BY <2>3, PrefixKept
  <2>6. CASE j \in 1..Len(s)
    <3>1. u[j] = s[j]
      BY <2>4, <2>6
    <3>2. \A k \in DOMAIN s : s[k].kind = "diag" => Blamed(s, s[k].test) \/ (Awaited /\ s[k].test = fate.test)
      BY <1>4, Zenon DEF Honest
    <3>3. j \in DOMAIN s
      BY <2>6, LenProperties
    <3> QED
      BY <1>8, <1>9, <3>1, <3>2, <3>3 DEF Deserved
  <2>7. CASE j - Len(s) \in DOMAIN r /\ u[j] = r[j - Len(s)]
    <3>1. PICK k \in DOMAIN r : u[j] = r[k]
      BY <2>7
    <3>2. k \in 1..Len(c) => r[k] = c[k]
      BY <2>2, <2>3, PrefixKept
    <3>3. k \in 1..Len(c) \/ (k - Len(c) \in DOMAIN q /\ r[k] = q[k - Len(c)])
      BY <2>2, <2>3, PrefixKept
    <3>4. k \notin 1..Len(c)
      <4> SUFFICES ASSUME k \in 1..Len(c)
                   PROVE  FALSE
        OBVIOUS
      <4>1. k = 1
        BY <2>2
      <4> QED
        BY <1>3, <2>2, <3>1, <3>2, <4>1
    <3>5. PICK b \in DOMAIN q : q[b] = u[j]
      BY <3>1, <3>3, <3>4
    <3>6. u[j].test = fate.test /\ v = "not ok"
      <4>1. b \in DOMAIN d /\ u[j] = d[b]
        BY <1>2, <3>5
      <4> QED
        BY <4>1 DEF Deserved
    <3> QED
      BY <1>9, <3>6
  <2> QED
    BY <2>4, <2>6, <2>7
<1>11. Full' = u
  BY <1>5
<1> QED
  BY <1>7, <1>10, <1>11 DEF Honest

LEMMA NextHonest ==
  ASSUME ~ChldIgnored, ProcessInv, Rounds, Honest, [Next]_vars
  PROVE  Honest'
<1>1. Typed /\ fate \in Fates /\ n \in Nat
  BY DEF ProcessInv, Typed
<1>2. CASE UNCHANGED vars
  <2>1. UNCHANGED <<pc, fate, child, out, mem>>
    BY <1>2 DEF vars
  <2>2. Full' = Full
    BY <2>1 DEF Full
  <2> QED
    BY <2>1, <2>2, ZenonT(60) DEF Honest, Awaited, LastTold, Blamed, Points, PointsWith
<1>3. CASE Next
  <2>1. CASE \E t \in Manual : Register(t)
    BY <2>1, RegisterProcess, SilentHonest
  <2>2. CASE \E opts \in CommandLines : Begin(opts)
    <3>1. PICK opts \in CommandLines : Begin(opts)
      BY <2>2
    <3>2. /\ pc = "start" /\ UNCHANGED fate
          /\ ~opts.list_only => Full' = Full
          /\ opts.list_only => \A j \in DOMAIN Full' : Full'[j].kind = "name"
      BY <3>1, BeginProcess
    <3>3. fate'.test = NULL /\ Full = <<>>
      BY <3>2 DEF ProcessInv, Control, NoFate, Full
    <3>4. \A j \in DOMAIN Full' : Full'[j].kind # "diag"
      BY <3>2, <3>3
    <3> QED
      BY <3>3, <3>4 DEF Honest
  <2>3. CASE Bodies
    <3>1. Continues
      BY <2>3, BodiesContinue
    <3>2. mem'.runner.buf = mem.runner.buf /\ UNCHANGED <<pc, out>>
      BY <3>1, ContinuesKeeps DEF Continues
    <3>3. pc \in {"inside", "waiting"} /\ ~(pc = "waiting" /\ child.state = "terminated")
      BY <3>1, BodyProcess DEF Continues
    <3> QED
      BY <3>2, <3>3, SilentHonest DEF Full
  <2>4. CASE \E sig \in Signals : Dies(sig)
    <3>1. PICK sig \in Signals : Dies(sig)
      BY <2>4
    <3>2. out' = out /\ mem'.runner = mem.runner
      BY <3>1, DiesProcess
    <3>3. /\ pc \in {"inside", "waiting"} /\ pc' \in {pc, "dead"}
          /\ ~(pc = "waiting" /\ child.state = "terminated")
      BY <3>1, BodyProcess, InBodyRuns DEF Dies
    <3> QED
      BY <3>2, <3>3, SilentHonest DEF Full
  <2>5. CASE \E code \in ExitCodes : Exits(code)
    <3>1. PICK code \in ExitCodes : Exits(code)
      BY <2>5
    <3>2. Full' = Full
      BY <3>1, ExitsProcess DEF Full
    <3>3. /\ pc \in {"inside", "waiting"} /\ pc' \in {pc, "dead"}
          /\ ~(pc = "waiting" /\ child.state = "terminated")
      BY <3>1, BodyProcess, InBodyRuns DEF Exits
    <3> QED
      BY <3>2, <3>3, SilentHonest
  <2>6. CASE \E t \in AllTests : PassOver(t)
    BY <2>6, PassOverProcess, SilentHonest
  <2>7. CASE \E t \in AllTests : RunInside(t) \/ Fork(t) \/ ForkFails(t)
    <3>1. Full' = Full /\ pc = "loop" /\ pc' \in {"inside", "waiting"}
      BY <2>7, RunInsideProcess, ForkProcess, ForkFailsProcess
    <3> QED
      BY <3>1, SilentHonest
  <2>8. CASE ChildReturns
    BY <2>8, ChildReturnsHonest
  <2>9. CASE ReportInside
    <3>1. /\ Reports(Verdict(Result(mem.runner)), Diagnostics(mem.runner))
          /\ Told(mem.runner, "runner", fate) /\ mem.runner \in Memory
          /\ fate' = [fate EXCEPT !.end = "returned"] /\ pc = "inside"
      BY <2>9, ReportInsideProcess DEF ReportInside
    <3>2. PICK d \in Seq(Lines) : /\ d = Diagnostics(mem.runner)
                                  /\ \A j \in DOMAIN d : d[j].test = fate.test /\ Earned(fate) = TT_FAIL
      BY <3>1, DiagnosticsTold
    <3>3. PICK v \in Verdicts : v = Verdict(Earned(fate)) /\ v = Verdict(Result(mem.runner))
      <4>1. Result(mem.runner) = Earned(fate)
        BY <3>1, DiagnosticsTold
      <4> QED
        BY <4>1, VerdictTyped
    <3>4. /\ fate'.test = fate.test /\ fate'.end = "returned" /\ Earned(fate') = Earned(fate)
          /\ fate'.skipped \in BOOLEAN /\ fate'.failed \in BOOLEAN /\ fate'.test \notin Deaths
      <4>1. fate.test \notin Deaths
        BY <3>1 DEF ProcessInv, Control, Forks
      <4> QED
        BY <1>1, <3>1, <4>1 DEF Fates, Earned
    <3>5. v = Shown(fate')
      BY <3>3, <3>4, EarnedShown
    <3>6. Earned(fate) = TT_FAIL => v = "not ok"
      <4>1. Verdict(TT_FAIL) = "not ok"
        BY DEF Verdict, TT_PASS, TT_FAIL, TT_SKIP
      <4> QED
        BY <3>3, <4>1
    <3>7. Reports(v, d) /\ ~Awaited
      BY <3>1, <3>2, <3>3 DEF Awaited
    <3> QED
      <4>1. Deserved(v, d)
        BY <3>2, <3>4, <3>5, <3>6, <3>7 DEF Deserved
      <4> QED
        BY <3>1, <3>7, <4>1, ReportHonest
  <2>10. CASE ReportForked
    <3>1. /\ Reports(ForkedVerdict(list[i], WaitStatus), <<>>) /\ UNCHANGED fate
          /\ pc = "waiting" /\ child.state \in {"terminated", "unforked"}
      BY <2>10, ReportForkedProcess DEF ReportForked
    <3>2. PICK v \in Verdicts : v = ForkedVerdict(list[i], WaitStatus)
      BY VerdictTyped
    <3>3. v = Shown(fate')
      BY <3>1, <3>2, ForkedShown
    <3>4. Awaited => v = "not ok"
      <4>1. fate.skipped \in BOOLEAN /\ fate.failed \in BOOLEAN
        BY <1>1 DEF Fates
      <4> QED
        BY <3>1, <3>3, <4>1, EarnedShown DEF Awaited
    <3>5. PICK d \in Seq(Lines) : d = <<>>
      BY EmptyTyped
    <3>6. Reports(v, d) /\ fate'.test = fate.test
      BY <3>1, <3>2, <3>5
    <3>7. \A j \in DOMAIN d : d[j].kind = "diag" => d[j].test = fate.test /\ v = "not ok"
      <4>1. DOMAIN d = {}
        BY <3>5
      <4> QED
        BY <4>1
    <3> QED
      <4>1. Deserved(v, d)
        BY <3>3, <3>4, <3>6, <3>7 DEF Deserved
      <4> QED
        BY <3>1, <3>6, <4>1, ReportHonest
  <2>11. CASE Finish
    <3>1. Full' = Full \o <<Plan(n)>> /\ pc \in {"loop", "plan"} /\ pc' = "exited" /\ UNCHANGED fate
      BY <2>11, FinishProcess
    <3>2. PICK q : q = <<Plan(n)>>
      OBVIOUS
    <3>3. q \in Seq(Lines) /\ \A j \in DOMAIN q : q[j].kind # "point" /\ q[j].kind # "diag"
      <4>1. NULL \in Tests /\ "ok" \in Verdicts
        BY DEF Tests, Verdicts
      <4>2. Plan(n) \in Lines /\ Plan(n).kind = "plan"
        BY <1>1, <4>1, LinesTyped
      <4> QED
        BY <3>2, <4>2
    <3>4. Full' = Full \o q
      BY <3>1, <3>2
    <3> QED
      BY <1>1, <3>1, <3>3, <3>4, QuietHonest
  <2> QED
    BY <1>3, <2>1, <2>2, <2>3, <2>4, <2>5, <2>6, <2>7, <2>8, <2>9, <2>10, <2>11, StepKinds
<1> QED
  BY <1>2, <1>3

\* tt_run_one and tt_exec_forked (test.h), when SIGCHLD is not ignored: the verdict printed
\* last is the one that is due for its test, but for a failure behind a skip or behind an
\* exit with the code of a pass or a skip, where it never is, on both sides of the fork, after a landing, after
\* other tests and when the child did not return; diagnostics are those of failed tests.
THEOREM VerdictAlwaysHonest ==
  ASSUME ~ChldIgnored
  PROVE  Spec => []VerdictHonest
<1>1. Init => RunnerInv /\ Honest
  <2>1. Init => Honest
    <3> SUFFICES ASSUME Init
                 PROVE  Honest
      OBVIOUS
    <3>1. Full = <<>> /\ fate.test = NULL
      BY InitProcess DEF Init, NoFate
    <3> QED
      BY <3>1 DEF Honest
  <2> QED
    BY <2>1, RunnerInvInductive
<1>2. RunnerInv /\ Honest /\ [Next]_vars => RunnerInv' /\ Honest'
  BY RunnerInvInductive, NextHonest DEF RunnerInv
<1>3. RunnerInv /\ Honest => VerdictHonest
  <2> SUFFICES ASSUME RunnerInv, Honest, pc \in {"loop", "plan", "exited"}, fate.test # NULL
               PROVE  LET failed == {Stream[j].test : j \in PointsWith(Stream, "not ok")}
                      IN /\ LastPoint.test = fate.test
                         /\ LastPoint.verdict = Due(fate) <=> ~FailureLost(fate)
                         /\ \A j \in DOMAIN Stream : Stream[j].kind = "diag" => Stream[j].test \in failed
    BY DEF VerdictHonest
  <2>1. Stream = Full /\ Full \in Seq(Lines)
    BY FullTyped DEF Stream, Full, RunnerInv, ProcessInv
  <2>2. PICK s \in Seq(Lines) : s = Stream
    BY <2>1
  <2>3. PICK j \in Points(s) : (\A k \in Points(s) : k <= j) /\ s[j].test = fate.test /\ s[j].verdict = Shown(fate)
    BY <2>1, <2>2 DEF Honest, LastTold
  <2>4. Max(Points(s)) = j
    <3>1. Points(s) \subseteq Nat
      BY PointsFinite
    <3>2. PICK m : m = Max(Points(s))
      OBVIOUS
    <3>3. \A k \in Points(s) : j >= k
      BY <2>3, <3>1
    <3>4. m \in Points(s) /\ \A k \in Points(s) : m >= k
      BY <3>2, <3>3, Zenon DEF Max
    <3>5. m \in Nat /\ j \in Nat /\ m >= j /\ m <= j
      BY <2>3, <3>1, <3>4
    <3> QED
      BY <3>2, <3>5
  <2>5. LastPoint = s[j]
    BY <2>2, <2>4 DEF LastPoint
  <2>6. \A k \in DOMAIN s : s[k].kind = "diag" => Blamed(s, s[k].test)
    BY <2>1, <2>2 DEF Honest, Awaited
  <2>7. LastPoint.verdict = Due(fate) <=> ~FailureLost(fate)
    BY <2>3, <2>5, ShownDue
  <2> QED
    BY <2>2, <2>3, <2>5, <2>6, <2>7 DEF Blamed
<1> QED
  BY <1>1, <1>2, <1>3, PTL DEF Spec

=============================================================================

-------------------------- MODULE GenerationProofs --------------------------
(* What a whole check, a regeneration and the repairs of a maintainer leave *)
(* behind: nothing stale, and no repair that had to be repeated.  The       *)
(* proofs follow the running script: the calls that are no longer on it are *)
(* up to date, the outputs the running tool has passed are what it makes,   *)
(* and the lists of sources come last.                                      *)
EXTENDS GeneratedFiles, NaturalTheorems, SequenceTheorems

-----------------------------------------------------------------------------
(* Sequences that are put together.                                        *)

LEMMA ToSetIsRange ==
  ASSUME NEW s
  PROVE  ToSet(s) = Range(s)
BY DEF ToSet, Range

LEMMA Members ==
  ASSUME NEW S, NEW s \in Seq(S)
  PROVE  /\ ToSet(s) = { s[i] : i \in 1 .. Len(s) } /\ ToSet(s) \subseteq S
         /\ s \in Seq(ToSet(s))
<1>1. s \in Seq(Range(s))
  BY SeqOfRange
<1> QED
  BY <1>1, ToSetIsRange DEF ToSet

LEMMA Together ==
  ASSUME NEW S, NEW s \in Seq(S), NEW t \in Seq(S)
  PROVE  s \o t \in Seq(S) /\ ToSet(s \o t) = ToSet(s) \union ToSet(t)
BY ConcatProperties, RangeConcatenation, ToSetIsRange

\* FlattenSeq is defined by recursion; the function that it chooses exists.
Flattened(ss, n) ==
  { f \in [1 .. n -> Seq(UNION { ToSet(ss[i]) : i \in DOMAIN ss })] :
      \A i \in 1 .. n : f[i] = IF i = 1 THEN ss[i] ELSE f[i - 1] \o ss[i] }

LEMMA FlattenedExists ==
  ASSUME NEW S, NEW ss \in Seq(Seq(S)), NEW n \in 1 .. Len(ss)
  PROVE  Flattened(ss, n) # {}
<1> DEFINE Bad == { k \in 1 .. Len(ss) : Flattened(ss, k) = {} }
           All == UNION { ToSet(ss[i]) : i \in DOMAIN ss }
<1>1. \A i \in 1 .. Len(ss) : ss[i] \in Seq(All)
  <2> SUFFICES ASSUME NEW i \in 1 .. Len(ss)
               PROVE  ss[i] \in Seq(All)
    OBVIOUS
  <2>1. ss[i] \in Seq(S) /\ i \in DOMAIN ss
    OBVIOUS
  <2>2. ss[i] \in Seq(ToSet(ss[i])) /\ ToSet(ss[i]) \subseteq All
    BY <2>1, Members
  <2> QED
    BY <2>2, SeqMonotonic
<1> HIDE DEF All
<1>2. Flattened(ss, 1) # {}
  <2> DEFINE f == [ i \in 1 .. 1 |-> ss[i] ]
  <2>1. f \in [1 .. 1 -> Seq(All)] /\ \A i \in 1 .. 1 : f[i] = IF i = 1 THEN ss[i] ELSE f[i - 1] \o ss[i]
    BY <1>1
  <2> HIDE DEF f
  <2>2. f \in Flattened(ss, 1)
    BY <2>1 DEF Flattened, All
  <2> QED
    BY <2>2
<1>3. ASSUME NEW k \in 1 .. Len(ss), k > 1, Flattened(ss, k - 1) # {}
      PROVE  Flattened(ss, k) # {}
  <2>1. PICK h \in Flattened(ss, k - 1) : TRUE
    BY <1>3
  <2>2. /\ h \in [1 .. (k - 1) -> Seq(All)]
        /\ \A i \in 1 .. (k - 1) : h[i] = IF i = 1 THEN ss[i] ELSE h[i - 1] \o ss[i]
    BY DEF Flattened, All
  <2> DEFINE f == [ i \in 1 .. k |-> IF i = k THEN h[k - 1] \o ss[k] ELSE h[i] ]
  <2>3. h[k - 1] \o ss[k] \in Seq(All)
    <3>1. h[k - 1] \in Seq(All) /\ ss[k] \in Seq(All)
      BY <1>1, <1>3, <2>2
    <3> QED
      BY <3>1, ConcatProperties
  <2>4. f \in [1 .. k -> Seq(All)]
    BY <1>3, <2>2, <2>3
  <2>5. k \in Nat /\ k # 1 /\ k - 1 \in 1 .. (k - 1) /\ k - 1 \in 1 .. k /\ k - 1 # k /\ k \in 1 .. k
    BY <1>3
  <2>6. /\ f[k] = h[k - 1] \o ss[k] /\ f[k - 1] = h[k - 1]
        /\ \A i \in 1 .. (k - 1) : f[i] = h[i] /\ (i # 1 => f[i - 1] = h[i - 1])
    <3>1. \A i \in 1 .. (k - 1) : i \in 1 .. k /\ i # k /\ (i # 1 => i - 1 \in 1 .. k /\ i - 1 # k)
      BY <2>5
    <3>2. \A j \in 1 .. k : f[j] = IF j = k THEN h[k - 1] \o ss[k] ELSE h[j]
      BY Zenon
    <3> HIDE DEF f
    <3>3. f[k] = h[k - 1] \o ss[k] /\ f[k - 1] = h[k - 1]
      BY <2>5, <3>2, Zenon
    <3>4. ASSUME NEW i \in 1 .. (k - 1)
          PROVE  f[i] = h[i] /\ (i # 1 => f[i - 1] = h[i - 1])
      BY <3>1, <3>2, Zenon
    <3> QED
      BY <3>3, <3>4
  <2> HIDE DEF f
  <2>7. \A i \in 1 .. k : f[i] = IF i = 1 THEN ss[i] ELSE f[i - 1] \o ss[i]
    <3> SUFFICES ASSUME NEW i \in 1 .. k
                 PROVE  f[i] = IF i = 1 THEN ss[i] ELSE f[i - 1] \o ss[i]
      OBVIOUS
    <3>1. CASE i = k
      BY <3>1, <2>5, <2>6, Zenon
    <3>2. CASE i # k
      <4>1. i \in 1 .. (k - 1)
        BY <3>2, <2>5
      <4> QED
        BY <4>1, <2>2, <2>6, Zenon
    <3> QED
      BY <3>1, <3>2
  <2>8. f \in Flattened(ss, k)
    BY <2>4, <2>7 DEF Flattened, All
  <2> QED
    BY <2>8
<1>4. Bad = {}
  <2> SUFFICES ASSUME Bad # {} PROVE FALSE
    OBVIOUS
  <2>1. PICK k \in Bad : \A l \in Bad : k <= l
    <3>1. Bad \subseteq Nat
      OBVIOUS
    <3> QED
      BY <3>1, LeastNatural
  <2>2. k \in 1 .. Len(ss) /\ Flattened(ss, k) = {} /\ k > 1
    BY <1>2
  <2>3. k - 1 \in 1 .. Len(ss) /\ ~(k <= k - 1)
    BY <2>2
  <2>4. k - 1 \notin Bad
    BY <2>1, <2>3
  <2> QED
    BY <1>3, <2>2, <2>3, <2>4
<1> QED
  BY <1>4

\* FlattenSeq puts the sequences one behind the other, and loses no member.
LEMMA FlattenIs ==
  ASSUME NEW S, NEW ss \in Seq(Seq(S))
  PROVE  /\ FlattenSeq(ss) \in Seq(S)
         /\ ToSet(FlattenSeq(ss)) = UNION { ToSet(ss[i]) : i \in DOMAIN ss }
<1> DEFINE n == Len(ss)
           Flat(h) == h = [ i \in 1 .. n |-> IF i = 1 THEN ss[i] ELSE h[i - 1] \o ss[i] ]
<1>1. CASE n = 0
  <2>1. FlattenSeq(ss) = ss /\ ss = <<>>
    BY <1>1, EmptySeq DEF FlattenSeq
  <2> QED
    BY <2>1 DEF ToSet
<1>2. CASE n # 0
  <2>1. n \in Nat /\ n >= 1 /\ DOMAIN ss = 1 .. n
    BY <1>2
  <2>2. PICK g \in Flattened(ss, n) : TRUE
    BY <2>1, FlattenedExists
  <2>3. Flat(g)
    BY DEF Flattened
  <2>4. PICK f : f = (CHOOSE h : Flat(h))
    OBVIOUS
  <2>5. Flat(f)
    BY <2>3, <2>4, Zenon
  <2>6. FlattenSeq(ss) = f[n]
    BY <1>2, <2>4, Zenon DEF FlattenSeq
  <2> DEFINE Good(k) == f[k] \in Seq(S) /\ ToSet(f[k]) = UNION { ToSet(ss[i]) : i \in 1 .. k }
             Bad == { k \in 1 .. n : ~Good(k) }
  <2>7. f[1] = ss[1] /\ \A k \in 1 .. n : k > 1 => f[k] = f[k - 1] \o ss[k]
    <3>1. 1 \in 1 .. n /\ \A k \in 1 .. n : k > 1 => k # 1
      BY <2>1
    <3> QED
      BY <2>5, <3>1, Zenon
  <2>8. Good(1)
    <3>1. 1 .. 1 = {1} /\ ss[1] \in Seq(S)
      BY <2>1
    <3> QED
      BY <2>7, <3>1
  <2>9. ASSUME NEW k \in 1 .. n, k > 1, Good(k - 1)
        PROVE  Good(k)
    <3>1. f[k] = f[k - 1] \o ss[k] /\ ss[k] \in Seq(S)
      BY <2>1, <2>7, <2>9
    <3>2. f[k] \in Seq(S) /\ ToSet(f[k]) = ToSet(f[k - 1]) \union ToSet(ss[k])
      BY <2>9, <3>1, Together
    <3>3. 1 .. k = (1 .. (k - 1)) \union {k}
      BY <2>9
    <3> QED
      BY <2>9, <3>2, <3>3
  <2> HIDE DEF Good
  <2>10. Bad = {}
    <3> SUFFICES ASSUME Bad # {} PROVE FALSE
      OBVIOUS
    <3>1. PICK k \in Bad : \A l \in Bad : k <= l
      <4>1. Bad \subseteq Nat
        BY <2>1
      <4> QED
        BY <4>1, LeastNatural
    <3>2. k \in 1 .. n /\ ~Good(k)
      OBVIOUS
    <3>3. k > 1
      BY <2>1, <2>8, <3>2
    <3>4. k - 1 \in 1 .. n /\ ~(k <= k - 1)
      BY <2>1, <3>2, <3>3
    <3>5. Good(k - 1)
      BY <3>1, <3>4
    <3> QED
      BY <2>9, <3>2, <3>3, <3>5
  <2>11. Good(n)
    BY <2>1, <2>10
  <2> QED
    BY <2>1, <2>6, <2>11 DEF Good
<1> QED
  BY <1>1, <1>2

\* Of and ForMajors make a member for each unit, or name, and each major.
LEMMA OfIs ==
  ASSUME NEW units, units \in Seq(ToSet(units)), NEW majors, majors \in Seq(ToSet(majors))
  PROVE  /\ Of(units, majors) \in Seq(ToSet(units) \X ToSet(majors))
         /\ ToSet(Of(units, majors)) = ToSet(units) \X ToSet(majors)
<1> DEFINE U == ToSet(units)
           M == ToSet(majors)
           ss == [ i \in DOMAIN majors |-> [ k \in DOMAIN units |-> <<units[k], majors[i]>> ] ]
<1>1. /\ DOMAIN majors = 1 .. Len(majors) /\ DOMAIN units = 1 .. Len(units)
      /\ Len(majors) \in Nat /\ Len(units) \in Nat
  OBVIOUS
<1>2. ASSUME NEW i \in DOMAIN majors
      PROVE  /\ ss[i] \in Seq(U \X M)
             /\ ToSet(ss[i]) = { <<units[k], majors[i]>> : k \in DOMAIN units }
  <2> DEFINE one == [ k \in 1 .. Len(units) |-> <<units[k], majors[i]>> ]
  <2>1. ss[i] = one
    BY <1>1
  <2>2. one \in Seq(U \X M)
    <3>1. \A k \in 1 .. Len(units) : <<units[k], majors[i]>> \in U \X M
      OBVIOUS
    <3> QED
      BY <1>1, <3>1
  <2>3. ToSet(one) = { <<units[k], majors[i]>> : k \in DOMAIN units }
    BY <1>1, Zenon DEF ToSet
  <2> QED
    BY <2>1, <2>2, <2>3
<1>3. ss \in Seq(Seq(U \X M)) /\ DOMAIN ss = DOMAIN majors
  <2> DEFINE s(i) == ss[i]
  <2>1. \A i \in 1 .. Len(majors) : s(i) \in Seq(U \X M)
    BY <1>1, <1>2
  <2>2. ss = [ i \in 1 .. Len(majors) |-> s(i) ]
    BY <1>1, Zenon
  <2> HIDE DEF s
  <2>3. [ i \in 1 .. Len(majors) |-> s(i) ] \in Seq(Seq(U \X M))
    BY <1>1, <2>1
  <2> QED
    BY <2>2, <2>3
<1>4. Of(units, majors) = FlattenSeq(ss)
  BY Zenon DEF Of
<1>5. UNION { ToSet(ss[i]) : i \in DOMAIN ss } = ToSet(units) \X ToSet(majors)
  <2>1. ToSet(units) = { units[k] : k \in DOMAIN units } /\ ToSet(majors) = { majors[i] : i \in DOMAIN majors }
    BY Zenon DEF ToSet
  <2> HIDE DEF ss
  <2>2. ASSUME NEW i \in DOMAIN ss, NEW x \in ToSet(ss[i])
        PROVE  x \in ToSet(units) \X ToSet(majors)
    <3>1. PICK k \in DOMAIN units : x = <<units[k], majors[i]>>
      BY <1>2, <1>3
    <3> QED
      BY <1>3, <2>1, <3>1
  <2>3. ASSUME NEW u \in ToSet(units), NEW m \in ToSet(majors)
        PROVE  \E i \in DOMAIN ss : <<u, m>> \in ToSet(ss[i])
    <3>1. PICK k \in DOMAIN units, i \in DOMAIN majors : u = units[k] /\ m = majors[i]
      BY <2>1
    <3> QED
      BY <1>2, <1>3, <3>1
  <2> QED
    BY <2>2, <2>3
<1> HIDE DEF ss
<1> QED
  BY <1>3, <1>4, <1>5, FlattenIs

CallsOf(names, check) == { Call(n, m, check) : n \in names, m \in Majors }

LEMMA CallsOfAre ==
  ASSUME NEW names, NEW check, NEW c
  PROVE  c \in CallsOf(names, check)
           <=> /\ c.name \in names /\ c.major \in Majors
               /\ c = [ name |-> c.name, major |-> c.major, check |-> check ]
BY DEF CallsOf, Call

LEMMA ForMajorsIs ==
  ASSUME NEW N, NEW names \in Seq(N), NEW check
  PROVE  /\ ForMajors(names, check) \in Seq(CallsOf(N, check))
         /\ ToSet(ForMajors(names, check)) = CallsOf(ToSet(names), check)
<1> DEFINE ss == [ i \in DOMAIN MajorsInOrder |->
                     [ k \in DOMAIN names |-> Call(names[k], MajorsInOrder[i], check) ] ]
           C == { Call(n, m, check) : n \in N, m \in Majors }
<1>1. /\ DOMAIN MajorsInOrder = 1 .. Len(MajorsInOrder) /\ DOMAIN names = 1 .. Len(names)
      /\ Len(MajorsInOrder) \in Nat /\ Len(names) \in Nat
  BY MajorsAssumption
<1>2. Majors = { MajorsInOrder[i] : i \in DOMAIN MajorsInOrder }
  BY DEF Majors, ToSet
<1>3. ASSUME NEW i \in DOMAIN MajorsInOrder
      PROVE  /\ ss[i] \in Seq(C)
             /\ ToSet(ss[i]) = { Call(names[k], MajorsInOrder[i], check) : k \in DOMAIN names }
  <2> DEFINE one == [ k \in 1 .. Len(names) |-> Call(names[k], MajorsInOrder[i], check) ]
  <2>1. ss[i] = one
    BY <1>1
  <2>2. one \in Seq(C)
    <3>1. \A k \in 1 .. Len(names) : Call(names[k], MajorsInOrder[i], check) \in C
      BY <1>2
    <3> HIDE DEF C
    <3> QED
      BY <1>1, <3>1
  <2>3. ToSet(one) = { Call(names[k], MajorsInOrder[i], check) : k \in DOMAIN names }
    BY <1>1, Zenon DEF ToSet
  <2> QED
    BY <2>1, <2>2, <2>3
<1> HIDE DEF C
<1>4. ss \in Seq(Seq(C)) /\ DOMAIN ss = DOMAIN MajorsInOrder
  <2> DEFINE s(i) == ss[i]
  <2>1. \A i \in 1 .. Len(MajorsInOrder) : s(i) \in Seq(C)
    BY <1>1, <1>3
  <2>2. ss = [ i \in 1 .. Len(MajorsInOrder) |-> s(i) ]
    BY <1>1, Zenon
  <2> HIDE DEF s
  <2>3. [ i \in 1 .. Len(MajorsInOrder) |-> s(i) ] \in Seq(Seq(C))
    BY <1>1, <2>1
  <2> QED
    BY <2>2, <2>3
<1>5. ForMajors(names, check) = FlattenSeq(ss)
  BY Zenon DEF ForMajors
<1>6. UNION { ToSet(ss[i]) : i \in DOMAIN ss }
        = { Call(n, m, check) : n \in ToSet(names), m \in Majors }
  <2>1. ToSet(names) = { names[k] : k \in DOMAIN names }
    BY Zenon DEF ToSet
  <2> HIDE DEF ss
  <2>2. ASSUME NEW i \in DOMAIN ss, NEW x \in ToSet(ss[i])
        PROVE  x \in { Call(n, m, check) : n \in ToSet(names), m \in Majors }
    <3>1. PICK k \in DOMAIN names : x = Call(names[k], MajorsInOrder[i], check)
      BY <1>3, <1>4
    <3>2. names[k] \in ToSet(names) /\ MajorsInOrder[i] \in Majors
      BY <1>2, <1>4, <2>1
    <3> QED
      BY <3>1, <3>2
  <2>3. ASSUME NEW n \in ToSet(names), NEW m \in Majors
        PROVE  \E i \in DOMAIN ss : Call(n, m, check) \in ToSet(ss[i])
    <3>1. PICK k \in DOMAIN names, i \in DOMAIN MajorsInOrder : n = names[k] /\ m = MajorsInOrder[i]
      BY <1>2, <2>1
    <3> QED
      BY <1>3, <1>4, <3>1
  <2> QED
    BY <2>2, <2>3
<1> HIDE DEF ss
<1> QED
  <2>1. FlattenSeq(ss) \in Seq(C) /\ ToSet(FlattenSeq(ss)) = UNION { ToSet(ss[i]) : i \in DOMAIN ss }
    BY <1>4, FlattenIs
  <2>2. ForMajors(names, check) \in Seq(C)
    BY <1>5, <2>1
  <2> QED
    BY <1>5, <1>6, <2>1, <2>2 DEF C, CallsOf

-----------------------------------------------------------------------------
(* The calls, and what each writes.                                        *)

Layout == Call("generate_build_layout", 0, TRUE)
Actions == Call("generate_native_actions", 0, TRUE)
OfMajors == CallsOf(PerMajor, TRUE)

\* The call that repairs what a check found.
Twin(call) == [ call EXCEPT !.check = FALSE ]

Made(call) == ToSet(Outputs(call))
IsList(path) == path[1] = "sources"

LEMMA PerMajorIs ==
  PerMajor = {"generate_ada", "generate_owned_ast", "generate_owned_visitors",
              "generate_owned_parser", "generate_owned_equivalence", "generate_types",
              "generate_native_parser", "generate_native_schema"}
BY DEF PerMajor, Units

LEMMA MajorsAre == Majors # {} /\ \A m \in Majors : m \in Nat /\ m \notin {0, 1}
<1>1. MajorsInOrder[1] \in Majors
  BY MajorsAssumption DEF Majors, ToSet
<1>2. Majors \subseteq Nat \ {0, 1}
  BY MajorsAssumption, Members DEF Majors
<1> QED
  BY <1>1, <1>2

\* The calls of a whole check: the lists of sources are checked when only the
\* actions are left.
LEMMA ChecksAre ==
  /\ Checks \in Seq(AllCalls) /\ Checks # <<>>
  /\ AllCalls = OfMajors \union {Layout, Actions}
  /\ \A i, j \in 1 .. Len(Checks) :
       i < j /\ Checks[i].name = "generate_build_layout" => Checks[j].name = "generate_native_actions"
<1> DEFINE names == <<"generate_ada", "generate_owned_ast", "generate_owned_visitors",
                      "generate_owned_parser", "generate_owned_equivalence", "generate_types",
                      "generate_native_parser", "generate_native_schema">>
           pm == ForMajors(names, TRUE)
           end == <<Layout, Actions>>
           All == OfMajors \union {Layout, Actions}
<1>1. names \in Seq(PerMajor) /\ ToSet(names) = PerMajor
  BY PerMajorIs DEF ToSet
<1>2. Checks = pm \o end
  BY Zenon DEF Checks, Layout, Actions
<1> HIDE DEF names
<1>3. pm \in Seq(OfMajors) /\ ToSet(pm) = OfMajors
  <2>1. PICK check : check = TRUE
    OBVIOUS
  <2>2. pm = ForMajors(names, check)
    BY <2>1, Zenon
  <2> HIDE DEF pm
  <2>3. pm \in Seq(CallsOf(PerMajor, check)) /\ ToSet(pm) = CallsOf(PerMajor, check)
    BY <1>1, <2>2, ForMajorsIs
  <2> QED
    BY <2>1, <2>3, Zenon DEF OfMajors
<1> HIDE DEF pm
<1>4. end \in Seq({Layout, Actions}) /\ ToSet(end) = {Layout, Actions}
      /\ Len(end) = 2 /\ end[1] = Layout /\ end[2] = Actions
  BY DEF ToSet
<1> HIDE DEF end
<1>5. pm \in Seq(All) /\ end \in Seq(All)
  BY <1>3, <1>4, SeqMonotonic
<1>6. Checks \in Seq(All) /\ ToSet(Checks) = All
  BY <1>2, <1>3, <1>4, <1>5, Together
<1>7. \A i \in 1 .. Len(pm) : pm[i].name # "generate_build_layout"
  <2>1. \A c \in OfMajors : c.name \in PerMajor
    BY CallsOfAre, Zenon DEF OfMajors
  <2>2. \A i \in 1 .. Len(pm) : pm[i] \in OfMajors
    BY <1>3
  <2> QED
    BY <2>1, <2>2, PerMajorIs
<1>8. ASSUME NEW i \in 1 .. Len(Checks), NEW j \in 1 .. Len(Checks), i < j,
             Checks[i].name = "generate_build_layout"
      PROVE  Checks[j].name = "generate_native_actions"
  <2>1. /\ Len(Checks) = Len(pm) + 2 /\ Len(pm) \in Nat
        /\ \A k \in 1 .. Len(pm) + 2 :
             Checks[k] = IF k <= Len(pm) THEN pm[k] ELSE end[k - Len(pm)]
    <3>1. Len(pm \o end) = Len(pm) + Len(end) /\ Len(pm) \in Nat
      BY <1>5
    <3>2. \A k \in 1 .. Len(pm) + Len(end) :
            (pm \o end)[k] = IF k <= Len(pm) THEN pm[k] ELSE end[k - Len(pm)]
      BY <1>5, ConcatProperties, Zenon
    <3> QED
      BY <1>2, <1>4, <3>1, <3>2
  <2>2. i > Len(pm)
    BY <1>7, <1>8, <2>1
  <2>3. j = Len(pm) + 2 /\ j - Len(pm) = 2
    BY <1>8, <2>1, <2>2
  <2> QED
    BY <1>4, <2>1, <2>3 DEF Actions, Call
<1>9. Checks # <<>>
  BY <1>2, <1>4, <1>5, ConcatProperties, EmptySeq
<1> QED
  BY <1>6, <1>8, <1>9 DEF AllCalls

LEMMA CallsAre ==
  /\ \A c \in AllCalls :
       c.check /\ c = Call(c.name, c.major, TRUE)
       /\ Twin(c) = Call(c.name, c.major, FALSE) /\ ~Misused(Twin(c))
       /\ \/ c.name \in PerMajor /\ c.major \in Majors /\ c \in OfMajors
          \/ c.name = "generate_build_layout" /\ c.major = 0 /\ c = Layout
          \/ c.name = "generate_native_actions" /\ c.major = 0 /\ c = Actions
  /\ \A c, d \in AllCalls : Twin(c) = Twin(d) => c = d
<1>1. ASSUME NEW c \in AllCalls
      PROVE  /\ c.check /\ c = Call(c.name, c.major, TRUE)
             /\ \/ c.name \in PerMajor /\ c.major \in Majors /\ c \in OfMajors
                \/ c.name = "generate_build_layout" /\ c.major = 0 /\ c = Layout
                \/ c.name = "generate_native_actions" /\ c.major = 0 /\ c = Actions
  <2>1. CASE c \in OfMajors
    <3>1. /\ c.name \in PerMajor /\ c.major \in Majors
          /\ c = [ name |-> c.name, major |-> c.major, check |-> TRUE ]
      BY <2>1, CallsOfAre, Zenon DEF OfMajors
    <3>2. c.check
      BY <3>1
    <3> QED
      BY <2>1, <3>1, <3>2, Zenon DEF Call
  <2>2. CASE c = Layout
    BY <2>2 DEF Layout, Call
  <2>3. CASE c = Actions
    BY <2>3 DEF Actions, Call
  <2>4. c \in OfMajors \/ c = Layout \/ c = Actions
    BY ChecksAre
  <2> QED
    BY <2>1, <2>2, <2>3, <2>4
<1>2. ASSUME NEW n, NEW m
      PROVE  Twin(Call(n, m, TRUE)) = Call(n, m, FALSE)
  <2>1. PICK yes, no : yes = TRUE /\ no = FALSE
    OBVIOUS
  <2> DEFINE one == [ name |-> n, major |-> m, check |-> yes ]
  <2>2. [ one EXCEPT !.check = no ] = [ name |-> n, major |-> m, check |-> no ]
    OBVIOUS
  <2>3. one = Call(n, m, TRUE) /\ [ name |-> n, major |-> m, check |-> no ] = Call(n, m, FALSE)
    BY <2>1, Zenon DEF Call
  <2> HIDE DEF one
  <2>4. [ one EXCEPT !.check = no ] = [ one EXCEPT !.check = FALSE ]
    BY <2>1, Zenon
  <2>5. [ one EXCEPT !.check = FALSE ] = Twin(Call(n, m, TRUE))
    BY <2>3, Zenon DEF Twin
  <2> QED
    BY <2>2, <2>3, <2>4, <2>5, Zenon
<1>3. \A n, m : Misused(Call(n, m, FALSE)) => n = "generate_native_actions" /\ m # 0
  BY DEF Misused, Call
<1>4. ASSUME NEW c \in AllCalls
      PROVE  Twin(c) = Call(c.name, c.major, FALSE) /\ ~Misused(Twin(c))
  <2>1. Twin(c) = Call(c.name, c.major, FALSE)
    BY <1>1, <1>2
  <2> QED
    BY <1>1, <1>3, <2>1, PerMajorIs
<1>5. \A n, m, k, l : Call(n, m, FALSE) = Call(k, l, FALSE) => n = k /\ m = l
  BY DEF Call
<1>6. ASSUME NEW c \in AllCalls, NEW d \in AllCalls, Twin(c) = Twin(d)
      PROVE  c = d
  <2>1. c.name = d.name /\ c.major = d.major
    BY <1>4, <1>5, <1>6, Zenon
  <2> QED
    BY <1>1, <2>1, Zenon
<1> QED
  BY <1>1, <1>4, <1>6

LEMMA CallsNamed ==
  ASSUME NEW c \in AllCalls
  PROVE  /\ c.name = "generate_native_actions" <=> c = Actions
         /\ c.name = "generate_build_layout" <=> c = Layout
         /\ c \in OfMajors <=> c.name \in PerMajor
         /\ c.name \in PerMajor \/ c = Actions \/ c = Layout
<1>1. /\ "generate_native_actions" \notin PerMajor /\ "generate_build_layout" \notin PerMajor
      /\ "generate_native_actions" # "generate_build_layout"
  BY PerMajorIs
<1>2. Actions.name = "generate_native_actions" /\ Layout.name = "generate_build_layout"
  BY DEF Actions, Layout, Call
<1>3. \/ c.name \in PerMajor /\ c \in OfMajors
      \/ c.name = "generate_build_layout" /\ c = Layout
      \/ c.name = "generate_native_actions" /\ c = Actions
  BY CallsAre, Zenon
<1>4. c \in OfMajors => c.name \in PerMajor
  BY CallsOfAre, Zenon DEF OfMajors
<1> QED
  BY <1>1, <1>2, <1>3, <1>4, Zenon

\* The tool that writes a path of a kind.
MakerOf(kind) ==
  CASE kind \in {"views", "decoder"} -> "generate_ada"
    [] kind \in {"ast", "ast_ownership", "ast_materialization"} -> "generate_owned_ast"
    [] kind = "visitors" -> "generate_owned_visitors"
    [] kind = "ast_parser" -> "generate_owned_parser"
    [] kind = "testing" -> "generate_owned_equivalence"
    [] kind = "types" -> "generate_types"
    [] kind \in {"generated", "version"} -> "generate_native_parser"
    [] kind = "schema" -> "generate_native_schema"
    [] kind \in {"action_catalog", "action_catalog_chunk", "actions", "actions_support"} ->
         "generate_native_actions"
    [] kind \in {"backend", "all_versions", "sources"} -> "generate_build_layout"
    [] OTHER -> None

LEMMA UnitsAre ==
  ASSUME NEW n \in PerMajor
  PROVE  /\ Units[n] \in Seq(ToSet(Units[n]))
         /\ \A u \in ToSet(Units[n]) : MakerOf(u) = n /\ u # "sources"
<1>1. CASE n = "generate_ada"
  BY <1>1 DEF Units, ToSet, MakerOf
<1>2. CASE n = "generate_owned_ast"
  BY <1>2 DEF Units, ToSet, MakerOf
<1>3. CASE n = "generate_owned_visitors"
  BY <1>3 DEF Units, ToSet, MakerOf
<1>4. CASE n = "generate_owned_parser"
  BY <1>4 DEF Units, ToSet, MakerOf
<1>5. CASE n = "generate_owned_equivalence"
  BY <1>5 DEF Units, ToSet, MakerOf
<1>6. CASE n = "generate_types"
  BY <1>6 DEF Units, ToSet, MakerOf
<1>7. CASE n = "generate_native_parser"
  BY <1>7 DEF Units, ToSet, MakerOf
<1>8. CASE n = "generate_native_schema"
  BY <1>8 DEF Units, ToSet, MakerOf
<1> QED
  BY <1>1, <1>2, <1>3, <1>4, <1>5, <1>6, <1>7, <1>8, PerMajorIs

LEMMA MajorsSeq ==
  /\ MajorsInOrder \in Seq(Majors) /\ ToSet(MajorsInOrder) = Majors
BY MajorsAssumption, Members DEF Majors

\* What a tool of one major writes is of its major and of its kinds.
LEMMA OfMajorOutputs ==
  ASSUME NEW c, c.name \in PerMajor
  PROVE  /\ Outputs(c) \in Seq(Made(c))
         /\ \A p \in Made(c) :
              /\ p = <<p[1], p[2]>> /\ MakerOf(p[1]) = c.name
              /\ p[2] = c.major /\ ~IsList(p)
<1> DEFINE units == Units[c.name]
           major == <<c.major>>
<1>1. units \in Seq(ToSet(units)) /\ \A u \in ToSet(units) : MakerOf(u) = c.name /\ u # "sources"
  BY UnitsAre
<1>2. major \in Seq({c.major}) /\ ToSet(major) = {c.major}
  BY DEF ToSet
<1>3. Outputs(c) = Of(units, major)
  <2>1. c.name # "generate_native_actions" /\ c.name # "generate_build_layout"
    BY PerMajorIs
  <2> QED
    BY <2>1, Zenon DEF Outputs
<1> HIDE DEF units, major
<1>4. Outputs(c) \in Seq(ToSet(units) \X {c.major}) /\ Made(c) = ToSet(units) \X {c.major}
  <2>1. major \in Seq(ToSet(major))
    BY <1>2
  <2>2. /\ Of(units, major) \in Seq(ToSet(units) \X ToSet(major))
        /\ ToSet(Of(units, major)) = ToSet(units) \X ToSet(major)
    BY <1>1, <2>1, OfIs
  <2> QED
    BY <1>2, <1>3, <2>2 DEF Made
<1> QED
  BY <1>1, <1>4 DEF IsList

\* What the compiler of the actions writes.
LEMMA ActionsOutputs ==
  ASSUME NEW c, c.name = "generate_native_actions"
  PROVE  /\ Outputs(c) \in Seq(Made(c))
         /\ \A p \in Made(c) :
              p = <<p[1], p[2]>> /\ MakerOf(p[1]) = c.name /\ ~IsList(p)
<1> DEFINE units == Units["generate_native_actions"]
           catalog == <<<<"action_catalog", 0>>>>
           support == Of(units, MajorsInOrder)
           S == {"action_catalog", "action_catalog_chunk", "actions", "actions_support"} \X Nat
<1>1. units \in Seq({"actions", "actions_support"}) /\ ToSet(units) = {"actions", "actions_support"}
  BY DEF Units, ToSet
<1>2. Outputs(c) = (catalog \o Chunks) \o support
  BY Zenon DEF Outputs
<1> HIDE DEF units
<1>3. support \in Seq({"actions", "actions_support"} \X Majors)
      /\ ToSet(support) = {"actions", "actions_support"} \X Majors
  <2>1. units \in Seq(ToSet(units)) /\ MajorsInOrder \in Seq(ToSet(MajorsInOrder))
    BY <1>1, MajorsSeq
  <2>2. /\ Of(units, MajorsInOrder) \in Seq(ToSet(units) \X ToSet(MajorsInOrder))
        /\ ToSet(Of(units, MajorsInOrder)) = ToSet(units) \X ToSet(MajorsInOrder)
    BY <2>1, OfIs
  <2> QED
    BY <1>1, <2>2, MajorsSeq
<1> HIDE DEF support
<1>4. support \in Seq(S)
  BY <1>3, MajorsAre, SeqMonotonic
<1>5. catalog \in Seq(S)
  OBVIOUS
<1>6. Chunks \in Seq(S)
  BY ChunksAssumption DEF Chunks
<1> HIDE DEF catalog
<1>7. catalog \o Chunks \in Seq(S)
  BY <1>5, <1>6, Together
<1>8. Outputs(c) \in Seq(S) /\ ToSet(support) \subseteq Made(c)
  <2> DEFINE first == catalog \o Chunks
  <2>1. first \in Seq(S)
    BY <1>7
  <2> HIDE DEF first, S
  <2>2. first \o support \in Seq(S) /\ ToSet(first \o support) = ToSet(first) \union ToSet(support)
    BY <1>4, <2>1, Together
  <2> QED
    BY <1>2, <2>2 DEF Made, first
<1>9. Outputs(c) \in Seq(Made(c)) /\ Made(c) \subseteq S
  BY <1>8, Members DEF Made
<1>10. \A p \in S : p = <<p[1], p[2]>> /\ MakerOf(p[1]) = "generate_native_actions" /\ ~IsList(p)
  BY DEF MakerOf, IsList
<1> QED
  BY <1>9, <1>10

\* What the layout tool writes: the lists of sources come last.
LEMMA LayoutOutputs ==
  ASSUME NEW c, c.name = "generate_build_layout"
  PROVE  /\ Outputs(c) \in Seq(Made(c))
         /\ \A p \in Made(c) : p = <<p[1], p[2]>> /\ MakerOf(p[1]) = c.name
         /\ \A i, j \in 1 .. Len(Outputs(c)) :
              i < j /\ IsList(Outputs(c)[i]) => IsList(Outputs(c)[j])
<1> DEFINE units == Units["generate_build_layout"]
           backends == Of(units, MajorsInOrder)
           all == <<<<"all_versions", 0>>>>
           groups == <<Core, Umbrella>>
           sources == <<"sources">>
           F == {"backend", "all_versions"} \X Nat
           L == {"sources"} \X Nat
           S == {"backend", "all_versions", "sources"} \X Nat
<1>1. units \in Seq(ToSet(units)) /\ ToSet(units) = {"backend"}
  BY DEF Units, ToSet
<1>2. Outputs(c) = (backends \o all) \o Lists
  BY Zenon DEF Outputs
<1> HIDE DEF units
<1>3. backends \in Seq(F)
  <2>1. backends \in Seq(ToSet(units) \X ToSet(MajorsInOrder))
    BY <1>1, MajorsSeq, OfIs
  <2> HIDE DEF backends
  <2> QED
    BY <1>1, <2>1, MajorsSeq, MajorsAre, SeqMonotonic
<1>4. all \in Seq(F)
  OBVIOUS
<1>5. Lists \in Seq(L)
  <2> DEFINE majors == groups \o MajorsInOrder
  <2>1. sources \in Seq(ToSet(sources)) /\ ToSet(sources) = {"sources"}
    BY DEF ToSet
  <2>2. groups \in Seq(Nat) /\ MajorsInOrder \in Seq(Nat)
    BY MajorsAssumption DEF Core, Umbrella
  <2>3. majors \in Seq(Nat)
    <3> HIDE DEF groups
    <3> QED
      BY <2>2, ConcatProperties
  <2>4. Lists = Of(sources, majors)
    BY Zenon DEF Lists
  <2> HIDE DEF sources, majors
  <2>5. majors \in Seq(ToSet(majors)) /\ ToSet(majors) \subseteq Nat
    BY <2>3, Members
  <2>6. Lists \in Seq(ToSet(sources) \X ToSet(majors))
    BY <2>1, <2>4, <2>5, OfIs
  <2> QED
    BY <2>1, <2>5, <2>6, SeqMonotonic
<1> HIDE DEF backends, all, groups, sources
<1> DEFINE front == backends \o all
<1>6. front \in Seq(F)
  BY <1>3, <1>4, ConcatProperties
<1> HIDE DEF front
<1>7. \A p \in S : p = <<p[1], p[2]>> /\ MakerOf(p[1]) = "generate_build_layout"
  BY DEF MakerOf
<1>8. (\A p \in F : p \in S /\ ~IsList(p)) /\ (\A p \in L : p \in S /\ IsList(p))
  BY DEF IsList
<1> HIDE DEF F, L, S
<1>9. front \in Seq(S) /\ Lists \in Seq(S)
  BY <1>5, <1>6, <1>8, SeqMonotonic
<1>10. Outputs(c) = front \o Lists
  BY <1>2 DEF front
<1>11. Outputs(c) \in Seq(S)
  BY <1>9, <1>10, ConcatProperties
<1>12. Outputs(c) \in Seq(Made(c)) /\ Made(c) \subseteq S
  BY <1>11, Members DEF Made
<1>13. ASSUME NEW i \in 1 .. Len(Outputs(c)), NEW j \in 1 .. Len(Outputs(c)), i < j,
              IsList(Outputs(c)[i])
       PROVE  IsList(Outputs(c)[j])
  <2>1. /\ Len(front) \in Nat /\ Len(Lists) \in Nat
        /\ Len(Outputs(c)) = Len(front) + Len(Lists)
        /\ \A k \in 1 .. Len(front) + Len(Lists) :
             Outputs(c)[k] = IF k <= Len(front) THEN front[k] ELSE Lists[k - Len(front)]
    BY <1>9, <1>10, ConcatProperties
  <2>2. \A k \in 1 .. Len(front) : ~IsList(front[k])
    BY <1>6, <1>8
  <2>3. \A k \in 1 .. Len(Lists) : IsList(Lists[k])
    BY <1>5, <1>8
  <2>4. i > Len(front)
    BY <1>13, <2>1, <2>2
  <2>5. ~(j <= Len(front)) /\ j - Len(front) \in 1 .. Len(Lists)
    BY <1>13, <2>1, <2>4
  <2> QED
    BY <2>1, <2>3, <2>5
<1> QED
  BY <1>7, <1>12, <1>13

LEMMA OutputsAre ==
  ASSUME NEW c \in AllCalls
  PROVE  /\ Outputs(c) \in Seq(Made(c))
         /\ \A p \in Made(c) : MakerOf(p[1]) = c.name /\ (IsList(p) => c = Layout)
         /\ \A p \in Made(c) : c.name \in PerMajor => p[2] = c.major
<1>1. CASE c.name \in PerMajor
  BY <1>1, OfMajorOutputs
<1>2. CASE c.name = "generate_native_actions"
  BY <1>2, ActionsOutputs, PerMajorIs
<1>3. CASE c.name = "generate_build_layout"
  <2>1. c = Layout
    BY <1>3, CallsNamed, Zenon
  <2> QED
    BY <1>3, <2>1, LayoutOutputs, PerMajorIs
<1> QED
  BY <1>1, <1>2, <1>3, CallsAre

\* No path is written by two tools.
LEMMA OneMaker ==
  ASSUME NEW c \in AllCalls, NEW d \in AllCalls, NEW p, p \in Made(c), p \in Made(d)
  PROVE  c = d
<1>1. c.name = d.name
  BY OutputsAre
<1>2. CASE c.name \in PerMajor
  <2>1. c.major = d.major
    BY <1>1, <1>2, OutputsAre
  <2>2. c = Call(c.name, c.major, TRUE)
    BY CallsAre, Zenon
  <2>3. d = Call(d.name, d.major, TRUE)
    BY CallsAre, Zenon
  <2> QED
    BY <1>1, <2>1, <2>2, <2>3, Zenon
<1>3. CASE c.name \notin PerMajor
  BY <1>1, <1>3, CallsAre, Zenon
<1> QED
  BY <1>2, <1>3

\* A path that a tool removes.
IsStale(c, q) ==
  /\ q \notin Made(c)
  /\ \/ c.name = "generate_native_actions" /\ q[1] \in {"actions_chunk", "action_catalog_chunk"}
     \/ c.name = "generate_owned_parser" /\ q = <<"parse_subunit", c.major>>

LEMMA StaleIs ==
  ASSUME NEW c
  PROVE  stale_generated_paths(c) = { q \in DOMAIN files : IsStale(c, q) }
BY DEF stale_generated_paths, IsStale, Made

LEMMA PathsAre == \A p : p \in Paths <=> \E c \in AllCalls : p \in Made(c)
BY DEF Paths, Made

\* A tool removes nothing that another one writes.
LEMMA StaleIsNoPath ==
  ASSUME NEW c \in AllCalls, NEW q \in Paths
  PROVE  ~IsStale(c, q)
<1>1. PICK d \in AllCalls : q \in Made(d)
  BY PathsAre
<1>2. MakerOf(q[1]) = d.name /\ d.name # None
  <2>1. d.name \in PerMajor \union {"generate_native_actions", "generate_build_layout"}
    BY CallsAre
  <2>2. d.name # None
    BY <2>1, PerMajorIs DEF None
  <2> QED
    BY <1>1, <2>2, OutputsAre
<1>3. CASE q[1] = "action_catalog_chunk"
  <2>1. d.name = "generate_native_actions"
    BY <1>2, <1>3 DEF MakerOf
  <2>2. c.name = "generate_native_actions" => c = d
    BY <2>1, CallsNamed, Zenon
  <2> QED
    BY <1>1, <1>3, <2>2 DEF IsStale
<1>4. q[1] # "actions_chunk" /\ q[1] # "parse_subunit"
  BY <1>2 DEF MakerOf, None
<1>5. CASE q[1] # "action_catalog_chunk"
  BY <1>4, <1>5 DEF IsStale
<1> QED
  BY <1>3, <1>5

\* What no tool writes, some check finds.
LEMMA LeftoversAreStale ==
  ASSUME NEW q \in Leftovers, q \notin Paths
  PROVE  \E c \in AllCalls : IsStale(c, q)
<1>1. \A c \in AllCalls : q \notin Made(c)
  BY PathsAre
<1>2. CASE q[1] \in {"actions_chunk", "action_catalog_chunk"}
  <2>1. Actions \in AllCalls /\ Actions.name = "generate_native_actions"
    BY ChecksAre DEF Actions, Call
  <2> QED
    BY <1>1, <1>2, <2>1 DEF IsStale
<1>3. CASE \E m \in Majors : q = <<"parse_subunit", m>>
  <2>1. PICK m \in Majors : q = <<"parse_subunit", m>>
    BY <1>3
  <2>2. PICK c : c = Call("generate_owned_parser", m, TRUE)
    OBVIOUS
  <2>3. c.name = "generate_owned_parser" /\ c.major = m
    BY <2>2 DEF Call
  <2>4. c \in OfMajors
    <3>1. c = [ name |-> c.name, major |-> c.major, check |-> TRUE ]
      BY <2>2, <2>3, Zenon DEF Call
    <3>2. c.name \in PerMajor
      BY <2>3, PerMajorIs
    <3> QED
      BY <2>3, <3>1, <3>2, CallsOfAre, Zenon DEF OfMajors
  <2> QED
    BY <1>1, <2>1, <2>3, <2>4, ChecksAre DEF IsStale
<1> QED
  BY <1>2, <1>3, LeftoversAssumption

-----------------------------------------------------------------------------
(* What the running generator does to the files.                           *)

\* Two calls of a tool for the same major are about the same files.
LEMMA SameTool ==
  ASSUME NEW c, NEW t, t.name = c.name, t.major = c.major
  PROVE  /\ Outputs(t) = Outputs(c) /\ Read(t) = Read(c)
         /\ stale_generated_paths(t) = stale_generated_paths(c)
         /\ \A p : Expected(t, p) = Expected(c, p)
<1>1. Outputs(t) = Outputs(c)
  <2>1. CASE c.name = "generate_native_actions"
    BY <2>1, Zenon DEF Outputs
  <2>2. CASE c.name = "generate_build_layout" /\ c.name # "generate_native_actions"
    BY <2>2, Zenon DEF Outputs
  <2>3. CASE c.name # "generate_build_layout" /\ c.name # "generate_native_actions"
    BY <2>3, Zenon DEF Outputs
  <2> QED
    BY <2>1, <2>2, <2>3
<1>2. Read(t) = Read(c)
  BY DEF Read
<1>3. stale_generated_paths(t) = stale_generated_paths(c)
  BY <1>1 DEF stale_generated_paths
<1>4. \A p : Expected(t, p) = Expected(c, p)
  BY <1>2, Zenon DEF Expected
<1> QED
  BY <1>1, <1>2, <1>3, <1>4

\* A check and the call that repairs it are about the same files.
LEMMA TwinAgrees ==
  ASSUME NEW c \in AllCalls
  PROVE  /\ Outputs(Twin(c)) = Outputs(c) /\ (Readable(Twin(c)) <=> Readable(c))
         /\ stale_generated_paths(Twin(c)) = stale_generated_paths(c)
         /\ \A p : Expected(Twin(c), p) = Expected(c, p) /\ (Changed(Twin(c), p) <=> Changed(c, p))
<1>1. Twin(c).name = c.name /\ Twin(c).major = c.major
  BY CallsAre DEF Call
<1>2. /\ Outputs(Twin(c)) = Outputs(c) /\ Read(Twin(c)) = Read(c)
      /\ stale_generated_paths(Twin(c)) = stale_generated_paths(c)
      /\ \A p : Expected(Twin(c), p) = Expected(c, p)
  BY <1>1, SameTool, Zenon
<1>3. Readable(Twin(c)) <=> Readable(c)
  BY <1>2, Zenon DEF Readable
<1>4. \A p : Changed(Twin(c), p) <=> Changed(c, p)
  BY <1>2, Zenon DEF Changed
<1> QED
  BY <1>2, <1>3, <1>4

\* What a tool makes of a path changes with what is imported; a list of sources
\* also changes with the files there are.
LEMMA ExpectedStays ==
  ASSUME inputs' = inputs, NEW c, NEW p,
         IsList(p) => source_lists(p[2])' = source_lists(p[2])
  PROVE  Expected(c, p)' = Expected(c, p)
<1>1. CASE IsList(p)
  BY <1>1 DEF Expected, IsList
<1>2. CASE ~IsList(p)
  <2>1. { <<r[1], r[2], inputs'[r[1]][r[2]]>> : r \in Read(c) }
          = { <<r[1], r[2], inputs[r[1]][r[2]]>> : r \in Read(c) }
    BY Zenon
  <2>2. Read(c)' = Read(c)
    BY DEF Read
  <2> QED
    BY <1>2, <2>1, <2>2, Zenon DEF Expected, IsList
<1> QED
  BY <1>1, <1>2

\* A file is written.
WrittenBy(c, p) ==
  /\ inputs' = inputs
  /\ files' = IF Changed(c, p) THEN Put(files, p, Expected(c, p)) ELSE files

LEMMA WrittenFiles ==
  ASSUME NEW c, NEW p, WrittenBy(c, p)
  PROVE  /\ DOMAIN files' = DOMAIN files \union {p}
         /\ files'[p] = Expected(c, p)
         /\ \A q \in DOMAIN files : q # p => files'[q] = files[q]
<1>1. CASE Changed(c, p)
  <2>1. files' = [ q \in DOMAIN files \union {p} |-> IF q = p THEN Expected(c, p) ELSE files[q] ]
    BY <1>1, Zenon DEF WrittenBy, Put
  <2> QED
    BY <2>1
<1>2. CASE ~Changed(c, p)
  <2>1. files' = files
    BY <1>2, Zenon DEF WrittenBy
  <2>2. p \in DOMAIN files /\ files[p] = Expected(c, p)
    BY <1>2 DEF Changed
  <2> QED
    BY <2>1, <2>2
<1> QED
  BY <1>1, <1>2

LEMMA WritingKeeps ==
  ASSUME NEW c \in AllCalls, NEW p \in Made(c), WrittenBy(c, p)
  PROVE  /\ \A d \in AllCalls : stale_generated_paths(d)' = stale_generated_paths(d)
         /\ \A d \in AllCalls : \A q \in Made(d) : ~IsList(q) /\ ~Changed(d, q) => ~Changed(d, q)'
         /\ \A q \in Made(c) : ~Changed(c, q) /\ (IsList(q) => IsList(p)) => ~Changed(c, q)'
         /\ ~Changed(c, p)'
<1>1. /\ DOMAIN files' = DOMAIN files \union {p} /\ files'[p] = Expected(c, p)
      /\ \A q \in DOMAIN files : q # p => files'[q] = files[q]
  BY WrittenFiles
<1>2. p \in Paths
  BY PathsAre
<1>3. inputs' = inputs
  BY DEF WrittenBy
<1>4. ASSUME NEW d \in AllCalls
      PROVE  stale_generated_paths(d)' = stale_generated_paths(d)
  <2>1. stale_generated_paths(d)' = { q \in DOMAIN files' : IsStale(d, q) }
    BY DEF stale_generated_paths, IsStale, Made
  <2> QED
    BY <1>1, <1>2, <2>1, StaleIs, StaleIsNoPath
<1>5. ASSUME IsList(p), NEW g
      PROVE  source_lists(g)' = source_lists(g)
  <2>1. ~InSource(p)
    BY <1>5 DEF IsList, InSource
  <2> QED
    BY <1>1, <2>1 DEF source_lists
<1>6. ASSUME NEW d \in AllCalls, NEW q, q \in Made(d), IsList(q) => IsList(p)
      PROVE  Expected(d, q)' = Expected(d, q)
  BY <1>3, <1>5, <1>6, ExpectedStays
<1>7. ASSUME NEW d \in AllCalls, NEW q, q \in Made(d), IsList(q) => IsList(p), ~Changed(d, q)
      PROVE  ~Changed(d, q)'
  <2>1. q \in DOMAIN files /\ files[q] = Expected(d, q)
    BY <1>7 DEF Changed
  <2>2. Expected(d, q)' = Expected(d, q)
    BY <1>6, <1>7
  <2>3. q = p => d = c
    BY <1>7, OneMaker
  <2>4. q \in DOMAIN files' /\ files'[q] = Expected(d, q)
    BY <1>1, <2>1, <2>3
  <2> QED
    BY <2>2, <2>4 DEF Changed
<1>8. ~Changed(c, p)'
  <2>1. Expected(c, p)' = Expected(c, p)
    BY <1>6
  <2> QED
    BY <1>1, <2>1 DEF Changed
<1> QED
  BY <1>4, <1>7, <1>8

\* A stale file is removed.
RemovedFor(c, p) ==
  /\ inputs' = inputs
  /\ files' = Restrict(files, DOMAIN files \ {p})
  /\ p \in stale_generated_paths(c)

LEMMA RemovingKeeps ==
  ASSUME NEW c \in AllCalls, NEW p, RemovedFor(c, p)
  PROVE  /\ \A d \in AllCalls : stale_generated_paths(d)' = stale_generated_paths(d) \ {p}
         /\ \A d \in AllCalls : \A q \in Made(d) : ~IsList(q) /\ ~Changed(d, q) => ~Changed(d, q)'
<1>1. /\ DOMAIN files' = DOMAIN files \ {p}
      /\ \A q \in DOMAIN files \ {p} : files'[q] = files[q]
  BY DEF RemovedFor, Restrict
<1>2. p \notin Paths
  BY StaleIs, StaleIsNoPath DEF RemovedFor
<1>3. inputs' = inputs
  BY DEF RemovedFor
<1>4. ASSUME NEW d \in AllCalls
      PROVE  stale_generated_paths(d)' = stale_generated_paths(d) \ {p}
  <2>1. stale_generated_paths(d)' = { q \in DOMAIN files' : IsStale(d, q) }
    BY DEF stale_generated_paths, IsStale, Made
  <2> QED
    BY <1>1, <2>1, StaleIs
<1>5. ASSUME NEW d \in AllCalls, NEW q, q \in Made(d), ~IsList(q), ~Changed(d, q)
      PROVE  ~Changed(d, q)'
  <2>1. q \in DOMAIN files /\ files[q] = Expected(d, q)
    BY <1>5 DEF Changed
  <2>2. Expected(d, q)' = Expected(d, q)
    BY <1>3, <1>5, ExpectedStays
  <2>3. q \in Paths
    BY <1>5, PathsAre
  <2> QED
    BY <1>1, <1>2, <2>1, <2>2, <2>3 DEF Changed
<1> QED
  BY <1>4, <1>5

LEMMA TailIs ==
  ASSUME NEW S, NEW s \in Seq(S), s # <<>>
  PROVE  /\ Tail(s) \in Seq(S) /\ Head(s) \in S /\ Head(s) = s[1]
         /\ Len(s) \in Nat /\ Len(s) >= 1 /\ Len(Tail(s)) = Len(s) - 1
         /\ \A i \in 1 .. Len(Tail(s)) : i + 1 \in 1 .. Len(s) /\ Tail(s)[i] = s[i + 1]
         /\ ToSet(s) = {Head(s)} \union ToSet(Tail(s))
         /\ Len(s) = 1 <=> Tail(s) = <<>>
<1>1. /\ Head(s) \in S /\ Tail(s) \in Seq(S) /\ Len(Tail(s)) = Len(s) - 1
      /\ \A i \in 1 .. Len(Tail(s)) : Tail(s)[i] = s[i + 1]
  BY HeadTailProperties
<1>2. Len(s) \in Nat /\ Len(s) >= 1 /\ Head(s) = s[1]
  BY EmptySeq
<1>3. /\ ToSet(s) = { s[i] : i \in 1 .. Len(s) }
      /\ ToSet(Tail(s)) = { Tail(s)[i] : i \in 1 .. Len(Tail(s)) }
  BY <1>1, Members
<1>4. ToSet(s) = {Head(s)} \union ToSet(Tail(s))
  <2>1. ASSUME NEW i \in 1 .. Len(s)
        PROVE  s[i] = Head(s) \/ \E k \in 1 .. Len(Tail(s)) : s[i] = Tail(s)[k]
    <3>1. CASE i = 1
      BY <3>1, <1>2
    <3>2. CASE i # 1
      <4>1. i - 1 \in 1 .. Len(Tail(s)) /\ (i - 1) + 1 = i
        BY <1>1, <1>2, <3>2
      <4> QED
        BY <1>1, <4>1
    <3> QED
      BY <3>1, <3>2
  <2>2. 1 \in 1 .. Len(s) /\ \A k \in 1 .. Len(Tail(s)) : k + 1 \in 1 .. Len(s)
    BY <1>1, <1>2
  <2>3. \A x \in ToSet(s) : x = Head(s) \/ x \in ToSet(Tail(s))
    BY <1>3, <2>1
  <2>4. Head(s) \in ToSet(s)
    BY <1>2, <1>3, <2>2
  <2>5. \A x \in ToSet(Tail(s)) : x \in ToSet(s)
    BY <1>1, <1>3, <2>2
  <2> QED
    BY <2>3, <2>4, <2>5
<1>5. Len(s) = 1 <=> Tail(s) = <<>>
  <2>1. Tail(s) # <<>> => Len(Tail(s)) # 0
    BY <1>1, EmptySeq
  <2>2. Tail(s) = <<>> => Len(Tail(s)) = 0
    <3>1. Len(<<>>) = 0
      OBVIOUS
    <3> QED
      BY <3>1, Zenon
  <2> QED
    BY <1>1, <1>2, <2>1, <2>2
<1> QED
  BY <1>1, <1>2, <1>4, <1>5

\* The generator works for a call: what it has passed is what it makes, what is
\* stale is still to be removed, and the lists of sources come last.
Running(c) ==
  /\ tool.name = "generator" /\ DOMAIN tool = {"name", "call", "drop", "todo"}
  /\ tool.call = Twin(c) /\ tool.drop = stale_generated_paths(c)
  /\ tool.todo \in Seq(Made(c))
  /\ \A p \in Made(c) : p \in ToSet(tool.todo) \/ ~Changed(c, p)
  /\ \A i, j \in 1 .. Len(tool.todo) :
       i < j /\ IsList(tool.todo[i]) => IsList(tool.todo[j])
  /\ \/ \A p \in ToSet(tool.todo) : IsList(p)
     \/ \A p \in Made(c) : IsList(p) => p \in ToSet(tool.todo)

LEMMA StartsRunning ==
  ASSUME NEW c \in AllCalls, inputs' = inputs, files' = files,
         tool' = [ name |-> "generator", call |-> Twin(c),
                   drop |-> stale_generated_paths(Twin(c)), todo |-> Outputs(Twin(c)) ]
  PROVE  Running(c)'
<1>1. /\ tool'.name = "generator" /\ DOMAIN tool' = {"name", "call", "drop", "todo"}
      /\ tool'.call = Twin(c) /\ tool'.drop = stale_generated_paths(Twin(c))
      /\ tool'.todo = Outputs(Twin(c))
  OBVIOUS
<1>2. tool'.drop = stale_generated_paths(c) /\ tool'.todo = Outputs(c)
  BY <1>1, TwinAgrees
<1>3. stale_generated_paths(c)' = stale_generated_paths(c)
  BY DEF stale_generated_paths
<1>4. Outputs(c) \in Seq(Made(c)) /\ ToSet(Outputs(c)) = Made(c)
  BY OutputsAre DEF Made
<1>5. \A i, j \in 1 .. Len(Outputs(c)) :
        i < j /\ IsList(Outputs(c)[i]) => IsList(Outputs(c)[j])
  <2>1. CASE c.name = "generate_build_layout"
    BY <2>1, LayoutOutputs
  <2>2. CASE c.name # "generate_build_layout"
    <3>1. \A p \in Made(c) : ~IsList(p)
      BY <2>2, OutputsAre, CallsNamed
    <3> QED
      BY <1>4, <3>1
  <2> QED
    BY <2>1, <2>2
<1> QED
  BY <1>1, <1>2, <1>3, <1>4, <1>5 DEF Running

LEMMA DropRuns ==
  ASSUME NEW c \in AllCalls, Running(c), Drop
  PROVE  /\ Running(c)' /\ \E p : RemovedFor(c, p)
<1>1. PICK p \in tool.drop : Unlink(p) /\ tool' = [ tool EXCEPT !.drop = @ \ {p} ]
  BY DEF Drop
<1>2. inputs' = inputs
  BY DEF Drop
<1>3. RemovedFor(c, p)
  BY <1>1, <1>2 DEF RemovedFor, Unlink, Running
<1>4. /\ tool'.name = tool.name /\ DOMAIN tool' = DOMAIN tool /\ tool'.call = tool.call
      /\ tool'.drop = tool.drop \ {p} /\ tool'.todo = tool.todo
  BY <1>1 DEF Running
<1>5. stale_generated_paths(c)' = stale_generated_paths(c) \ {p}
  BY <1>3, RemovingKeeps
<1>6. \A q \in Made(c) : ~IsList(q)
  <2>1. c # Layout
    <3>1. p \in stale_generated_paths(c)
      BY <1>3 DEF RemovedFor
    <3>2. c.name = "generate_native_actions" \/ c.name = "generate_owned_parser"
      BY <3>1 DEF stale_generated_paths
    <3>3. c.name # "generate_build_layout"
      BY <3>2
    <3> QED
      BY <3>3, CallsNamed
  <2> QED
    BY <2>1, OutputsAre
<1>7. \A q \in Made(c) : q \in ToSet(tool.todo) \/ ~Changed(c, q)'
  <2>1. \A q \in Made(c) : q \in ToSet(tool.todo) \/ ~Changed(c, q)
    BY DEF Running
  <2>2. \A q \in Made(c) : ~Changed(c, q) => ~Changed(c, q)'
    BY <1>3, <1>6, RemovingKeeps
  <2> QED
    BY <2>1, <2>2
<1>8. Running(c)'
  <2>1. /\ tool'.name = "generator" /\ DOMAIN tool' = {"name", "call", "drop", "todo"}
        /\ tool'.call = Twin(c) /\ tool'.drop = stale_generated_paths(c)'
        /\ tool'.todo \in Seq(Made(c))
        /\ \A i, j \in 1 .. Len(tool'.todo) :
             i < j /\ IsList(tool'.todo[i]) => IsList(tool'.todo[j])
        /\ \/ \A q \in ToSet(tool'.todo) : IsList(q)
           \/ \A q \in Made(c) : IsList(q) => q \in ToSet(tool'.todo)
    BY <1>4, <1>5 DEF Running
  <2> QED
    BY <1>4, <1>7, <2>1 DEF Running
<1> QED
  BY <1>3, <1>8

LEMMA WriteRuns ==
  ASSUME NEW c \in AllCalls, Running(c), Write
  PROVE  /\ Running(c)' /\ \E p \in Made(c) : WrittenBy(c, p)
<1> DEFINE path == Head(tool.todo)
           rest == Tail(tool.todo)
<1>1. /\ tool.todo \in Seq(Made(c)) /\ tool.todo # <<>> /\ inputs' = inputs
      /\ files' = IF Changed(tool.call, path) THEN Put(files, path, Expected(tool.call, path))
                  ELSE files
      /\ tool' = [ tool EXCEPT !.todo = Tail(@) ]
  BY Zenon DEF Write, Running
<1>2. /\ rest \in Seq(Made(c)) /\ path \in Made(c) /\ path = tool.todo[1]
      /\ Len(tool.todo) \in Nat /\ Len(tool.todo) >= 1 /\ Len(rest) = Len(tool.todo) - 1
      /\ \A i \in 1 .. Len(rest) : i + 1 \in 1 .. Len(tool.todo) /\ rest[i] = tool.todo[i + 1]
      /\ ToSet(tool.todo) = {path} \union ToSet(rest)
  BY <1>1, TailIs
<1>3. WrittenBy(c, path)
  <2>1. tool.call = Twin(c)
    BY DEF Running
  <2>2. Expected(tool.call, path) = Expected(c, path) /\ (Changed(tool.call, path) <=> Changed(c, path))
    BY <2>1, TwinAgrees, Zenon
  <2> QED
    BY <1>1, <2>2, Zenon DEF WrittenBy
<1>4. /\ tool'.name = tool.name /\ DOMAIN tool' = DOMAIN tool /\ tool'.call = tool.call
      /\ tool'.drop = tool.drop /\ tool'.todo = rest
  BY <1>1 DEF Running
<1> HIDE DEF path, rest
<1>5. stale_generated_paths(c)' = stale_generated_paths(c)
  BY <1>2, <1>3, WritingKeeps
<1>6. IsList(path) => \A p \in ToSet(rest) : IsList(p)
  <2>1. \A i \in 1 .. Len(rest) : 1 < i + 1 /\ 1 \in 1 .. Len(tool.todo)
    BY <1>2
  <2>2. \A i, j \in 1 .. Len(tool.todo) : i < j /\ IsList(tool.todo[i]) => IsList(tool.todo[j])
    BY DEF Running
  <2>3. IsList(path) => \A i \in 1 .. Len(rest) : IsList(rest[i])
    BY <1>2, <2>1, <2>2
  <2>4. ToSet(rest) = { rest[i] : i \in 1 .. Len(rest) }
    BY <1>2, Members
  <2> QED
    BY <2>3, <2>4
<1>7. \/ \A p \in ToSet(rest) : IsList(p)
      \/ \A p \in Made(c) : IsList(p) => p \in ToSet(rest)
  BY <1>2, <1>6 DEF Running
<1>8. \A q \in Made(c) : q \in ToSet(rest) \/ ~Changed(c, q)'
  <2>1. SUFFICES ASSUME NEW q \in Made(c), q \notin ToSet(rest)
                 PROVE  ~Changed(c, q)'
    OBVIOUS
  <2>2. CASE q = path
    BY <1>2, <1>3, <2>2, WritingKeeps
  <2>3. CASE q # path
    <3>1. q \notin ToSet(tool.todo)
      BY <1>2, <2>1, <2>3
    <3>2. ~Changed(c, q)
      BY <3>1 DEF Running
    <3>3. IsList(q) => IsList(path)
      BY <1>2, <3>1 DEF Running
    <3> QED
      BY <1>2, <1>3, <3>2, <3>3, WritingKeeps
  <2> QED
    BY <2>2, <2>3
<1>9. \A i, j \in 1 .. Len(rest) : i < j /\ IsList(rest[i]) => IsList(rest[j])
  <2>1. \A i, j \in 1 .. Len(rest) : i < j => i + 1 < j + 1
    BY <1>2
  <2>2. \A i, j \in 1 .. Len(tool.todo) : i < j /\ IsList(tool.todo[i]) => IsList(tool.todo[j])
    BY DEF Running
  <2> QED
    BY <1>2, <2>1, <2>2
<1>10. Running(c)'
  <2>1. tool.name = "generator" /\ DOMAIN tool = {"name", "call", "drop", "todo"}
        /\ tool.call = Twin(c) /\ tool.drop = stale_generated_paths(c)
    BY DEF Running
  <2> QED
    BY <1>2, <1>4, <1>5, <1>7, <1>8, <1>9, <2>1 DEF Running
<1> QED
  BY <1>2, <1>3, <1>10

\* A generator that is done has made everything it makes, and removed the rest.
LEMMA DoneIsFresh ==
  ASSUME NEW c \in AllCalls, Running(c), tool.todo = <<>>, tool.drop = {}
  PROVE  Fresh(c)
<1>1. ToSet(tool.todo) = {}
  BY DEF ToSet
<1>2. stale_generated_paths(c) = {} /\ \A p \in Made(c) : ~Changed(c, p)
  BY <1>1 DEF Running
<1> QED
  BY <1>2 DEF Fresh, Made

\* A generator undoes nothing but, maybe, the lists of sources; and it changes
\* nothing when all it makes is there already.
LEMMA GeneratingKeeps ==
  ASSUME NEW c \in AllCalls, Running(c), Drop \/ Write
  PROVE  /\ Running(c)' /\ inputs' = inputs
         /\ \A d \in AllCalls \ {Layout} : Fresh(d) => Fresh(d)'
         /\ Fresh(c) => files' = files
<1>1. CASE Drop
  <2>1. PICK p : RemovedFor(c, p)
    BY <1>1, DropRuns
  <2>2. ASSUME NEW d \in AllCalls \ {Layout}, Fresh(d)
        PROVE  Fresh(d)'
    <3>1. stale_generated_paths(d) = {} /\ \A q \in Made(d) : ~Changed(d, q) /\ ~IsList(q)
      BY <2>2, OutputsAre DEF Fresh, Made
    <3>2. stale_generated_paths(d)' = {} /\ \A q \in Made(d) : ~Changed(d, q)'
      BY <2>1, <3>1, RemovingKeeps
    <3> QED
      BY <3>2 DEF Fresh, Made
  <2>3. ~Fresh(c)
    BY <2>1 DEF RemovedFor, Fresh
  <2> QED
    BY <1>1, <2>1, <2>2, <2>3, DropRuns DEF RemovedFor
<1>2. CASE Write
  <2>1. PICK p \in Made(c) : WrittenBy(c, p)
    BY <1>2, WriteRuns
  <2>2. ASSUME NEW d \in AllCalls \ {Layout}, Fresh(d)
        PROVE  Fresh(d)'
    <3>1. stale_generated_paths(d) = {} /\ \A q \in Made(d) : ~Changed(d, q) /\ ~IsList(q)
      BY <2>2, OutputsAre DEF Fresh, Made
    <3>2. stale_generated_paths(d)' = {} /\ \A q \in Made(d) : ~Changed(d, q)'
      BY <2>1, <3>1, WritingKeeps
    <3> QED
      BY <3>2 DEF Fresh, Made
  <2>3. Fresh(c) => files' = files
    BY <2>1 DEF WrittenBy, Fresh, Made
  <2> QED
    BY <1>2, <2>1, <2>2, <2>3, WriteRuns DEF WrittenBy
<1> QED
  BY <1>1, <1>2

\* What there is stays among what the tools write and what is left over.
LEMMA GeneratedPaths ==
  ASSUME NEW c \in AllCalls, Running(c), Drop \/ Write
  PROVE  DOMAIN files' \subseteq DOMAIN files \union Paths
<1>1. CASE Drop
  <2>1. PICK p : RemovedFor(c, p)
    BY <1>1, DropRuns
  <2> QED
    BY <2>1 DEF RemovedFor, Restrict
<1>2. CASE Write
  <2>1. PICK p \in Made(c) : WrittenBy(c, p)
    BY <1>2, WriteRuns
  <2> QED
    <3>1. p \in Paths
      BY PathsAre
    <3>2. DOMAIN files' = DOMAIN files \union {p}
      BY <2>1, WrittenFiles
    <3> QED
      BY <3>1, <3>2
<1> QED
  BY <1>1, <1>2

LEMMA NothingChanges ==
  ASSUME inputs' = inputs, files' = files, NEW c
  PROVE  (Fresh(c)' <=> Fresh(c)) /\ (Readable(c)' <=> Readable(c))
<1>1. \A p : source_lists(p[2])' = source_lists(p[2])
  BY DEF source_lists
<1>2. \A p : Expected(c, p)' = Expected(c, p)
  BY <1>1, ExpectedStays
<1>3. stale_generated_paths(c)' = stale_generated_paths(c)
  BY DEF stale_generated_paths
<1>4. Read(c)' = Read(c)
  BY DEF Read
<1>5. Readable(c)' <=> Readable(c)
  BY <1>4 DEF Readable
<1> QED
  BY <1>2, <1>3, <1>5 DEF Fresh, Changed

-----------------------------------------------------------------------------
(* The running script.                                                     *)

Generators == { Twin(c) : c \in AllCalls }

\* The README's calls of the compiler of the actions for one major, which fail.
Partial == CallsOf({"generate_native_actions"}, FALSE)

LEMMA PartialIsMisused ==
  ASSUME NEW g \in Partial
  PROVE  Misused(g) /\ g \notin Generators
<1>1. PICK no : no = FALSE
  OBVIOUS
<1>2. g \in CallsOf({"generate_native_actions"}, no)
  BY <1>1, Zenon DEF Partial
<1>3. /\ g.name = "generate_native_actions" /\ g.major \in Majors
      /\ g = [ name |-> g.name, major |-> g.major, check |-> no ]
  BY <1>2, CallsOfAre
<1>4. g.check = no
  BY <1>3
<1>5. g.major # 0
  BY <1>3, MajorsAre
<1>6. Misused(g)
  BY <1>1, <1>3, <1>4, <1>5, Zenon DEF Misused
<1>7. \A c \in AllCalls : ~Misused(Twin(c))
  BY CallsAre
<1> QED
  BY <1>6, <1>7 DEF Generators

LEMMA GeneratorIs ==
  ASSUME NEW c \in AllCalls
  PROVE  /\ ~Misused(Twin(c)) /\ ~Twin(c).check /\ Twin(c) \in Generators
         /\ Twin(c) \notin AllCalls /\ c.check /\ ~Misused(c)
<1>1. \A n, m : ~Call(n, m, FALSE).check
  BY DEF Call
<1>2. Twin(c) = Call(c.name, c.major, FALSE) /\ ~Misused(Twin(c)) /\ c.check
  BY CallsAre
<1>3. ~Twin(c).check
  BY <1>1, <1>2, Zenon
<1>4. \A d \in AllCalls : d.check
  BY CallsAre
<1>5. Twin(c) \notin AllCalls
  BY <1>3, <1>4
<1>6. ~Misused(c)
  BY <1>2 DEF Misused
<1> QED
  BY <1>2, <1>3, <1>5, <1>6 DEF Generators

\* The documented regeneration: the lists of sources come last, and every tool is
\* there or the script fails.
LEMMA DocumentedIs ==
  ASSUME NEW whole \in BOOLEAN
  PROVE  LET s == Documented(whole)
         IN  /\ s \in Seq(Generators \union Partial) /\ s # <<>>
             /\ \A i \in 1 .. Len(s) : s[i] = Twin(Layout) <=> i = Len(s)
             /\ \/ ToSet(s) \intersect Partial # {}
                \/ \A c \in AllCalls : Twin(c) \in ToSet(s)
<1> DEFINE first == <<"generate_ada", "generate_types", "generate_owned_ast",
                      "generate_owned_visitors", "generate_owned_parser",
                      "generate_owned_equivalence", "generate_native_parser">>
           schema == <<"generate_native_schema">>
           actions == <<"generate_native_actions">>
           A == ForMajors(first, FALSE)
           B == IF whole THEN <<Call("generate_native_actions", 0, FALSE)>>
                ELSE ForMajors(actions, FALSE)
           C == ForMajors(schema, FALSE)
           D == <<Call("generate_build_layout", 0, FALSE)>>
           G == Generators \union Partial
           Pre == G \ {Twin(Layout)}
<1>1. Documented(whole) = ((A \o B) \o C) \o D
  BY Zenon DEF Documented
<1>2. /\ first \in Seq(ToSet(first)) /\ schema \in Seq(ToSet(schema))
      /\ actions \in Seq(ToSet(actions))
      /\ ToSet(first) \union ToSet(schema) = PerMajor
      /\ ToSet(actions) = {"generate_native_actions"}
  BY PerMajorIs DEF ToSet
<1> HIDE DEF first, schema, actions
<1>3. PICK no : no = FALSE
  OBVIOUS
<1>4. /\ A \in Seq(CallsOf(ToSet(first), no)) /\ ToSet(A) = CallsOf(ToSet(first), no)
      /\ C \in Seq(CallsOf(ToSet(schema), no)) /\ ToSet(C) = CallsOf(ToSet(schema), no)
      /\ ForMajors(actions, no) \in Seq(CallsOf(ToSet(actions), no))
      /\ ToSet(ForMajors(actions, no)) = CallsOf(ToSet(actions), no)
  <2>1. A = ForMajors(first, no) /\ C = ForMajors(schema, no)
    BY <1>3, Zenon
  <2> HIDE DEF A, C
  <2> QED
    BY <1>2, <2>1, ForMajorsIs
<1>5. \A n \in PerMajor, m \in Majors :
        Call(n, m, FALSE) \in Pre /\ \E c \in OfMajors : Call(n, m, FALSE) = Twin(c)
  <2> SUFFICES ASSUME NEW n \in PerMajor, NEW m \in Majors
               PROVE  Call(n, m, FALSE) \in Pre /\ \E c \in OfMajors : Call(n, m, FALSE) = Twin(c)
    OBVIOUS
  <2>1. PICK c : c = Call(n, m, TRUE)
    OBVIOUS
  <2>2. c.name = n /\ c.major = m
    BY <2>1 DEF Call
  <2>3. c \in OfMajors
    <3>1. c = [ name |-> c.name, major |-> c.major, check |-> TRUE ]
      BY <2>1, <2>2, Zenon DEF Call
    <3> QED
      BY <2>2, <3>1, CallsOfAre, Zenon DEF OfMajors
  <2>4. c \in AllCalls /\ Layout \in AllCalls
    BY <2>3, ChecksAre
  <2>5. Twin(c) = Call(n, m, FALSE)
    BY <2>2, <2>4, CallsAre, Zenon
  <2>6. c # Layout
    BY <2>2, <2>4, CallsNamed, PerMajorIs
  <2>7. Twin(c) # Twin(Layout)
    BY <2>4, <2>6, CallsAre
  <2> QED
    BY <2>3, <2>4, <2>5, <2>7 DEF Generators
<1>6. \A c \in OfMajors : Twin(c) = Call(c.name, c.major, FALSE) /\ c.name \in PerMajor /\ c.major \in Majors
  BY ChecksAre, CallsAre, CallsOfAre, Zenon DEF OfMajors
<1>7. /\ Layout \in AllCalls /\ Actions \in AllCalls
      /\ Twin(Layout) = Call("generate_build_layout", 0, FALSE)
      /\ Twin(Actions) = Call("generate_native_actions", 0, FALSE)
      /\ Twin(Layout) # Twin(Actions)
  <2>1. Layout \in AllCalls /\ Actions \in AllCalls
    BY ChecksAre
  <2>2. /\ Layout.name = "generate_build_layout" /\ Layout.major = 0
        /\ Actions.name = "generate_native_actions" /\ Actions.major = 0
    BY DEF Layout, Actions, Call
  <2>3. Layout # Actions
    BY <2>2
  <2> QED
    BY <2>1, <2>2, <2>3, CallsAre, Zenon
<1>8. Partial = CallsOf(ToSet(actions), no)
  BY <1>2, <1>3, Zenon DEF Partial
<1>9. Partial \subseteq Pre
  BY <1>7, PartialIsMisused DEF Generators
<1>10. ASSUME NEW N, N \subseteq PerMajor
       PROVE  CallsOf(N, no) \subseteq Pre
  <2> SUFFICES ASSUME NEW g \in CallsOf(N, no)
               PROVE  g \in Pre
    OBVIOUS
  <2>1. g.name \in N /\ g.major \in Majors /\ g = [ name |-> g.name, major |-> g.major, check |-> no ]
    BY CallsOfAre
  <2>2. g = Call(g.name, g.major, FALSE)
    BY <1>3, <2>1, Zenon DEF Call
  <2> QED
    BY <1>5, <1>10, <2>1, <2>2
<1>11. /\ CallsOf(ToSet(first), no) \subseteq Pre /\ CallsOf(ToSet(schema), no) \subseteq Pre
  BY <1>2, <1>10
<1> HIDE DEF A, C, Pre
<1>12. A \in Seq(Pre) /\ C \in Seq(Pre)
  BY <1>4, <1>11, SeqMonotonic
<1>13. /\ B \in Seq(Pre)
       /\ ToSet(B) \intersect Partial # {} \/ Twin(Actions) \in ToSet(B)
  <2>1. CASE whole
    <3>1. B = <<Twin(Actions)>>
      BY <1>7, <2>1, Zenon
    <3>2. Twin(Actions) \in Pre
      BY <1>7 DEF Pre, Generators
    <3>3. <<Twin(Actions)>> \in Seq(Pre) /\ Twin(Actions) \in ToSet(<<Twin(Actions)>>)
      BY <3>2 DEF ToSet
    <3> QED
      BY <3>1, <3>3
  <2>2. CASE ~whole
    <3>1. B = ForMajors(actions, no)
      BY <1>3, <2>2, Zenon
    <3> HIDE DEF B
    <3>2. B \in Seq(Partial) /\ ToSet(B) = Partial
      BY <1>4, <1>8, <3>1
    <3>3. Partial # {}
      <4>1. PICK m \in Majors : TRUE
        BY MajorsAre
      <4>2. PICK g : g = [ name |-> "generate_native_actions", major |-> m, check |-> no ]
        OBVIOUS
      <4>3. g.name = "generate_native_actions" /\ g.major = m
        BY <4>2
      <4>4. g.name \in ToSet(actions) /\ g = [ name |-> g.name, major |-> g.major, check |-> no ]
        BY <1>2, <4>2, <4>3
      <4>5. g \in CallsOf(ToSet(actions), no)
        BY <4>3, <4>4, CallsOfAre
      <4> QED
        BY <1>8, <4>5
    <3>4. B \in Seq(Pre)
      BY <1>9, <3>2, SeqMonotonic
    <3> QED
      BY <3>2, <3>3, <3>4
  <2> QED
    BY <2>1, <2>2
<1>14. D = <<Twin(Layout)>>
  BY <1>7, Zenon
<1> HIDE DEF B, D
<1> DEFINE pre == (A \o B) \o C
<1>15. pre \in Seq(Pre) /\ ToSet(pre) = (ToSet(A) \union ToSet(B)) \union ToSet(C)
  <2>1. A \o B \in Seq(Pre) /\ ToSet(A \o B) = ToSet(A) \union ToSet(B)
    BY <1>12, <1>13, Together
  <2> DEFINE ab == A \o B
  <2> HIDE DEF ab
  <2>2. ab \in Seq(Pre) /\ ToSet(ab) = ToSet(A) \union ToSet(B)
    BY <2>1 DEF ab
  <2>3. ab \o C \in Seq(Pre) /\ ToSet(ab \o C) = ToSet(ab) \union ToSet(C)
    BY <1>12, <2>2, Together
  <2> QED
    BY <2>2, <2>3 DEF ab
<1> HIDE DEF pre
<1> DEFINE s == Documented(whole)
<1>16. s = pre \o D
  BY <1>1 DEF pre
<1> HIDE DEF s
<1>17. Twin(Layout) \in G /\ Pre \subseteq G /\ Twin(Layout) \notin Pre
  BY <1>7 DEF Pre, Generators
<1> HIDE DEF G
<1>18. /\ D \in Seq(G) /\ Len(D) = 1 /\ D[1] = Twin(Layout) /\ ToSet(D) = {Twin(Layout)}
  BY <1>14, <1>17 DEF ToSet
<1>19. pre \in Seq(G)
  BY <1>15, <1>17, SeqMonotonic
<1>20. /\ s \in Seq(G) /\ ToSet(s) = ToSet(pre) \union {Twin(Layout)}
       /\ Len(pre) \in Nat /\ Len(s) = Len(pre) + 1
       /\ \A i \in 1 .. Len(pre) + 1 : s[i] = IF i <= Len(pre) THEN pre[i] ELSE D[i - Len(pre)]
  <2>1. s \in Seq(G) /\ ToSet(s) = ToSet(pre) \union ToSet(D)
    BY <1>16, <1>18, <1>19, Together
  <2>2. Len(pre) \in Nat
    BY <1>19
  <2>3. Len(s) = Len(pre) + Len(D)
        /\ \A i \in 1 .. Len(pre) + Len(D) : s[i] = IF i <= Len(pre) THEN pre[i] ELSE D[i - Len(pre)]
    BY <1>16, <1>18, <1>19, ConcatProperties
  <2> QED
    BY <1>18, <2>1, <2>2, <2>3
<1>21. ASSUME NEW i \in 1 .. Len(s)
       PROVE  s[i] = Twin(Layout) <=> i = Len(s)
  <2>1. CASE i <= Len(pre)
    <3>1. s[i] = pre[i] /\ i # Len(s) /\ i \in 1 .. Len(pre)
      BY <1>20, <2>1
    <3>2. s[i] \in Pre
      BY <1>15, <3>1
    <3> QED
      BY <1>17, <3>1, <3>2
  <2>2. CASE ~(i <= Len(pre))
    <3>1. i = Len(s) /\ i - Len(pre) = 1
      BY <1>20, <2>2
    <3> QED
      BY <1>18, <1>20, <2>2, <3>1
  <2> QED
    BY <2>1, <2>2
<1>22. \/ ToSet(s) \intersect Partial # {}
       \/ \A c \in AllCalls : Twin(c) \in ToSet(s)
  <2>1. CASE ToSet(B) \intersect Partial # {}
    BY <2>1, <1>15, <1>20
  <2>2. CASE Twin(Actions) \in ToSet(B)
    <3>1. ASSUME NEW c \in OfMajors
          PROVE  Twin(c) \in ToSet(A) \union ToSet(C)
      <4>1. /\ Twin(c) = Call(c.name, c.major, FALSE) /\ c.major \in Majors
            /\ c.name \in ToSet(first) \union ToSet(schema)
        BY <1>2, <1>6
      <4>2. PICK g : g = [ name |-> c.name, major |-> c.major, check |-> no ]
        OBVIOUS
      <4>3. g = Twin(c)
        BY <1>3, <4>1, <4>2, Zenon DEF Call
      <4>4. g.name = c.name /\ g.major = c.major /\ g = [ name |-> g.name, major |-> g.major, check |-> no ]
        BY <4>2
      <4>5. g \in CallsOf(ToSet(first), no) \/ g \in CallsOf(ToSet(schema), no)
        BY <4>1, <4>4, CallsOfAre
      <4> QED
        BY <1>4, <4>3, <4>5
    <3> QED
      BY <1>15, <1>20, <2>2, <3>1, ChecksAre
  <2> QED
    BY <1>13, <2>1, <2>2
<1>23. s # <<>>
  BY <1>20, EmptySeq
<1> QED
  BY <1>20, <1>21, <1>22, <1>23 DEF s, G

-----------------------------------------------------------------------------
(* The invariant of the scripts.                                           *)

\* The script of a repair, until its tool is done.
RepairOf(c) ==
  /\ script \in Seq(Generators \union AllCalls) /\ script # <<>>
  /\ Head(script) = Twin(c) /\ Tail(script) = Checks /\ Readable(c)

\* The checks go on: nothing is changed, and what is no longer to be checked is
\* up to date.
ChecksGoOn ==
  /\ tool = Idle /\ script \in Seq(AllCalls) /\ script # <<>>
  /\ \A i, j \in 1 .. Len(script) :
       i < j /\ script[i].name = "generate_build_layout" => script[j].name = "generate_native_actions"
  /\ \A c \in AllCalls \ ToSet(script) : Fresh(c)

\* A regeneration that goes on to its end brings every tool up to date that it
\* has finished, and the lists of sources with its last call.
RegenerationGoesOn ==
  /\ script \in Seq(Generators \union Partial) /\ script # <<>>
  /\ \A i \in 1 .. Len(script) : script[i] = Twin(Layout) <=> i = Len(script)
  /\ \/ ToSet(script) \intersect Partial # {}
     \/ \A c \in AllCalls : Twin(c) \in ToSet(script) \/ Fresh(c)

ScriptInv ==
  /\ status.is \in {"checking", "regenerating"} \/ script = <<>>
  /\ status.is = "checking" => ChecksGoOn \/ \E c \in AllCalls : RepairOf(c)
  /\ status.is = "regenerating" => RegenerationGoesOn

ToolInv ==
  \/ tool = Idle
  \/ script # <<>> /\ \E c \in AllCalls : Running(c) /\ Head(script) = Twin(c)
  \/ /\ tool.name \in {"import_upstream", "import_catalog"} /\ status.is = "importing"
     /\ DOMAIN tool = {"name", "major", "release", "postgres", "record", "drop", "todo"}

FilesInv == DOMAIN files \subseteq Paths \union Leftovers

\* A check that failed could read its inputs; when it is of the lists of sources,
\* the tools of the majors are up to date.
StaleInv ==
  status.is = "stale" =>
    /\ status.call \in AllCalls /\ ~Fresh(status.call) /\ Readable(status.call)
    /\ status.call = Layout => \A c \in OfMajors : Fresh(c)

CurrentInv == ScriptInv /\ ToolInv /\ FilesInv /\ StaleInv /\ CheckedIsCurrent

LEMMA AllFreshIsCurrent ==
  ASSUME FilesInv, \A c \in AllCalls : Fresh(c)
  PROVE  Current
<1>1. \A c \in AllCalls : /\ stale_generated_paths(c) = {}
                          /\ \A p \in Made(c) : p \in DOMAIN files /\ files[p] = Expected(c, p)
  BY DEF Fresh, Changed, Made
<1>2. ASSUME NEW q \in DOMAIN files
      PROVE  q \in Paths
  <2>1. q \in Leftovers /\ q \notin Paths => \E c \in AllCalls : q \in stale_generated_paths(c)
    BY LeftoversAreStale, StaleIs
  <2> QED
    BY <1>1, <2>1 DEF FilesInv
<1>3. \A p \in Paths : p \in DOMAIN files
  BY <1>1, PathsAre
<1>4. DOMAIN files = Paths
  BY <1>2, <1>3
<1> QED
  BY <1>1, <1>4 DEF Current, Made

LEMMA CurrentStays ==
  ASSUME CurrentInv, UNCHANGED <<inputs, files, tool, script, status>>
  PROVE  CurrentInv'
<1>1. \A c : (Fresh(c)' <=> Fresh(c)) /\ (Readable(c)' <=> Readable(c))
  BY NothingChanges
<1>2. ScriptInv'
  BY <1>1 DEF CurrentInv, ScriptInv, ChecksGoOn, RepairOf, RegenerationGoesOn
<1>3. ToolInv'
  <2>1. ASSUME NEW c \in AllCalls, Running(c)
        PROVE  Running(c)'
    <3>1. \A p : Changed(c, p)' <=> Changed(c, p)
      <4>1. \A p : Expected(c, p)' = Expected(c, p)
        <5>1. \A p : source_lists(p[2])' = source_lists(p[2])
          BY DEF source_lists
        <5> QED
          BY <5>1, ExpectedStays
      <4> QED
        BY <4>1 DEF Changed
    <3>2. stale_generated_paths(c)' = stale_generated_paths(c)
      BY DEF stale_generated_paths
    <3> QED
      BY <2>1, <3>1, <3>2 DEF Running
  <2> QED
    BY <2>1 DEF CurrentInv, ToolInv
<1>4. FilesInv' /\ StaleInv'
  BY <1>1 DEF CurrentInv, FilesInv, StaleInv
<1>5. Current => Current'
  <2>1. \A c, p : Expected(c, p)' = Expected(c, p)
    <3>1. \A p : source_lists(p[2])' = source_lists(p[2])
      BY DEF source_lists
    <3> QED
      BY <3>1, ExpectedStays
  <2> QED
    BY <2>1 DEF Current
<1>6. CheckedIsCurrent'
  BY <1>5 DEF CurrentInv, CheckedIsCurrent
<1> QED
  BY <1>2, <1>3, <1>4, <1>6 DEF CurrentInv

\* A session that ends, or does something else, promises nothing.
LEMMA PromisesNothing ==
  ASSUME status'.is \notin {"checking", "regenerating", "stale", "checked", "regenerated"},
         script' = <<>>, FilesInv',
         \/ tool' = Idle
         \/ /\ tool'.name \in {"import_upstream", "import_catalog"} /\ status'.is = "importing"
            /\ DOMAIN tool' = {"name", "major", "release", "postgres", "record", "drop", "todo"}
  PROVE  CurrentInv'
<1>1. ScriptInv' /\ ToolInv'
  BY DEF ScriptInv, ToolInv
<1>2. StaleInv' /\ CheckedIsCurrent'
  BY DEF StaleInv, CheckedIsCurrent
<1> QED
  BY <1>1, <1>2 DEF CurrentInv

LEMMA StartCheckStep ==
  ASSUME CurrentInv, StartCheck
  PROVE  CurrentInv'
<1>1. /\ script' = Checks /\ status'.is = "checking" /\ tool' = tool /\ tool = Idle
      /\ files' = files
  BY DEF StartCheck, Resting, Now
<1>2. ChecksGoOn'
  <2>1. AllCalls \ ToSet(Checks) = {}
    BY DEF AllCalls
  <2> QED
    BY <1>1, <2>1, ChecksAre DEF ChecksGoOn
<1>3. ScriptInv'
  BY <1>1, <1>2 DEF ScriptInv
<1>4. ToolInv' /\ FilesInv' /\ StaleInv' /\ CheckedIsCurrent'
  BY <1>1 DEF CurrentInv, ToolInv, FilesInv, StaleInv, CheckedIsCurrent
<1> QED
  BY <1>3, <1>4 DEF CurrentInv

LEMMA StartRegenerationStep ==
  ASSUME CurrentInv, NEW whole \in BOOLEAN, StartRegeneration(whole)
  PROVE  CurrentInv'
<1>1. /\ script' = Documented(whole) /\ status'.is = "regenerating" /\ tool' = tool /\ tool = Idle
      /\ files' = files
  BY DEF StartRegeneration, Resting, Now
<1>2. RegenerationGoesOn'
  <2>1. PICK s : s = Documented(whole)
    OBVIOUS
  <2>2. /\ s \in Seq(Generators \union Partial) /\ s # <<>>
        /\ \A i \in 1 .. Len(s) : s[i] = Twin(Layout) <=> i = Len(s)
        /\ \/ ToSet(s) \intersect Partial # {}
           \/ \A c \in AllCalls : Twin(c) \in ToSet(s)
    BY <2>1, DocumentedIs
  <2> QED
    BY <1>1, <2>1, <2>2 DEF RegenerationGoesOn
<1>3. ScriptInv'
  BY <1>1, <1>2 DEF ScriptInv
<1>4. ToolInv' /\ FilesInv' /\ StaleInv' /\ CheckedIsCurrent'
  BY <1>1 DEF CurrentInv, ToolInv, FilesInv, StaleInv, CheckedIsCurrent
<1> QED
  BY <1>3, <1>4 DEF CurrentInv

LEMMA RepairStep ==
  ASSUME CurrentInv, Repair
  PROVE  /\ CurrentInv' /\ inputs' = inputs /\ files' = files /\ tool = Idle /\ tool' = Idle
         /\ status'.is = "checking"
         /\ \E c \in AllCalls :
              /\ RepairOf(c)' /\ repaired' = Append(repaired, c) /\ ~Fresh(c)
              /\ c = Layout => \A d \in OfMajors : Fresh(d)
<1>1. /\ status.call \in AllCalls /\ Readable(status.call) /\ ~Fresh(status.call)
      /\ status.call = Layout => \A c \in OfMajors : Fresh(c)
  BY DEF CurrentInv, StaleInv, Repair
<1>2. PICK c : c = status.call
  OBVIOUS
<1>3. /\ script' = <<Twin(c)>> \o Checks /\ status'.is = "checking" /\ tool' = Idle /\ tool = Idle
      /\ inputs' = inputs /\ files' = files
  BY <1>2 DEF Repair, Resting, Now, Twin
<1>4. repaired' = Append(repaired, c)
  BY <1>2 DEF Repair
<1>5. RepairOf(c)'
  <2>1. Twin(c) \in Generators \union AllCalls
    BY <1>1, <1>2 DEF Generators
  <2>2. Checks \in Seq(Generators \union AllCalls)
    BY ChecksAre, SeqMonotonic
  <2>3. PICK s : s = <<Twin(c)>> \o Checks
    OBVIOUS
  <2>4. s \in Seq(Generators \union AllCalls) /\ s # <<>> /\ Head(s) = Twin(c) /\ Tail(s) = Checks
    <3> DEFINE t == Twin(c)
               S == Generators \union AllCalls
    <3>1. t \in S /\ Checks \in Seq(S) /\ s = <<t>> \o Checks
      BY <2>1, <2>2, <2>3
    <3> HIDE DEF t, S
    <3>2. s \in Seq(S) /\ s # <<>> /\ Head(s) = t /\ Tail(s) = Checks
      BY <3>1
    <3> QED
      BY <3>2 DEF t, S
  <2>5. Readable(c)'
    BY <1>1, <1>2, <1>3, NothingChanges
  <2> QED
    BY <1>3, <2>3, <2>4, <2>5 DEF RepairOf
<1>6. ScriptInv'
  BY <1>1, <1>2, <1>3, <1>5 DEF ScriptInv
<1>7. ToolInv' /\ FilesInv' /\ StaleInv' /\ CheckedIsCurrent'
  BY <1>3 DEF CurrentInv, ToolInv, FilesInv, StaleInv, CheckedIsCurrent
<1>8. CurrentInv'
  BY <1>6, <1>7 DEF CurrentInv
<1> QED
  BY <1>1, <1>2, <1>3, <1>4, <1>5, <1>8
LEMMA CurrentIsSame ==
  ASSUME inputs' = inputs, files' = files
  PROVE  Current' <=> Current
<1>1. \A p : source_lists(p[2])' = source_lists(p[2])
  BY DEF source_lists
<1>2. \A c, p : Expected(c, p)' = Expected(c, p)
  BY <1>1, ExpectedStays
<1> QED
  BY <1>2 DEF Current

\* What an invocation does: it fails, its check passes or fails, or its tool
\* starts to write.
LEMMA InvokeIs ==
  ASSUME Invoke
  PROVE  /\ tool = Idle /\ script # <<>> /\ inputs' = inputs /\ files' = files
         /\ repaired' = repaired
         /\ \/ /\ Misused(Head(script)) \/ ~Readable(Head(script))
               /\ tool' = Idle /\ script' = <<>> /\ status'.is \in {"usage", "unreadable"}
            \/ Head(script).check /\ Fresh(Head(script)) /\ Pass
            \/ /\ Head(script).check /\ ~Fresh(Head(script)) /\ Readable(Head(script))
               /\ tool' = Idle /\ script' = <<>>
               /\ status' = [ is |-> "stale", call |-> Head(script) ]
            \/ /\ ~Head(script).check /\ ~Misused(Head(script))
               /\ tool' = [ name |-> "generator", call |-> Head(script),
                            drop |-> stale_generated_paths(Head(script)),
                            todo |-> Outputs(Head(script)) ]
               /\ script' = script /\ status' = status
<1> DEFINE call == Head(script)
<1>1. /\ tool = Idle /\ script # <<>> /\ inputs' = inputs /\ files' = files
      /\ repaired' = repaired
  BY DEF Invoke
<1>2. CASE Misused(call)
  <2>1. Fail(Now("usage"))
    BY <1>2, Zenon DEF Invoke
  <2> QED
    BY <1>1, <1>2, <2>1 DEF Fail, Now
<1>3. CASE ~Misused(call) /\ ~Readable(call)
  <2>1. Fail(Now("unreadable"))
    BY <1>3 DEF Invoke
  <2> QED
    BY <1>1, <1>3, <2>1 DEF Fail, Now
<1>4. CASE ~Misused(call) /\ Readable(call) /\ call.check
  <2>1. IF Fresh(call) THEN Pass ELSE Fail([ is |-> "stale", call |-> call ])
    BY <1>4 DEF Invoke
  <2> QED
    BY <1>1, <1>4, <2>1 DEF Fail
<1>5. CASE ~Misused(call) /\ Readable(call) /\ ~call.check
  <2>1. /\ tool' = [ name |-> "generator", call |-> call,
                     drop |-> stale_generated_paths(call), todo |-> Outputs(call) ]
        /\ script' = script /\ status' = status
    BY <1>5 DEF Invoke
  <2> QED
    BY <1>1, <1>5, <2>1
<1> QED
  BY <1>2, <1>3, <1>4, <1>5

LEMMA CheckPasses ==
  ASSUME CurrentInv, status.is = "checking", ChecksGoOn, Fresh(Head(script)), Pass,
         inputs' = inputs, files' = files
  PROVE  CurrentInv' /\ (script' = <<>> => \A c \in AllCalls : Fresh(c))
<1> DEFINE rest == Tail(script)
<1>1. /\ script \in Seq(AllCalls) /\ script # <<>> /\ tool = Idle
      /\ \A i, j \in 1 .. Len(script) : i < j /\ script[i].name = "generate_build_layout"
                                          => script[j].name = "generate_native_actions"
      /\ \A c \in AllCalls \ ToSet(script) : Fresh(c)
  BY DEF ChecksGoOn
<1>2. /\ rest \in Seq(AllCalls) /\ Head(script) \in AllCalls
      /\ Len(script) \in Nat /\ Len(script) >= 1 /\ Len(rest) = Len(script) - 1
      /\ \A i \in 1 .. Len(rest) : i + 1 \in 1 .. Len(script) /\ rest[i] = script[i + 1]
      /\ ToSet(script) = {Head(script)} \union ToSet(rest)
      /\ Len(script) = 1 <=> rest = <<>>
  BY <1>1, TailIs
<1>3. /\ script' = rest /\ tool' = Idle
      /\ status' = IF Len(script) > 1 THEN status ELSE Now("checked")
  BY DEF Pass
<1> HIDE DEF rest
<1>4. \A c \in AllCalls \ ToSet(rest) : Fresh(c)
  BY <1>1, <1>2
<1>5. \A c : Fresh(c)' <=> Fresh(c)
  BY NothingChanges
<1>6. FilesInv' /\ ToolInv'
  BY <1>3 DEF CurrentInv, FilesInv, ToolInv
<1>7. CASE Len(script) > 1
  <2>1. script' \in Seq(AllCalls) /\ script' # <<>> /\ status' = status
    BY <1>2, <1>3, <1>7
  <2>2. \A i, j \in 1 .. Len(rest) : i < j /\ rest[i].name = "generate_build_layout"
                                       => rest[j].name = "generate_native_actions"
    <3> SUFFICES ASSUME NEW i \in 1 .. Len(rest), NEW j \in 1 .. Len(rest), i < j,
                        rest[i].name = "generate_build_layout"
                 PROVE  rest[j].name = "generate_native_actions"
      OBVIOUS
    <3>1. i + 1 < j + 1
      BY <1>2
    <3>2. /\ i + 1 \in 1 .. Len(script) /\ rest[i] = script[i + 1]
          /\ j + 1 \in 1 .. Len(script) /\ rest[j] = script[j + 1]
      BY <1>2
    <3>3. script[i + 1].name = "generate_build_layout"
      BY <3>2
    <3>4. script[j + 1].name = "generate_native_actions"
      BY <1>1, <3>1, <3>2, <3>3
    <3> QED
      BY <3>2, <3>4
  <2>3. ChecksGoOn'
    BY <1>3, <1>4, <1>5, <2>1, <2>2 DEF ChecksGoOn
  <2>4. ScriptInv' /\ StaleInv' /\ CheckedIsCurrent'
    BY <2>1, <2>3 DEF ScriptInv, StaleInv, CheckedIsCurrent
  <2> QED
    BY <1>6, <2>1, <2>4 DEF CurrentInv
<1>8. CASE ~(Len(script) > 1)
  <2>1. script' = <<>> /\ status'.is = "checked" /\ rest = <<>>
    BY <1>2, <1>3, <1>8 DEF Now
  <2>2. ToSet(rest) = {}
    BY <2>1 DEF ToSet
  <2>3. \A c \in AllCalls : Fresh(c)
    BY <1>4, <2>2
  <2>4. Current'
    BY <2>3, AllFreshIsCurrent, CurrentIsSame DEF CurrentInv
  <2>5. ScriptInv' /\ StaleInv' /\ CheckedIsCurrent'
    BY <2>1, <2>4 DEF ScriptInv, StaleInv, CheckedIsCurrent
  <2> QED
    BY <1>6, <2>3, <2>5 DEF CurrentInv
<1> QED
  BY <1>7, <1>8

LEMMA CheckFails ==
  ASSUME CurrentInv, ChecksGoOn, ~Fresh(Head(script)), Readable(Head(script)),
         tool' = Idle, script' = <<>>, status' = [ is |-> "stale", call |-> Head(script) ],
         inputs' = inputs, files' = files
  PROVE  CurrentInv'
<1> DEFINE call == Head(script)
<1>1. /\ script \in Seq(AllCalls) /\ script # <<>>
      /\ \A i, j \in 1 .. Len(script) : i < j /\ script[i].name = "generate_build_layout"
                                          => script[j].name = "generate_native_actions"
      /\ \A c \in AllCalls \ ToSet(script) : Fresh(c)
  BY DEF ChecksGoOn
<1>2. call \in AllCalls /\ call = script[1] /\ Len(script) \in Nat /\ Len(script) >= 1
  BY <1>1, TailIs
<1> HIDE DEF call
<1>3. \A c : (Fresh(c)' <=> Fresh(c)) /\ (Readable(c)' <=> Readable(c))
  BY NothingChanges
<1>4. ASSUME call = Layout, NEW d \in OfMajors
      PROVE  Fresh(d)
  <2>1. d \in AllCalls /\ Layout \in AllCalls
    BY ChecksAre
  <2>2. d.name \notin {"generate_build_layout", "generate_native_actions"}
    BY <2>1, CallsNamed, PerMajorIs
  <2>3. call.name = "generate_build_layout"
    BY <1>4, <2>1, CallsNamed
  <2>4. \A i \in 1 .. Len(script) : i = 1 \/ 1 < i
    BY <1>2
  <2>5. \A i \in 1 .. Len(script) : script[i] # d
    BY <1>1, <1>2, <2>2, <2>3, <2>4
  <2>6. ToSet(script) = { script[i] : i \in 1 .. Len(script) }
    BY <1>1, Members
  <2>7. d \notin ToSet(script)
    BY <2>5, <2>6
  <2> QED
    BY <1>1, <2>1, <2>7
<1>5. status'.is = "stale" /\ status'.call = call
  BY DEF call
<1>6. ~Fresh(call) /\ Readable(call)
  BY DEF call
<1>7. StaleInv'
  BY <1>2, <1>3, <1>4, <1>5, <1>6 DEF StaleInv
<1>8. ScriptInv' /\ ToolInv' /\ FilesInv' /\ CheckedIsCurrent'
  BY <1>5 DEF CurrentInv, ScriptInv, ToolInv, FilesInv, CheckedIsCurrent
<1> QED
  BY <1>7, <1>8 DEF CurrentInv

\* A tool of a repair or of a regeneration starts to write.
LEMMA GeneratorStarts ==
  ASSUME CurrentInv, NEW c \in AllCalls, script # <<>>, Head(script) = Twin(c),
         inputs' = inputs, files' = files, script' = script, status' = status,
         tool' = [ name |-> "generator", call |-> Twin(c),
                   drop |-> stale_generated_paths(Twin(c)), todo |-> Outputs(Twin(c)) ],
         ~ChecksGoOn
  PROVE  CurrentInv'
<1>1. Running(c)'
  BY StartsRunning
<1>2. ToolInv'
  BY <1>1 DEF ToolInv
<1>3. \A d : (Fresh(d)' <=> Fresh(d)) /\ (Readable(d)' <=> Readable(d))
  BY NothingChanges
<1>4. ScriptInv'
  BY <1>3 DEF CurrentInv, ScriptInv, RepairOf, RegenerationGoesOn
<1>5. FilesInv' /\ StaleInv' /\ CheckedIsCurrent'
  BY <1>3, CurrentIsSame DEF CurrentInv, FilesInv, StaleInv, CheckedIsCurrent
<1> QED
  BY <1>2, <1>4, <1>5 DEF CurrentInv

LEMMA InvokeStep ==
  ASSUME CurrentInv, Invoke
  PROVE  CurrentInv'
<1>1. /\ tool = Idle /\ script # <<>> /\ inputs' = inputs /\ files' = files
  BY InvokeIs
<1>2. CASE /\ tool' = Idle /\ script' = <<>> /\ status'.is \in {"usage", "unreadable"}
  <2>1. FilesInv'
    BY <1>1 DEF CurrentInv, FilesInv
  <2> QED
    BY <1>2, <2>1, PromisesNothing
<1>3. CASE ChecksGoOn
  <2>1. Head(script) \in AllCalls
    BY <1>3, TailIs DEF ChecksGoOn
  <2>2. Head(script).check
    BY <2>1, GeneratorIs
  <2>3. status.is = "checking"
    <3>1. status.is = "regenerating" => Head(script) \in Generators \union Partial
      BY <1>1, TailIs DEF CurrentInv, ScriptInv, RegenerationGoesOn
    <3>2. Head(script) \notin Generators
      BY <2>1, GeneratorIs DEF Generators
    <3>3. Head(script) \notin Partial
      BY <2>1, PartialIsMisused, GeneratorIs
    <3> QED
      BY <1>1, <3>1, <3>2, <3>3 DEF CurrentInv, ScriptInv
  <2> QED
    BY <1>1, <1>2, <1>3, <2>2, <2>3, InvokeIs, CheckPasses, CheckFails
<1>4. CASE ~ChecksGoOn
  <2>1. \/ \E c \in AllCalls : Head(script) = Twin(c)
        \/ Head(script) \in Partial
    <3>1. CASE status.is = "checking"
      BY <1>4, <3>1 DEF CurrentInv, ScriptInv, RepairOf
    <3>2. CASE status.is = "regenerating"
      <4>1. Head(script) \in Generators \union Partial
        BY <1>1, <3>2, TailIs DEF CurrentInv, ScriptInv, RegenerationGoesOn
      <4> QED
        BY <4>1 DEF Generators
    <3> QED
      BY <1>1, <3>1, <3>2 DEF CurrentInv, ScriptInv
  <2>2. CASE Head(script) \in Partial
    <3>1. Misused(Head(script)) /\ ~Head(script).check
      BY <2>2, PartialIsMisused DEF Misused
    <3> QED
      BY <1>2, <3>1, InvokeIs
  <2>3. ASSUME NEW c \in AllCalls, Head(script) = Twin(c)
        PROVE  CurrentInv'
    <3>1. ~Head(script).check
      BY <2>3, GeneratorIs
    <3> QED
      BY <1>1, <1>2, <1>4, <2>3, <3>1, InvokeIs, GeneratorStarts
  <2> QED
    BY <2>1, <2>2, <2>3
<1> QED
  BY <1>3, <1>4

LEMMA RunningTool ==
  ASSUME CurrentInv, Generating
  PROVE  tool # Idle /\ ~ChecksGoOn /\ script # <<>>
         /\ status.is \in {"checking", "regenerating"}
         /\ \E c \in AllCalls : Running(c) /\ Head(script) = Twin(c)
<1>1. tool # Idle
  BY DEF Generating, Idle, None
<1>2. script # <<>> /\ \E c \in AllCalls : Running(c) /\ Head(script) = Twin(c)
  BY <1>1 DEF CurrentInv, ToolInv, Generating
<1> QED
  BY <1>1, <1>2 DEF ChecksGoOn, CurrentInv, ScriptInv

LEMMA GeneratingStep ==
  ASSUME CurrentInv, Drop \/ Write
  PROVE  /\ CurrentInv' /\ inputs' = inputs /\ script' = script /\ status' = status
         /\ \A d \in AllCalls \ {Layout} : Fresh(d) => Fresh(d)'
         /\ \E c \in AllCalls : /\ Running(c) /\ Running(c)' /\ Head(script) = Twin(c)
                                /\ Fresh(c) => files' = files
<1>1. Generating /\ script' = script /\ status' = status
  BY DEF Drop, Write
<1>2. PICK c \in AllCalls : Running(c) /\ Head(script) = Twin(c)
  BY <1>1, RunningTool
<1>3. /\ Running(c)' /\ inputs' = inputs
      /\ \A d \in AllCalls \ {Layout} : Fresh(d) => Fresh(d)'
      /\ Fresh(c) => files' = files
  BY <1>2, GeneratingKeeps
<1>4. ~ChecksGoOn /\ script # <<>> /\ status.is \in {"checking", "regenerating"}
  BY <1>1, RunningTool
<1>5. ASSUME NEW d, RepairOf(d)
      PROVE  RepairOf(d)'
  <2>1. Readable(d)' <=> Readable(d)
    BY <1>3 DEF Readable, Read
  <2> QED
    BY <1>1, <1>5, <2>1 DEF RepairOf
<1>6. RegenerationGoesOn => RegenerationGoesOn'
  <2>1. SUFFICES ASSUME RegenerationGoesOn PROVE RegenerationGoesOn'
    OBVIOUS
  <2>2. Twin(Layout) \in ToSet(script)
    <3>1. script \in Seq(Generators \union Partial) /\ script # <<>>
      BY <2>1 DEF RegenerationGoesOn
    <3>2. Len(script) \in 1 .. Len(script)
      <4>1. Len(script) \in Nat /\ Len(script) >= 1
        BY <3>1, TailIs
      <4> QED
        BY <4>1
    <3>3. script[Len(script)] = Twin(Layout)
      BY <2>1, <3>2 DEF RegenerationGoesOn
    <3> QED
      BY <3>1, <3>2, <3>3, Members
  <2> QED
    BY <1>1, <1>3, <2>1, <2>2 DEF RegenerationGoesOn
<1>7. ScriptInv'
  BY <1>1, <1>4, <1>5, <1>6 DEF CurrentInv, ScriptInv
<1>8. ToolInv'
  BY <1>1, <1>2, <1>3, <1>4 DEF ToolInv
<1>9. FilesInv'
  <2>1. DOMAIN files' \subseteq DOMAIN files \union Paths
    BY <1>2, GeneratedPaths
  <2> QED
    BY <2>1 DEF CurrentInv, FilesInv
<1>10. StaleInv' /\ CheckedIsCurrent'
  BY <1>1, <1>4 DEF StaleInv, CheckedIsCurrent
<1>11. CurrentInv'
  BY <1>7, <1>8, <1>9, <1>10 DEF CurrentInv
<1> QED
  BY <1>1, <1>2, <1>3, <1>11

LEMMA FinishStep ==
  ASSUME CurrentInv, Finish
  PROVE  /\ CurrentInv' /\ inputs' = inputs /\ files' = files /\ repaired' = repaired
         /\ tool' = Idle
         /\ \E c \in AllCalls : Running(c) /\ Head(script) = Twin(c) /\ Fresh(c)
<1>1. /\ Generating /\ tool.todo = <<>> /\ tool.drop = {} /\ Pass
      /\ inputs' = inputs /\ files' = files /\ repaired' = repaired
  BY DEF Finish
<1>2. PICK c \in AllCalls : Running(c) /\ Head(script) = Twin(c)
  BY <1>1, RunningTool
<1>3. Fresh(c) /\ ~ChecksGoOn /\ script # <<>> /\ status.is \in {"checking", "regenerating"}
  BY <1>1, <1>2, DoneIsFresh, RunningTool
<1>4. \A d : Fresh(d)' <=> Fresh(d)
  BY <1>1, NothingChanges
<1>5. /\ script' = Tail(script) /\ tool' = Idle
      /\ Len(script) > 1 => status' = status
  BY <1>1 DEF Pass
<1>6. FilesInv' /\ ToolInv'
  BY <1>1, <1>5 DEF CurrentInv, FilesInv, ToolInv
<1>7. CASE status.is = "checking"
  <2>1. PICK d \in AllCalls : RepairOf(d)
    BY <1>3, <1>7 DEF CurrentInv, ScriptInv
  <2>2. Tail(script) = Checks /\ script \in Seq(Generators \union AllCalls)
    BY <2>1 DEF RepairOf
  <2>3. /\ Len(script) \in Nat /\ Len(script) >= 1
        /\ Len(script) = 1 <=> Tail(script) = <<>>
    BY <1>3, <2>2, TailIs
  <2>4. Len(script) > 1
    <3>1. Len(script) # 1
      BY <2>2, <2>3, ChecksAre
    <3> QED
      BY <2>3, <3>1
  <2>5. status' = status /\ script' = Checks /\ tool' = Idle
    BY <1>5, <2>2, <2>4
  <2>6. ChecksGoOn'
    <3>1. AllCalls \ ToSet(Checks) = {}
      BY DEF AllCalls
    <3> QED
      BY <2>5, <3>1, ChecksAre DEF ChecksGoOn
  <2>7. ScriptInv' /\ StaleInv' /\ CheckedIsCurrent'
    BY <1>7, <2>5, <2>6 DEF ScriptInv, StaleInv, CheckedIsCurrent
  <2> QED
    BY <1>1, <1>2, <1>3, <1>5, <1>6, <2>7 DEF CurrentInv
<1>8. CASE status.is = "regenerating"
  <2> DEFINE G == Generators \union Partial
             rest == Tail(script)
  <2>1. /\ script \in Seq(G)
        /\ \A i \in 1 .. Len(script) : script[i] = Twin(Layout) <=> i = Len(script)
        /\ \/ ToSet(script) \intersect Partial # {}
           \/ \A d \in AllCalls : Twin(d) \in ToSet(script) \/ Fresh(d)
    BY <1>8 DEF CurrentInv, ScriptInv, RegenerationGoesOn
  <2>2. /\ rest \in Seq(G)
        /\ Len(script) \in Nat /\ Len(script) >= 1 /\ Len(rest) = Len(script) - 1
        /\ \A i \in 1 .. Len(rest) : i + 1 \in 1 .. Len(script) /\ rest[i] = script[i + 1]
        /\ ToSet(script) = {Head(script)} \union ToSet(rest)
        /\ Len(script) = 1 <=> rest = <<>>
    BY <1>3, <2>1, TailIs
  <2>3. script' = rest
    BY <1>5
  <2> HIDE DEF rest, G
  <2>4. Twin(c) \notin Partial
    BY PartialIsMisused, GeneratorIs
  <2>5. \/ ToSet(rest) \intersect Partial # {}
        \/ \A d \in AllCalls : Twin(d) \in ToSet(rest) \/ Fresh(d)
    <3>1. \A d \in AllCalls : Twin(d) = Twin(c) => d = c
      BY CallsAre
    <3> QED
      BY <1>2, <1>3, <2>1, <2>2, <2>4, <3>1
  <2>6. CASE Len(script) > 1
    <3>1. script' # <<>> /\ status' = status
      BY <1>5, <2>2, <2>3, <2>6
    <3>2. \A i \in 1 .. Len(rest) : rest[i] = Twin(Layout) <=> i = Len(rest)
      <4>1. \A i \in 1 .. Len(rest) : i + 1 = Len(script) <=> i = Len(rest)
        BY <2>2
      <4> QED
        BY <2>1, <2>2, <4>1
    <3>3. RegenerationGoesOn'
      BY <1>4, <2>2, <2>3, <2>5, <3>1, <3>2 DEF RegenerationGoesOn, G
    <3>4. ScriptInv' /\ StaleInv' /\ CheckedIsCurrent'
      BY <1>8, <3>1, <3>3 DEF ScriptInv, StaleInv, CheckedIsCurrent
    <3>5. CurrentInv'
      BY <1>6, <3>4 DEF CurrentInv
    <3> QED
      BY <1>1, <1>2, <1>3, <1>5, <3>5
  <2>7. CASE ~(Len(script) > 1)
    <3>1. rest = <<>> /\ script' = <<>>
      BY <2>2, <2>3, <2>7
    <3>2. ToSet(rest) = {}
      BY <3>1 DEF ToSet
    <3>3. status'.is \in {"checked", "regenerated"}
      BY <1>1, <2>7 DEF Pass, Now
    <3>4. \A d \in AllCalls : Fresh(d)
      BY <2>5, <3>2
    <3>5. Current'
      BY <1>1, <3>4, AllFreshIsCurrent, CurrentIsSame DEF CurrentInv
    <3>6. ScriptInv' /\ StaleInv' /\ CheckedIsCurrent'
      BY <3>1, <3>3, <3>5 DEF ScriptInv, StaleInv, CheckedIsCurrent
    <3>7. CurrentInv'
      BY <1>6, <3>6 DEF CurrentInv
    <3> QED
      BY <1>1, <1>2, <1>3, <1>5, <3>7
  <2> QED
    BY <2>6, <2>7
<1> QED
  BY <1>3, <1>7, <1>8

LEMMA ImportStep ==
  ASSUME CurrentInv,
         \/ \E m, of \in Majors, r \in Releases, p \in Releases \union {None}, a \in BOOLEAN :
              ImportUpstream(m, of, r, p, a)
         \/ \E m, of \in Majors, r \in Releases, v \in BOOLEAN : ImportCatalog(m, of, r, v)
  PROVE  CurrentInv' /\ repaired' = <<>>
<1> DEFINE starts ==
        /\ script' = <<>> /\ files' = files /\ repaired' = <<>>
        /\ \/ tool' = Idle /\ status'.is = "refused"
           \/ /\ tool'.name \in {"import_upstream", "import_catalog"} /\ status'.is = "importing"
              /\ DOMAIN tool' = {"name", "major", "release", "postgres", "record", "drop", "todo"}
<1>1. starts
  <2>1. ASSUME NEW m, NEW of, NEW r, NEW p, NEW a, ImportUpstream(m, of, r, p, a)
        PROVE  starts
    <3>1. Resting /\ script' = script /\ files' = files /\ repaired' = <<>>
      BY <2>1 DEF ImportUpstream, Changing
    <3>2. CASE of # m
      BY <2>1, <3>1, <3>2 DEF ImportUpstream, Resting, Now
    <3>3. CASE of = m
      <4>1. PICK record, drop, todo :
              tool' = [ name |-> "import_upstream", major |-> m, release |-> r, postgres |-> p,
                        record |-> record, drop |-> drop, todo |-> todo ]
        BY <2>1, <3>3, Zenon DEF ImportUpstream
      <4>2. status'.is = "importing"
        BY <2>1, <3>3 DEF ImportUpstream, Now
      <4> QED
        BY <3>1, <4>1, <4>2 DEF Resting
    <3> QED
      BY <3>2, <3>3
  <2>2. ASSUME NEW m, NEW of, NEW r, NEW v, ImportCatalog(m, of, r, v)
        PROVE  starts
    <3>1. Resting /\ script' = script /\ files' = files /\ repaired' = <<>>
      BY <2>2 DEF ImportCatalog, Changing
    <3>2. CASE of # m \/ ~v
      BY <2>2, <3>1, <3>2 DEF ImportCatalog, Resting, Now
    <3>3. CASE ~(of # m \/ ~v)
      <4>1. PICK p, record, drop, todo :
              tool' = [ name |-> "import_catalog", major |-> m, release |-> r, postgres |-> p,
                        record |-> record, drop |-> drop, todo |-> todo ]
        BY <2>2, <3>3, Zenon DEF ImportCatalog
      <4>2. status'.is = "importing"
        BY <2>2, <3>3 DEF ImportCatalog, Now
      <4> QED
        BY <3>1, <4>1, <4>2 DEF Resting
    <3> QED
      BY <3>2, <3>3
  <2> QED
    BY <2>1, <2>2
<1>2. FilesInv'
  BY <1>1 DEF CurrentInv, FilesInv
<1>3. status'.is \notin {"checking", "regenerating", "stale", "checked", "regenerated"}
  BY <1>1
<1>4. CurrentInv'
  BY <1>1, <1>2, <1>3, PromisesNothing
<1> QED
  BY <1>1, <1>4

LEMMA ImportingStep ==
  ASSUME CurrentInv, RemoveTree \/ Copy \/ Imports
  PROVE  CurrentInv' /\ repaired' = repaired /\ script = <<>> /\ script' = <<>>
<1>1. Importing /\ files' = files /\ repaired' = repaired
  BY DEF RemoveTree, Copy, Imports
<1>2. tool # Idle
  BY <1>1 DEF Importing, Idle, None
<1>3. /\ tool.name \in {"import_upstream", "import_catalog"} /\ status.is = "importing"
      /\ DOMAIN tool = {"name", "major", "release", "postgres", "record", "drop", "todo"}
  BY <1>1, <1>2 DEF CurrentInv, ToolInv, Running, Importing
<1>4. script = <<>>
  BY <1>3 DEF CurrentInv, ScriptInv
<1>5. /\ script' = <<>>
      /\ \/ tool' = Idle /\ status'.is \in {"imported", "refused"}
         \/ /\ tool'.name = tool.name /\ status'.is = "importing" /\ DOMAIN tool' = DOMAIN tool
  <2>1. CASE RemoveTree
    <3>1. PICK f : tool' = [ tool EXCEPT !.drop = @ \ {f} ]
      BY <2>1 DEF RemoveTree
    <3>2. script' = script /\ status' = status
      BY <2>1 DEF RemoveTree
    <3> QED
      BY <1>3, <1>4, <3>1, <3>2
  <2>2. CASE Copy
    <3>1. CASE Raises(Head(tool.todo))
      BY <2>2, <3>1 DEF Copy, Fail, Now
    <3>2. CASE ~Raises(Head(tool.todo))
      <4>1. tool' = [ tool EXCEPT !.todo = Tail(@) ] /\ script' = script /\ status' = status
        BY <2>2, <3>2 DEF Copy
      <4> QED
        BY <1>3, <1>4, <4>1
    <3> QED
      BY <3>1, <3>2
  <2>3. CASE Imports
    BY <1>4, <2>3 DEF Imports, Now
  <2> QED
    BY <2>1, <2>2, <2>3
<1>6. FilesInv'
  BY <1>1 DEF CurrentInv, FilesInv
<1>7. status'.is \notin {"checking", "regenerating", "stale", "checked", "regenerated"}
  BY <1>5
<1>8. CurrentInv'
  BY <1>3, <1>5, <1>6, <1>7, PromisesNothing
<1> QED
  BY <1>1, <1>4, <1>5, <1>8

\* An interruption leaves at most one of the files that the tool makes torn.
LEMMA InterruptStep ==
  ASSUME CurrentInv, Interrupt
  PROVE  CurrentInv' /\ repaired' = <<>>
<1>1. /\ tool' = Idle /\ script' = <<>> /\ status'.is = "interrupted" /\ repaired' = <<>>
  BY DEF Interrupt, Fail, Now
<1>2. FilesInv'
  <2>1. CASE files' = files
    BY <2>1 DEF CurrentInv, FilesInv
  <2>2. CASE /\ Generating /\ tool.todo # <<>>
             /\ files' = Put(files, Head(tool.todo), Torn)
    <3>1. PICK c \in AllCalls : Running(c)
      BY <2>2, RunningTool
    <3>2. Head(tool.todo) \in Made(c)
      BY <2>2, <3>1, TailIs DEF Running
    <3>3. Head(tool.todo) \in Paths
      BY <3>2, PathsAre
    <3> QED
      BY <2>2, <3>3 DEF CurrentInv, FilesInv, Put
  <2> QED
    BY <2>1, <2>2 DEF Interrupt
<1>3. status'.is \notin {"checking", "regenerating", "stale", "checked", "regenerated"}
  BY <1>1
<1> QED
  BY <1>1, <1>2, <1>3, PromisesNothing

LEMMA InitIsCurrent == Init => CurrentInv
<1> SUFFICES ASSUME Init PROVE CurrentInv
  OBVIOUS
<1>1. tool = Idle /\ script = <<>> /\ status.is = "checked_in"
  BY DEF Init, Now
<1>2. DOMAIN files \subseteq Paths \union Leftovers
  BY DEF Init
<1> QED
  BY <1>1, <1>2 DEF CurrentInv, ScriptInv, ToolInv, FilesInv, StaleInv, CheckedIsCurrent

LEMMA NextIsCurrent == CurrentInv /\ [Next]_vars => CurrentInv'
<1> SUFFICES ASSUME CurrentInv, [Next]_vars PROVE CurrentInv'
  OBVIOUS
<1>1. CASE StartCheck
  BY <1>1, StartCheckStep
<1>2. CASE Repair
  BY <1>2, RepairStep
<1>3. ASSUME NEW whole \in BOOLEAN, StartRegeneration(whole)
      PROVE  CurrentInv'
  BY <1>3, StartRegenerationStep
<1>4. CASE Invoke
  BY <1>4, InvokeStep
<1>5. CASE Drop \/ Write
  BY <1>5, GeneratingStep
<1>6. CASE Finish
  BY <1>6, FinishStep
<1>7. CASE \/ \E m, of \in Majors, r \in Releases, p \in Releases \union {None}, a \in BOOLEAN :
                ImportUpstream(m, of, r, p, a)
           \/ \E m, of \in Majors, r \in Releases, v \in BOOLEAN : ImportCatalog(m, of, r, v)
  BY <1>7, ImportStep
<1>8. CASE RemoveTree \/ Copy \/ Imports
  BY <1>8, ImportingStep
<1>9. CASE Interrupt
  BY <1>9, InterruptStep
<1>10. CASE UNCHANGED vars
  BY <1>10, CurrentStays DEF vars
<1> QED
  BY <1>1, <1>2, <1>3, <1>4, <1>5, <1>6, <1>7, <1>8, <1>9, <1>10 DEF Next

\* At every step of a session the running script, the running tool and what a
\* check found agree with the files: what no longer has to be checked or made is
\* up to date (check_generated_artifacts.sh, the README's regeneration and
\* main's write and check modes of the generators).
THEOREM ScriptsGoOn == Spec => []CurrentInv
  BY InitIsCurrent, NextIsCurrent, PTL DEF Spec

\* A whole check that passes and a regeneration that ends leave exactly the files
\* that the generators make of what is imported, whatever imports, interruptions
\* and left-over units there were, for every list of majors and every number of
\* chunks of the action catalog.
THEOREM SessionsEndCurrent == Spec => []CheckedIsCurrent
<1>1. CurrentInv => CheckedIsCurrent
  BY DEF CurrentInv
<1> QED
  BY <1>1, ScriptsGoOn, PTL

-----------------------------------------------------------------------------
(* The repairs.                                                            *)

Repairing(c) == status.is = "checking" /\ RepairOf(c)

Twice(c) == \E i, j \in 1 .. Len(repaired) : i < j /\ repaired[i] = c /\ repaired[j] = c

\* What was repaired is up to date, or its tool runs; the lists of sources may
\* have to follow the actions once, and then those are up to date, too.
RepairInv ==
  /\ repaired \in Seq(AllCalls)
  /\ Importing => repaired = <<>>
  /\ \A c \in ToSet(repaired) \ {Layout} : Fresh(c) \/ Repairing(c)
  /\ Layout \in ToSet(repaired) =>
       /\ \A c \in OfMajors : Fresh(c)
       /\ \/ Fresh(Layout) \/ Repairing(Layout) \/ Fresh(Actions)
          \/ tool.name = "generator" /\ tool.call = Twin(Actions)
  /\ Twice(Layout) => Fresh(Actions) /\ (Fresh(Layout) \/ Repairing(Layout))
  /\ RepairsConverge

LEMMA NothingRepaired ==
  ASSUME repaired' = <<>>
  PROVE  RepairInv'
<1>1. /\ repaired' \in Seq(AllCalls) /\ ToSet(repaired') = {} /\ Len(repaired') = 0
      /\ DOMAIN repaired' = {}
  BY DEF ToSet
<1>2. 1 .. 0 = {}
  OBVIOUS
<1>3. ~Twice(Layout)'
  BY <1>1, <1>2 DEF Twice
<1>4. RepairsConverge'
  BY <1>1 DEF RepairsConverge
<1> QED
  BY <1>1, <1>3, <1>4 DEF RepairInv

\* A step that repairs nothing keeps what it leaves fresh, or finishes.
LEMMA RepairsKept ==
  ASSUME RepairInv, repaired' = repaired, ~Importing',
         \A c \in AllCalls \ {Layout} : Fresh(c) \/ Repairing(c) => Fresh(c)' \/ Repairing(c)',
         Layout \in ToSet(repaired) =>
           /\ \A c \in OfMajors : Fresh(c)'
           /\ \/ Fresh(Layout)' \/ Repairing(Layout)' \/ Fresh(Actions)'
              \/ tool'.name = "generator" /\ tool'.call = Twin(Actions),
         Twice(Layout) => Fresh(Actions)' /\ (Fresh(Layout)' \/ Repairing(Layout)')
  PROVE  RepairInv'
<1>1. ToSet(repaired) \subseteq AllCalls
  BY Members DEF RepairInv
<1>2. \A c \in ToSet(repaired) \ {Layout} : Fresh(c)' \/ Repairing(c)'
  BY <1>1 DEF RepairInv
<1>3. Twice(Layout)' <=> Twice(Layout)
  BY DEF Twice
<1>4. RepairsConverge'
  BY DEF RepairInv, RepairsConverge
<1>5. repaired' \in Seq(AllCalls)
  BY DEF RepairInv
<1> QED
  BY <1>2, <1>3, <1>4, <1>5 DEF RepairInv

LEMMA TwiceIsIn ==
  ASSUME NEW c, Twice(c), RepairInv
  PROVE  c \in ToSet(repaired)
BY Members DEF Twice, RepairInv

\* While nothing runs nothing is being repaired.
LEMMA RestingRepairsNothing ==
  ASSUME Resting, NEW c
  PROVE  ~Repairing(c) /\ tool.name # "generator"
BY DEF Resting, Repairing, RepairOf, Idle, None

LEMMA StartingKeepsRepairs ==
  ASSUME RepairInv, StartCheck \/ \E whole \in BOOLEAN : StartRegeneration(whole)
  PROVE  RepairInv'
<1>1. /\ Resting /\ inputs' = inputs /\ files' = files /\ tool' = tool
      /\ repaired' = repaired /\ tool = Idle
  BY DEF StartCheck, StartRegeneration, Resting
<1>2. \A c : Fresh(c)' <=> Fresh(c)
  BY <1>1, NothingChanges
<1>3. \A c : ~Repairing(c)
  BY <1>1, RestingRepairsNothing
<1>4. tool.name # "generator" /\ ~Importing'
  BY <1>1 DEF Idle, None, Importing
<1>5. Layout \in ToSet(repaired) =>
        (\A c \in OfMajors : Fresh(c)) /\ (Fresh(Layout) \/ Fresh(Actions))
  BY <1>3, <1>4 DEF RepairInv
<1>6. Twice(Layout) => Fresh(Actions) /\ Fresh(Layout)
  BY <1>3 DEF RepairInv
<1> QED
  BY <1>1, <1>2, <1>3, <1>4, <1>5, <1>6, RepairsKept

LEMMA InvokeKeepsRepairs ==
  ASSUME RepairInv, Invoke
  PROVE  RepairInv'
<1>1. inputs' = inputs /\ files' = files /\ repaired' = repaired /\ tool = Idle
  BY InvokeIs
<1>2. \A c : (Fresh(c)' <=> Fresh(c)) /\ (Readable(c)' <=> Readable(c))
  BY <1>1, NothingChanges
<1>3. ASSUME NEW c \in AllCalls, Repairing(c)
      PROVE  Repairing(c)'
  <2>1. RepairOf(c) /\ Head(script) = Twin(c) /\ Readable(c) /\ status.is = "checking"
    BY <1>3 DEF Repairing, RepairOf
  <2>2. ~Misused(Head(script)) /\ Readable(Head(script)) /\ ~Head(script).check
    BY <2>1, GeneratorIs, TwinAgrees
  <2>3. script' = script /\ status' = status
    BY <2>2, InvokeIs
  <2> QED
    BY <1>2, <2>1, <2>3 DEF Repairing, RepairOf
<1>4. tool.name # "generator"
  BY <1>1 DEF Idle, None
<1>5. ~Importing'
  <2>1. tool'.name \in {"none", "generator"}
    BY InvokeIs DEF Pass, Idle, None
  <2> QED
    BY <2>1 DEF Importing
<1>6. Layout \in AllCalls
  BY ChecksAre
<1>7. \A c \in AllCalls \ {Layout} : Fresh(c) \/ Repairing(c) => Fresh(c)' \/ Repairing(c)'
  BY <1>2, <1>3
<1>8. Layout \in ToSet(repaired) =>
        /\ \A c \in OfMajors : Fresh(c)'
        /\ Fresh(Layout)' \/ Repairing(Layout)' \/ Fresh(Actions)'
  BY <1>2, <1>3, <1>4, <1>6 DEF RepairInv
<1>9. Twice(Layout) => Fresh(Actions)' /\ (Fresh(Layout)' \/ Repairing(Layout)')
  BY <1>2, <1>3, <1>6 DEF RepairInv
<1> QED
  BY <1>1, <1>5, <1>7, <1>8, <1>9, RepairsKept

LEMMA GeneratingKeepsRepairs ==
  ASSUME RepairInv, CurrentInv, Drop \/ Write
  PROVE  RepairInv'
<1>1. repaired' = repaired
  BY DEF Drop, Write
<1>2. PICK c \in AllCalls : /\ Running(c) /\ Running(c)' /\ Head(script) = Twin(c)
                            /\ Fresh(c) => files' = files
  BY GeneratingStep
<1>3. /\ inputs' = inputs /\ script' = script /\ status' = status
      /\ \A d \in AllCalls \ {Layout} : Fresh(d) => Fresh(d)'
  BY GeneratingStep
<1>4. ASSUME NEW d, Repairing(d)
      PROVE  Repairing(d)'
  <2>1. Readable(d)' <=> Readable(d)
    BY <1>3 DEF Readable, Read
  <2> QED
    BY <1>3, <1>4, <2>1 DEF Repairing, RepairOf
<1>5. tool'.name = "generator" /\ tool'.call = Twin(c) /\ tool.call = Twin(c)
  BY <1>2 DEF Running
<1>6. ~Importing'
  BY <1>5 DEF Importing
<1>7. /\ Layout \in AllCalls /\ Actions \in AllCalls /\ OfMajors \subseteq AllCalls
      /\ Layout # Actions /\ Layout \notin OfMajors
      /\ c \in OfMajors \/ c = Layout \/ c = Actions
  <2>1. Layout \in AllCalls /\ Actions \in AllCalls /\ AllCalls = OfMajors \union {Layout, Actions}
    BY ChecksAre
  <2>2. Layout.name = "generate_build_layout" /\ Actions.name = "generate_native_actions"
    BY <2>1, CallsNamed
  <2>3. Layout \notin OfMajors
    BY <2>1, <2>2, CallsNamed, PerMajorIs
  <2> QED
    BY <2>1, <2>2, <2>3
<1>8. files' = files => (Fresh(Layout)' <=> Fresh(Layout))
  BY <1>3, NothingChanges
<1>9. \A d \in AllCalls \ {Layout} : Fresh(d) \/ Repairing(d) => Fresh(d)' \/ Repairing(d)'
  BY <1>3, <1>4
<1>10. Layout \in ToSet(repaired) =>
         /\ \A d \in OfMajors : Fresh(d)'
         /\ \/ Fresh(Layout)' \/ Repairing(Layout)' \/ Fresh(Actions)'
            \/ tool'.name = "generator" /\ tool'.call = Twin(Actions)
  <2> SUFFICES ASSUME Layout \in ToSet(repaired)
               PROVE  /\ \A d \in OfMajors : Fresh(d)'
                      /\ \/ Fresh(Layout)' \/ Repairing(Layout)' \/ Fresh(Actions)'
                         \/ tool'.name = "generator" /\ tool'.call = Twin(Actions)
    OBVIOUS
  <2>1. \A d \in OfMajors : Fresh(d)
    BY DEF RepairInv
  <2>2. \/ Fresh(Layout) \/ Repairing(Layout) \/ Fresh(Actions)
        \/ tool.name = "generator" /\ tool.call = Twin(Actions)
    BY DEF RepairInv
  <2>3. \A d \in OfMajors : Fresh(d)'
    BY <1>3, <1>7, <2>1
  <2>4. Fresh(Layout) /\ c # Actions => Fresh(Layout)'
    BY <1>2, <1>7, <1>8, <2>1
  <2> QED
    BY <1>3, <1>4, <1>5, <1>7, <2>2, <2>3, <2>4
<1>11. Twice(Layout) => Fresh(Actions)' /\ (Fresh(Layout)' \/ Repairing(Layout)')
  <2> SUFFICES ASSUME Twice(Layout)
               PROVE  Fresh(Actions)' /\ (Fresh(Layout)' \/ Repairing(Layout)')
    OBVIOUS
  <2>1. Layout \in ToSet(repaired)
    BY TwiceIsIn
  <2>2. /\ \A d \in OfMajors : Fresh(d)
        /\ Fresh(Actions) /\ (Fresh(Layout) \/ Repairing(Layout))
    BY <2>1 DEF RepairInv
  <2>3. Fresh(Layout) => Fresh(Layout)'
    BY <1>2, <1>7, <1>8, <2>2
  <2> QED
    BY <1>3, <1>4, <1>7, <2>2, <2>3
<1> QED
  BY <1>1, <1>6, <1>9, <1>10, <1>11, RepairsKept

LEMMA FinishKeepsRepairs ==
  ASSUME RepairInv, CurrentInv, Finish
  PROVE  RepairInv'
<1>1. inputs' = inputs /\ files' = files /\ repaired' = repaired /\ tool' = Idle
  BY FinishStep
<1>2. PICK c \in AllCalls : Running(c) /\ Head(script) = Twin(c) /\ Fresh(c)
  BY FinishStep
<1>3. \A d : Fresh(d)' <=> Fresh(d)
  BY <1>1, NothingChanges
<1>4. ASSUME NEW d \in AllCalls, Repairing(d)
      PROVE  Fresh(d)
  <2>1. Twin(d) = Twin(c)
    BY <1>2, <1>4 DEF Repairing, RepairOf
  <2> QED
    BY <1>2, <2>1, CallsAre
<1>5. Layout \in AllCalls /\ Actions \in AllCalls
  BY ChecksAre
<1>6. tool.call = Twin(Actions) => Fresh(Actions)
  <2>1. tool.call = Twin(c)
    BY <1>2 DEF Running
  <2> QED
    BY <1>2, <1>5, <2>1, CallsAre
<1>7. ~Importing'
  BY <1>1 DEF Importing, Idle, None
<1>8. \A d \in AllCalls \ {Layout} : Fresh(d) \/ Repairing(d) => Fresh(d)'
  BY <1>3, <1>4
<1>9. Layout \in ToSet(repaired) =>
        (\A d \in OfMajors : Fresh(d)') /\ (Fresh(Layout)' \/ Fresh(Actions)')
  BY <1>3, <1>4, <1>5, <1>6 DEF RepairInv
<1>10. Twice(Layout) => Fresh(Actions)' /\ Fresh(Layout)'
  BY <1>3, <1>4, <1>5 DEF RepairInv
<1> QED
  BY <1>1, <1>7, <1>8, <1>9, <1>10, RepairsKept

LEMMA AppendIs ==
  ASSUME NEW S, NEW s \in Seq(S), NEW e \in S
  PROVE  /\ Append(s, e) \in Seq(S) /\ Len(s) \in Nat /\ Len(Append(s, e)) = Len(s) + 1
         /\ \A i \in 1 .. Len(s) : Append(s, e)[i] = s[i]
         /\ Append(s, e)[Len(s) + 1] = e
         /\ ToSet(Append(s, e)) = ToSet(s) \union {e}
<1> DEFINE t == Append(s, e)
<1>1. /\ t \in Seq(S) /\ Len(s) \in Nat /\ Len(t) = Len(s) + 1
      /\ \A i \in 1 .. Len(s) : t[i] = s[i]
      /\ t[Len(s) + 1] = e
  BY AppendProperties
<1> HIDE DEF t
<1>2. /\ ToSet(s) = { s[i] : i \in 1 .. Len(s) }
      /\ ToSet(t) = { t[i] : i \in 1 .. Len(t) }
  BY <1>1, Members
<1>3. 1 .. Len(t) = (1 .. Len(s)) \union {Len(s) + 1}
  BY <1>1
<1>4. ToSet(t) = ToSet(s) \union {e}
  BY <1>1, <1>2, <1>3
<1> QED
  BY <1>1, <1>4 DEF t

LEMMA RepairKeepsRepairs ==
  ASSUME RepairInv, CurrentInv, Repair
  PROVE  RepairInv'
<1>1. PICK d \in AllCalls : /\ RepairOf(d)' /\ repaired' = Append(repaired, d) /\ ~Fresh(d)
                            /\ d = Layout => \A c \in OfMajors : Fresh(c)
  BY RepairStep
<1>2. inputs' = inputs /\ files' = files /\ tool' = Idle /\ status'.is = "checking"
  BY RepairStep
<1>3. \A c : Fresh(c)' <=> Fresh(c)
  BY <1>2, NothingChanges
<1>4. Repairing(d)'
  BY <1>1, <1>2 DEF Repairing
<1>5. Resting
  BY DEF Repair
<1>6. (\A c : ~Repairing(c)) /\ tool.name # "generator"
  BY <1>5, RestingRepairsNothing
<1>7. /\ repaired \in Seq(AllCalls) /\ repaired' \in Seq(AllCalls) /\ Len(repaired) \in Nat
      /\ Len(repaired') = Len(repaired) + 1
      /\ \A i \in 1 .. Len(repaired) : repaired'[i] = repaired[i]
      /\ repaired'[Len(repaired) + 1] = d
      /\ ToSet(repaired') = ToSet(repaired) \union {d}
  <2>1. repaired \in Seq(AllCalls)
    BY DEF RepairInv
  <2> QED
    BY <1>1, <2>1, AppendIs
<1>8. ~Importing'
  BY <1>2 DEF Importing, Idle, None
<1>9. \A c \in ToSet(repaired) \ {Layout} : Fresh(c)
  BY <1>6 DEF RepairInv
<1>10. \A c \in ToSet(repaired') \ {Layout} : Fresh(c)' \/ Repairing(c)'
  BY <1>3, <1>4, <1>7, <1>9
<1>11. Layout \in ToSet(repaired) =>
         (\A c \in OfMajors : Fresh(c)) /\ (Fresh(Layout) \/ Fresh(Actions))
  BY <1>6 DEF RepairInv
<1>12. Layout \in ToSet(repaired') =>
         /\ \A c \in OfMajors : Fresh(c)'
         /\ Fresh(Layout)' \/ Repairing(Layout)' \/ Fresh(Actions)'
  BY <1>1, <1>3, <1>4, <1>7, <1>11
<1>13. Twice(Layout) => Fresh(Layout) /\ Fresh(Actions)
  BY <1>6 DEF RepairInv
<1>14. d \in ToSet(repaired) => d = Layout /\ Fresh(Actions) /\ ~Twice(Layout)
  BY <1>1, <1>9, <1>11, <1>13
<1>15. ASSUME NEW j \in 1 .. Len(repaired')
       PROVE  j \in 1 .. Len(repaired) \/ j = Len(repaired) + 1
  BY <1>7
<1>16. ASSUME NEW i \in 1 .. Len(repaired'), NEW j \in 1 .. Len(repaired'), i < j
       PROVE  i \in 1 .. Len(repaired) /\ repaired'[i] = repaired[i]
              /\ repaired[i] \in ToSet(repaired)
  <2>1. i \in 1 .. Len(repaired)
    BY <1>7, <1>16
  <2>2. ToSet(repaired) = { repaired[k] : k \in 1 .. Len(repaired) }
    BY <1>7, Members
  <2> QED
    BY <1>7, <2>1, <2>2
<1>17. Twice(Layout)' => Fresh(Actions)' /\ (Fresh(Layout)' \/ Repairing(Layout)')
  <2> SUFFICES ASSUME Twice(Layout)'
               PROVE  Fresh(Actions)' /\ (Fresh(Layout)' \/ Repairing(Layout)')
    OBVIOUS
  <2>1. PICK i \in 1 .. Len(repaired'), j \in 1 .. Len(repaired') :
          i < j /\ repaired'[i] = Layout /\ repaired'[j] = Layout
    BY DEF Twice
  <2>2. i \in 1 .. Len(repaired) /\ repaired[i] = Layout /\ Layout \in ToSet(repaired)
    BY <1>16, <2>1
  <2>3. CASE j \in 1 .. Len(repaired)
    <3>1. repaired[j] = Layout
      BY <1>7, <2>1, <2>3
    <3>2. Twice(Layout)
      BY <2>1, <2>2, <2>3, <3>1 DEF Twice
    <3> QED
      BY <1>3, <1>13, <3>2
  <2>4. CASE j = Len(repaired) + 1
    <3>1. d = Layout
      BY <1>7, <2>1, <2>4
    <3> QED
      BY <1>3, <1>4, <1>14, <2>2, <3>1
  <2> QED
    BY <1>15, <2>3, <2>4
<1>18. RepairsConverge'
  <2>1. /\ DOMAIN repaired = 1 .. Len(repaired)
        /\ DOMAIN repaired' = 1 .. Len(repaired')
    BY <1>7
  <2>2. RepairsConverge
    BY DEF RepairInv
  <2>3. Layout.name = "generate_build_layout"
    BY DEF Layout, Call
  <2>4. ASSUME NEW i \in 1 .. Len(repaired'), NEW j \in 1 .. Len(repaired'), i < j,
               repaired'[i] = repaired'[j]
        PROVE  repaired'[i].name = "generate_build_layout"
    <3>1. i \in 1 .. Len(repaired) /\ repaired'[i] = repaired[i] /\ repaired[i] \in ToSet(repaired)
      BY <1>16, <2>4
    <3>2. CASE j \in 1 .. Len(repaired)
      BY <1>7, <2>1, <2>2, <2>4, <3>1, <3>2 DEF RepairsConverge
    <3>3. CASE j = Len(repaired) + 1
      BY <1>7, <1>14, <2>3, <2>4, <3>1, <3>3
    <3> QED
      BY <1>15, <3>2, <3>3
  <2>5. ASSUME NEW i \in 1 .. Len(repaired'), NEW j \in 1 .. Len(repaired'),
               NEW k \in 1 .. Len(repaired'), i < j, j < k,
               repaired'[i] = repaired'[j], repaired'[j] = repaired'[k]
        PROVE  FALSE
    <3>1. /\ i \in 1 .. Len(repaired) /\ repaired'[i] = repaired[i]
          /\ j \in 1 .. Len(repaired) /\ repaired'[j] = repaired[j]
          /\ repaired[j] \in ToSet(repaired)
      BY <1>16, <2>5
    <3>2. CASE k \in 1 .. Len(repaired)
      BY <1>7, <2>1, <2>2, <2>5, <3>1, <3>2 DEF RepairsConverge
    <3>3. CASE k = Len(repaired) + 1
      <4>1. repaired[i] = d /\ repaired[j] = d /\ d \in ToSet(repaired)
        BY <1>7, <2>5, <3>1, <3>3
      <4>2. Twice(Layout)
        BY <1>14, <2>5, <3>1, <4>1 DEF Twice
      <4> QED
        BY <1>14, <4>1, <4>2
    <3> QED
      BY <1>15, <3>2, <3>3
  <2> QED
    BY <2>1, <2>4, <2>5 DEF RepairsConverge
<1> QED
  BY <1>7, <1>8, <1>10, <1>12, <1>17, <1>18 DEF RepairInv

LEMMA StutteringKeepsRepairs ==
  ASSUME RepairInv, UNCHANGED vars
  PROVE  RepairInv'
<1>1. /\ inputs' = inputs /\ files' = files /\ tool' = tool /\ script' = script
      /\ status' = status /\ repaired' = repaired
  BY DEF vars
<1>2. \A c : (Fresh(c)' <=> Fresh(c)) /\ (Readable(c)' <=> Readable(c))
  BY <1>1, NothingChanges
<1>3. \A c : Repairing(c)' <=> Repairing(c)
  BY <1>1, <1>2 DEF Repairing, RepairOf
<1>4. (Twice(Layout)' <=> Twice(Layout)) /\ (RepairsConverge' <=> RepairsConverge)
      /\ (Importing' <=> Importing)
  BY <1>1 DEF Twice, RepairsConverge, Importing
<1> QED
  BY <1>1, <1>2, <1>3, <1>4 DEF RepairInv

LEMMA InitRepairsNothing == Init => RepairInv
<1> SUFFICES ASSUME Init PROVE RepairInv
  OBVIOUS
<1>1. /\ repaired = <<>> /\ repaired \in Seq(AllCalls) /\ ToSet(repaired) = {}
      /\ Len(repaired) = 0 /\ DOMAIN repaired = {}
  BY DEF Init, ToSet
<1>2. 1 .. 0 = {}
  OBVIOUS
<1>3. ~Twice(Layout)
  BY <1>1, <1>2 DEF Twice
<1>4. RepairsConverge
  BY <1>1 DEF RepairsConverge
<1> QED
  BY <1>1, <1>3, <1>4 DEF RepairInv

LEMMA NextKeepsRepairs == RepairInv /\ CurrentInv /\ [Next]_vars => RepairInv'
<1> SUFFICES ASSUME RepairInv, CurrentInv, [Next]_vars PROVE RepairInv'
  OBVIOUS
<1>1. CASE StartCheck \/ \E whole \in BOOLEAN : StartRegeneration(whole)
  BY <1>1, StartingKeepsRepairs
<1>2. CASE Repair
  BY <1>2, RepairKeepsRepairs
<1>3. CASE Invoke
  BY <1>3, InvokeKeepsRepairs
<1>4. CASE Drop \/ Write
  BY <1>4, GeneratingKeepsRepairs
<1>5. CASE Finish
  BY <1>5, FinishKeepsRepairs
<1>6. CASE \/ \E m, of \in Majors, r \in Releases, p \in Releases \union {None}, a \in BOOLEAN :
                ImportUpstream(m, of, r, p, a)
           \/ \E m, of \in Majors, r \in Releases, v \in BOOLEAN : ImportCatalog(m, of, r, v)
  BY <1>6, ImportStep, NothingRepaired
<1>7. CASE RemoveTree \/ Copy \/ Imports
  <2>1. Importing
    BY <1>7 DEF RemoveTree, Copy, Imports
  <2>2. repaired' = <<>>
    BY <1>7, <2>1, ImportingStep DEF RepairInv
  <2> QED
    BY <2>2, NothingRepaired
<1>8. CASE Interrupt
  BY <1>8, InterruptStep, NothingRepaired
<1>9. CASE UNCHANGED vars
  BY <1>9, StutteringKeepsRepairs
<1> QED
  BY <1>1, <1>2, <1>3, <1>4, <1>5, <1>6, <1>7, <1>8, <1>9 DEF Next

\* What was run without --check since the last import or interruption is still up
\* to date, apart from the lists of sources while the actions follow them.
THEOREM RepairedIsFresh == Spec => []RepairInv
  BY InitRepairsNothing, NextKeepsRepairs, ScriptsGoOn, PTL DEF Spec

\* Running the tool whose check failed, and checking again, ends after at most one
\* run of each tool and a second one of generate_build_layout, whatever was stale.
THEOREM RepairsEnd == Spec => []RepairsConverge
<1>1. RepairInv => RepairsConverge
  BY DEF RepairInv
<1> QED
  BY <1>1, RepairedIsFresh, PTL

=============================================================================

------------------------ MODULE GeneratedFilesProofs ------------------------
(* What the importers leave behind is labelled truly: as long as a major's  *)
(* UPSTREAM.toml is there, it is true of everything imported beside it.     *)
(* The removal comes first and the file that names the release comes last,  *)
(* so the invariant says how far a running import has come: what is there   *)
(* and is not still to be removed is of its release, and UPSTREAM.toml is   *)
(* back only when no step is left.                                          *)
EXTENDS GeneratedFiles, SequenceTheorems, TLAPS

Steps ==
  {"src", "src/postgres", "plpgsql", "marker", "pg_query.proto", "configure",
   "native_source", "prune", "pg_query.h", "UPSTREAM.toml"}

\* The steps left of an import: its UPSTREAM.toml comes last, and nothing of
\* the catalog is among them.
LastIsToml(steps) ==
  /\ steps \in Seq(Steps)
  /\ \A i \in 1 .. Len(steps) :
       steps[i] \notin CatalogFiles /\ (steps[i] = "UPSTREAM.toml" => i = Len(steps))

\* While an import runs: what it did not find there is of its release, and its
\* UPSTREAM.toml is there only once no step is left.
UpstreamInv ==
  tool.name = "import_upstream" =>
    /\ DOMAIN tool = {"name", "major", "release", "postgres", "record", "drop", "todo"}
    /\ tool.major \in Majors /\ tool.record.release = tool.release
    /\ LastIsToml(tool.todo)
    /\ \A f \in Vendored(tool.major) \ tool.drop :
         IF f = "UPSTREAM.toml" THEN tool.todo = <<>> /\ inputs[tool.major][f] = tool.record
         ELSE inputs[tool.major][f] = tool.release

CatalogInv ==
  tool.name = "import_catalog" =>
    /\ DOMAIN tool = {"name", "major", "release", "postgres", "record", "drop", "todo"}
    /\ tool.major \in Majors /\ tool.record.release = tool.release
    /\ LET made == (DOMAIN inputs[tool.major] \intersect CatalogFiles) \ tool.drop
       IN  \/ tool.todo = CatalogSteps /\ made = {}
           \/ /\ tool.todo = Tail(CatalogSteps) /\ made = {"pg_type.dat"}
              /\ inputs[tool.major]["pg_type.dat"] = tool.release
           \/ tool.todo = <<>>

ToolIsKnown ==
  tool.name \in {None, "generator", "import_upstream", "import_catalog"}
InputsAreFiles == DOMAIN inputs = Majors
GeneratorInv == tool.name = "generator" => DOMAIN tool = {"name", "call", "drop", "todo"}

ImportInv == InputsAreFiles /\ ToolIsKnown /\ GeneratorInv /\ UpstreamInv /\ CatalogInv /\ ProvenanceIsTrue

-----------------------------------------------------------------------------
(* The steps of an import.                                                 *)

\* A step that is neither UPSTREAM.toml nor of the catalog.
Plain(step) == step \in Steps \ (CatalogFiles \union {"UPSTREAM.toml"})

AllPlain(steps) == steps \in Seq(Steps) /\ \A i \in 1 .. Len(steps) : Plain(steps[i])

LEMMA PlainTogether ==
  ASSUME NEW s, NEW t, AllPlain(s), AllPlain(t)
  PROVE  AllPlain(s \o t)
<1>1. /\ s \in Seq(Steps) /\ t \in Seq(Steps)
      /\ \A i \in 1 .. Len(s) : Plain(s[i])
      /\ \A i \in 1 .. Len(t) : Plain(t[i])
  BY DEF AllPlain
<1>2. s \o t \in Seq(Steps) /\ Len(s \o t) = Len(s) + Len(t)
  BY <1>1
<1>3. ASSUME NEW i \in 1 .. Len(s \o t)
      PROVE  Plain((s \o t)[i])
  <2>1. CASE i <= Len(s)
    <3>1. (s \o t)[i] = s[i] /\ i \in 1 .. Len(s)
      BY <2>1, <1>1, <1>2
    <3> QED
      BY <3>1, <1>1
  <2>2. CASE i > Len(s)
    <3>1. (s \o t)[i] = t[i - Len(s)] /\ i - Len(s) \in 1 .. Len(t)
      BY <2>2, <1>1, <1>2
    <3> QED
      BY <3>1, <1>1
  <2> QED
    BY <2>1, <2>2, <1>1, <1>2
<1> QED
  BY <1>2, <1>3 DEF AllPlain

LEMMA PlainStepsBefore ==
  ASSUME NEW s, AllPlain(s), NEW t, LastIsToml(t)
  PROVE  LastIsToml(s \o t)
<1>1. /\ s \in Seq(Steps) /\ t \in Seq(Steps)
      /\ \A i \in 1 .. Len(s) : s[i] \notin CatalogFiles /\ s[i] # "UPSTREAM.toml"
      /\ \A i \in 1 .. Len(t) : t[i] \notin CatalogFiles /\ (t[i] = "UPSTREAM.toml" => i = Len(t))
  BY DEF AllPlain, Plain, LastIsToml
<1>2. s \o t \in Seq(Steps) /\ Len(s \o t) = Len(s) + Len(t)
  BY <1>1
<1>3. ASSUME NEW i \in 1 .. Len(s \o t)
      PROVE  (s \o t)[i] \notin CatalogFiles /\ ((s \o t)[i] = "UPSTREAM.toml" => i = Len(s \o t))
  <2>1. CASE i <= Len(s)
    <3>1. (s \o t)[i] = s[i] /\ i \in 1 .. Len(s)
      BY <2>1, <1>1, <1>2
    <3> QED
      BY <3>1, <1>1
  <2>2. CASE i > Len(s)
    <3>1. (s \o t)[i] = t[i - Len(s)] /\ i - Len(s) \in 1 .. Len(t)
      BY <2>2, <1>1, <1>2
    <3>2. t[i - Len(s)] \notin CatalogFiles
          /\ (t[i - Len(s)] = "UPSTREAM.toml" => i - Len(s) = Len(t))
      BY <3>1, <1>1
    <3>3. Len(s) \in Nat /\ Len(t) \in Nat /\ i \in Nat
      BY <1>1, <1>2
    <3>4. i - Len(s) = Len(t) => i = Len(s \o t)
      BY <3>3, <1>2
    <3> QED
      BY <3>1, <3>2, <3>4
  <2> QED
    BY <2>1, <2>2, <1>1, <1>2
<1> QED
  BY <1>2, <1>3 DEF LastIsToml

\* The order of import_version: whatever the major and whether a PostgreSQL
\* tree is given, UPSTREAM.toml is written last.
LEMMA StepsEndWithToml ==
  ASSUME NEW major, NEW postgres
  PROVE  LastIsToml(UpstreamSteps(major, postgres))
<1> DEFINE start == <<"src", "src/postgres", "plpgsql">>
           marker == IF major <= 16 THEN <<"marker">> ELSE <<>>
           proto == <<"pg_query.proto">>
           native == IF postgres = None THEN <<>> ELSE <<"configure", "native_source">>
           end == <<"prune", "pg_query.h", "UPSTREAM.toml">>
<1>1. AllPlain(start)
  BY DEF AllPlain, Plain, Steps, CatalogFiles
<1>2. AllPlain(marker)
  <2>1. CASE major <= 16
    BY <2>1 DEF AllPlain, Plain, Steps, CatalogFiles
  <2>2. CASE ~(major <= 16)
    BY <2>2 DEF AllPlain
  <2> QED
    BY <2>1, <2>2
<1>3. AllPlain(proto)
  BY DEF AllPlain, Plain, Steps, CatalogFiles
<1>4. AllPlain(native)
  <2>1. CASE postgres = None
    BY <2>1 DEF AllPlain
  <2>2. CASE postgres # None
    BY <2>2 DEF AllPlain, Plain, Steps, CatalogFiles
  <2> QED
    BY <2>1, <2>2
<1>5. LastIsToml(end)
  BY DEF LastIsToml, Steps, CatalogFiles
<1>6. UpstreamSteps(major, postgres) = (((start \o marker) \o proto) \o native) \o end
  BY Zenon DEF UpstreamSteps
<1> HIDE DEF start, marker, proto, native, end
<1>7. AllPlain(start \o marker)
  BY <1>1, <1>2, PlainTogether
<1>8. AllPlain((start \o marker) \o proto)
  BY <1>3, <1>7, PlainTogether
<1>9. AllPlain(((start \o marker) \o proto) \o native)
  BY <1>4, <1>8, PlainTogether
<1>10. LastIsToml((((start \o marker) \o proto) \o native) \o end)
  BY <1>5, <1>9, PlainStepsBefore
<1> QED
  BY <1>6, <1>10

\* What is left after a step is done.
LEMMA StepsLeft ==
  ASSUME NEW steps, LastIsToml(steps), steps # <<>>
  PROVE  /\ LastIsToml(Tail(steps))
         /\ Head(steps) \in Steps /\ Head(steps) \notin CatalogFiles
         /\ Head(steps) = "UPSTREAM.toml" => Tail(steps) = <<>>
<1>1. steps \in Seq(Steps)
  BY DEF LastIsToml
<1>2. Len(steps) \in Nat /\ Len(steps) > 0 /\ Tail(steps) \in Seq(Steps)
      /\ Len(Tail(steps)) = Len(steps) - 1 /\ Head(steps) = steps[1]
  BY <1>1
<1>3. \A i \in 1 .. Len(steps) :
        /\ steps[i] \in Steps /\ steps[i] \notin CatalogFiles
        /\ steps[i] = "UPSTREAM.toml" => i = Len(steps)
  BY <1>1 DEF LastIsToml
<1>4. 1 \in 1 .. Len(steps)
  BY <1>2
<1>5. ASSUME NEW i \in 1 .. Len(Tail(steps))
      PROVE  Tail(steps)[i] \notin CatalogFiles
               /\ (Tail(steps)[i] = "UPSTREAM.toml" => i = Len(Tail(steps)))
  <2>1. Tail(steps)[i] = steps[i + 1] /\ i + 1 \in 1 .. Len(steps)
    BY <1>1, <1>2
  <2>2. i + 1 = Len(steps) => i = Len(Tail(steps))
    <3> DEFINE n == Len(steps)
               t == Len(Tail(steps))
    <3>1. n \in Nat /\ t = n - 1 /\ i \in 1 .. t
      BY <1>2
    <3> HIDE DEF n, t
    <3>2. i + 1 = n => i = t
      BY <3>1
    <3> QED
      BY <3>2 DEF n, t
  <2> QED
    BY <2>1, <2>2, <1>3
<1>6. Head(steps) = "UPSTREAM.toml" => Tail(steps) = <<>>
  <2>1. \A s \in Seq(Steps) : s # <<>> => Len(s) # 0
    BY EmptySeq
  <2>2. Tail(steps) # <<>> => Len(steps) # 1
    BY <1>2, <2>1
  <2> QED
    BY <1>2, <1>3, <1>4, <2>2
<1> QED
  BY <1>2, <1>3, <1>4, <1>5, <1>6 DEF LastIsToml

-----------------------------------------------------------------------------
(* What the importers do to what is imported.                              *)

\* Removing something makes nothing untrue.
LEMMA FewerIsTrue ==
  ASSUME ProvenanceIsTrue,
         \A m \in Majors :
           /\ DOMAIN inputs'[m] \subseteq DOMAIN inputs[m]
           /\ \A f \in DOMAIN inputs'[m] : inputs'[m][f] = inputs[m][f]
  PROVE  ProvenanceIsTrue'
<1> SUFFICES ASSUME NEW m \in Majors
             PROVE  /\ "UPSTREAM.toml" \in DOMAIN inputs'[m] =>
                         \A f \in DOMAIN inputs'[m] \ (CatalogFiles \union {"UPSTREAM.toml"}) :
                           inputs'[m][f] = inputs'[m]["UPSTREAM.toml"].release
                    /\ {"pg_type.dat", "catalog/UPSTREAM.toml"} \subseteq DOMAIN inputs'[m] =>
                         inputs'[m]["pg_type.dat"]
                           = inputs'[m]["catalog/UPSTREAM.toml"].release
  BY DEF ProvenanceIsTrue
<1>1. /\ "UPSTREAM.toml" \in DOMAIN inputs[m] =>
           \A f \in DOMAIN inputs[m] \ (CatalogFiles \union {"UPSTREAM.toml"}) :
             inputs[m][f] = inputs[m]["UPSTREAM.toml"].release
      /\ {"pg_type.dat", "catalog/UPSTREAM.toml"} \subseteq DOMAIN inputs[m] =>
           inputs[m]["pg_type.dat"] = inputs[m]["catalog/UPSTREAM.toml"].release
  BY DEF ProvenanceIsTrue
<1>2. "UPSTREAM.toml" \in DOMAIN inputs'[m] =>
        \A f \in DOMAIN inputs'[m] \ (CatalogFiles \union {"UPSTREAM.toml"}) :
          inputs'[m][f] = inputs'[m]["UPSTREAM.toml"].release
  BY <1>1
<1>3. {"pg_type.dat", "catalog/UPSTREAM.toml"} \subseteq DOMAIN inputs'[m] =>
        inputs'[m]["pg_type.dat"] = inputs'[m]["catalog/UPSTREAM.toml"].release
  BY <1>1
<1> QED
  BY <1>2, <1>3

\* A tool that ends, or one that generates, imports nothing.
LEMMA NoImport ==
  ASSUME ImportInv, UNCHANGED inputs,
         \/ tool' = Idle
         \/ /\ tool'.name = "generator"
            /\ DOMAIN tool' = {"name", "call", "drop", "todo"}
  PROVE  ImportInv'
<1>1. tool'.name \in {None, "generator"}
  BY DEF Idle, None
<1>2. ProvenanceIsTrue' /\ InputsAreFiles'
  BY DEF ImportInv, ProvenanceIsTrue, InputsAreFiles
<1>3. ToolIsKnown' /\ GeneratorInv' /\ UpstreamInv' /\ CatalogInv'
  BY <1>1 DEF ToolIsKnown, GeneratorInv, UpstreamInv, CatalogInv, Idle, None
<1> QED
  BY <1>2, <1>3 DEF ImportInv

LEMMA NothingHappens ==
  ASSUME ImportInv, UNCHANGED <<inputs, tool>>
  PROVE  ImportInv'
BY DEF ImportInv, InputsAreFiles, ToolIsKnown, GeneratorInv, UpstreamInv, Vendored,
       CatalogInv, ProvenanceIsTrue

LEMMA ImportUpstreamStep ==
  ASSUME ImportInv,
         NEW m \in Majors, NEW of \in Majors, NEW r \in Releases,
         NEW p \in Releases \union {None}, NEW a \in BOOLEAN,
         ImportUpstream(m, of, r, p, a)
  PROVE  ImportInv'
<1>1. CASE of # m
  BY <1>1, NothingHappens DEF ImportUpstream
<1>2. CASE of = m
  <2>1. /\ tool'.name = "import_upstream" /\ tool'.major = m /\ tool'.release = r
        /\ tool'.record.release = r /\ tool'.drop = Vendored(m)
        /\ tool'.todo = UpstreamSteps(m, p)
        /\ DOMAIN tool' = {"name", "major", "release", "postgres", "record", "drop", "todo"}
        /\ inputs' = inputs
    <3>1. inputs' = inputs /\
          \E h, q : tool' = [ name |-> "import_upstream", major |-> m, release |-> r,
                              postgres |-> p,
                              record |-> [ release |-> r, hash |-> h, postgres |-> q ],
                              drop |-> Vendored(m), todo |-> UpstreamSteps(m, p) ]
      BY <1>2, Zenon DEF ImportUpstream
    <3> QED
      BY <3>1
  <2>2. LastIsToml(UpstreamSteps(m, p))
    BY StepsEndWithToml
  <2>3. UpstreamInv'
    BY <2>1, <2>2 DEF UpstreamInv, Vendored
  <2>4. InputsAreFiles' /\ ProvenanceIsTrue'
    BY <2>1 DEF ImportInv, InputsAreFiles, ProvenanceIsTrue
  <2>5. ToolIsKnown' /\ GeneratorInv' /\ CatalogInv'
    BY <2>1 DEF ToolIsKnown, GeneratorInv, CatalogInv
  <2> QED
    BY <2>3, <2>4, <2>5 DEF ImportInv
<1> QED
  BY <1>1, <1>2

LEMMA ImportCatalogStep ==
  ASSUME ImportInv,
         NEW m \in Majors, NEW of \in Majors, NEW r \in Releases, NEW v \in BOOLEAN,
         ImportCatalog(m, of, r, v)
  PROVE  ImportInv'
<1>1. CASE of # m \/ ~v
  BY <1>1, NothingHappens DEF ImportCatalog
<1>2. CASE of = m /\ v
  <2>1. /\ tool'.name = "import_catalog" /\ tool'.major = m /\ tool'.release = r
        /\ tool'.record.release = r
        /\ tool'.drop = DOMAIN inputs[m] \intersect CatalogFiles
        /\ tool'.todo = CatalogSteps
        /\ DOMAIN tool' = {"name", "major", "release", "postgres", "record", "drop", "todo"}
        /\ inputs' = inputs
    <3>1. /\ inputs' = inputs
          /\ tool' = [ name |-> "import_catalog", major |-> m, release |-> r,
                       postgres |-> None,
                       record |-> [ release |-> r, hash |-> r, postgres |-> r ],
                       drop |-> DOMAIN inputs[m] \intersect CatalogFiles,
                       todo |-> CatalogSteps ]
      BY <1>2, Zenon DEF ImportCatalog
    <3> QED
      BY <3>1
  <2>2. CatalogInv'
    BY <2>1 DEF CatalogInv
  <2>3. InputsAreFiles' /\ ProvenanceIsTrue'
    BY <2>1 DEF ImportInv, InputsAreFiles, ProvenanceIsTrue
  <2>4. ToolIsKnown' /\ GeneratorInv' /\ UpstreamInv'
    BY <2>1 DEF ToolIsKnown, GeneratorInv, UpstreamInv
  <2> QED
    BY <2>2, <2>3, <2>4 DEF ImportInv
<1> QED
  BY <1>1, <1>2

\* The fields of a running import but its drop and todo.
SameImport ==
  /\ tool'.name = tool.name /\ tool'.major = tool.major /\ tool'.release = tool.release
  /\ tool'.record = tool.record /\ DOMAIN tool' = DOMAIN tool

LEMMA RemoveTreeStep ==
  ASSUME ImportInv, RemoveTree
  PROVE  ImportInv'
<1>1. /\ DOMAIN tool = {"name", "major", "release", "postgres", "record", "drop", "todo"}
      /\ tool.major \in Majors /\ tool.record.release = tool.release
  BY DEF ImportInv, UpstreamInv, CatalogInv, RemoveTree, Importing
<1>2. PICK f \in tool.drop :
        /\ inputs' = [ inputs EXCEPT ![tool.major] = Restrict(@, DOMAIN @ \ {f}) ]
        /\ tool' = [ tool EXCEPT !.drop = @ \ {f} ]
  BY DEF RemoveTree
<1>3. SameImport /\ tool'.drop = tool.drop \ {f} /\ tool'.todo = tool.todo
  BY <1>1, <1>2 DEF SameImport
<1>4. /\ DOMAIN inputs' = Majors
      /\ \A m \in Majors : m # tool.major => inputs'[m] = inputs[m]
      /\ inputs'[tool.major]
           = [ g \in DOMAIN inputs[tool.major] \ {f} |-> inputs[tool.major][g] ]
  BY <1>1, <1>2 DEF Restrict, ImportInv, InputsAreFiles
<1>5. ProvenanceIsTrue'
  <2>1. \A m \in Majors :
          /\ DOMAIN inputs'[m] \subseteq DOMAIN inputs[m]
          /\ \A g \in DOMAIN inputs'[m] : inputs'[m][g] = inputs[m][g]
    BY <1>4
  <2> QED
    BY <2>1, FewerIsTrue DEF ImportInv
<1>6. \A g \in DOMAIN inputs'[tool.major] \ tool'.drop :
        /\ g \in DOMAIN inputs[tool.major] \ tool.drop
        /\ inputs'[tool.major][g] = inputs[tool.major][g]
  BY <1>3, <1>4
<1>7. CASE tool.name = "import_upstream"
  <2>1. UpstreamInv
    BY DEF ImportInv
  <2>2. \A g \in Vendored(tool.major)' \ tool'.drop : g \in Vendored(tool.major) \ tool.drop
    BY <1>3, <1>6 DEF Vendored, SameImport
  <2>3. UpstreamInv'
    BY <1>1, <1>3, <1>6, <1>7, <2>1, <2>2 DEF UpstreamInv, SameImport, Vendored
  <2>4. ToolIsKnown' /\ GeneratorInv' /\ CatalogInv' /\ InputsAreFiles'
    BY <1>3, <1>4, <1>7 DEF SameImport, ToolIsKnown, GeneratorInv, CatalogInv, InputsAreFiles
  <2> QED
    BY <1>5, <2>3, <2>4 DEF ImportInv
<1>8. CASE tool.name = "import_catalog"
  <2>1. CatalogInv
    BY DEF ImportInv
  <2>2. (DOMAIN inputs'[tool.major] \intersect CatalogFiles) \ tool'.drop
          = (DOMAIN inputs[tool.major] \intersect CatalogFiles) \ tool.drop
    BY <1>3, <1>4, <1>2
  <2>3. "pg_type.dat" \in (DOMAIN inputs[tool.major] \intersect CatalogFiles) \ tool.drop
          => inputs'[tool.major]["pg_type.dat"] = inputs[tool.major]["pg_type.dat"]
    BY <1>4, <1>2
  <2>4. CatalogInv'
    BY <1>1, <1>3, <1>8, <2>1, <2>2, <2>3 DEF CatalogInv, SameImport
  <2>5. ToolIsKnown' /\ GeneratorInv' /\ UpstreamInv' /\ InputsAreFiles'
    BY <1>3, <1>4, <1>8 DEF SameImport, ToolIsKnown, GeneratorInv, UpstreamInv, InputsAreFiles
  <2> QED
    BY <1>5, <2>4, <2>5 DEF ImportInv
<1> QED
  BY <1>7, <1>8 DEF RemoveTree, Importing

\* What a step makes of the files of its major: every file is the one that was
\* there, or the one the step makes.
LEMMA ImportedFiles ==
  ASSUME NEW held, NEW step, NEW f \in DOMAIN Imported(held, step)
  PROVE  \/ f \in DOMAIN held /\ Imported(held, step)[f] = held[f]
         \/ f = step /\ Imported(held, step)[f]
              = IF step \in {"UPSTREAM.toml", "catalog/UPSTREAM.toml"} THEN tool.record
                ELSE tool.release
<1>1. CASE step \in {"marker", "configure"}
  BY <1>1 DEF Imported
<1>2. CASE step = "prune"
  BY <1>2 DEF Imported, Restrict
<1>3. CASE step \in {"UPSTREAM.toml", "catalog/UPSTREAM.toml"}
  <2>1. Imported(held, step) = Put(held, step, tool.record)
    BY <1>3 DEF Imported
  <2> QED
    BY <2>1, <1>3 DEF Put
<1>4. CASE step \notin {"marker", "configure", "prune", "UPSTREAM.toml", "catalog/UPSTREAM.toml"}
  <2>1. Imported(held, step) = Put(held, step, tool.release)
    BY <1>4 DEF Imported
  <2> QED
    BY <2>1, <1>4 DEF Put
<1> QED
  BY <1>1, <1>2, <1>3, <1>4

\* A step of import_version that does not raise.
LEMMA UpstreamCopies ==
  ASSUME ImportInv, Copy, tool.name = "import_upstream", ~Raises(Head(tool.todo))
  PROVE  ImportInv'
<1> DEFINE m == tool.major
           step == Head(tool.todo)
<1>1. /\ DOMAIN tool = {"name", "major", "release", "postgres", "record", "drop", "todo"}
      /\ m \in Majors /\ tool.record.release = tool.release /\ LastIsToml(tool.todo)
      /\ tool.drop = {} /\ tool.todo # <<>>
      /\ "UPSTREAM.toml" \notin Vendored(m)
      /\ \A f \in Vendored(m) : inputs[m][f] = tool.release
  BY DEF ImportInv, UpstreamInv, Copy
<1>2. /\ inputs' = [ inputs EXCEPT ![m] = Imported(@, step) ]
      /\ tool' = [ tool EXCEPT !.todo = Tail(@) ]
  BY DEF Copy
<1>3. SameImport /\ tool'.drop = {} /\ tool'.todo = Tail(tool.todo)
  BY <1>1, <1>2 DEF SameImport
<1>4. /\ LastIsToml(Tail(tool.todo)) /\ step \notin CatalogFiles
      /\ step = "UPSTREAM.toml" => Tail(tool.todo) = <<>>
  BY <1>1, StepsLeft
<1>5. /\ DOMAIN inputs' = Majors
      /\ \A n \in Majors : n # m => inputs'[n] = inputs[n]
      /\ inputs'[m] = Imported(inputs[m], step)
  BY <1>1, <1>2 DEF ImportInv, InputsAreFiles
<1> HIDE DEF m, step
<1>6. ASSUME NEW f \in DOMAIN inputs'[m]
      PROVE  \/ f \in DOMAIN inputs[m] /\ inputs'[m][f] = inputs[m][f]
             \/ f = step /\ f = "UPSTREAM.toml" /\ inputs'[m][f] = tool.record
             \/ f = step /\ f # "UPSTREAM.toml" /\ inputs'[m][f] = tool.release
  BY <1>4, <1>5, ImportedFiles DEF CatalogFiles
<1>7. \A f \in DOMAIN inputs'[m] \ CatalogFiles :
        IF f = "UPSTREAM.toml" THEN tool'.todo = <<>> /\ inputs'[m][f] = tool.record
        ELSE inputs'[m][f] = tool.release
  BY <1>1, <1>3, <1>4, <1>6 DEF Vendored
<1>8. \A f \in DOMAIN inputs'[m] \intersect CatalogFiles :
        f \in DOMAIN inputs[m] /\ inputs'[m][f] = inputs[m][f]
  BY <1>4, <1>6
<1>9. UpstreamInv'
  BY <1>1, <1>3, <1>4, <1>7 DEF UpstreamInv, SameImport, Vendored, m
<1>10. ProvenanceIsTrue'
  <2> SUFFICES ASSUME NEW n \in Majors
               PROVE  /\ "UPSTREAM.toml" \in DOMAIN inputs'[n] =>
                           \A f \in DOMAIN inputs'[n] \ (CatalogFiles \union {"UPSTREAM.toml"}) :
                             inputs'[n][f] = inputs'[n]["UPSTREAM.toml"].release
                      /\ {"pg_type.dat", "catalog/UPSTREAM.toml"} \subseteq DOMAIN inputs'[n] =>
                           inputs'[n]["pg_type.dat"]
                             = inputs'[n]["catalog/UPSTREAM.toml"].release
    BY DEF ProvenanceIsTrue
  <2>1. CASE n # m
    BY <2>1, <1>5 DEF ImportInv, ProvenanceIsTrue
  <2>2. CASE n = m
    <3>1. "UPSTREAM.toml" \notin CatalogFiles
      BY DEF CatalogFiles
    <3>2. "UPSTREAM.toml" \in DOMAIN inputs'[m] =>
            \A f \in DOMAIN inputs'[m] \ (CatalogFiles \union {"UPSTREAM.toml"}) :
              inputs'[m][f] = inputs'[m]["UPSTREAM.toml"].release
      BY <1>1, <1>7, <3>1
    <3>3. {"pg_type.dat", "catalog/UPSTREAM.toml"} \subseteq DOMAIN inputs'[m] =>
            inputs'[m]["pg_type.dat"] = inputs'[m]["catalog/UPSTREAM.toml"].release
      BY <1>1, <1>8 DEF ImportInv, ProvenanceIsTrue, CatalogFiles
    <3> QED
      BY <2>2, <3>2, <3>3
  <2> QED
    BY <2>1, <2>2
<1>11. ToolIsKnown' /\ GeneratorInv' /\ CatalogInv' /\ InputsAreFiles'
  BY <1>3, <1>5 DEF SameImport, ToolIsKnown, GeneratorInv, CatalogInv, InputsAreFiles
<1> QED
  BY <1>9, <1>10, <1>11 DEF ImportInv

\* A step of import_catalog: pg_type.dat, and then its UPSTREAM.toml.
LEMMA CatalogCopies ==
  ASSUME ImportInv, Copy, tool.name = "import_catalog", ~Raises(Head(tool.todo))
  PROVE  ImportInv'
<1> DEFINE m == tool.major
           step == Head(tool.todo)
           held == DOMAIN inputs[m] \intersect CatalogFiles
<1>1. /\ DOMAIN tool = {"name", "major", "release", "postgres", "record", "drop", "todo"}
      /\ m \in Majors /\ tool.record.release = tool.release
      /\ tool.drop = {}
      /\ \/ tool.todo = CatalogSteps /\ held = {}
         \/ /\ tool.todo = Tail(CatalogSteps) /\ held = {"pg_type.dat"}
            /\ inputs[m]["pg_type.dat"] = tool.release
  BY DEF ImportInv, CatalogInv, Copy
<1>2. /\ inputs' = [ inputs EXCEPT ![m] = Imported(@, step) ]
      /\ tool' = [ tool EXCEPT !.todo = Tail(@) ]
  BY DEF Copy
<1>3. SameImport /\ tool'.drop = {} /\ tool'.todo = Tail(tool.todo)
  BY <1>1, <1>2 DEF SameImport
<1>4. \/ /\ step = "pg_type.dat" /\ tool'.todo = Tail(CatalogSteps) /\ held = {}
      \/ /\ step = "catalog/UPSTREAM.toml" /\ tool'.todo = <<>> /\ held = {"pg_type.dat"}
         /\ inputs[m]["pg_type.dat"] = tool.release
  <2> DEFINE a == "pg_type.dat"
             b == "catalog/UPSTREAM.toml"
  <2>1. CatalogSteps = <<a, b>> /\ CatalogSteps # <<>>
    BY DEF CatalogSteps
  <2>2. Head(<<a, b>>) = a /\ Tail(<<a, b>>) = <<b>> /\ Head(<<b>>) = b /\ Tail(<<b>>) = <<>>
    OBVIOUS
  <2> QED
    BY <1>1, <1>3, <2>1, <2>2
<1>5. /\ DOMAIN inputs' = Majors
      /\ \A n \in Majors : n # m => inputs'[n] = inputs[n]
      /\ inputs'[m] = Imported(inputs[m], step)
  BY <1>1, <1>2 DEF ImportInv, InputsAreFiles
<1> HIDE DEF m, step
<1>6. ASSUME NEW f \in DOMAIN inputs'[m]
      PROVE  \/ f \in DOMAIN inputs[m] /\ inputs'[m][f] = inputs[m][f]
             \/ f = step /\ f = "catalog/UPSTREAM.toml" /\ inputs'[m][f] = tool.record
             \/ f = step /\ f = "pg_type.dat" /\ inputs'[m][f] = tool.release
  BY <1>4, <1>5, ImportedFiles
<1>7. step \in DOMAIN inputs'[m]
  <2>1. Imported(inputs[m], step)
          = Put(inputs[m], step, IF step = "pg_type.dat" THEN tool.release ELSE tool.record)
    BY <1>4 DEF Imported
  <2> QED
    BY <2>1, <1>5 DEF Put
<1>8. \/ /\ tool'.todo = Tail(CatalogSteps)
         /\ DOMAIN inputs'[m] \intersect CatalogFiles = {"pg_type.dat"}
         /\ inputs'[m]["pg_type.dat"] = tool.release
      \/ tool'.todo = <<>>
  BY <1>4, <1>6, <1>7 DEF CatalogFiles
<1>9. CatalogInv'
  BY <1>1, <1>3, <1>8 DEF CatalogInv, SameImport, m
<1>10. ProvenanceIsTrue'
  <2> SUFFICES ASSUME NEW n \in Majors
               PROVE  /\ "UPSTREAM.toml" \in DOMAIN inputs'[n] =>
                           \A f \in DOMAIN inputs'[n] \ (CatalogFiles \union {"UPSTREAM.toml"}) :
                             inputs'[n][f] = inputs'[n]["UPSTREAM.toml"].release
                      /\ {"pg_type.dat", "catalog/UPSTREAM.toml"} \subseteq DOMAIN inputs'[n] =>
                           inputs'[n]["pg_type.dat"]
                             = inputs'[n]["catalog/UPSTREAM.toml"].release
    BY DEF ProvenanceIsTrue
  <2>1. CASE n # m
    BY <2>1, <1>5 DEF ImportInv, ProvenanceIsTrue
  <2>2. CASE n = m
    <3>1. "UPSTREAM.toml" \in DOMAIN inputs'[m] =>
            \A f \in DOMAIN inputs'[m] \ (CatalogFiles \union {"UPSTREAM.toml"}) :
              inputs'[m][f] = inputs'[m]["UPSTREAM.toml"].release
      BY <1>1, <1>6 DEF ImportInv, ProvenanceIsTrue, CatalogFiles
    <3>2. {"pg_type.dat", "catalog/UPSTREAM.toml"} \subseteq DOMAIN inputs'[m] =>
            inputs'[m]["pg_type.dat"] = inputs'[m]["catalog/UPSTREAM.toml"].release
      BY <1>1, <1>4, <1>6 DEF CatalogFiles
    <3> QED
      BY <2>2, <3>1, <3>2
  <2> QED
    BY <2>1, <2>2
<1>11. ToolIsKnown' /\ GeneratorInv' /\ UpstreamInv' /\ InputsAreFiles'
  BY <1>3, <1>5 DEF SameImport, ToolIsKnown, GeneratorInv, UpstreamInv, InputsAreFiles
<1> QED
  BY <1>9, <1>10, <1>11 DEF ImportInv

LEMMA CopyStep ==
  ASSUME ImportInv, Copy
  PROVE  ImportInv'
<1>1. CASE Raises(Head(tool.todo))
  BY <1>1, NoImport DEF Copy, Fail
<1>2. CASE ~Raises(Head(tool.todo))
  BY <1>2, UpstreamCopies, CatalogCopies DEF Copy, Importing
<1> QED
  BY <1>1, <1>2

-----------------------------------------------------------------------------
(* The other steps, and the theorems.                                      *)

LEMMA InvokeStep ==
  ASSUME ImportInv, Invoke
  PROVE  ImportInv'
<1>1. inputs' = inputs
  BY DEF Invoke
<1>2. \/ tool' = Idle
      \/ tool' = [ name |-> "generator", call |-> Head(script),
                   drop |-> stale_generated_paths(Head(script)),
                   todo |-> Outputs(Head(script)) ]
  BY Zenon DEF Invoke, Fail, Pass
<1> QED
  BY <1>1, <1>2, NoImport

LEMMA GeneratorStep ==
  ASSUME ImportInv, Drop \/ Write
  PROVE  ImportInv'
<1>1. inputs' = inputs
  BY DEF Drop, Write
<1>2. tool.name = "generator" /\ DOMAIN tool = {"name", "call", "drop", "todo"}
  BY DEF ImportInv, GeneratorInv, Drop, Write, Generating
<1>3. \E p : tool' = [ tool EXCEPT !.drop = @ \ {p} ] \/ tool' = [ tool EXCEPT !.todo = Tail(@) ]
  BY DEF Drop, Write
<1>4. tool'.name = "generator" /\ DOMAIN tool' = DOMAIN tool
  BY <1>2, <1>3
<1> QED
  BY <1>1, <1>2, <1>4, NoImport

\* The invariant of the imports holds of every release, every set of majors and
\* however imports end.
THEOREM ImportInvariant == Spec => []ImportInv
<1>1. Init => ImportInv
  <2> SUFFICES ASSUME Init PROVE ImportInv
    OBVIOUS
  <2>1. PICK r \in Releases : inputs = [ m \in Majors |-> CheckedIn(r) ]
    BY DEF Init
  <2>2. tool.name = None
    BY DEF Init, Idle
  <2>3. \A m \in Majors : inputs[m] = CheckedIn(r)
    BY <2>1
  <2>4. ProvenanceIsTrue
    <3>1. \A f \in DOMAIN CheckedIn(r) :
            IF f \in {"UPSTREAM.toml", "catalog/UPSTREAM.toml"}
            THEN CheckedIn(r)[f].release = r ELSE CheckedIn(r)[f] = r
      BY DEF CheckedIn
    <3> QED
      BY <2>3, <3>1 DEF ProvenanceIsTrue, CheckedIn, CatalogFiles
  <2> QED
    BY <2>1, <2>2, <2>4
       DEF ImportInv, InputsAreFiles, ToolIsKnown, GeneratorInv, UpstreamInv, CatalogInv, None
<1>2. ImportInv /\ [Next]_vars => ImportInv'
  <2> SUFFICES ASSUME ImportInv, [Next]_vars PROVE ImportInv'
    OBVIOUS
  <2>1. CASE StartCheck \/ Repair \/ \E whole \in BOOLEAN : StartRegeneration(whole)
    BY <2>1, NothingHappens DEF StartCheck, Repair, StartRegeneration
  <2>2. CASE Invoke
    BY <2>2, InvokeStep
  <2>3. CASE Drop \/ Write
    BY <2>3, GeneratorStep
  <2>4. CASE Finish \/ Imports
    BY <2>4, NoImport DEF Finish, Pass, Imports
  <2>5. CASE \E m, of \in Majors, r \in Releases, p \in Releases \union {None}, a \in BOOLEAN :
               ImportUpstream(m, of, r, p, a)
    BY <2>5, ImportUpstreamStep
  <2>6. CASE \E m, of \in Majors, r \in Releases, v \in BOOLEAN : ImportCatalog(m, of, r, v)
    BY <2>6, ImportCatalogStep
  <2>7. CASE RemoveTree
    BY <2>7, RemoveTreeStep
  <2>8. CASE Copy
    BY <2>8, CopyStep
  <2>9. CASE Interrupt
    BY <2>9, NoImport DEF Interrupt, Fail
  <2>10. CASE UNCHANGED vars
    BY <2>10, NothingHappens DEF vars
  <2> QED
    BY <2>1, <2>2, <2>3, <2>4, <2>5, <2>6, <2>7, <2>8, <2>9, <2>10 DEF Next
<1> QED
  BY <1>1, <1>2, PTL DEF Spec

\* As long as UPSTREAM.toml is there it is true of everything imported beside it,
\* however the last import ended.
THEOREM ImportsAreLabelledTruly == Spec => []ProvenanceIsTrue
<1>1. ImportInv => ProvenanceIsTrue
  BY DEF ImportInv
<1> QED
  BY <1>1, ImportInvariant, PTL
=============================================================================

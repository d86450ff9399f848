------------------------- MODULE SessionServerProofs -------------------------
(***************************************************************************)
(* The safety properties of SessionServer, proved for every set of workers *)
(* and of credentials, every capacity and every backlog: sessions and the  *)
(* entries of the registry correspond one to one, no token outlives its    *)
(* command, and a cancel request reaches only the command it names.        *)
(***************************************************************************)
EXTENDS SessionServer, NaturalTheorems, FiniteSetTheorems, TLAPS

-----------------------------------------------------------------------------
(* The invariant *)

Entered(i) == entries[i] # Nothing

(***************************************************************************)
(* The inductive form of RegistrationIsExact: credentials name at most one *)
(* entry and one registered session, and each has the other.               *)
(***************************************************************************)
RegistryInv ==
  /\ \A i, j \in 1..Capacity :
       Entered(i) /\ Entered(j) /\ entries[i].key = entries[j].key => i = j
  /\ \A w \in Workers : worker[w].pc \in Registered =>
       \E i \in 1..Capacity : Entered(i) /\ entries[i].key = worker[w].key
  /\ \A i \in 1..Capacity : Entered(i) =>
       \E w \in Workers : worker[w].pc \in Registered /\ worker[w].key = entries[i].key
  /\ \A v, w \in Workers :
       /\ worker[v].pc \in Registered /\ worker[w].pc \in Registered
       /\ worker[v].key = worker[w].key
       => v = w

ServerInv == TypeOK /\ RegistryInv /\ TokenIsLive

\* The route a registered worker's credentials name is its entry.
LEMMA OwnEntry ==
  ASSUME TypeOK, RegistryInv, NEW w \in Workers, worker[w].pc \in Registered
  PROVE  \E i \in 1..Capacity :
           /\ entries[i] \in Routes /\ Entered(i) /\ entries[i].key = worker[w].key
           /\ SlotsOf(worker[w].key) = {i}
           /\ Lowest(SlotsOf(worker[w].key)) = i
  <1>1. PICK i \in 1..Capacity : Entered(i) /\ entries[i].key = worker[w].key
    BY DEF RegistryInv
  <1>2. DOMAIN entries = 1..Capacity
    BY DEF TypeOK
  <1>3. SlotsOf(worker[w].key) = {i}
    BY <1>1, <1>2 DEF SlotsOf, Entered, RegistryInv
  <1>4. i <= i
    BY ServerAssumption
  <1>5. Lowest({i}) = i
    BY <1>4 DEF Lowest
  <1>6. entries[i] \in Routes
    BY <1>1 DEF TypeOK, Entered
  <1> QED
    BY <1>1, <1>3, <1>5, <1>6

LEMMA LowestFree ==
  ASSUME TypeOK, FreeSlots # {}
  PROVE  Lowest(FreeSlots) \in 1..Capacity /\ ~Entered(Lowest(FreeSlots))
  <1>1. FreeSlots \subseteq 1..Capacity
    BY DEF FreeSlots, TypeOK
  <1>2. \E i \in FreeSlots : \A j \in FreeSlots : i <= j
    <2>1. \A i \in 1..Capacity : i \in Nat
      BY ServerAssumption
    <2>2. FreeSlots \subseteq Nat
      BY <1>1, <2>1
    <2> QED
      BY <2>2, LeastNatural
  <1>3. Lowest(FreeSlots) \in FreeSlots
    BY <1>2 DEF Lowest
  <1> QED
    BY <1>1, <1>3 DEF FreeSlots, Entered

\* A step of one worker that keeps its registration and its token.
LEMMA WorkerKeeps ==
  ASSUME ServerInv, NEW w \in Workers, UNCHANGED entries,
         \A v \in Workers \ {w} :
           worker'[v].pc = worker[v].pc /\ worker'[v].key = worker[v].key,
         worker'[w].pc \in Registered <=> worker[w].pc \in Registered,
         worker'[w].pc \in Registered => worker'[w].key = worker[w].key,
         worker[w].pc \in Operating => worker'[w].pc \in Operating
  PROVE  RegistryInv' /\ TokenIsLive'
  <1>1. \A v \in Workers : /\ worker'[v].pc \in Registered <=> worker[v].pc \in Registered
                           /\ worker'[v].pc \in Registered => worker'[v].key = worker[v].key
    OBVIOUS
  <1>2. RegistryInv'
    BY <1>1 DEF ServerInv, RegistryInv, Entered
  <1>3. \A i \in 1..Capacity : entries[i] # Nothing => entries[i] \in Routes
    BY DEF ServerInv, TypeOK
  <1>4. TokenIsLive'
    BY <1>1, <1>3 DEF ServerInv, TokenIsLive, TypeOK, Routes, Operating, Registered
  <1> QED
    BY <1>2, <1>4

-----------------------------------------------------------------------------
(* The calls of the registry *)

\* Begin_Operation and End_Operation find the session's own entry.
LEMMA SetTokenOwn ==
  ASSUME TypeOK, RegistryInv, NEW w \in Workers, worker[w].pc \in Registered,
         NEW token, SetToken(worker[w].key, token)
  PROVE  \E i \in 1..Capacity :
           /\ Entered(i) /\ entries[i].key = worker[w].key
           /\ SlotsOf(worker[w].key) # {}
           /\ entries' = [entries EXCEPT ![i] =
                            [key |-> worker[w].key, token |-> token]]
  <1>1. PICK i \in 1..Capacity :
          /\ entries[i] \in Routes /\ Entered(i) /\ entries[i].key = worker[w].key
          /\ SlotsOf(worker[w].key) = {i}
          /\ Lowest(SlotsOf(worker[w].key)) = i
    BY OwnEntry
  <1>2. entries' = [entries EXCEPT ![i].token = token]
    BY <1>1 DEF SetToken
  <1>3. [entries[i] EXCEPT !.token = token] = [key |-> worker[w].key, token |-> token]
    BY <1>1 DEF Routes
  <1>4. entries' = [entries EXCEPT ![i] = [key |-> worker[w].key, token |-> token]]
    BY <1>2, <1>3
  <1> QED
    BY <1>1, <1>4

LEMMA RemoveRouteOwn ==
  ASSUME TypeOK, RegistryInv, NEW w \in Workers, worker[w].pc \in Registered,
         RemoveRoute(worker[w].key)
  PROVE  \E i \in 1..Capacity :
           /\ Entered(i) /\ entries[i].key = worker[w].key
           /\ entries' = [entries EXCEPT ![i] = Nothing]
  BY OwnEntry DEF RemoveRoute

\* What the four registry calls do to the invariant.
LEMMA TokenMoves ==
  ASSUME ServerInv, NEW w \in Workers, worker[w].pc \in Registered,
         NEW i \in 1..Capacity, Entered(i), entries[i].key = worker[w].key,
         NEW token \in {w, Nothing},
         entries' = [entries EXCEPT ![i] = [key |-> worker[w].key, token |-> token]],
         \A v \in Workers \ {w} : worker'[v] = worker[v],
         worker'[w].pc \in Registered, worker'[w].key = worker[w].key,
         token = w => worker'[w].pc \in Operating
  PROVE  RegistryInv' /\ TokenIsLive'
  <1>1. entries \in [1..Capacity -> Routes \union {Nothing}]
    BY DEF ServerInv, TypeOK
  <1>2. [key |-> worker[w].key, token |-> token] \in Routes
    BY <1>1 DEF Entered, Routes
  <1>3. \A j \in 1..Capacity :
          /\ Entered(j)' <=> Entered(j)
          /\ Entered(j) => entries'[j].key = entries[j].key
          /\ j # i => entries'[j] = entries[j]
    BY <1>1, <1>2, ServerAssumption DEF Entered
  <1>4. entries'[i].token = token /\ entries'[i].key = worker[w].key
    BY <1>1
  <1>5. \A v \in Workers : /\ worker'[v].pc \in Registered <=> worker[v].pc \in Registered
                           /\ worker'[v].key = worker[v].key
    OBVIOUS
  <1>6. RegistryInv'
    BY <1>3, <1>5 DEF ServerInv, RegistryInv
  <1>7. DOMAIN entries = 1..Capacity /\ DOMAIN entries' = 1..Capacity
    BY <1>1
  <1>8. ASSUME NEW j \in 1..Capacity, entries'[j] # Nothing, entries'[j].token # Nothing
        PROVE  /\ worker'[entries'[j].token].pc \in Operating
               /\ worker'[entries'[j].token].key = entries'[j].key
    <2>1. CASE j = i
      BY <2>1, <1>4, <1>8
    <2>2. CASE j # i
      <3>1. entries'[j] = entries[j] /\ entries[j] \in Routes /\ Entered(j)
        BY <2>2, <1>1, <1>3, <1>8 DEF Entered
      <3>2. entries[j].token \in Workers
        BY <3>1, <1>8 DEF Routes
      <3>3. /\ worker[entries[j].token].pc \in Operating
            /\ worker[entries[j].token].key = entries[j].key
        BY <3>1, <1>7, <1>8 DEF ServerInv, TokenIsLive
      <3>4. entries[j].token # w
        BY <3>1, <3>3, <2>2 DEF ServerInv, RegistryInv
      <3> QED
        BY <3>1, <3>2, <3>3, <3>4
    <2> QED
      BY <2>1, <2>2
  <1>9. TokenIsLive'
    BY <1>7, <1>8 DEF TokenIsLive
  <1> QED
    BY <1>6, <1>9

LEMMA Enters ==
  ASSUME ServerInv, NEW w \in Workers, worker[w].pc \notin Registered,
         NEW i \in 1..Capacity, ~Entered(i), NEW key \in Credentials, ~Collides(key),
         entries' = [entries EXCEPT ![i] = [key |-> key, token |-> Nothing]],
         \A v \in Workers \ {w} : worker'[v] = worker[v],
         worker'[w].pc \in Registered, worker'[w].key = key
  PROVE  RegistryInv' /\ TokenIsLive'
  <1>1. entries \in [1..Capacity -> Routes \union {Nothing}]
    BY DEF ServerInv, TypeOK
  <1>2. [key |-> key, token |-> Nothing] \in Routes
    BY DEF Routes
  <1>3. /\ entries'[i] = [key |-> key, token |-> Nothing] /\ Entered(i)'
        /\ entries'[i].key = key /\ entries'[i].token = Nothing
    BY <1>1, <1>2, ServerAssumption DEF Entered
  <1>4. \A j \in 1..Capacity : j # i =>
          entries'[j] = entries[j] /\ (Entered(j)' <=> Entered(j))
    BY <1>1 DEF Entered
  <1>5. \A j \in 1..Capacity : Entered(j) => entries[j].key # key
    BY <1>1 DEF Collides, SlotsOf, Entered
  <1>6. \A v \in Workers : worker[v].pc \in Registered => worker[v].key # key
    BY <1>5 DEF ServerInv, RegistryInv
  <1>7. DOMAIN entries = 1..Capacity /\ DOMAIN entries' = 1..Capacity
    BY <1>1
  <1>8. RegistryInv'
    <2>1. \A j, k \in 1..Capacity :
            Entered(j)' /\ Entered(k)' /\ entries'[j].key = entries'[k].key => j = k
      BY <1>3, <1>4, <1>5 DEF ServerInv, RegistryInv
    <2>2. \A v \in Workers : worker'[v].pc \in Registered =>
            \E j \in 1..Capacity : Entered(j)' /\ entries'[j].key = worker'[v].key
      BY <1>3, <1>4 DEF ServerInv, RegistryInv
    <2>3. \A j \in 1..Capacity : Entered(j)' =>
            \E v \in Workers : worker'[v].pc \in Registered
                               /\ worker'[v].key = entries'[j].key
      <3> TAKE j \in 1..Capacity
      <3> HAVE Entered(j)'
      <3>1. CASE j = i
        BY <3>1, <1>3
      <3>2. CASE j # i
        BY <3>2, <1>4 DEF ServerInv, RegistryInv
      <3> QED
        BY <3>1, <3>2
    <2>4. \A u, v \in Workers :
            /\ worker'[u].pc \in Registered /\ worker'[v].pc \in Registered
            /\ worker'[u].key = worker'[v].key
            => u = v
      BY <1>6 DEF ServerInv, RegistryInv
    <2> QED
      BY <2>1, <2>2, <2>3, <2>4 DEF RegistryInv
  <1>9. ASSUME NEW j \in 1..Capacity, entries'[j] # Nothing, entries'[j].token # Nothing
        PROVE  /\ worker'[entries'[j].token].pc \in Operating
               /\ worker'[entries'[j].token].key = entries'[j].key
    <2>1. j # i
      BY <1>3, <1>9
    <2>2. entries'[j] = entries[j] /\ entries[j] \in Routes
      BY <2>1, <1>1, <1>4, <1>9
    <2>3. entries[j].token \in Workers
      BY <2>2, <1>9 DEF Routes
    <2>4. /\ worker[entries[j].token].pc \in Operating
          /\ worker[entries[j].token].key = entries[j].key
      BY <2>2, <1>7, <1>9 DEF ServerInv, TokenIsLive
    <2>5. entries[j].token # w
      BY <2>4 DEF Registered
    <2> QED
      BY <2>2, <2>3, <2>4, <2>5
  <1>10. TokenIsLive'
    BY <1>7, <1>9 DEF TokenIsLive
  <1> QED
    BY <1>8, <1>10

LEMMA LeavesRegistry ==
  ASSUME ServerInv, NEW w \in Workers, worker[w].pc \in Registered \ Operating,
         NEW i \in 1..Capacity, Entered(i), entries[i].key = worker[w].key,
         entries' = [entries EXCEPT ![i] = Nothing],
         \A v \in Workers \ {w} : worker'[v] = worker[v],
         worker'[w].pc \notin Registered
  PROVE  RegistryInv' /\ TokenIsLive'
  <1>1. entries \in [1..Capacity -> Routes \union {Nothing}]
    BY DEF ServerInv, TypeOK
  <1>2. \A j \in 1..Capacity :
          /\ Entered(j)' <=> Entered(j) /\ j # i
          /\ j # i => entries'[j] = entries[j]
    BY <1>1 DEF Entered
  <1>3. \A v \in Workers : worker'[v].pc \in Registered
          <=> worker[v].pc \in Registered /\ v # w
    OBVIOUS
  <1>4. RegistryInv'
    BY <1>2, <1>3 DEF ServerInv, RegistryInv
  <1>5. DOMAIN entries = 1..Capacity /\ DOMAIN entries' = 1..Capacity
    BY <1>1
  <1>6. ASSUME NEW j \in 1..Capacity, entries'[j] # Nothing, entries'[j].token # Nothing
        PROVE  /\ worker'[entries'[j].token].pc \in Operating
               /\ worker'[entries'[j].token].key = entries'[j].key
    <2>1. entries'[j] = entries[j] /\ entries[j] \in Routes
      BY <1>1, <1>2, <1>6 DEF Entered
    <2>2. entries[j].token \in Workers
      BY <2>1, <1>6 DEF Routes
    <2>3. /\ worker[entries[j].token].pc \in Operating
          /\ worker[entries[j].token].key = entries[j].key
      BY <2>1, <1>5, <1>6 DEF ServerInv, TokenIsLive
    <2> QED
      BY <2>1, <2>2, <2>3
  <1>7. TokenIsLive'
    BY <1>5, <1>6 DEF TokenIsLive
  <1> QED
    BY <1>4, <1>7

-----------------------------------------------------------------------------
(* The actions *)

WorkerRecords ==
  [ pc : Counters, request : Initials \union {Nothing},
    key : Credentials \union {Nothing}, signalled : BOOLEAN,
    next : {"read", "remove"} ]

LEMMA FreeWorkerType == FreeWorker \in WorkerRecords
  BY DEF FreeWorker, WorkerRecords, Counters

LEMMA InitTypes == Init => TypeOK
  <1> HAVE Init
  <1>1. worker \in [Workers -> WorkerRecords]
    BY FreeWorkerType DEF Init
  <1>2. entries \in [1..Capacity -> Routes \union {Nothing}]
    BY DEF Init
  <1>3. backlog \in Seq(Initials)
    BY DEF Init
  <1> QED
    BY <1>1, <1>2, <1>3 DEF Init, TypeOK, WorkerRecords

LEMMA InitInv == Init => ServerInv
  <1> HAVE Init
  <1>1. TypeOK
    BY InitTypes
  <1>2. \A w \in Workers : worker[w].pc = "free"
    BY DEF Init, FreeWorker
  <1>3. \A i \in 1..Capacity : entries[i] = Nothing
    BY DEF Init
  <1>4. DOMAIN entries = 1..Capacity
    BY DEF Init
  <1>5. RegistryInv
    BY <1>2, <1>3 DEF RegistryInv, Entered, Registered, Operating
  <1>6. TokenIsLive
    BY <1>3, <1>4 DEF TokenIsLive
  <1> QED
    BY <1>1, <1>5, <1>6 DEF ServerInv

\* A step that sets the record of one worker to one of the right type.
LEMMA OneWorker ==
  ASSUME TypeOK, NEW w \in Workers, NEW r \in WorkerRecords,
         worker' = [worker EXCEPT ![w] = r],
         entries' \in [1..Capacity -> Routes \union {Nothing}],
         backlog' \in Seq(Initials), UNCHANGED serveVars
  PROVE  TypeOK' /\ worker'[w] = r /\ \A v \in Workers \ {w} : worker'[v] = worker[v]
  BY DEF TypeOK, WorkerRecords, serveVars

LEMMA AcceptStep ==
  ASSUME ServerInv, NEW w \in Workers, Accept(w)
  PROVE  ServerInv'
  <1> DEFINE r == [FreeWorker EXCEPT !.pc = "initial", !.request = Head(backlog)]
  <1>1. worker' = [worker EXCEPT ![w] = r]
    BY DEF Accept
  <1>2. Head(backlog) \in Initials /\ backlog' \in Seq(Initials)
    BY DEF Accept, ServerInv, TypeOK
  <1>3. r \in WorkerRecords /\ r.pc = "initial"
    BY <1>2 DEF FreeWorker, WorkerRecords, Counters
  <1> HIDE DEF r
  <1>4. TypeOK' /\ worker'[w] = r /\ \A v \in Workers \ {w} : worker'[v] = worker[v]
    BY <1>1, <1>2, <1>3, OneWorker DEF Accept, ServerInv, TypeOK
  <1>5. RegistryInv' /\ TokenIsLive'
    BY <1>3, <1>4, WorkerKeeps DEF Accept, At, Registered, Operating
  <1> QED
    BY <1>4, <1>5 DEF ServerInv

LEMMA GiveUpStep ==
  ASSUME ServerInv, NEW w \in Workers, GiveUp(w)
  PROVE  ServerInv'
  <1>1. worker' = [worker EXCEPT ![w] = FreeWorker]
    BY DEF GiveUp, Leaves
  <1>2. TypeOK' /\ worker'[w] = FreeWorker /\ \A v \in Workers \ {w} : worker'[v] = worker[v]
    BY <1>1, FreeWorkerType, OneWorker DEF GiveUp, ServerInv, TypeOK
  <1>3. RegistryInv' /\ TokenIsLive'
    BY <1>2, WorkerKeeps DEF GiveUp, At, Registered, Operating, FreeWorker
  <1> QED
    BY <1>2, <1>3 DEF ServerInv

LEMMA AdmitStep ==
  ASSUME ServerInv, NEW w \in Workers, Admit(w)
  PROVE  ServerInv'
  <1> DEFINE r == [worker[w] EXCEPT !.pc = "register", !.request = Nothing]
  <1>0. worker' = [worker EXCEPT ![w] = r]
    BY Zenon DEF Admit, Goto
  <1>1. worker[w] \in WorkerRecords
    BY DEF ServerInv, TypeOK, WorkerRecords
  <1>2. r \in WorkerRecords /\ r.key = worker[w].key /\ r.pc = "register"
    BY <1>1 DEF WorkerRecords, Counters
  <1> HIDE DEF r
  <1>3. TypeOK' /\ worker'[w] = r /\ \A v \in Workers \ {w} : worker'[v] = worker[v]
    BY <1>0, <1>2, OneWorker DEF Admit, ServerInv, TypeOK
  <1>4. RegistryInv' /\ TokenIsLive'
    BY <1>2, <1>3, WorkerKeeps DEF Admit, At, Registered, Operating
  <1> QED
    BY <1>3, <1>4 DEF ServerInv

LEMMA CompleteStartupStep ==
  ASSUME ServerInv, NEW w \in Workers, CompleteStartup(w)
  PROVE  ServerInv'
  <1> PICK pc \in {"read", "remove"} :
        worker' = [worker EXCEPT ![w] = [worker[w] EXCEPT !.pc = pc]]
    BY Zenon DEF CompleteStartup, Goto
  <1> DEFINE r == [worker[w] EXCEPT !.pc = pc]
  <1>0. worker' = [worker EXCEPT ![w] = r]
    BY Zenon DEF CompleteStartup, Goto
  <1>1. worker[w] \in WorkerRecords
    BY DEF ServerInv, TypeOK, WorkerRecords
  <1>2. r \in WorkerRecords /\ r.key = worker[w].key /\ r.pc = pc
    BY <1>1 DEF WorkerRecords, Counters
  <1> HIDE DEF r
  <1>3. TypeOK' /\ worker'[w] = r /\ \A v \in Workers \ {w} : worker'[v] = worker[v]
    BY <1>0, <1>2, OneWorker DEF CompleteStartup, ServerInv, TypeOK
  <1>4. RegistryInv' /\ TokenIsLive'
    BY <1>2, <1>3, WorkerKeeps DEF CompleteStartup, At, Registered, Operating
  <1> QED
    BY <1>3, <1>4 DEF ServerInv

LEMMA ReadCommandStep ==
  ASSUME ServerInv, NEW w \in Workers, ReadCommand(w)
  PROVE  ServerInv'
  <1> DEFINE r == [worker[w] EXCEPT !.pc = "begin", !.signalled = FALSE]
  <1>0. worker' = [worker EXCEPT ![w] = r]
    BY Zenon DEF ReadCommand, Goto
  <1>1. worker[w] \in WorkerRecords
    BY DEF ServerInv, TypeOK, WorkerRecords
  <1>2. r \in WorkerRecords /\ r.key = worker[w].key /\ r.pc = "begin"
    BY <1>1 DEF WorkerRecords, Counters
  <1> HIDE DEF r
  <1>3. TypeOK' /\ worker'[w] = r /\ \A v \in Workers \ {w} : worker'[v] = worker[v]
    BY <1>0, <1>2, OneWorker DEF ReadCommand, ServerInv, TypeOK
  <1>4. RegistryInv' /\ TokenIsLive'
    BY <1>2, <1>3, WorkerKeeps DEF ReadCommand, At, Registered, Operating
  <1> QED
    BY <1>3, <1>4 DEF ServerInv

LEMMA ReadFailsStep ==
  ASSUME ServerInv, NEW w \in Workers, ReadFails(w)
  PROVE  ServerInv'
  <1> DEFINE r == [worker[w] EXCEPT !.pc = "remove"]
  <1>0. worker' = [worker EXCEPT ![w] = r]
    BY Zenon DEF ReadFails, Goto
  <1>1. worker[w] \in WorkerRecords
    BY DEF ServerInv, TypeOK, WorkerRecords
  <1>2. r \in WorkerRecords /\ r.key = worker[w].key /\ r.pc = "remove"
    BY <1>1 DEF WorkerRecords, Counters
  <1> HIDE DEF r
  <1>3. TypeOK' /\ worker'[w] = r /\ \A v \in Workers \ {w} : worker'[v] = worker[v]
    BY <1>0, <1>2, OneWorker DEF ReadFails, ServerInv, TypeOK
  <1>4. RegistryInv' /\ TokenIsLive'
    BY <1>2, <1>3, WorkerKeeps DEF ReadFails, At, Registered, Operating
  <1> QED
    BY <1>3, <1>4 DEF ServerInv

LEMMA HandleEndsStep ==
  ASSUME ServerInv, NEW w \in Workers, HandleEnds(w)
  PROVE  ServerInv'
  <1> PICK next \in {"read", "remove"} :
        worker' = [worker EXCEPT ![w] = [worker[w] EXCEPT !.pc = "end", !.next = next]]
    BY Zenon DEF HandleEnds
  <1> DEFINE r == [worker[w] EXCEPT !.pc = "end", !.next = next]
  <1>0. worker' = [worker EXCEPT ![w] = r]
    BY Zenon DEF HandleEnds, Goto
  <1>1. worker[w] \in WorkerRecords
    BY DEF ServerInv, TypeOK, WorkerRecords
  <1>2. r \in WorkerRecords /\ r.key = worker[w].key /\ r.pc = "end"
    BY <1>1 DEF WorkerRecords, Counters
  <1> HIDE DEF r
  <1>3. TypeOK' /\ worker'[w] = r /\ \A v \in Workers \ {w} : worker'[v] = worker[v]
    BY <1>0, <1>2, OneWorker DEF HandleEnds, ServerInv, TypeOK
  <1>4. RegistryInv' /\ TokenIsLive'
    BY <1>2, <1>3, WorkerKeeps DEF HandleEnds, At, Registered, Operating
  <1> QED
    BY <1>3, <1>4 DEF ServerInv

\* Route: the token it finds is the token of a session with these credentials,
\* whose command runs.
LEMMA TargetIsLive ==
  ASSUME ServerInv, NEW key, Target(key) # Nothing
  PROVE  /\ Target(key) \in Workers
         /\ worker[Target(key)].pc \in Operating /\ worker[Target(key)].key = key
  <1>1. entries \in [1..Capacity -> Routes \union {Nothing}]
    BY DEF ServerInv, TypeOK
  <1> DEFINE matching == { i \in DOMAIN entries : entries[i] # Nothing
                                                    /\ Matches(entries[i], key) }
             Latest(i) == i \in matching /\ \A j \in matching : j <= i
             target == entries[CHOOSE i \in matching : \A j \in matching : j <= i].token
  <1>2. matching # {} /\ Target(key) = target
    BY DEF Target
  <1>3. PICK i \in 1..Capacity : entries[i] # Nothing /\ entries[i].key = key
    BY <1>1, <1>2 DEF Matches
  <1>4. matching = {i}
    BY <1>1, <1>3 DEF Matches, ServerInv, RegistryInv, Entered
  <1>5. i <= i
    BY ServerAssumption
  <1> HIDE DEF matching
  <1>6. (CHOOSE k \in matching : \A j \in matching : j <= k) = i
    BY <1>4, <1>5
  <1>7. Target(key) = entries[i].token
    BY <1>2, <1>6
  <1>8. entries[i] \in Routes
    BY <1>1, <1>3
  <1>9. entries[i].token \in Workers
    BY <1>7, <1>8 DEF Routes
  <1> QED
    BY <1>1, <1>3, <1>7, <1>9 DEF ServerInv, TokenIsLive

LEMMA RouteCancelEffect ==
  ASSUME ServerInv, NEW w \in Workers, RouteCancel(w)
  PROVE  /\ worker' \in [Workers -> WorkerRecords]
         /\ worker'[w].pc = "free" /\ worker'[w].signalled = FALSE
         /\ \A v \in Workers \ {w} :
              /\ worker'[v].pc = worker[v].pc /\ worker'[v].key = worker[v].key
              /\ ~worker[v].signalled /\ worker'[v].signalled =>
                   worker[v].pc \in Operating
                   /\ worker[v].key = worker[w].request.key
  <1> DEFINE target == Target(worker[w].request.key)
             left == [worker EXCEPT ![w] = FreeWorker]
  <1>1. worker' = IF target = Nothing THEN left
                  ELSE [left EXCEPT ![target].signalled = TRUE]
    BY DEF RouteCancel
  <1>2. target # Nothing =>
          /\ target \in Workers /\ worker[target].pc \in Operating
          /\ worker[target].key = worker[w].request.key
    BY TargetIsLive
  <1>3. target # w
    BY <1>2, ServerAssumption DEF RouteCancel, At, Operating
  <1> HIDE DEF target
  <1>4. worker \in [Workers -> WorkerRecords]
    BY DEF ServerInv, TypeOK, WorkerRecords
  <1>5. FreeWorker \in WorkerRecords /\ FreeWorker.pc = "free" /\ ~FreeWorker.signalled
    BY FreeWorkerType DEF FreeWorker
  <1>6. /\ left \in [Workers -> WorkerRecords] /\ left[w] = FreeWorker
        /\ \A v \in Workers \ {w} : left[v] = worker[v]
    BY <1>4, <1>5
  <1> HIDE DEF left
  <1>7. CASE target = Nothing
    <2>1. worker' = left
      BY <1>1, <1>7
    <2> QED
      BY <2>1, <1>5, <1>6 DEF WorkerRecords
  <1>8. CASE target # Nothing
    <2> DEFINE r == [left[target] EXCEPT !.signalled = TRUE]
    <2>1. worker' = [left EXCEPT ![target] = r]
      BY <1>1, <1>8
    <2>2. left[target] = worker[target] /\ left[target] \in WorkerRecords
      BY <1>2, <1>3, <1>6, <1>8
    <2>3. /\ r \in WorkerRecords /\ r.pc = worker[target].pc
          /\ r.key = worker[target].key
      BY <2>2 DEF WorkerRecords
    <2> HIDE DEF r
    <2>4. /\ worker' \in [Workers -> WorkerRecords] /\ worker'[target] = r
          /\ \A v \in Workers \ {target} : worker'[v] = left[v]
      BY <2>1, <2>3, <1>2, <1>6, <1>8
    <2>5. worker'[w] = FreeWorker
      BY <2>4, <1>3, <1>6
    <2>6. \A v \in Workers \ {w, target} : worker'[v] = worker[v]
      BY <2>4, <1>6
    <2> QED
      BY <2>3, <2>4, <2>5, <2>6, <1>2, <1>5, <1>8
  <1> QED
    BY <1>7, <1>8

LEMMA RouteCancelStep ==
  ASSUME ServerInv, NEW w \in Workers, RouteCancel(w)
  PROVE  ServerInv'
  <1>1. TypeOK'
    BY RouteCancelEffect DEF RouteCancel, serveVars, ServerInv, TypeOK, WorkerRecords
  <1>2. RegistryInv' /\ TokenIsLive'
    BY RouteCancelEffect, WorkerKeeps DEF RouteCancel, At, Registered, Operating
  <1> QED
    BY <1>1, <1>2 DEF ServerInv

LEMMA RegisterStep ==
  ASSUME ServerInv, NEW w \in Workers, Register(w)
  PROVE  ServerInv'
  <1>1. worker[w] \in WorkerRecords /\ worker[w].pc = "register"
    BY DEF Register, At, ServerInv, TypeOK, WorkerRecords
  <1>2. CASE FreeSlots = {} /\ Leaves(w) /\ UNCHANGED entries
    <2>1. worker' = [worker EXCEPT ![w] = FreeWorker]
      BY <1>2 DEF Leaves
    <2>2. /\ TypeOK' /\ worker'[w] = FreeWorker
          /\ \A v \in Workers \ {w} : worker'[v] = worker[v]
      BY <1>2, <2>1, FreeWorkerType, OneWorker DEF Register, ServerInv, TypeOK
    <2>3. RegistryInv' /\ TokenIsLive'
      BY <1>1, <1>2, <2>2, WorkerKeeps DEF Registered, Operating, FreeWorker
    <2> QED
      BY <2>2, <2>3 DEF ServerInv
  <1>3. CASE FreeSlots # {} /\ ~(Leaves(w) /\ FreeSlots = {})
    <2>1. PICK key \in Credentials :
            /\ ~Collides(key)
            /\ entries' = [entries EXCEPT ![Lowest(FreeSlots)] =
                              [key |-> key, token |-> Nothing]]
            /\ worker' = [worker EXCEPT
                 ![w] = [worker[w] EXCEPT !.pc = "startup", !.key = key]]
      BY <1>3, Zenon DEF Register, Generate
    <2> DEFINE r == [worker[w] EXCEPT !.pc = "startup", !.key = key]
    <2>2. PICK i \in 1..Capacity : ~Entered(i) /\ Lowest(FreeSlots) = i
      BY <1>3, LowestFree DEF ServerInv
    <2>3. entries' = [entries EXCEPT ![i] = [key |-> key, token |-> Nothing]]
      BY <2>1, <2>2
    <2>4. [key |-> key, token |-> Nothing] \in Routes
      BY DEF Routes
    <2>5. entries' \in [1..Capacity -> Routes \union {Nothing}]
      BY <2>3, <2>4 DEF ServerInv, TypeOK
    <2>6. r \in WorkerRecords /\ r.pc = "startup" /\ r.key = key
      BY <1>1 DEF WorkerRecords, Counters
    <2>7. worker' = [worker EXCEPT ![w] = r]
      BY <2>1, Zenon
    <2> HIDE DEF r
    <2>8. /\ TypeOK' /\ worker'[w] = r
          /\ \A v \in Workers \ {w} : worker'[v] = worker[v]
      BY <2>5, <2>6, <2>7, OneWorker DEF Register, ServerInv, TypeOK
    <2>9. worker[w].pc \notin Registered /\ worker'[w].pc \in Registered
      BY <1>1, <2>6, <2>8 DEF Registered, Operating
    <2>10. RegistryInv' /\ TokenIsLive'
      BY <2>1, <2>2, <2>3, <2>6, <2>8, <2>9, Enters
    <2> QED
      BY <2>8, <2>10 DEF ServerInv
  <1> QED
    BY <1>2, <1>3 DEF Register

LEMMA BeginOperationStep ==
  ASSUME ServerInv, NEW w \in Workers, BeginOperation(w)
  PROVE  ServerInv'
  <1>1. worker[w] \in WorkerRecords /\ worker[w].pc \in Registered
    BY DEF BeginOperation, At, Registered, ServerInv, TypeOK, WorkerRecords
  <1>2. PICK i \in 1..Capacity :
          /\ Entered(i) /\ entries[i].key = worker[w].key
          /\ SlotsOf(worker[w].key) # {}
          /\ entries' = [entries EXCEPT ![i] = [key |-> worker[w].key, token |-> w]]
    BY <1>1, SetTokenOwn DEF BeginOperation, ServerInv
  <1>3. entries[i] \in Routes
    BY <1>2 DEF ServerInv, TypeOK, Entered
  <1>4. entries' \in [1..Capacity -> Routes \union {Nothing}]
    BY <1>2, <1>3 DEF ServerInv, TypeOK, Routes
  <1> DEFINE r == [worker[w] EXCEPT !.pc = "handle"]
  <1>5. worker' = [worker EXCEPT ![w] = r]
    BY <1>2 DEF BeginOperation, Goto
  <1>6. r \in WorkerRecords /\ r.pc = "handle" /\ r.key = worker[w].key
    BY <1>1 DEF WorkerRecords, Counters
  <1> HIDE DEF r
  <1>7. TypeOK' /\ worker'[w] = r /\ \A v \in Workers \ {w} : worker'[v] = worker[v]
    BY <1>4, <1>5, <1>6, OneWorker DEF BeginOperation, ServerInv, TypeOK
  <1>8. worker'[w].pc \in Registered /\ worker'[w].pc \in Operating
    BY <1>6, <1>7 DEF Registered, Operating
  <1>9. RegistryInv' /\ TokenIsLive'
    BY <1>1, <1>2, <1>6, <1>7, <1>8, TokenMoves
  <1> QED
    BY <1>7, <1>9 DEF ServerInv

LEMMA EndOperationStep ==
  ASSUME ServerInv, NEW w \in Workers, EndOperation(w)
  PROVE  ServerInv'
  <1>1. worker[w] \in WorkerRecords /\ worker[w].pc \in Registered
    BY DEF EndOperation, At, Registered, Operating, ServerInv, TypeOK, WorkerRecords
  <1>2. PICK i \in 1..Capacity :
          /\ Entered(i) /\ entries[i].key = worker[w].key
          /\ entries' = [entries EXCEPT ![i] = [key |-> worker[w].key, token |-> Nothing]]
    BY <1>1, SetTokenOwn DEF EndOperation, ClearToken, ServerInv
  <1>3. entries[i] \in Routes
    BY <1>2 DEF ServerInv, TypeOK, Entered
  <1>4. entries' \in [1..Capacity -> Routes \union {Nothing}]
    BY <1>2, <1>3 DEF ServerInv, TypeOK, Routes
  <1> DEFINE r == [worker[w] EXCEPT !.pc = worker[w].next]
  <1>5. worker' = [worker EXCEPT ![w] = r]
    BY Zenon DEF EndOperation, Goto
  <1>6. r \in WorkerRecords /\ r.pc \in {"read", "remove"} /\ r.key = worker[w].key
    BY <1>1 DEF WorkerRecords, Counters
  <1> HIDE DEF r
  <1>7. TypeOK' /\ worker'[w] = r /\ \A v \in Workers \ {w} : worker'[v] = worker[v]
    BY <1>4, <1>5, <1>6, OneWorker DEF EndOperation, ServerInv, TypeOK
  <1>8. worker'[w].pc \in Registered
    BY <1>6, <1>7 DEF Registered
  <1>9. RegistryInv' /\ TokenIsLive'
    BY <1>1, <1>2, <1>6, <1>7, <1>8, TokenMoves, ServerAssumption
  <1> QED
    BY <1>7, <1>9 DEF ServerInv

LEMMA UnregisterStep ==
  ASSUME ServerInv, NEW w \in Workers, Unregister(w)
  PROVE  ServerInv'
  <1>1. worker[w].pc \in Registered \ Operating
    BY DEF Unregister, At, Registered, Operating
  <1>2. PICK i \in 1..Capacity :
          /\ Entered(i) /\ entries[i].key = worker[w].key
          /\ entries' = [entries EXCEPT ![i] = Nothing]
    BY <1>1, RemoveRouteOwn DEF Unregister, ServerInv
  <1>3. entries' \in [1..Capacity -> Routes \union {Nothing}]
    BY <1>2 DEF ServerInv, TypeOK
  <1>4. worker' = [worker EXCEPT ![w] = FreeWorker]
    BY DEF Unregister, Leaves
  <1>5. /\ TypeOK' /\ worker'[w] = FreeWorker
        /\ \A v \in Workers \ {w} : worker'[v] = worker[v]
    BY <1>3, <1>4, FreeWorkerType, OneWorker DEF Unregister, ServerInv, TypeOK
  <1>6. worker'[w].pc \notin Registered
    BY <1>5 DEF FreeWorker, Registered, Operating
  <1>7. RegistryInv' /\ TokenIsLive'
    BY <1>1, <1>2, <1>5, <1>6, LeavesRegistry
  <1> QED
    BY <1>5, <1>7 DEF ServerInv

\* The steps of Serve, of Request_Shutdown and of the clients, and stuttering,
\* touch neither the workers nor the registry.
LEMMA OutsideStep ==
  ASSUME ServerInv, UNCHANGED <<worker, entries>>, TypeOK'
  PROVE  ServerInv'
  BY DEF ServerInv, RegistryInv, TokenIsLive, Entered

LEMMA ServerSteps ==
  ASSUME ServerInv, [Next]_vars
  PROVE  ServerInv'
  <1>1. CASE \E w \in Workers : WorkerStep(w) \/ Accept(w)
    BY <1>1, AcceptStep, RouteCancelStep, AdmitStep, GiveUpStep, RegisterStep,
       CompleteStartupStep, ReadCommandStep, ReadFailsStep, BeginOperationStep,
       HandleEndsStep, EndOperationStep, UnregisterStep DEF WorkerStep
  <1>2. CASE Run \/ ServeFails \/ ForceDrain \/ ServeReturns \/ Serve \/ RequestShutdown
    <2>1. UNCHANGED <<worker, entries, backlog>>
      BY <1>2 DEF Run, ServeFails, ForceDrain, ServeReturns, Serve, RequestShutdown
    <2>2. /\ phase' \in {"new", "installed", "serving", "returned"}
          /\ inner' \in {"runs", "drains", "forced"}
          /\ stop' \in BOOLEAN /\ stopSeen' \in BOOLEAN
      BY <1>2 DEF Run, ServeFails, ForceDrain, ServeReturns, Serve, RequestShutdown,
                  ServerInv, TypeOK
    <2> QED
      BY <2>1, <2>2, OutsideStep DEF ServerInv, TypeOK
  <1>3. CASE OpenConnection
    <2>1. backlog' \in Seq(Initials)
      BY <1>3 DEF OpenConnection, ServerInv, TypeOK
    <2> QED
      BY <1>3, <2>1, OutsideStep DEF OpenConnection, serveVars, ServerInv, TypeOK
  <1>4. CASE UNCHANGED vars
    BY <1>4, OutsideStep DEF vars, serveVars, ServerInv, TypeOK
  <1> QED
    BY <1>1, <1>2, <1>3, <1>4 DEF Next, ServerStep

-----------------------------------------------------------------------------
(* The theorems *)

\* Sessions and entries correspond one to one, and the tokens in the registry
\* are those of running commands, whatever workers run side by side.
THEOREM ServerInvariant == Spec => []ServerInv
  BY InitInv, ServerSteps, PTL DEF Spec

\* Every variable of the server keeps its type.
THEOREM ServerTypes == Spec => []TypeOK
  <1>1. ServerInv => TypeOK
    BY DEF ServerInv
  <1> QED
    BY <1>1, ServerInvariant, PTL

\* A registered session has exactly one entry and an entry exactly one session.
THEOREM ServerRegistration == Spec => []RegistrationIsExact
  <1>1. ASSUME ServerInv
        PROVE  RegistrationIsExact
    <2>1. ASSUME NEW w \in Workers, worker[w].pc \in Registered
          PROVE  Cardinality(SlotsOf(worker[w].key)) = 1
      <3>1. PICK i \in 1..Capacity : SlotsOf(worker[w].key) = {i}
        BY <1>1, <2>1, OwnEntry DEF ServerInv
      <3> QED
        BY <3>1, FS_Singleton
    <2>2. ASSUME NEW i \in DOMAIN entries, entries[i] # Nothing
          PROVE  Cardinality({ w \in Workers : /\ worker[w].pc \in Registered
                                               /\ worker[w].key = entries[i].key }) = 1
      <3>1. PICK w \in Workers :
              worker[w].pc \in Registered /\ worker[w].key = entries[i].key
        BY <1>1, <2>2 DEF ServerInv, RegistryInv, TypeOK, Entered
      <3>2. { v \in Workers : /\ worker[v].pc \in Registered
                              /\ worker[v].key = entries[i].key } = {w}
        BY <1>1, <3>1 DEF ServerInv, RegistryInv
      <3> QED
        BY <3>2, FS_Singleton
    <2> QED
      BY <2>1, <2>2 DEF RegistrationIsExact
  <1> QED
    BY <1>1, ServerInvariant, PTL

\* The registry holds no token of a command that has ended.
THEOREM ServerTokens == Spec => []TokenIsLive
  <1>1. ServerInv => TokenIsLive
    BY DEF ServerInv
  <1> QED
    BY <1>1, ServerInvariant, PTL

\* Only RouteCancel requests a token, of a running command with the request's
\* credentials.
LEMMA SignalIsAimed ==
  ASSUME ServerInv, [Next]_vars, NEW w \in Workers,
         ~worker[w].signalled, worker'[w].signalled
  PROVE  worker[w].pc \in Operating /\ \E c \in Workers : AimsAt(c, w)
  <1>1. PICK c \in Workers : RouteCancel(c)
    <2>1. FreeWorker \in WorkerRecords /\ ~FreeWorker.signalled
      BY FreeWorkerType DEF FreeWorker
    <2>2. worker \in [Workers -> WorkerRecords]
      BY DEF ServerInv, TypeOK, WorkerRecords
    <2>3. CASE \E v \in Workers : GiveUp(v) \/ Unregister(v) \/ Accept(v)
      <3>1. PICK v \in Workers : \E request :
              \/ worker' = [worker EXCEPT ![v] = FreeWorker]
              \/ worker' = [worker EXCEPT
                   ![v] = [FreeWorker EXCEPT !.pc = "initial", !.request = request]]
        BY <2>3, Zenon DEF GiveUp, Unregister, Accept, Leaves
      <3> QED
        BY <2>1, <2>2, <3>1, ZenonT(60) DEF WorkerRecords
    <2>4. CASE \E v \in Workers : \/ CompleteStartup(v) \/ ReadFails(v)
                                  \/ BeginOperation(v) \/ EndOperation(v)
      <3>1. PICK v \in Workers : \E pc : worker' = [worker EXCEPT ![v].pc = pc]
        BY <2>4, Zenon DEF CompleteStartup, ReadFails, BeginOperation, EndOperation, Goto
      <3> QED
        BY <2>2, <3>1 DEF WorkerRecords
    <2>5. CASE \E v \in Workers : Admit(v)
      BY <2>2, <2>5 DEF Admit, WorkerRecords
    <2>6. CASE \E v \in Workers : Register(v)
      <3>1. PICK v \in Workers : \E key :
              \/ worker' = [worker EXCEPT ![v] = FreeWorker]
              \/ worker' = [worker EXCEPT
                   ![v] = [worker[v] EXCEPT !.pc = "startup", !.key = key]]
        BY <2>6, Zenon DEF Register, Leaves
      <3> QED
        BY <2>1, <2>2, <3>1, ZenonT(60) DEF WorkerRecords
    <2>7. CASE \E v \in Workers : ReadCommand(v)
      BY <2>2, <2>7 DEF ReadCommand, WorkerRecords
    <2>8. CASE \E v \in Workers : HandleEnds(v)
      <3>1. PICK v \in Workers : \E next : worker' = [worker EXCEPT
              ![v] = [worker[v] EXCEPT !.pc = "end", !.next = next]]
        BY <2>8, Zenon DEF HandleEnds
      <3> QED
        BY <2>2, <3>1 DEF WorkerRecords
    <2>9. CASE UNCHANGED worker
      BY <2>9
    <2> QED
      BY <2>3, <2>4, <2>5, <2>6, <2>7, <2>8, <2>9 DEF Next, WorkerStep, ServerStep,
         Run, ServeFails, ForceDrain, ServeReturns, Serve, RequestShutdown,
         OpenConnection, vars
  <1>2. c # w
    BY <1>1, RouteCancelEffect
  <1>3. worker[w].pc \in Operating /\ worker[w].key = worker[c].request.key
    BY <1>1, <1>2, RouteCancelEffect
  <1>4. worker[c].pc = "initial" /\ worker'[c].pc = "free"
    BY <1>1, RouteCancelEffect DEF RouteCancel, At
  <1> QED
    BY <1>3, <1>4 DEF AimsAt, At

\* A token is requested only by a cancel request with the session's credentials,
\* and only while a command of it runs.
THEOREM ServerCancels == Spec => CancelIsAimed
  <1>1. ServerInv /\ [Next]_vars =>
          [ \A w \in Workers : ~worker[w].signalled /\ worker'[w].signalled =>
              worker[w].pc \in Operating /\ \E c \in Workers : AimsAt(c, w) ]_vars
    BY SignalIsAimed
  <1> QED
    BY <1>1, ServerInvariant, PTL DEF Spec, CancelIsAimed
=============================================================================

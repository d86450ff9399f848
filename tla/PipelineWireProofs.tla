-------------------------- MODULE PipelineWireProofs --------------------------
(***************************************************************************)
(* Proofs about PipelineWire: for every set of columns, every work that a  *)
(* portal or a query may turn out to be and every bound, the session's     *)
(* books agree with what is in flight.                                     *)
(*                                                                         *)
(* They hold for an application that is Disciplined: it may pipeline and   *)
(* it may mix Receive_Message with the typed receives, and it takes none   *)
(* of the other Liberties, each of which breaks them.                      *)
(* Whatever liberties are taken with writing, the session implements that  *)
(* of ClientSession (WireImplementsSession).                               *)
(*                                                                         *)
(* The invariant sees the responses in flight as a walk through the phases *)
(* of an exchange, from the phase the session has read up to (ClientIn) to *)
(* the phase the backend has answered up to (ServerIn, CommandsFit): Flow. *)
(* EndsInOrder, NothingFollows and CopyInIsOrdered keep the two directions *)
(* of a COPY from overtaking one another; Counted and BatchInv relate      *)
(* Pending_Syncs to the Syncs and the ReadyForQuery in flight; EndsBySync  *)
(* says that what is in flight ends with one of them unless a batch is     *)
(* open, which is why a session that is Ready is at rest.                  *)
(***************************************************************************)
EXTENDS PipelineWire, ClientSessionProofs, SequenceTheorems,
        FunctionTheorems, FiniteSetTheorems, TLAPS

-----------------------------------------------------------------------------
(* What is in flight.                                                      *)

Tags == BatchTags \union CopyTags \union {"Sync", "Query"}
EndTags == {"CopyDone", "CopyFail"}

Commands == [ tag : Tags, work : AllWorks ]
Responses ==
  { m \in [ kind : BackendKinds, shape : AllWorks ] : HasShape(m.kind) => m.shape \in Columns }

Sends(tags) == \E i \in DOMAIN toServer : toServer[i].tag \in tags
Brings(kinds) == \E i \in DOMAIN toClient : toClient[i].kind \in kinds

WireTypes ==
  /\ toServer \in Seq(Commands)
  /\ toClient \in Seq(Responses)
  /\ server \in Modes

-----------------------------------------------------------------------------
(* The phases of an exchange, as they are between two responses.  Those of *)
(* a batch are first, those of a simple query follow.                      *)

BatchPhases == { "flat", "out", "done", "in", "failed" }
QueryPhases ==
  { "asked", "rows", "over", "reads", "copies", "copied",
    "both", "half", "late", "last", "quiet" }
Phases == BatchPhases \union QueryPhases

\* Which response may come in which phase, and the phase it leads to.
Leads(p, kind, q) ==
  \/ p = "flat" /\ q = "flat" /\ kind \in { "RowDescription", "NoData", "DataRow",
       "CommandComplete", "EmptyQuery", "PortalSuspended", "ReadyForQuery" }
  \/ p = "flat" /\ q = "out" /\ kind = "CopyOutResponse"
  \/ p = "flat" /\ q = "in" /\ kind = "CopyInResponse"
  \/ p = "out" /\ q = "out" /\ kind = "CopyData"
  \/ p = "out" /\ q = "done" /\ kind = "CopyDone"
  \/ p \in {"done", "in"} /\ q = "flat" /\ kind = "CommandComplete"
  \/ p \in {"flat", "out", "in"} /\ q = "failed" /\ kind = "Error"
  \/ p = "failed" /\ q = "flat" /\ kind = "ReadyForQuery"
  \/ p = "asked" /\ q = "rows" /\ kind = "RowDescription"
  \/ p = "rows" /\ q = "rows" /\ kind = "DataRow"
  \/ p = "asked" /\ q = "reads" /\ kind = "CopyInResponse"
  \/ p = "asked" /\ q = "copies" /\ kind = "CopyOutResponse"
  \/ p = "copies" /\ q = "copies" /\ kind = "CopyData"
  \/ p = "copies" /\ q = "copied" /\ kind = "CopyDone"
  \/ p = "asked" /\ q = "both" /\ kind = "CopyBothResponse"
  \/ p = "both" /\ q = "both" /\ kind = "CopyData"
  \/ p = "both" /\ q \in {"half", "late"} /\ kind = "CopyDone"
  \/ p = "late" /\ q = "last" /\ kind = "CopyData"
  \/ p \in {"asked", "rows", "reads", "copied", "half", "last"} /\ q = "over"
       /\ kind = "CommandComplete"
  \/ p \in {"asked", "reads", "copies", "both", "half"} /\ q = "over" /\ kind = "Error"
  \/ p = "over" /\ q = "quiet" /\ kind = "ReadyForQuery"

\* The responses take an exchange from phase p to phase q.
Walk(responses, p, q) ==
  \E phases \in [1 .. Len(responses) + 1 -> Phases] :
    /\ phases[1] = p /\ phases[Len(responses) + 1] = q
    /\ \A i \in 1 .. Len(responses) : Leads(phases[i], responses[i].kind, phases[i + 1])

\* What the backend is doing when it has answered up to a phase.
ServerIn(phase) ==
  \/ phase \in {"flat", "asked", "quiet"} /\ server = "idle"
  \/ phase = "failed" /\ server = "skipping"
  \/ phase = "in" /\ server = "copy_in"
  \/ phase = "reads" /\ server = "simple_copy_in"
  \/ phase = "both" /\ server = "copy_both"
  \/ phase = "half" /\ server = "copy_both_ended"

\* What the session looks like when it has read up to a phase.
ClientIn(phase) ==
  \/ /\ phase = "flat"
     /\ \/ /\ session.origin = "No_Copy"
           /\ session.state \in {"Ready", "Extended_Query_Active", "Awaiting_Ready"}
        \/ CopyIsOver
  \/ /\ phase = "out"
     /\ session.origin = "Extended_Copy" /\ session.recvOpen
     /\ session.state \in {"Copy_Out_Active", "Awaiting_Ready"}
     /\ session.copySync \/ session.batchOpen
  \/ /\ phase = "done"
     /\ session.origin = "Extended_Copy" /\ BothClosed
     /\ session.state \in {"Copy_Completion_Active", "Awaiting_Ready"}
     /\ session.copySync \/ session.batchOpen
  \/ /\ phase = "in"
     /\ session.origin = "Extended_Copy" /\ ~session.recvOpen
     /\ session.state \in {"Copy_In_Active", "Copy_Completion_Active", "Awaiting_Ready"}
  \/ /\ phase = "failed"
     /\ \/ session.state = "Recovery_Required"
        \/ /\ session.pending > 0 /\ session.origin = "No_Copy"
           /\ session.state \in {"Extended_Query_Active", "Awaiting_Ready"}
        \/ session.origin = "Extended_Copy" /\ session.state = "Awaiting_Ready"
  \/ /\ phase = "asked"
     /\ session.state = "Simple_Query_Active" /\ session.desc = NoDescription
  \/ phase = "rows" /\ session.state = "Simple_Query_Active"
  \/ /\ phase = "over"
     /\ \/ session.state = "Simple_Query_Active"
        \/ session.origin = "Simple_Copy" /\ session.state = "Copy_Completion_Active"
  \/ /\ phase = "reads"
     /\ session.origin = "Simple_Copy" /\ ~session.recvOpen
     /\ session.state \in {"Copy_In_Active", "Copy_Completion_Active"}
  \/ /\ phase = "copies"
     /\ session.origin = "Simple_Copy" /\ session.state = "Copy_Out_Active"
  \/ /\ phase = "copied"
     /\ session.origin = "Simple_Copy" /\ session.state = "Copy_Completion_Active"
  \/ /\ phase = "both"
     /\ session.origin = "Simple_Copy" /\ session.state = "Copy_Both_Active"
     /\ session.recvOpen /\ session.bidir
  \/ /\ phase = "half"
     /\ session.origin = "Simple_Copy" /\ session.bidir /\ ~session.recvOpen
     /\ session.state \in {"Copy_Both_Active", "Copy_Completion_Active"}
  \/ /\ phase \in {"late", "last"}
     /\ session.origin = "Simple_Copy" /\ session.bidir
     /\ session.state = "Copy_Completion_Active"

\* Which commands may be on their way when the backend is in a phase.
CommandsFit(phase) ==
  \/ phase \in {"flat", "failed"} /\ ~Sends({"Query"})
  \/ phase = "in" /\ ~Sends(BatchTags \union {"Query"})
  \/ /\ phase = "asked"
     /\ toServer # <<>> /\ toServer[Len(toServer)].tag = "Query"
     /\ \A i \in 1 .. Len(toServer) - 1 : toServer[i].tag \in CopyTags
  \/ /\ phase \in QueryPhases \ {"asked"}
     /\ ~Sends(BatchTags \union {"Sync", "Query"})

\* The responses in flight take the session's phase p to the backend's, q.
Flow(p, q) ==
  /\ Walk(toClient, p, q)
  /\ p \in BatchPhases <=> q \in BatchPhases
  /\ ClientIn(p) /\ ServerIn(q) /\ CommandsFit(q)
  /\ p = "in" => ~Sends(BatchTags \union {"Query"})
  /\ p = "in" /\ ~session.copySync =>
       /\ Len(toClient) <= 1
       /\ Brings({"CommandComplete"}) => toServer = <<>>

-----------------------------------------------------------------------------
(* Writable COPY.                                                          *)

\* Nothing of a COPY is answered as if it had ended before the client ended it.
EndsInOrder ==
  /\ session.sendOpen \/ Brings(WritableCopy) => ~Sends(EndTags)
  /\ session.sendOpen => ~Brings(WritableCopy \union {"CommandComplete"})
  /\ \A i, j \in DOMAIN toClient : i < j /\ toClient[i].kind \in WritableCopy =>
       toClient[j].kind \notin WritableCopy \union {"CommandComplete"}
  /\ \A i \in DOMAIN toClient : toClient[i].kind = "CopyBothResponse" => i = 1

\* Only Syncs are written behind what turns out to be COPY IN.
NothingFollows ==
  /\ \A i, j \in DOMAIN toServer :
       i < j /\ toServer[i].tag = "Execute" /\ toServer[i].work = "copy_in"
         => toServer[j].tag = "Sync"
  /\ \A i \in DOMAIN toClient : toClient[i].kind = "CopyInResponse" =>
       i = Len(toClient) /\ ~Sends(Tags \ {"Sync"})

\* While the backend reads a COPY that the client knows of: the Syncs it will
\* swallow come first, and behind the end of the data there are only others.
CopyInIsOrdered ==
  server = "copy_in" /\ ~Brings({"CopyInResponse"}) =>
    /\ ~session.sendOpen => Sends(EndTags)
    /\ \A i, j \in DOMAIN toServer :
         i < j /\ toServer[j].tag = "Sync" /\ toServer[i].tag \in CopyTags => ~SwallowedAt(j)
    /\ \A i, j \in DOMAIN toServer : i < j /\ toServer[i].tag \in EndTags =>
         toServer[j].tag = "Sync" /\ session.copySync

-----------------------------------------------------------------------------
(* Batches and their Syncs.                                                *)

ReadiesIn == { i \in DOMAIN toClient : toClient[i].kind = "ReadyForQuery" }
SyncsIn == { i \in DOMAIN toServer : toServer[i].tag = "Sync" /\ ~SwallowedAt(i) }

Counted ==
  ~SimpleQueryRuns =>
    IF Brings({"CopyInResponse"})
    THEN session.pending >= Cardinality(ReadiesIn) + (IF session.batchOpen THEN 0 ELSE 1)
    ELSE session.pending = ReadiesToCome

BatchInv ==
  /\ ~session.pipelined =>
       /\ session.pending <= 1
       /\ session.pending > 0 => ~session.batchOpen
       /\ session.state = "Extended_Query_Active" => session.pending = 0
  /\ session.origin = "Extended_Copy" /\ ~session.copySync => session.pending = 0
  /\ session.state = "Awaiting_Ready" => session.pending > 0 /\ ~session.batchOpen
  /\ session.state = "Recovery_Required" => session.pending = 0
  /\ session.sendOpen => ~session.copySync
  /\ session.pending > 0 /\ ~session.batchOpen => ~session.bound /\ ~session.suspended

\* What is in flight need not end with a Sync.
Loose ==
  \/ session.batchOpen \/ session.state = "Recovery_Required" \/ SimpleQueryRuns
  \/ session.origin = "Extended_Copy" /\ ~session.copySync
  \/ Brings({"CopyInResponse"})

EndsBySync ==
  ~Loose =>
    /\ \A i \in DOMAIN toServer : toServer[i].tag \in BatchTags =>
         \E j \in DOMAIN toServer : j > i /\ toServer[j].tag = "Sync"
    /\ server # "idle" => SyncsIn # {}
    /\ toClient # <<>> =>
         SyncsIn # {} \/ toClient[Len(toClient)].kind = "ReadyForQuery"

ExchangeInv ==
  /\ \E p, q \in Phases : Flow(p, q)
  /\ EndsInOrder /\ NothingFollows /\ CopyInIsOrdered
  /\ Counted /\ BatchInv /\ EndsBySync

WireInv ==
  /\ SessionInv /\ NoDesynchronisation /\ WireTypes
  /\ session.state # "Closed" => ExchangeInv

-----------------------------------------------------------------------------
(* Walks.                                                                  *)

\* A walk begins and ends in phases.
LEMMA WalkEnds ==
  ASSUME NEW S, NEW r \in Seq(S), NEW p, NEW q, Walk(r, p, q)
  PROVE  p \in Phases /\ q \in Phases
<1>1. Len(r) \in Nat
  OBVIOUS
<1> QED
  BY <1>1 DEF Walk

\* Without a response the phase stays.
LEMMA WalkNowhere ==
  ASSUME NEW p \in Phases, NEW q
  PROVE  Walk(<<>>, p, q) <=> p = q
<1>1. Len(<<>>) = 0
  BY EmptySeq
<1>2. ASSUME p = q PROVE Walk(<<>>, p, q)
  <2> DEFINE f == [i \in 1 .. Len(<<>>) + 1 |-> p]
  <2>1. /\ f \in [1 .. Len(<<>>) + 1 -> Phases] /\ f[1] = p /\ f[Len(<<>>) + 1] = q
    BY <1>1, <1>2
  <2>2. \A i \in 1 .. Len(<<>>) : FALSE
    BY <1>1
  <2> HIDE DEF f
  <2> QED
    BY <2>1, <2>2 DEF Walk
<1> QED
  BY <1>1, <1>2 DEF Walk

\* The first response of a walk, and the walk of the others.
LEMMA WalkFirst ==
  ASSUME NEW S, NEW r \in Seq(S), r # <<>>, NEW p, NEW q, Walk(r, p, q)
  PROVE  \E x \in Phases : Leads(p, Head(r).kind, x) /\ Walk(Tail(r), x, q)
<1>1. PICK f \in [1 .. Len(r) + 1 -> Phases] :
        /\ f[1] = p /\ f[Len(r) + 1] = q
        /\ \A i \in 1 .. Len(r) : Leads(f[i], r[i].kind, f[i + 1])
  BY DEF Walk
<1>2. /\ Len(r) \in Nat \ {0} /\ Tail(r) \in Seq(S) /\ Len(Tail(r)) = Len(r) - 1
      /\ Head(r) = r[1] /\ \A i \in 1 .. Len(Tail(r)) : Tail(r)[i] = r[i + 1]
  BY EmptySeq, HeadTailProperties
<1> DEFINE g == [i \in 1 .. Len(Tail(r)) + 1 |-> f[i + 1]]
<1>3. /\ g \in [1 .. Len(Tail(r)) + 1 -> Phases] /\ g[1] = f[2]
      /\ g[Len(Tail(r)) + 1] = q
  BY <1>1, <1>2
<1>4. \A i \in 1 .. Len(Tail(r)) : Leads(g[i], Tail(r)[i].kind, g[i + 1])
  <2> TAKE i \in 1 .. Len(Tail(r))
  <2>1. /\ i + 1 \in 1 .. Len(r) /\ g[i] = f[i + 1] /\ g[i + 1] = f[(i + 1) + 1]
        /\ Tail(r)[i] = r[i + 1]
    BY <1>2
  <2> QED
    BY <2>1, <1>1
<1>5. Leads(p, Head(r).kind, f[2]) /\ f[2] \in Phases
  BY <1>1, <1>2
<1> HIDE DEF g
<1> QED
  BY <1>3, <1>4, <1>5 DEF Walk

\* Its last response leads to where it ends.
LEMMA WalkLast ==
  ASSUME NEW S, NEW r \in Seq(S), r # <<>>, NEW p, NEW q, Walk(r, p, q)
  PROVE  \E x \in Phases : Leads(x, r[Len(r)].kind, q)
<1>1. Len(r) \in Nat \ {0}
  BY EmptySeq
<1> QED
  BY <1>1 DEF Walk

\* One walk after another.
LEMMA WalkOn ==
  ASSUME NEW S, NEW r \in Seq(S), NEW s \in Seq(S), NEW t \in Seq(S),
         Len(t) = Len(r) + Len(s),
         \A i \in 1 .. Len(r) : t[i] = r[i],
         \A i \in 1 .. Len(s) : t[Len(r) + i].kind = s[i].kind,
         NEW p, NEW x, NEW q, Walk(r, p, x), Walk(s, x, q)
  PROVE  Walk(t, p, q)
<1>1. PICK f \in [1 .. Len(r) + 1 -> Phases] :
        /\ f[1] = p /\ f[Len(r) + 1] = x
        /\ \A i \in 1 .. Len(r) : Leads(f[i], r[i].kind, f[i + 1])
  BY DEF Walk
<1>2. PICK g \in [1 .. Len(s) + 1 -> Phases] :
        /\ g[1] = x /\ g[Len(s) + 1] = q
        /\ \A i \in 1 .. Len(s) : Leads(g[i], s[i].kind, g[i + 1])
  BY DEF Walk
<1>3. Len(r) \in Nat /\ Len(s) \in Nat /\ Len(t) \in Nat
  OBVIOUS
<1> DEFINE h == [i \in 1 .. Len(t) + 1 |-> IF i <= Len(r) THEN f[i] ELSE g[i - Len(r)]]
<1>4. \A i \in 1 .. Len(t) + 1 :
        (i <= Len(r) => i \in 1 .. Len(r) + 1) /\ (i > Len(r) => i - Len(r) \in 1 .. Len(s) + 1)
  BY <1>3
<1>5. h \in [1 .. Len(t) + 1 -> Phases]
  BY <1>4
<1>6. h[1] = p
  BY <1>1, <1>2, <1>3
<1>7. h[Len(t) + 1] = q
  BY <1>2, <1>3
<1>8. \A i \in 1 .. Len(t) : Leads(h[i], t[i].kind, h[i + 1])
  <2> TAKE i \in 1 .. Len(t)
  <2>1. CASE i <= Len(r)
    <3>1. i \in 1 .. Len(r) /\ h[i] = f[i] /\ h[i + 1] = f[i + 1] /\ t[i] = r[i]
      BY <2>1, <1>1, <1>2, <1>3
    <3> QED
      BY <3>1, <1>1
  <2>2. CASE i > Len(r)
    <3>1. /\ i - Len(r) \in 1 .. Len(s) /\ h[i] = g[i - Len(r)]
             /\ h[i + 1] = g[(i - Len(r)) + 1]
          /\ i = Len(r) + (i - Len(r))
      BY <2>2, <1>3
    <3>2. t[i].kind = s[i - Len(r)].kind
      BY <3>1
    <3> QED
      BY <3>1, <3>2, <1>2
  <2> QED
    BY <2>1, <2>2, <1>3
<1> HIDE DEF h
<1> QED
  BY <1>5, <1>6, <1>7, <1>8 DEF Walk

-----------------------------------------------------------------------------
(* Counting on the wires.                                                  *)

\* A part of a wire has a count.
LEMMA PartOfWire ==
  ASSUME NEW n \in Nat, NEW A, A \subseteq 1 .. n
  PROVE  IsFiniteSet(A) /\ Cardinality(A) \in Nat /\ (Cardinality(A) = 0 <=> A = {})
<1>1. IsFiniteSet(1 .. n)
  BY FS_Interval
<1>2. IsFiniteSet(A)
  BY <1>1, FS_Subset
<1> QED
  BY <1>2, FS_CardinalityType, FS_EmptySet

\* What is marked on a wire before and after its head is taken off.
LEMMA ShiftCount ==
  ASSUME NEW n \in Nat, NEW A, A \subseteq 1 .. n + 1, NEW B, B \subseteq 1 .. n,
         \A i \in 1 .. n : i \in B <=> i + 1 \in A
  PROVE  Cardinality(A) = Cardinality(B) + (IF 1 \in A THEN 1 ELSE 0)
<1> DEFINE C == A \ {1}
           f == [i \in B |-> i + 1]
<1>1. IsFiniteSet(B) /\ Cardinality(B) \in Nat
  BY PartOfWire
<1>2. f \in Bijection(B, C)
  <2>1. \A i \in B : f[i] \in C
    OBVIOUS
  <2>2. \A i, j \in B : f[i] = f[j] => i = j
    OBVIOUS
  <2>3. \A c \in C : c - 1 \in B /\ f[c - 1] = c
    <3> TAKE c \in C
    <3>1. c \in 1 .. n + 1 /\ c # 1
      OBVIOUS
    <3>2. c - 1 \in 1 .. n /\ (c - 1) + 1 = c
      BY <3>1
    <3>3. c - 1 \in B
      BY <3>2
    <3> QED
      BY <3>2, <3>3
  <2>4. f \in [B -> C]
    BY <2>1
  <2>5. \A c \in C : \E i \in B : f[i] = c
    BY <2>3
  <2> HIDE DEF f, C
  <2> QED
    BY <2>2, <2>4, <2>5, Fun_IsBij
<1>3. IsFiniteSet(C) /\ Cardinality(C) = Cardinality(B)
  BY <1>1, <1>2, FS_Bijection DEF ExistsBijection
<1>4. CASE 1 \in A
  <2>1. A = C \union {1} /\ 1 \notin C
    BY <1>4
  <2>2. Cardinality(C \union {1}) = Cardinality(C) + 1
    BY <1>3, <2>1, FS_AddElement
  <2> QED
    BY <1>4, <1>3, <2>1, <2>2
<1>5. CASE 1 \notin A
  <2>1. A = C
    BY <1>5
  <2>2. (IF 1 \in A THEN 1 ELSE 0) = 0
    BY <1>5
  <2> HIDE DEF C
  <2> QED
    BY <1>3, <2>1, <2>2, <1>1
<1> QED
  BY <1>4, <1>5

-----------------------------------------------------------------------------
(* What an action does to the wires.                                       *)

\* The responses grow by these.
Grown(kinds) ==
  /\ toClient' \in Seq(Responses)
  /\ Len(toClient') = Len(toClient) + Len(kinds)
  /\ \A i \in 1 .. Len(toClient) : toClient'[i] = toClient[i]
  /\ \A i \in 1 .. Len(kinds) : toClient'[Len(toClient) + i].kind = kinds[i]

Reads == toClient # <<>> /\ toClient' = Tail(toClient)
Serves == toServer # <<>> /\ toServer' = Tail(toServer)

\* The kinds of an answer are what the responses grow by.
LEMMA AnswerGrows ==
  ASSUME WireTypes, toServer # <<>>, NEW kinds \in Seq(BackendKinds), Answer(kinds),
         \A i \in 1 .. Len(kinds) : HasShape(kinds[i]) => Command.work \in Columns
  PROVE  Grown(kinds)
<1> DEFINE n == Len(kinds)
           s == [i \in DOMAIN kinds |-> [kind |-> kinds[i], shape |-> Command.work]]
<1>1. n \in Nat /\ DOMAIN kinds = 1 .. n /\ \A i \in 1 .. n : kinds[i] \in BackendKinds
  OBVIOUS
<1>2. Command.work \in AllWorks
  <2>1. toServer \in Seq(Commands) /\ Command = Head(toServer)
    BY DEF WireTypes, Command
  <2>2. Command \in Commands
    BY <2>1, HeadTailProperties
  <2> QED
    BY <2>2 DEF Commands
<1>3. \A i \in 1 .. n : s[i] \in Responses /\ s[i].kind = kinds[i]
  BY <1>1, <1>2 DEF Responses
<1>4. s \in [1 .. n -> Responses]
  BY <1>1, <1>3
<1>5. s \in Seq(Responses) /\ Len(s) = n
  <2> HIDE DEF s
  <2> QED
    BY <1>1, <1>4
<1>6. toClient' = toClient \o s
  BY DEF Answer
<1>7. toClient \in Seq(Responses)
  BY DEF WireTypes
<1> HIDE DEF s
<1>8. LET t == toClient \o s IN
      /\ t \in Seq(Responses) /\ Len(t) = Len(toClient) + Len(s)
      /\ \A i \in 1 .. Len(toClient) + Len(s) :
           t[i] = IF i <= Len(toClient) THEN toClient[i] ELSE s[i - Len(toClient)]
  BY <1>5, <1>7, ConcatProperties
<1>12. /\ toClient' \in Seq(Responses) /\ Len(toClient') = Len(toClient) + n
      /\ \A i \in 1 .. Len(toClient) + n :
           toClient'[i] = IF i <= Len(toClient) THEN toClient[i] ELSE s[i - Len(toClient)]
  BY <1>5, <1>6, <1>8
<1>9. Len(toClient) \in Nat
  BY <1>7
<1>10. \A i \in 1 .. n : toClient'[Len(toClient) + i].kind = kinds[i]
  <2> TAKE i \in 1 .. n
  <2>1. /\ Len(toClient) + i \in 1 .. Len(toClient) + n /\ ~(Len(toClient) + i <= Len(toClient))
        /\ (Len(toClient) + i) - Len(toClient) = i
    BY <1>1, <1>9
  <2> QED
    BY <2>1, <1>12, <1>3
<1>11. \A i \in 1 .. Len(toClient) : i \in 1 .. Len(toClient) + n /\ i <= Len(toClient)
  BY <1>1, <1>9
<1> QED
  BY <1>12, <1>10, <1>11 DEF Grown

\* And so is the kind of a single message.
LEMMA SayGrows ==
  ASSUME WireTypes, NEW kind \in BackendKinds, ~HasShape(kind), NEW mode, Say(kind, mode)
  PROVE  Grown(<<kind>>)
<1> DEFINE m == [kind |-> kind, shape |-> "no_rows"]
<1>1. m \in Responses /\ m.kind = kind
  BY DEF Responses, AllWorks
<1>2. toClient \in Seq(Responses) /\ toClient' = Append(toClient, m)
  BY DEF WireTypes, Say
<1> HIDE DEF m
<1>3. Len(<<kind>>) = 1 /\ <<kind>>[1] = kind
  OBVIOUS
<1> QED
  BY <1>1, <1>2, <1>3, AppendProperties DEF Grown

\* The walk of the responses, continued by what they grow by.
LEMMA GrownWalk ==
  ASSUME toClient \in Seq(Responses), NEW kinds \in Seq(BackendKinds), Grown(kinds),
         NEW f \in [1 .. Len(kinds) + 1 -> Phases],
         \A i \in 1 .. Len(kinds) : Leads(f[i], kinds[i], f[i + 1]),
         NEW p, Walk(toClient, p, f[1])
  PROVE  Walk(toClient', p, f[Len(kinds) + 1])
<1> DEFINE s == [i \in 1 .. Len(kinds) |-> [kind |-> kinds[i]]]
           S == [kind : BackendKinds] \union Responses
<1>1. /\ Len(kinds) \in Nat /\ s \in [1 .. Len(kinds) -> S]
      /\ \A i \in 1 .. Len(kinds) : s[i].kind = kinds[i]
  OBVIOUS
<1> HIDE DEF s
<1>2. /\ toClient \in Seq(S) /\ toClient' \in Seq(S)
  BY DEF Grown
<1> HIDE DEF S
<1>3. s \in Seq(S) /\ Len(s) = Len(kinds)
  BY <1>1
<1>4. f[1] \in Phases /\ f[Len(kinds) + 1] \in Phases
  BY <1>1
<1>5. Walk(s, f[1], f[Len(kinds) + 1])
  BY <1>1, <1>3 DEF Walk
<1>6. /\ Len(toClient') = Len(toClient) + Len(s)
      /\ \A i \in 1 .. Len(toClient) : toClient'[i] = toClient[i]
      /\ \A i \in 1 .. Len(s) : toClient'[Len(toClient) + i].kind = s[i].kind
  BY <1>1, <1>3 DEF Grown
<1> QED
  <2> DEFINE r == toClient
             t == toClient'
             x == f[1]
             q == f[Len(kinds) + 1]
  <2>1. /\ r \in Seq(S) /\ s \in Seq(S) /\ t \in Seq(S) /\ Len(t) = Len(r) + Len(s)
        /\ \A i \in 1 .. Len(r) : t[i] = r[i]
        /\ \A i \in 1 .. Len(s) : t[Len(r) + i].kind = s[i].kind
        /\ Walk(r, p, x) /\ Walk(s, x, q)
    BY <1>2, <1>3, <1>5, <1>6
  <2>2. Walk(t, p, q)
    <3> HIDE DEF r, t, x, q
    <3> QED
      BY <2>1, WalkOn
  <2> QED
    BY <2>2

\* ... by one response,
LEMMA GrownWalk1 ==
  ASSUME toClient \in Seq(Responses), NEW a \in BackendKinds, Grown(<<a>>),
         NEW p, NEW q \in Phases, NEW x \in Phases, Walk(toClient, p, q), Leads(q, a, x)
  PROVE  Walk(toClient', p, x)
<1> DEFINE f == <<q, x>>
<1>1. /\ <<a>> \in Seq(BackendKinds) /\ Len(<<a>>) = 1 /\ <<a>>[1] = a
      /\ f \in [1 .. 2 -> Phases] /\ f[1] = q /\ f[2] = x
  OBVIOUS
<1> HIDE DEF f
<1>2. \A i \in 1 .. Len(<<a>>) : Leads(f[i], <<a>>[i], f[i + 1])
  BY <1>1
<1>3. f \in [1 .. Len(<<a>>) + 1 -> Phases] /\ f[Len(<<a>>) + 1] = x
  BY <1>1
<1> QED
  BY <1>1, <1>2, <1>3, GrownWalk

\* ... by two,
LEMMA GrownWalk2 ==
  ASSUME toClient \in Seq(Responses), NEW a \in BackendKinds, NEW b \in BackendKinds,
         Grown(<<a, b>>), NEW p, NEW q \in Phases, NEW x \in Phases, NEW y \in Phases,
         Walk(toClient, p, q), Leads(q, a, x), Leads(x, b, y)
  PROVE  Walk(toClient', p, y)
<1> DEFINE f == <<q, x, y>>
           kinds == <<a, b>>
<1>1. /\ kinds \in Seq(BackendKinds) /\ Len(kinds) = 2
      /\ kinds[1] = a /\ kinds[2] = b
      /\ f \in [1 .. 3 -> Phases]
      /\ f[1] = q /\ f[2] = x /\ f[3] = y
  OBVIOUS
<1>2. Grown(kinds)
  OBVIOUS
<1> HIDE DEF f, kinds
<1>3. \A i \in 1 .. Len(kinds) : Leads(f[i], kinds[i], f[i + 1])
  <2> TAKE i \in 1 .. Len(kinds)
  <2>1. i = 1 \/ i = 2
    BY <1>1
  <2> QED
    BY <2>1, <1>1
<1>4. f \in [1 .. Len(kinds) + 1 -> Phases] /\ f[Len(kinds) + 1] = y
  BY <1>1
<1> QED
  BY <1>1, <1>2, <1>3, <1>4, GrownWalk

\* ... by three,
LEMMA GrownWalk3 ==
  ASSUME toClient \in Seq(Responses), NEW a \in BackendKinds, NEW b \in BackendKinds,
         NEW c \in BackendKinds,
         Grown(<<a, b, c>>), NEW p, NEW q \in Phases, NEW x \in Phases, NEW y \in Phases,
         NEW z \in Phases,
         Walk(toClient, p, q), Leads(q, a, x), Leads(x, b, y), Leads(y, c, z)
  PROVE  Walk(toClient', p, z)
<1> DEFINE f == <<q, x, y, z>>
           kinds == <<a, b, c>>
<1>1. /\ kinds \in Seq(BackendKinds) /\ Len(kinds) = 3
      /\ kinds[1] = a /\ kinds[2] = b /\ kinds[3] = c
      /\ f \in [1 .. 4 -> Phases]
      /\ f[1] = q /\ f[2] = x /\ f[3] = y /\ f[4] = z
  OBVIOUS
<1>2. Grown(kinds)
  OBVIOUS
<1> HIDE DEF f, kinds
<1>3. \A i \in 1 .. Len(kinds) : Leads(f[i], kinds[i], f[i + 1])
  <2> TAKE i \in 1 .. Len(kinds)
  <2>1. i = 1 \/ i = 2 \/ i = 3
    BY <1>1
  <2> QED
    BY <2>1, <1>1
<1>4. f \in [1 .. Len(kinds) + 1 -> Phases] /\ f[Len(kinds) + 1] = z
  BY <1>1
<1> QED
  BY <1>1, <1>2, <1>3, <1>4, GrownWalk

\* ... by four.
LEMMA GrownWalk4 ==
  ASSUME toClient \in Seq(Responses), NEW a \in BackendKinds, NEW b \in BackendKinds,
         NEW c \in BackendKinds, NEW d \in BackendKinds,
         Grown(<<a, b, c, d>>), NEW p, NEW q \in Phases, NEW x \in Phases, NEW y \in Phases,
         NEW z \in Phases, NEW w \in Phases,
         Walk(toClient, p, q), Leads(q, a, x), Leads(x, b, y), Leads(y, c, z), Leads(z, d, w)
  PROVE  Walk(toClient', p, w)
<1> DEFINE f == <<q, x, y, z, w>>
           kinds == <<a, b, c, d>>
<1>1. /\ kinds \in Seq(BackendKinds) /\ Len(kinds) = 4
      /\ kinds[1] = a /\ kinds[2] = b /\ kinds[3] = c /\ kinds[4] = d
      /\ f \in [1 .. 5 -> Phases]
      /\ f[1] = q /\ f[2] = x /\ f[3] = y /\ f[4] = z /\ f[5] = w
  OBVIOUS
<1>2. Grown(kinds)
  OBVIOUS
<1> HIDE DEF f, kinds
<1>3. \A i \in 1 .. Len(kinds) : Leads(f[i], kinds[i], f[i + 1])
  <2> TAKE i \in 1 .. Len(kinds)
  <2>1. i = 1 \/ i = 2 \/ i = 3 \/ i = 4
    BY <1>1
  <2> QED
    BY <2>1, <1>1
<1>4. f \in [1 .. Len(kinds) + 1 -> Phases] /\ f[Len(kinds) + 1] = w
  BY <1>1
<1> QED
  BY <1>1, <1>2, <1>3, <1>4, GrownWalk

\* Which kinds are on their way after an answer.
LEMMA GrownBrings ==
  ASSUME toClient \in Seq(Responses), NEW kinds \in Seq(BackendKinds), Grown(kinds), NEW K
  PROVE  Brings(K)' <=> Brings(K) \/ \E i \in 1 .. Len(kinds) : kinds[i] \in K
<1>1. /\ Len(toClient) \in Nat /\ Len(kinds) \in Nat
      /\ DOMAIN toClient = 1 .. Len(toClient) /\ DOMAIN toClient' = 1 .. Len(toClient')
  BY DEF Grown
<1>2. \A i \in 1 .. Len(toClient') :
        \/ i \in 1 .. Len(toClient)
        \/ i - Len(toClient) \in 1 .. Len(kinds) /\ i = Len(toClient) + (i - Len(toClient))
  BY <1>1 DEF Grown
<1>3. ASSUME Brings(K)' PROVE Brings(K) \/ \E i \in 1 .. Len(kinds) : kinds[i] \in K
  <2>1. PICK i \in 1 .. Len(toClient') : toClient'[i].kind \in K
    BY <1>1, <1>3 DEF Brings
  <2> QED
    BY <2>1, <1>1, <1>2 DEF Brings, Grown
<1>4. ASSUME Brings(K) PROVE Brings(K)'
  <2>1. PICK i \in 1 .. Len(toClient) : toClient[i].kind \in K
    BY <1>1, <1>4 DEF Brings
  <2>2. i \in 1 .. Len(toClient') /\ toClient'[i] = toClient[i]
    BY <1>1 DEF Grown
  <2> QED
    BY <2>1, <2>2, <1>1 DEF Brings
<1>5. ASSUME NEW i \in 1 .. Len(kinds), kinds[i] \in K PROVE Brings(K)'
  <2>1. Len(toClient) + i \in 1 .. Len(toClient')
    BY <1>1 DEF Grown
  <2> QED
    BY <2>1, <1>1, <1>5 DEF Brings, Grown
<1> QED
  BY <1>3, <1>4, <1>5

\* The counts of ReadyForQuery and of Sync are numbers.
LEMMA ReadiesCount ==
  ASSUME WireTypes
  PROVE  /\ Cardinality(ReadiesIn) \in Nat /\ (Cardinality(ReadiesIn) = 0 <=> ReadiesIn = {})
         /\ Cardinality(SyncsIn) \in Nat /\ (Cardinality(SyncsIn) = 0 <=> SyncsIn = {})
         /\ ReadiesToCome = Cardinality(ReadiesIn) + Cardinality(SyncsIn)
<1>1. /\ Len(toClient) \in Nat /\ DOMAIN toClient = 1 .. Len(toClient)
      /\ Len(toServer) \in Nat /\ DOMAIN toServer = 1 .. Len(toServer)
  BY DEF WireTypes
<1>2. ReadiesIn \subseteq 1 .. Len(toClient) /\ SyncsIn \subseteq 1 .. Len(toServer)
  BY <1>1 DEF ReadiesIn, SyncsIn
<1> QED
  BY <1>1, <1>2, PartOfWire DEF ReadiesToCome, ReadiesIn, SyncsIn

\* How many ReadyForQuery are on their way after an answer.
LEMMA GrownReadies ==
  ASSUME WireTypes, NEW kinds \in Seq(BackendKinds), Grown(kinds)
  PROVE  /\ (\A i \in 1 .. Len(kinds) : kinds[i] # "ReadyForQuery") => ReadiesIn' = ReadiesIn
         /\ kinds = <<"ReadyForQuery">> =>
              Cardinality(ReadiesIn') = Cardinality(ReadiesIn) + 1
<1>1. /\ Len(toClient) \in Nat /\ Len(kinds) \in Nat
      /\ DOMAIN toClient = 1 .. Len(toClient) /\ DOMAIN toClient' = 1 .. Len(toClient')
  BY DEF Grown, WireTypes
<1>2. \A i \in 1 .. Len(toClient') :
        \/ i \in 1 .. Len(toClient)
        \/ i - Len(toClient) \in 1 .. Len(kinds) /\ i = Len(toClient) + (i - Len(toClient))
  BY <1>1 DEF Grown
<1>3. \A i \in 1 .. Len(toClient) : i \in 1 .. Len(toClient')
  BY <1>1 DEF Grown
<1>4. ASSUME \A i \in 1 .. Len(kinds) : kinds[i] # "ReadyForQuery"
      PROVE  ReadiesIn' = ReadiesIn
  <2>1. \A i \in 1 .. Len(toClient') :
          toClient'[i].kind = "ReadyForQuery" => i \in 1 .. Len(toClient)
    BY <1>2, <1>4 DEF Grown
  <2> QED
    BY <1>1, <1>3, <2>1 DEF ReadiesIn, Grown
<1>5. ASSUME kinds = <<"ReadyForQuery">>
      PROVE  Cardinality(ReadiesIn') = Cardinality(ReadiesIn) + 1
  <2> DEFINE n == Len(toClient) + 1
  <2>1. Len(kinds) = 1 /\ kinds[1] = "ReadyForQuery" /\ Len(toClient') = n
    BY <1>5 DEF Grown
  <2>2. toClient'[n].kind = "ReadyForQuery"
    BY <2>1 DEF Grown
  <2>3. ReadiesIn' = ReadiesIn \union {n} /\ n \notin ReadiesIn
    BY <1>1, <1>3, <2>1, <2>2 DEF ReadiesIn, Grown
  <2>4. IsFiniteSet(ReadiesIn)
    BY <1>1, PartOfWire DEF ReadiesIn
  <2> QED
    BY <2>3, <2>4, FS_AddElement
<1> QED
  BY <1>4, <1>5

\* What reading a response does to the responses,
LEMMA ReadShift ==
  ASSUME WireTypes, Reads
  PROVE  /\ Len(toClient) \in Nat \ {0} /\ DOMAIN toClient = 1 .. Len(toClient)
         /\ Head(toClient) \in Responses /\ Head(toClient) = toClient[1]
         /\ toClient' \in Seq(Responses) /\ Len(toClient') = Len(toClient) - 1
         /\ DOMAIN toClient' = 1 .. Len(toClient')
         /\ \A i \in 1 .. Len(toClient') : toClient'[i] = toClient[i + 1]
<1>1. toClient \in Seq(Responses) /\ toClient # <<>>
  BY DEF WireTypes, Reads
<1>2. Len(toClient) \in Nat \ {0}
  BY <1>1, EmptySeq
<1>3. Head(toClient) = toClient[1]
  BY <1>1, <1>2
<1>4. LET t == Tail(toClient) IN
      /\ Head(toClient) \in Responses /\ t \in Seq(Responses) /\ Len(t) = Len(toClient) - 1
      /\ \A i \in 1 .. Len(t) : t[i] = toClient[i + 1]
  BY <1>1, HeadTailProperties
<1>5. toClient' = Tail(toClient)
  BY DEF Reads
<1> QED
  BY <1>1, <1>2, <1>3, <1>4, <1>5, LenProperties

\* and taking a command to the commands.
LEMMA ServeShift ==
  ASSUME WireTypes, Serves
  PROVE  /\ Len(toServer) \in Nat \ {0} /\ DOMAIN toServer = 1 .. Len(toServer)
         /\ Command \in Commands /\ Command = toServer[1]
         /\ toServer' \in Seq(Commands) /\ Len(toServer') = Len(toServer) - 1
         /\ DOMAIN toServer' = 1 .. Len(toServer')
         /\ \A i \in 1 .. Len(toServer') : toServer'[i] = toServer[i + 1]
<1>1. toServer \in Seq(Commands) /\ toServer # <<>>
  BY DEF WireTypes, Serves
<1>2. Len(toServer) \in Nat \ {0}
  BY <1>1, EmptySeq
<1>3. Head(toServer) = toServer[1] /\ Command = Head(toServer)
  BY <1>1, <1>2 DEF Command
<1>4. LET t == Tail(toServer) IN
      /\ Head(toServer) \in Commands /\ t \in Seq(Commands) /\ Len(t) = Len(toServer) - 1
      /\ \A i \in 1 .. Len(t) : t[i] = toServer[i + 1]
  BY <1>1, HeadTailProperties
<1>5. toServer' = Tail(toServer)
  BY DEF Serves
<1> QED
  BY <1>1, <1>2, <1>3, <1>4, <1>5, LenProperties

\* Which kinds are on their way once a response is read.
LEMMA ReadBrings ==
  ASSUME WireTypes, Reads, NEW K
  PROVE  Brings(K) <=> Head(toClient).kind \in K \/ Brings(K)'
<1>1. \A i \in 1 .. Len(toClient) : i = 1 \/ (i - 1 \in 1 .. Len(toClient') /\ i = (i - 1) + 1)
  BY ReadShift
<1>2. \A i \in 1 .. Len(toClient') : i + 1 \in 1 .. Len(toClient)
  BY ReadShift
<1>3. ASSUME Brings(K) PROVE Head(toClient).kind \in K \/ Brings(K)'
  <2>1. PICK i \in 1 .. Len(toClient) : toClient[i].kind \in K
    BY <1>3, ReadShift DEF Brings
  <2> QED
    BY <2>1, <1>1, ReadShift DEF Brings
<1>4. ASSUME Brings(K)' PROVE Brings(K)
  <2>1. PICK i \in 1 .. Len(toClient') : toClient'[i].kind \in K
    BY <1>4, ReadShift DEF Brings
  <2> QED
    BY <2>1, <1>2, ReadShift DEF Brings
<1>5. ASSUME Head(toClient).kind \in K PROVE Brings(K)
  <2>1. 1 \in 1 .. Len(toClient)
    BY ReadShift
  <2> QED
    BY <2>1, <1>5, ReadShift DEF Brings
<1> QED
  BY <1>3, <1>4, <1>5

\* Which commands are on their way once one is taken.
LEMMA ServeSends ==
  ASSUME WireTypes, Serves, NEW K
  PROVE  Sends(K) <=> Command.tag \in K \/ Sends(K)'
<1>1. \A i \in 1 .. Len(toServer) : i = 1 \/ (i - 1 \in 1 .. Len(toServer') /\ i = (i - 1) + 1)
  BY ServeShift
<1>2. \A i \in 1 .. Len(toServer') : i + 1 \in 1 .. Len(toServer)
  BY ServeShift
<1>3. ASSUME Sends(K) PROVE Command.tag \in K \/ Sends(K)'
  <2>1. PICK i \in 1 .. Len(toServer) : toServer[i].tag \in K
    BY <1>3, ServeShift DEF Sends
  <2> QED
    BY <2>1, <1>1, ServeShift DEF Sends
<1>4. ASSUME Sends(K)' PROVE Sends(K)
  <2>1. PICK i \in 1 .. Len(toServer') : toServer'[i].tag \in K
    BY <1>4, ServeShift DEF Sends
  <2> QED
    BY <2>1, <1>2, ServeShift DEF Sends
<1>5. ASSUME Command.tag \in K PROVE Sends(K)
  <2>1. 1 \in 1 .. Len(toServer)
    BY ServeShift
  <2> QED
    BY <2>1, <1>5, ServeShift DEF Sends
<1> QED
  BY <1>3, <1>4, <1>5

\* Reading a ReadyForQuery leaves one less on its way.
LEMMA ReadReadies ==
  ASSUME WireTypes, Reads
  PROVE  Cardinality(ReadiesIn) =
           Cardinality(ReadiesIn') + (IF Head(toClient).kind = "ReadyForQuery" THEN 1 ELSE 0)
<1> DEFINE n == Len(toClient')
           A == ReadiesIn
           B == ReadiesIn'
<1>1. n \in Nat /\ Len(toClient) = n + 1
  <2>1. Len(toClient) \in Nat \ {0} /\ Len(toClient') = Len(toClient) - 1
    BY ReadShift
  <2> QED
    BY <2>1
<1>2. A \subseteq 1 .. n + 1 /\ B \subseteq 1 .. n
  BY <1>1, ReadShift DEF ReadiesIn
<1>3. \A i \in 1 .. n : i \in B <=> i + 1 \in A
  BY <1>1, ReadShift DEF ReadiesIn
<1>4. 1 \in A <=> Head(toClient).kind = "ReadyForQuery"
  BY <1>1, ReadShift DEF ReadiesIn
<1>5. Cardinality(A) = Cardinality(B) + (IF 1 \in A THEN 1 ELSE 0)
  <2> HIDE DEF A, B, n
  <2> QED
    BY <1>1, <1>2, <1>3, ShiftCount
<1> QED
  BY <1>4, <1>5

\* The Syncs that will be answered, when none behind the head changes its lot.
LEMMA ServeSyncs ==
  ASSUME WireTypes, Serves,
         \A i \in 1 .. Len(toServer') :
           toServer'[i].tag = "Sync" => (SwallowedAt(i)' <=> SwallowedAt(i + 1))
  PROVE  /\ Cardinality(SyncsIn) = Cardinality(SyncsIn') + (IF 1 \in SyncsIn THEN 1 ELSE 0)
         /\ 1 \in SyncsIn <=> Command.tag = "Sync" /\ server # "copy_in"
         /\ \A i \in SyncsIn : i # 1 => SyncsIn' # {}
<1> DEFINE n == Len(toServer')
           A == SyncsIn
           B == SyncsIn'
<1>1. n \in Nat /\ Len(toServer) = n + 1
  <2>1. Len(toServer) \in Nat \ {0} /\ Len(toServer') = Len(toServer) - 1
    BY ServeShift
  <2> QED
    BY <2>1
<1>2. A \subseteq 1 .. n + 1 /\ B \subseteq 1 .. n
  BY <1>1, ServeShift DEF SyncsIn
<1>3. ASSUME NEW i \in 1 .. n PROVE i \in B <=> i + 1 \in A
  <2>1. i + 1 \in 1 .. Len(toServer) /\ toServer'[i] = toServer[i + 1]
    BY <1>1, ServeShift
  <2>2. i \in DOMAIN toServer' /\ i + 1 \in DOMAIN toServer
    BY <2>1, ServeShift
  <2>3. i \in B <=> toServer'[i].tag = "Sync" /\ ~SwallowedAt(i)'
    BY <2>2 DEF SyncsIn
  <2>4. i + 1 \in A <=> toServer[i + 1].tag = "Sync" /\ ~SwallowedAt(i + 1)
    BY <2>2 DEF SyncsIn
  <2> QED
    BY <2>1, <2>3, <2>4
<1>4. 1 \in A <=> Command.tag = "Sync" /\ server # "copy_in"
  <2>1. 1 \in DOMAIN toServer /\ Command = toServer[1]
    BY <1>1, ServeShift
  <2>2. SwallowedAt(1) <=> server = "copy_in"
    BY DEF SwallowedAt
  <2>3. 1 \in A <=> toServer[1].tag = "Sync" /\ ~SwallowedAt(1)
    BY <2>1 DEF SyncsIn
  <2> QED
    BY <2>1, <2>2, <2>3
<1>5. Cardinality(A) = Cardinality(B) + (IF 1 \in A THEN 1 ELSE 0)
  <2> HIDE DEF A, B, n
  <2> QED
    BY <1>1, <1>2, <1>3, ShiftCount
<1>6. ASSUME NEW i \in A, i # 1 PROVE B # {}
  <2>1. i - 1 \in 1 .. n /\ (i - 1) + 1 = i
    BY <1>1, <1>2, <1>6
  <2>2. i - 1 \in B
    BY <2>1, <1>3, <1>6
  <2> QED
    BY <2>2
<1> QED
  BY <1>4, <1>5, <1>6

\* What writing a command does to the commands.
LEMMA WriteGrows ==
  ASSUME WireTypes, NEW tag \in Tags, NEW work \in AllWorks, Write(tag, work)
  PROVE  /\ toServer' \in Seq(Commands)
         /\ Len(toServer) \in Nat /\ DOMAIN toServer = 1 .. Len(toServer)
         /\ Len(toServer') = Len(toServer) + 1 /\ DOMAIN toServer' = 1 .. Len(toServer) + 1
         /\ \A i \in 1 .. Len(toServer) : toServer'[i] = toServer[i]
         /\ toServer'[Len(toServer) + 1].tag = tag /\ toServer'[Len(toServer) + 1].work = work
<1> DEFINE m == [tag |-> tag, work |-> work]
<1>1. m \in Commands /\ m.tag = tag /\ m.work = work
  BY DEF Commands
<1>2. toServer \in Seq(Commands) /\ toServer' = Append(toServer, m)
  BY DEF WireTypes, Write
<1> HIDE DEF m
<1>3. LET t == Append(toServer, m) IN
      /\ t \in Seq(Commands) /\ Len(t) = Len(toServer) + 1
      /\ \A i \in 1 .. Len(toServer) : t[i] = toServer[i]
      /\ t[Len(toServer) + 1] = m
  BY <1>1, <1>2, AppendProperties
<1> QED
  BY <1>1, <1>2, <1>3, LenProperties

\* Which commands are on their way once one is written.
LEMMA WriteSends ==
  ASSUME WireTypes, NEW tag \in Tags, NEW work \in AllWorks, Write(tag, work), NEW K
  PROVE  Sends(K)' <=> Sends(K) \/ tag \in K
<1>1. \A i \in 1 .. Len(toServer) + 1 : i \in 1 .. Len(toServer) \/ i = Len(toServer) + 1
  BY WriteGrows
<1>2. Len(toServer) + 1 \in 1 .. Len(toServer) + 1
      /\ \A i \in 1 .. Len(toServer) : i \in 1 .. Len(toServer) + 1
  BY WriteGrows
<1>3. ASSUME Sends(K)' PROVE Sends(K) \/ tag \in K
  BY <1>1, <1>3, WriteGrows DEF Sends
<1>4. ASSUME Sends(K) PROVE Sends(K)'
  BY <1>2, <1>4, WriteGrows DEF Sends
<1>5. ASSUME tag \in K PROVE Sends(K)'
  BY <1>2, <1>5, WriteGrows DEF Sends
<1> QED
  BY <1>3, <1>4, <1>5

\* Writing a command swallows no Sync, and a Sync behind the end of a COPY counts.
LEMMA WriteSyncs ==
  ASSUME WireTypes, NEW tag \in Tags, NEW work \in AllWorks, Write(tag, work), server' = server
  PROVE  /\ \A i \in 1 .. Len(toServer) : SwallowedAt(i)' <=> SwallowedAt(i)
         /\ SyncsIn \subseteq SyncsIn'
         /\ tag # "Sync" => SyncsIn' = SyncsIn
         /\ tag = "Sync" /\ (server # "copy_in" \/ Sends(EndTags)) =>
              /\ Len(toServer) + 1 \in SyncsIn'
              /\ Cardinality(SyncsIn') = Cardinality(SyncsIn) + 1
<1> PICK n \in Nat : n = Len(toServer) + 1
  BY WriteGrows
<1>1. /\ n \in Nat \ {0}
      /\ \A i \in 1 .. n : i \in 1 .. Len(toServer) \/ i = n
      /\ \A i \in 1 .. Len(toServer) : i \in 1 .. n /\ i # n
  BY WriteGrows
<1>2. ASSUME NEW i \in 1 .. Len(toServer) PROVE SwallowedAt(i)' <=> SwallowedAt(i)
  <2>1. \A j \in 1 .. (i - 1) : j \in 1 .. Len(toServer)
    BY WriteGrows
  <2>2. \A j \in 1 .. (i - 1) : toServer'[j] = toServer[j]
    BY <2>1, WriteGrows
  <2> QED
    BY <2>2 DEF SwallowedAt
<1>3. \A i \in 1 .. Len(toServer) : i \in SyncsIn' <=> i \in SyncsIn
  BY <1>1, <1>2, WriteGrows DEF SyncsIn
<1>4. SyncsIn \subseteq 1 .. Len(toServer) /\ SyncsIn' \subseteq 1 .. n
  BY WriteGrows DEF SyncsIn
<1>5. SyncsIn \subseteq SyncsIn'
  BY <1>3, <1>4
<1>6. ASSUME tag # "Sync" PROVE SyncsIn' = SyncsIn
  <2>1. n \notin SyncsIn'
    BY <1>6, WriteGrows DEF SyncsIn
  <2> QED
    BY <2>1, <1>1, <1>3, <1>4
<1>7. ASSUME tag = "Sync", server # "copy_in" \/ Sends(EndTags)
      PROVE  n \in SyncsIn' /\ Cardinality(SyncsIn') = Cardinality(SyncsIn) + 1
  <2>1. ~SwallowedAt(n)'
    <3>1. CASE server # "copy_in"
      BY <3>1 DEF SwallowedAt
    <3>2. CASE Sends(EndTags)
      <4>1. PICK j \in 1 .. Len(toServer) : toServer[j].tag \in EndTags
        BY <3>2, WriteGrows DEF Sends
      <4>2. j \in 1 .. (n - 1) /\ toServer'[j].tag \in EndTags
        BY <4>1, <1>1, WriteGrows
      <4> QED
        BY <4>2 DEF SwallowedAt, EndTags
    <3> QED
      BY <1>7, <3>1, <3>2
  <2>2. n \in SyncsIn'
    BY <2>1, <1>1, <1>7, WriteGrows DEF SyncsIn
  <2>3. SyncsIn' = SyncsIn \union {n} /\ n \notin SyncsIn
    BY <2>2, <1>1, <1>3, <1>4
  <2>4. IsFiniteSet(SyncsIn)
    BY <1>4, WriteGrows, PartOfWire
  <2> QED
    BY <2>2, <2>3, <2>4, FS_AddElement
<1> QED
  BY <1>2, <1>5, <1>6, <1>7

-----------------------------------------------------------------------------
(* What the invariant says of the moment.                                  *)

\* What is on a wire is a command or a response.
LEMMA WireElements ==
  ASSUME WireTypes
  PROVE  /\ DOMAIN toServer = 1 .. Len(toServer) /\ DOMAIN toClient = 1 .. Len(toClient)
         /\ Len(toServer) \in Nat /\ Len(toClient) \in Nat
         /\ \A i \in DOMAIN toServer : toServer[i].tag \in Tags /\ toServer[i].work \in AllWorks
         /\ \A i \in DOMAIN toClient : toClient[i].kind \in BackendKinds
<1>1. toServer \in Seq(Commands) /\ toClient \in Seq(Responses)
  BY DEF WireTypes
<1>2. /\ DOMAIN toServer = 1 .. Len(toServer) /\ DOMAIN toClient = 1 .. Len(toClient)
      /\ Len(toServer) \in Nat /\ Len(toClient) \in Nat
      /\ \A i \in DOMAIN toServer : toServer[i] \in Commands
      /\ \A i \in DOMAIN toClient : toClient[i] \in Responses
  BY <1>1
<1> QED
  BY <1>2 DEF Commands, Responses

\* A CopyInResponse on its way is the last response.
LEMMA CopyInIsLast ==
  ASSUME WireTypes, NothingFollows, NEW p, NEW q, Walk(toClient, p, q),
         Brings({"CopyInResponse"})
  PROVE  /\ toClient # <<>> /\ toClient[Len(toClient)].kind = "CopyInResponse"
         /\ q \in {"in", "reads"} /\ ~Sends(Tags \ {"Sync"})
<1>1. PICK i \in DOMAIN toClient : toClient[i].kind = "CopyInResponse"
  BY DEF Brings
<1>2. i = Len(toClient) /\ ~Sends(Tags \ {"Sync"})
  BY <1>1 DEF NothingFollows
<1>3. toClient # <<>> /\ toClient \in Seq(Responses)
  BY <1>1, EmptySeq DEF WireTypes
<1>4. \E x \in Phases : Leads(x, "CopyInResponse", q)
  BY <1>1, <1>2, <1>3, WalkLast
<1> QED
  BY <1>1, <1>2, <1>3, <1>4 DEF Leads

\* A session that knows of the COPY the backend reads has nothing left to read.
LEMMA ReadsToCopyIn ==
  ASSUME WireTypes, NEW p, Walk(toClient, p, "in"), ~Brings({"CopyInResponse"})
  PROVE  toClient = <<>> /\ p = "in"
<1>1. ASSUME toClient # <<>> PROVE FALSE
  <2>1. \E x \in Phases : Leads(x, toClient[Len(toClient)].kind, "in")
    BY <1>1, WalkLast DEF WireTypes
  <2>2. toClient[Len(toClient)].kind = "CopyInResponse"
    BY <2>1 DEF Leads
  <2>3. Len(toClient) \in DOMAIN toClient
    BY <1>1, EmptySeq DEF WireTypes
  <2> QED
    BY <2>2, <2>3 DEF Brings
<1>2. p \in Phases
  BY WalkEnds DEF WireTypes
<1> QED
  BY <1>1, <1>2, WalkNowhere

\* Only the writing of a Query begins a simple query.
LEMMA NothingLeadsToAsked ==
  ASSUME WireTypes, NEW p, Walk(toClient, p, "asked")
  PROVE  toClient = <<>> /\ p = "asked"
<1>1. ASSUME toClient # <<>> PROVE FALSE
  <2>1. \E x \in Phases : Leads(x, toClient[Len(toClient)].kind, "asked")
    BY <1>1, WalkLast DEF WireTypes
  <2> QED
    BY <2>1 DEF Leads
<1>2. p \in Phases
  BY WalkEnds DEF WireTypes
<1> QED
  BY <1>1, <1>2, WalkNowhere

\* Outside COPY and simple queries the session's flags are down.
LEMMA OutsideCopyFlags ==
  ASSUME SessionInv,
         session.state \in {"Ready", "Extended_Query_Active", "Recovery_Required", "Simple_Query_Active"}
         \/ session.pipelined
  PROVE  /\ session.origin = "No_Copy" /\ ~session.sendOpen /\ ~session.recvOpen
         /\ ~session.copySync /\ ~session.bidir
BY DEF SessionInv, TypeOK, Sessions, Origins, OriginFits, PipelineExcludesCopy, CopyStates,
       CopyStreams, BothClosed

\* A session that reports Ready is at rest, and so is its backend.
LEMMA QuietWhenReady ==
  ASSUME WireInv, session.state = "Ready"
  PROVE  ReadyMeansQuiet /\ Flow("flat", "flat") /\ ~Sends({"Query", "Sync"} \union BatchTags)
<1>1. /\ SessionInv /\ WireTypes /\ ExchangeInv
  BY DEF WireInv
<1>2. PICK p, q \in Phases : Flow(p, q)
  BY <1>1 DEF ExchangeInv
<1>3. /\ session.origin = "No_Copy" /\ session.pending = 0 /\ ~session.batchOpen
  BY <1>1 DEF SessionInv, ReadyIsClean
<1>4. /\ p = "flat" /\ q \in BatchPhases
  BY <1>2, <1>3 DEF Flow, ClientIn, Phases, BatchPhases
<1>5. ~SimpleQueryRuns
  BY <1>3 DEF SimpleQueryRuns
<1>6. ~Brings({"CopyInResponse"})
  BY <1>1, <1>3, <1>5, ReadiesCount DEF ExchangeInv, Counted
<1>7. ReadiesIn = {} /\ SyncsIn = {}
  BY <1>1, <1>3, <1>5, <1>6, ReadiesCount DEF ExchangeInv, Counted
<1>8. ~Loose
  BY <1>3, <1>5, <1>6 DEF Loose
<1>9. server = "idle"
  BY <1>1, <1>7, <1>8 DEF ExchangeInv, EndsBySync
<1>10. toClient = <<>>
  <2>1. ASSUME toClient # <<>> PROVE FALSE
    <3>1. toClient[Len(toClient)].kind = "ReadyForQuery"
      BY <2>1, <1>1, <1>7, <1>8 DEF ExchangeInv, EndsBySync
    <3>2. Len(toClient) \in DOMAIN toClient
      BY <2>1, <1>1, EmptySeq DEF WireTypes
    <3> QED
      BY <3>1, <3>2, <1>7 DEF ReadiesIn
  <2> QED
    BY <2>1
<1>11. q = "flat"
  BY <1>2, <1>4, <1>10, WalkNowhere DEF Flow
<1>12. \A i \in DOMAIN toServer : toServer[i].tag # "Sync"
  BY <1>7, <1>9 DEF SyncsIn, SwallowedAt
<1>13. \A i \in DOMAIN toServer : toServer[i].tag \notin BatchTags
  BY <1>1, <1>8, <1>12 DEF ExchangeInv, EndsBySync
<1>14. \A i \in DOMAIN toServer : toServer[i].tag # "Query"
  <2>1. CommandsFit("flat")
    BY <1>2, <1>11 DEF Flow
  <2>2. ~Sends({"Query"})
    BY <2>1 DEF CommandsFit, QueryPhases
  <2> QED
    BY <2>2 DEF Sends
<1>15. \A i \in DOMAIN toServer : toServer[i].tag \in Tags
  BY <1>1, WireElements
<1>16. \A i \in DOMAIN toServer : toServer[i].tag \in CopyTags
  BY <1>12, <1>13, <1>14, <1>15 DEF Tags
<1> QED
  BY <1>2, <1>4, <1>9, <1>10, <1>11, <1>12, <1>13, <1>14, <1>16 DEF ReadyMeansQuiet, Sends

-----------------------------------------------------------------------------
(* Sending.                                                                *)

\* Which steps of the writable side of a COPY keep its order.
LEMMA SendOrder ==
  ASSUME EndsInOrder, toClient' = toClient, session'.sendOpen => session.sendOpen,
         session'.sendOpen \/ Brings(WritableCopy) => ~Sends(EndTags)'
  PROVE  EndsInOrder'
BY DEF EndsInOrder, Brings

\* Parse, Bind, Describe, Execute and Close: no COPY runs and none is on its way.
LEMMA BatchWriteKeeps ==
  ASSUME WireInv, session.state # "Closed", MayExtend, ~CopyInOnItsWay,
         NEW tag \in BatchTags, NEW work \in AllWorks, Write(tag, work),
         toClient' = toClient, server' = server, raised' = "none", SessionInv',
         session'.state = "Extended_Query_Active", session'.batchOpen,
         session'.pending = session.pending, session'.pipelined = session.pipelined
  PROVE  WireInv'
<1>1. SessionInv /\ WireTypes /\ ExchangeInv
  BY DEF WireInv
<1>2. /\ session.origin = "No_Copy" /\ ~session.sendOpen /\ ~session.recvOpen
         /\ ~session.copySync
      /\ session.state \in {"Ready", "Extended_Query_Active", "Awaiting_Ready"}
      /\ session.state = "Awaiting_Ready" => session.pipelined
  BY <1>1, OutsideCopyFlags DEF MayExtend
<1>3. /\ session'.origin = "No_Copy" /\ ~session'.sendOpen /\ ~session'.recvOpen
      /\ ~session'.copySync
  BY DEF SessionInv, TypeOK, Sessions, Origins, OriginFits, CopyStates, CopyStreams, BothClosed
<1>4. tag \in Tags /\ tag # "Sync" /\ tag # "Query" /\ tag \notin CopyTags /\ tag \notin EndTags
  BY DEF Tags, BatchTags, CopyTags, EndTags
<1>5. ~Brings({"CopyInResponse"}) /\ ~Brings({"CopyInResponse"})'
  BY DEF CopyInOnItsWay, Brings
<1>6. PICK p, q \in Phases : Flow(p, q)
  BY <1>1 DEF ExchangeInv
<1>7. /\ Walk(toClient, p, q) /\ ClientIn(p) /\ ServerIn(q) /\ CommandsFit(q)
      /\ p \in BatchPhases <=> q \in BatchPhases
  BY <1>6 DEF Flow
<1>8. p \in {"flat", "failed"}
  BY <1>2, <1>7 DEF ClientIn, CopyIsOver
<1>9. q \in {"flat", "failed"}
  <2>1. q \in BatchPhases /\ q # "in"
    BY <1>1, <1>5, <1>7, <1>8, ReadsToCopyIn DEF BatchPhases
  <2> QED
    BY <2>1, <1>7 DEF ServerIn, BatchPhases
<1>10. server # "copy_in"
  BY <1>7, <1>9 DEF ServerIn
<1>11. \A K : Sends(K)' <=> Sends(K) \/ tag \in K
  BY <1>1, <1>4, WriteSends
<1>12. \A i \in DOMAIN toServer' : i \in DOMAIN toServer \/ i = Len(toServer) + 1
  BY <1>1, <1>4, WriteGrows
<1>13. Flow(p, q)'
  <2>1. ClientIn(p)'
    BY <1>2, <1>3, <1>7, <1>8 DEF ClientIn
  <2>2. ~Sends({"Query"})'
    BY <1>7, <1>9, <1>4, <1>11 DEF CommandsFit, QueryPhases
  <2>3. CommandsFit(q)'
    BY <1>9, <2>2 DEF CommandsFit
  <2> QED
    BY <2>1, <2>3, <1>7, <1>8 DEF Flow, ServerIn
<1>14. EndsInOrder'
  BY <1>1, <1>2, <1>3, <1>4, <1>11, SendOrder DEF ExchangeInv, EndsInOrder
<1>15. NothingFollows'
  <2>1. \A i \in DOMAIN toServer : ~(toServer[i].tag = "Execute" /\ toServer[i].work = "copy_in")
    BY DEF CopyInOnItsWay
  <2>2. ASSUME NEW i \in DOMAIN toServer', NEW j \in DOMAIN toServer', i < j
        PROVE  ~(toServer'[i].tag = "Execute" /\ toServer'[i].work = "copy_in")
    <3>1. i \in 1 .. Len(toServer)
      BY <1>1, <1>4, <2>2, WriteGrows
    <3> QED
      BY <3>1, <2>1, <1>1, <1>4, WriteGrows
  <2> QED
    BY <2>2, <1>5 DEF NothingFollows, Brings
<1>16. CopyInIsOrdered'
  BY <1>10 DEF CopyInIsOrdered
<1>17. Counted'
  <2>1. ~SimpleQueryRuns
    BY <1>2 DEF SimpleQueryRuns
  <2>2. session.pending = ReadiesToCome
    BY <2>1, <1>1, <1>5 DEF ExchangeInv, Counted
  <2>3. SyncsIn' = SyncsIn
    BY <1>1, <1>4, WriteSyncs
  <2>4. ReadiesToCome' = ReadiesToCome
    BY <2>3 DEF ReadiesToCome, SyncsIn
  <2> QED
    BY <2>2, <2>4, <1>5 DEF Counted
<1>18. BatchInv'
  <2>1. ~session.pipelined => session.pending = 0
    BY <1>1, <1>2 DEF ExchangeInv, BatchInv, SessionInv, ReadyIsClean
  <2> QED
    BY <2>1, <1>3 DEF BatchInv
<1>19. EndsBySync'
  BY DEF EndsBySync, Loose
<1>20. WireTypes'
  BY <1>1, <1>4, WriteGrows DEF WireTypes
<1> QED
  BY <1>13, <1>14, <1>15, <1>16, <1>17, <1>18, <1>19, <1>20
     DEF WireInv, ExchangeInv, NoDesynchronisation

\* While the backend reads a COPY that the client knows of, so does the client.
LEMMA BackendCopiesIn ==
  ASSUME WireTypes, server = "copy_in", ~Brings({"CopyInResponse"}),
         NEW p, NEW q, Flow(p, q)
  PROVE  toClient = <<>> /\ p = "in" /\ q = "in" /\ session.origin = "Extended_Copy"
<1>1. q = "in"
  BY DEF Flow, ServerIn
<1>2. toClient = <<>> /\ p = "in"
  BY <1>1, ReadsToCopyIn DEF Flow
<1> QED
  BY <1>1, <1>2 DEF Flow, ClientIn

LEMMA SyncKeeps ==
  ASSUME WireInv, session.state # "Closed", session.pipelined \/ session.pending = 0,
         Synchronize, Write("Sync", "no_rows"), toClient' = toClient, server' = server
  PROVE  WireInv'
<1>1. SessionInv /\ WireTypes /\ ExchangeInv
  BY DEF WireInv
<1>2. SessionInv'
  BY <1>1, SynchronizeStep
<1>3. /\ session'.state = "Awaiting_Ready" /\ session'.pending = session.pending + 1
      /\ ~session'.batchOpen /\ ~session'.bound /\ ~session'.suspended
      /\ session'.copySync = (session.copySync \/ session.origin = "Extended_Copy")
      /\ session'.origin = session.origin /\ session'.sendOpen = session.sendOpen
      /\ session'.recvOpen = session.recvOpen /\ session'.pipelined = session.pipelined
      /\ raised' = "none" /\ session.pending \in Nat
      /\ session.origin = "Extended_Copy" => session'.copySync
  BY <1>1 DEF Synchronize, Becomes, SessionInv, TypeOK, Sessions
<1>4. /\ \/ session.state \in {"Ready", "Extended_Query_Active", "Copy_Out_Active",
                               "Copy_Completion_Active", "Recovery_Required"}
         \/ session.pipelined /\ session.state = "Awaiting_Ready"
      /\ session.state \in {"Copy_Out_Active", "Copy_Completion_Active"}
           => session.origin = "Extended_Copy"
  BY DEF Synchronize, MaySynchronize
<1>5. ~session.sendOpen
  BY <1>1, <1>4 DEF SessionInv, CopyFlagsAgree
<1>6. ~SimpleQueryRuns /\ ~SimpleQueryRuns'
  BY <1>1, <1>3, <1>4 DEF SimpleQueryRuns, SessionInv, OriginFits, CopyStates, CopyStreams,
                          PipelineExcludesCopy, CopyFlagsAgree
<1>7. "Sync" \in Tags /\ "no_rows" \in AllWorks /\ "Sync" \notin EndTags
  BY DEF Tags, AllWorks, EndTags
<1>8. \A K : Sends(K)' <=> Sends(K) \/ "Sync" \in K
  BY <1>1, <1>7, WriteSends
<1>9. \A K : Brings(K)' <=> Brings(K)
  BY DEF Brings
<1>10. PICK p, q \in Phases : Flow(p, q)
  BY <1>1 DEF ExchangeInv
<1>11. /\ Walk(toClient, p, q) /\ ClientIn(p) /\ ServerIn(q) /\ CommandsFit(q)
       /\ p \in BatchPhases <=> q \in BatchPhases
       /\ p = "in" => ~Sends(BatchTags \union {"Query"})
  BY <1>10 DEF Flow
<1>12. p \in BatchPhases
  BY <1>6, <1>11 DEF ClientIn, SimpleQueryRuns, BatchPhases, Phases, QueryPhases
<1>13. Flow(p, q)'
  <2>1. ClientIn(p)'
    <3>1. session.origin = "No_Copy" \/ session.origin = "Extended_Copy"
      BY <1>1, <1>6 DEF SessionInv, TypeOK, Sessions, Origins, SimpleQueryRuns
    <3>2. session.state = "Recovery_Required" => session.origin = "No_Copy"
      BY <1>1, OutsideCopyFlags
    <3>3. session.pipelined => session.origin = "No_Copy"
      BY <1>1, OutsideCopyFlags
    <3>4. CASE p = "flat"
      BY <3>1, <3>2, <3>3, <3>4, <1>3, <1>4, <1>11 DEF ClientIn, CopyIsOver, BothClosed
    <3>5. CASE p \in {"out", "done", "in"}
      BY <3>5, <1>3, <1>11 DEF ClientIn, BothClosed
    <3>6. CASE p = "failed"
      BY <3>1, <3>2, <3>3, <3>6, <1>3, <1>4, <1>11 DEF ClientIn
    <3> QED
      BY <3>4, <3>5, <3>6, <1>12 DEF BatchPhases
  <2>2. q \in BatchPhases \ {"out", "done"}
    BY <1>11, <1>12 DEF ServerIn, BatchPhases
  <2>3. CommandsFit(q)'
    <3>1. q \in {"flat", "failed"} => ~Sends({"Query"})
      BY <1>11 DEF CommandsFit, QueryPhases
    <3>2. q = "in" => ~Sends(BatchTags \union {"Query"})
      BY <1>11 DEF CommandsFit, QueryPhases
    <3>3. "Sync" \notin {"Query"} /\ "Sync" \notin BatchTags \union {"Query"}
      BY DEF BatchTags
    <3>4. q \in {"flat", "failed"} => ~Sends({"Query"})'
      BY <3>1, <3>3, <1>8
    <3>5. q = "in" => ~Sends(BatchTags \union {"Query"})'
      BY <3>2, <3>3, <1>8
    <3> QED
      BY <2>2, <3>4, <3>5 DEF CommandsFit, BatchPhases
  <2>4. "Sync" \notin BatchTags \union {"Query"}
    BY DEF BatchTags
  <2>5. p = "in" => ~Sends(BatchTags \union {"Query"})'
    BY <1>11, <1>8, <2>4
  <2>6. ~(p = "in" /\ ~session'.copySync)
    BY <1>3, <1>11 DEF ClientIn
  <2> QED
    BY <2>1, <2>3, <2>5, <2>6, <1>11 DEF Flow, ServerIn
<1>14. EndsInOrder'
  BY <1>1, <1>3, <1>5, <1>7, <1>8, SendOrder DEF ExchangeInv, EndsInOrder
<1>15. NothingFollows'
  <2>1. ASSUME NEW i \in DOMAIN toServer', NEW j \in DOMAIN toServer', i < j,
               toServer'[i].tag = "Execute", toServer'[i].work = "copy_in"
        PROVE  toServer'[j].tag = "Sync"
    <3>1. i \in 1 .. Len(toServer) /\ (j \in 1 .. Len(toServer) \/ j = Len(toServer) + 1)
      BY <1>1, <1>7, <2>1, WriteGrows
    <3> QED
      BY <3>1, <2>1, <1>1, <1>7, WriteGrows DEF ExchangeInv, NothingFollows
  <2>2. ASSUME NEW i \in DOMAIN toClient, toClient[i].kind = "CopyInResponse"
        PROVE  i = Len(toClient) /\ ~Sends(Tags \ {"Sync"})'
    BY <2>2, <1>1, <1>8 DEF ExchangeInv, NothingFollows
  <2> QED
    BY <2>1, <2>2 DEF NothingFollows
<1>16. ASSUME server = "copy_in", ~Brings({"CopyInResponse"})
       PROVE  Sends(EndTags) /\ session.origin = "Extended_Copy"
  BY <1>16, <1>1, <1>5, <1>10, BackendCopiesIn DEF ExchangeInv, CopyInIsOrdered
<1>17. Brings({"CopyInResponse"}) \/
         /\ Len(toServer) + 1 \in SyncsIn'
         /\ Cardinality(SyncsIn') = Cardinality(SyncsIn) + 1
  BY <1>16, <1>1, <1>7, WriteSyncs
<1>18. CopyInIsOrdered'
  <2> SUFFICES ASSUME server = "copy_in", ~Brings({"CopyInResponse"})
               PROVE  /\ Sends(EndTags)'
                      /\ \A i, j \in DOMAIN toServer' :
                           i < j /\ toServer'[j].tag = "Sync" /\ toServer'[i].tag \in CopyTags
                             => ~SwallowedAt(j)'
                      /\ \A i, j \in DOMAIN toServer' : i < j /\ toServer'[i].tag \in EndTags =>
                           toServer'[j].tag = "Sync" /\ session'.copySync
    BY <1>9 DEF CopyInIsOrdered
  <2>1. Sends(EndTags)' /\ session'.copySync
    BY <1>16, <1>3, <1>8
  <2>3. ASSUME NEW i \in DOMAIN toServer', NEW j \in DOMAIN toServer', i < j,
               toServer'[j].tag = "Sync", toServer'[i].tag \in CopyTags
        PROVE  ~SwallowedAt(j)'
    <3>1. i \in 1 .. Len(toServer) /\ (j \in 1 .. Len(toServer) \/ j = Len(toServer) + 1)
      BY <1>1, <1>7, <2>3, WriteGrows
    <3>2. CASE j \in 1 .. Len(toServer)
      <4>1. ~SwallowedAt(j)
        BY <3>1, <3>2, <2>3, <1>1, <1>7, WriteGrows DEF ExchangeInv, CopyInIsOrdered
      <4> QED
        BY <4>1, <3>2, <1>1, <1>7, WriteSyncs
    <3>3. CASE j = Len(toServer) + 1
      BY <3>3, <1>17 DEF SyncsIn
    <3> QED
      BY <3>1, <3>2, <3>3
  <2>4. ASSUME NEW i \in DOMAIN toServer', NEW j \in DOMAIN toServer', i < j,
               toServer'[i].tag \in EndTags
        PROVE  toServer'[j].tag = "Sync"
    <3>1. i \in 1 .. Len(toServer) /\ (j \in 1 .. Len(toServer) \/ j = Len(toServer) + 1)
      BY <1>1, <1>7, <2>4, WriteGrows
    <3> QED
      BY <3>1, <2>4, <1>1, <1>7, WriteGrows DEF ExchangeInv, CopyInIsOrdered
  <2> QED
    BY <2>1, <2>3, <2>4
<1>19. Counted'
  <2>1. ReadiesIn' = ReadiesIn
    BY DEF ReadiesIn
  <2>2. WireTypes'
    BY <1>1, <1>7, WriteGrows DEF WireTypes
  <2>3. Cardinality(ReadiesIn) \in Nat /\ Cardinality(SyncsIn) \in Nat
    BY <1>1, ReadiesCount
  <2>4. ReadiesToCome = Cardinality(ReadiesIn) + Cardinality(SyncsIn)
    BY DEF ReadiesToCome, ReadiesIn, SyncsIn
  <2>5. ReadiesToCome' = Cardinality(ReadiesIn') + Cardinality(SyncsIn')
    BY DEF ReadiesToCome, ReadiesIn, SyncsIn
  <2>6. CASE Brings({"CopyInResponse"})
    <3>1. session.pending >= Cardinality(ReadiesIn)
      BY <2>6, <1>1, <1>6, <1>3, <2>3 DEF ExchangeInv, Counted
    <3> QED
      BY <3>1, <2>1, <2>3, <2>6, <1>3, <1>6, <1>9 DEF Counted
  <2>7. CASE ~Brings({"CopyInResponse"})
    <3>1. session.pending = Cardinality(ReadiesIn) + Cardinality(SyncsIn)
      BY <2>7, <1>1, <1>6, <2>4 DEF ExchangeInv, Counted
    <3>2. session'.pending = ReadiesToCome'
      BY <3>1, <2>1, <2>3, <2>5, <2>7, <1>3, <1>17
    <3> QED
      BY <3>2, <2>7, <1>9 DEF Counted
  <2> QED
    BY <2>6, <2>7
<1>20. BatchInv'
  <2>1. ~session'.pipelined => session'.pending <= 1
    BY <1>3
  <2> QED
    BY <2>1, <1>3, <1>5 DEF BatchInv
<1>21. EndsBySync'
  <2> SUFFICES ASSUME ~Loose'
               PROVE  /\ \A i \in DOMAIN toServer' : toServer'[i].tag \in BatchTags =>
                           \E j \in DOMAIN toServer' : j > i /\ toServer'[j].tag = "Sync"
                      /\ SyncsIn' # {}
    BY DEF EndsBySync
  <2>1. ~Brings({"CopyInResponse"})
    BY <1>9 DEF Loose
  <2>2. Len(toServer) + 1 \in SyncsIn'
    BY <2>1, <1>17
  <2>3. ASSUME NEW i \in DOMAIN toServer', toServer'[i].tag \in BatchTags
        PROVE  \E j \in DOMAIN toServer' : j > i /\ toServer'[j].tag = "Sync"
    <3>1. "Sync" \notin BatchTags
      BY DEF BatchTags
    <3>2. i \in 1 .. Len(toServer)
      BY <3>1, <2>3, <1>1, <1>7, WriteGrows
    <3>3. Len(toServer) + 1 \in DOMAIN toServer' /\ Len(toServer) + 1 > i
          /\ toServer'[Len(toServer) + 1].tag = "Sync"
      BY <3>2, <1>1, <1>7, WriteGrows
    <3> QED
      BY <3>3
  <2> QED
    BY <2>2, <2>3
<1>22. WireTypes'
  BY <1>1, <1>7, WriteGrows DEF WireTypes
<1> QED
  BY <1>2, <1>3, <1>13, <1>14, <1>15, <1>18, <1>19, <1>20, <1>21, <1>22
     DEF WireInv, ExchangeInv, NoDesynchronisation

\* The wires stay as they are, and so does what the session says of them.
LEMMA WiresStand ==
  ASSUME UNCHANGED wireVars, NEW p, NEW q, Flow(p, q), EndsInOrder, NothingFollows,
         CopyInIsOrdered, Counted, EndsBySync, WireTypes,
         session.state \in {"Ready", "Extended_Query_Active", "Awaiting_Ready"},
         session'.state \in {"Ready", "Extended_Query_Active", "Awaiting_Ready"},
         session'.state = session.state \/ session.state = "Ready",
         session'.origin = "No_Copy", session.origin = "No_Copy",
         ~session'.sendOpen, ~session.sendOpen,
         session.state = "Ready" => session.pending = 0,
         session'.pending = session.pending, session'.batchOpen = session.batchOpen
  PROVE  /\ Flow(p, q)' /\ EndsInOrder' /\ NothingFollows' /\ CopyInIsOrdered' /\ Counted'
         /\ EndsBySync' /\ WireTypes'
<1>1. toServer' = toServer /\ toClient' = toClient /\ server' = server
  BY DEF wireVars
<1>2. Flow(p, q)'
  <2>1. p \in {"flat", "failed"}
    BY DEF Flow, ClientIn, CopyIsOver
  <2>2. ClientIn(p)'
    BY <2>1 DEF Flow, ClientIn, CopyIsOver
  <2> QED
    BY <2>1, <2>2, <1>1 DEF Flow, ServerIn, CommandsFit, Sends
<1>3. EndsInOrder' /\ NothingFollows' /\ CopyInIsOrdered'
  <2>1. (Sends(EndTags)' <=> Sends(EndTags)) /\ (Brings(WritableCopy)' <=> Brings(WritableCopy))
    BY <1>1 DEF Sends, Brings
  <2>2. EndsInOrder'
    BY <1>1, <2>1, SendOrder DEF EndsInOrder
  <2>3. NothingFollows'
    BY <1>1 DEF NothingFollows, Sends
  <2>4. server = "copy_in" => Brings({"CopyInResponse"})
    <3>1. server = "copy_in" /\ ~Brings({"CopyInResponse"}) => session.origin = "Extended_Copy"
      BY BackendCopiesIn
    <3> QED
      BY <3>1
  <2>5. CopyInIsOrdered'
    BY <1>1, <2>4 DEF CopyInIsOrdered, Brings
  <2> QED
    BY <2>2, <2>3, <2>5
<1>4. ReadiesIn' = ReadiesIn /\ SyncsIn' = SyncsIn /\ ReadiesToCome' = ReadiesToCome
      /\ (Brings({"CopyInResponse"})' <=> Brings({"CopyInResponse"}))
  BY <1>1 DEF ReadiesIn, SyncsIn, ReadiesToCome, SwallowedAt, Brings
<1>5. ~SimpleQueryRuns
  BY DEF SimpleQueryRuns
<1>6. Counted'
  BY <1>4, <1>5 DEF Counted
<1>7. EndsBySync'
  <2>1. Loose => Loose'
    BY <1>4, <1>5 DEF Loose
  <2> QED
    BY <2>1, <1>1, <1>4 DEF EndsBySync
<1>8. WireTypes'
  BY <1>1 DEF WireTypes
<1> QED
  BY <1>2, <1>3, <1>6, <1>7, <1>8

LEMMA FlushKeeps ==
  ASSUME WireInv, session.state # "Closed", Flush, UNCHANGED wireVars
  PROVE  WireInv'
<1>1. SessionInv /\ WireTypes /\ ExchangeInv
  BY DEF WireInv
<1>2. SessionInv'
  BY <1>1, FlushStep
<1>3. /\ session.state \in {"Ready", "Extended_Query_Active", "Awaiting_Ready"}
      /\ session.state = "Awaiting_Ready" => session.pipelined
  BY DEF Flush, MayExtend
<1>4. /\ session.origin = "No_Copy" /\ ~session.sendOpen
  BY <1>1, <1>3, OutsideCopyFlags
<1>5. /\ session'.state = (IF session.state = "Ready" THEN "Extended_Query_Active" ELSE session.state)
      /\ session'.origin = session.origin /\ session'.sendOpen = session.sendOpen
      /\ session'.copySync = session.copySync /\ session'.pipelined = session.pipelined
      /\ session'.pending = session.pending /\ session'.batchOpen = session.batchOpen
      /\ session'.bound = session.bound /\ session'.suspended = session.suspended
      /\ raised' = "none"
  BY <1>1 DEF Flush, Becomes, SessionInv, TypeOK, Sessions
<1>6. session.state = "Ready" => session.pending = 0
  BY <1>1 DEF SessionInv, ReadyIsClean
<1>7. BatchInv'
  BY <1>1, <1>3, <1>5, <1>6 DEF ExchangeInv, BatchInv
<1>8. PICK p, q \in Phases : Flow(p, q)
  BY <1>1 DEF ExchangeInv
<1>9. /\ Flow(p, q)' /\ EndsInOrder' /\ NothingFollows' /\ CopyInIsOrdered' /\ Counted'
      /\ EndsBySync' /\ WireTypes'
  <2>1. session'.state \in {"Ready", "Extended_Query_Active", "Awaiting_Ready"}
    BY <1>3, <1>5
  <2> QED
    BY <2>1, <1>1, <1>3, <1>4, <1>5, <1>6, <1>8, WiresStand DEF ExchangeInv
<1> QED
  BY <1>2, <1>5, <1>7, <1>9 DEF WireInv, ExchangeInv, NoDesynchronisation

LEMMA ModeKeeps ==
  ASSUME WireInv, session.state # "Closed", EnterPipelineMode \/ ExitPipelineMode,
         UNCHANGED wireVars
  PROVE  WireInv'
<1>1. SessionInv /\ WireTypes /\ ExchangeInv
  BY DEF WireInv
<1>2. SessionInv'
  BY <1>1, PipelineModeStep
<1>3. session.state = "Ready"
  BY DEF EnterPipelineMode, ExitPipelineMode
<1>4. /\ session.origin = "No_Copy" /\ ~session.sendOpen /\ session.pending = 0
      /\ ~session.batchOpen /\ ~session.bound /\ ~session.suspended
  BY <1>1, <1>3, OutsideCopyFlags DEF SessionInv, ReadyIsClean
<1>5. /\ session'.state = session.state
      /\ session'.origin = session.origin /\ session'.sendOpen = session.sendOpen
      /\ session'.pending = session.pending /\ session'.batchOpen = session.batchOpen
      /\ session'.bound = session.bound /\ session'.suspended = session.suspended
      /\ raised' = "none"
  BY <1>1 DEF EnterPipelineMode, ExitPipelineMode, Becomes, SessionInv, TypeOK, Sessions
<1>6. BatchInv'
  BY <1>3, <1>4, <1>5 DEF BatchInv
<1>7. PICK p, q \in Phases : Flow(p, q)
  BY <1>1 DEF ExchangeInv
<1>8. /\ Flow(p, q)' /\ EndsInOrder' /\ NothingFollows' /\ CopyInIsOrdered' /\ Counted'
      /\ EndsBySync' /\ WireTypes'
  BY <1>1, <1>3, <1>4, <1>5, <1>7, WiresStand DEF ExchangeInv
<1> QED
  BY <1>2, <1>5, <1>6, <1>8 DEF WireInv, ExchangeInv, NoDesynchronisation

LEMMA QueryKeeps ==
  ASSUME WireInv, session.state # "Closed", SendQuery, NEW work \in AllWorks,
         Write("Query", work), toClient' = toClient, server' = server
  PROVE  WireInv'
<1>1. SessionInv /\ WireTypes /\ ExchangeInv
  BY DEF WireInv
<1>2. SessionInv'
  BY <1>1, SendQueryStep
<1>3. session.state = "Ready"
  BY DEF SendQuery
<1>4. /\ session.origin = "No_Copy" /\ ~session.sendOpen /\ session.pending = 0
      /\ ~session.batchOpen /\ ~session.bound /\ ~session.suspended /\ ~session.copySync
  BY <1>1, <1>3, OutsideCopyFlags DEF SessionInv, ReadyIsClean
<1>5. /\ session'.state = "Simple_Query_Active" /\ session'.desc = NoDescription
      /\ session'.origin = session.origin /\ session'.sendOpen = session.sendOpen
      /\ session'.pending = session.pending /\ session'.batchOpen = session.batchOpen
      /\ session'.bound = session.bound /\ session'.suspended = session.suspended
      /\ raised' = "none"
  BY <1>1 DEF SendQuery, Becomes, SessionInv, TypeOK, Sessions
<1>6. /\ toClient = <<>> /\ server = "idle"
      /\ \A i \in DOMAIN toServer : toServer[i].tag \in CopyTags
  BY <1>3, QuietWhenReady DEF ReadyMeansQuiet
<1>7. "Query" \in Tags
  BY DEF Tags
<1>8. Flow("asked", "asked")'
  <2>1. Walk(toClient', "asked", "asked")
    BY <1>6, WalkNowhere DEF Phases, QueryPhases
  <2>2. CommandsFit("asked")'
    <3>1. Len(toServer') = Len(toServer) + 1 /\ toServer'[Len(toServer) + 1].tag = "Query"
          /\ Len(toServer) \in Nat /\ toServer' \in Seq(Commands)
      BY <1>1, <1>7, WriteGrows
    <3>2. toServer' # <<>> /\ toServer'[Len(toServer')].tag = "Query"
      BY <3>1, EmptySeq
    <3>3. \A i \in 1 .. Len(toServer') - 1 : toServer'[i].tag \in CopyTags
      BY <3>1, <1>1, <1>6, <1>7, WriteGrows
    <3> QED
      BY <3>2, <3>3 DEF CommandsFit
  <2>3. ClientIn("asked")' /\ ServerIn("asked")'
    BY <1>5, <1>6 DEF ClientIn, ServerIn
  <2> QED
    BY <2>1, <2>2, <2>3 DEF Flow
<1>9. DOMAIN toClient = {}
  BY <1>6
<1>10. EndsInOrder' /\ CopyInIsOrdered'
  BY <1>4, <1>5, <1>6, <1>9 DEF EndsInOrder, CopyInIsOrdered, Brings
<1>11. NothingFollows'
  <2>1. ASSUME NEW i \in DOMAIN toServer', toServer'[i].tag = "Execute"
        PROVE  FALSE
    <3>1. i \in 1 .. Len(toServer)
      BY <1>1, <1>7, <2>1, WriteGrows
    <3>2. toServer[i].tag = "Execute" /\ i \in DOMAIN toServer
      BY <3>1, <2>1, <1>1, <1>7, WriteGrows
    <3> QED
      BY <3>2, <1>6 DEF CopyTags
  <2> QED
    BY <2>1, <1>9 DEF NothingFollows
<1>12. Counted' /\ EndsBySync'
  BY <1>5 DEF Counted, EndsBySync, Loose, SimpleQueryRuns
<1>13. BatchInv'
  BY <1>4, <1>5 DEF BatchInv
<1>14. WireTypes'
  BY <1>1, <1>7, WriteGrows DEF WireTypes
<1>15. "asked" \in Phases
  BY DEF Phases, QueryPhases
<1> QED
  BY <1>2, <1>5, <1>8, <1>10, <1>11, <1>12, <1>13, <1>14, <1>15
     DEF WireInv, ExchangeInv, NoDesynchronisation

\* Send_Copy_Data, Finish_Copy and Abort_Copy.
LEMMA CopyWriteKeeps ==
  ASSUME WireInv, session.state # "Closed", CanSendCopy,
         NEW tag \in CopyTags, Write(tag, "no_rows"), toClient' = toClient, server' = server,
         raised' = "none", SessionInv',
         session'.origin = session.origin, session'.recvOpen = session.recvOpen,
         session'.bidir = session.bidir, session'.copySync = session.copySync,
         session'.pipelined = session.pipelined, session'.pending = session.pending,
         session'.batchOpen = session.batchOpen, session'.bound = session.bound,
         session'.suspended = session.suspended,
         \/ tag = "CopyData" /\ session'.sendOpen /\ session'.state = session.state
         \/ /\ tag \in EndTags /\ ~session'.sendOpen
            /\ session'.state = IF session.state = "Copy_Both_Active" /\ session.recvOpen
                                THEN session.state ELSE "Copy_Completion_Active"
  PROVE  WireInv'
<1>1. SessionInv /\ WireTypes /\ ExchangeInv
  BY DEF WireInv
<1>2. /\ session.sendOpen /\ session.state \in {"Copy_In_Active", "Copy_Both_Active"}
      /\ session.origin \in {"Simple_Copy", "Extended_Copy"} /\ ~session.copySync
  BY <1>1 DEF CanSendCopy, SessionInv, TypeOK, Sessions, Origins, CopyFlagsAgree, CopyStreams,
              ExchangeInv, BatchInv
<1>3. ~Sends(EndTags) /\ ~Brings(WritableCopy \union {"CommandComplete"})
  BY <1>1, <1>2 DEF ExchangeInv, EndsInOrder
<1>4. ~Brings(WritableCopy) /\ ~Brings({"CopyInResponse"}) /\ ~Brings({"CommandComplete"})
  BY <1>3 DEF Brings, WritableCopy
<1>5. \A K : Brings(K)' <=> Brings(K)
  BY DEF Brings
<1>6. tag \in Tags /\ "no_rows" \in AllWorks /\ tag # "Sync" /\ tag \notin BatchTags
      /\ tag # "Query"
  BY DEF Tags, AllWorks, CopyTags, BatchTags
<1>7. \A K : Sends(K)' <=> Sends(K) \/ tag \in K
  BY <1>1, <1>6, WriteSends
<1>8. PICK p, q \in Phases : Flow(p, q)
  BY <1>1 DEF ExchangeInv
<1>9. /\ Walk(toClient, p, q) /\ ClientIn(p) /\ ServerIn(q) /\ CommandsFit(q)
      /\ p \in BatchPhases <=> q \in BatchPhases
      /\ p = "in" => ~Sends(BatchTags \union {"Query"})
  BY <1>8 DEF Flow
<1>10. p \in {"in", "reads", "both", "half"}
  BY <1>2, <1>9 DEF ClientIn, CopyIsOver
<1>11. q # "asked"
  BY <1>1, <1>9, <1>10, NothingLeadsToAsked
<1>12. \A K \in {{"Query"}, BatchTags \union {"Query"}, BatchTags \union {"Sync", "Query"}} :
         ~Sends(K) => ~Sends(K)'
  BY <1>6, <1>7
<1>13. Flow(p, q)'
  <2>1. ClientIn(p)'
    <3>1. CASE p = "in"
      BY <3>1, <1>2, <1>9 DEF ClientIn
    <3>2. CASE p = "reads"
      BY <3>2, <1>2, <1>9 DEF ClientIn
    <3>3. CASE p = "both"
      BY <3>3, <1>2, <1>9 DEF ClientIn
    <3>4. CASE p = "half"
      BY <3>4, <1>2, <1>9 DEF ClientIn
    <3> QED
      BY <3>1, <3>2, <3>3, <3>4, <1>10
  <2>2. CommandsFit(q)'
    BY <1>9, <1>11, <1>12 DEF CommandsFit
  <2>3. p = "in" => ~Sends(BatchTags \union {"Query"})'
    BY <1>9, <1>12
  <2>4. p = "in" /\ ~session'.copySync => Len(toClient) <= 1
    BY <1>8 DEF Flow
  <2> QED
    BY <2>1, <2>2, <2>3, <2>4, <1>4, <1>5, <1>9 DEF Flow, ServerIn
<1>14. EndsInOrder'
  BY <1>1, <1>2, <1>4, <1>7, SendOrder DEF ExchangeInv, EndsInOrder, EndTags
<1>15. ~Sends(BatchTags)
  <2>1. CASE p = "in"
    BY <2>1, <1>9 DEF Sends
  <2>2. CASE p # "in"
    <3>1. q \in QueryPhases \ {"asked"}
      BY <2>2, <1>9, <1>10, <1>11 DEF BatchPhases, Phases
    <3>2. ~Sends(BatchTags \union {"Sync", "Query"})
      BY <3>1, <1>9 DEF CommandsFit, QueryPhases
    <3> QED
      BY <3>2 DEF Sends
  <2> QED
    BY <2>1, <2>2
<1>16. NothingFollows'
  <2>1. ~Sends(BatchTags)'
    BY <1>6, <1>7, <1>15
  <2> QED
    BY <2>1, <1>4 DEF NothingFollows, Sends, Brings, BatchTags
<1>17. CopyInIsOrdered'
  <2> SUFFICES ASSUME server = "copy_in", ~Brings({"CopyInResponse"})
               PROVE  /\ ~session'.sendOpen => Sends(EndTags)'
                      /\ \A i, j \in DOMAIN toServer' :
                           i < j /\ toServer'[j].tag = "Sync" /\ toServer'[i].tag \in CopyTags
                             => ~SwallowedAt(j)'
                      /\ \A i, j \in DOMAIN toServer' : i < j => toServer'[i].tag \notin EndTags
    BY <1>5 DEF CopyInIsOrdered
  <2>1. ~session'.sendOpen => Sends(EndTags)'
    BY <1>7
  <2>2. ASSUME NEW i \in DOMAIN toServer', NEW j \in DOMAIN toServer', i < j
        PROVE  i \in 1 .. Len(toServer) /\ (j \in 1 .. Len(toServer) \/ j = Len(toServer) + 1)
    BY <1>1, <1>6, <2>2, WriteGrows
  <2>3. ASSUME NEW i \in DOMAIN toServer', NEW j \in DOMAIN toServer', i < j,
               toServer'[j].tag = "Sync", toServer'[i].tag \in CopyTags
        PROVE  ~SwallowedAt(j)'
    <3>1. j \in 1 .. Len(toServer)
      BY <2>2, <2>3, <1>1, <1>6, WriteGrows
    <3>2. ~SwallowedAt(j)
      BY <2>2, <3>1, <2>3, <1>1, <1>6, WriteGrows DEF ExchangeInv, CopyInIsOrdered
    <3> QED
      BY <3>1, <3>2, <1>1, <1>6, WriteSyncs
  <2>4. ASSUME NEW i \in DOMAIN toServer', NEW j \in DOMAIN toServer', i < j
        PROVE  toServer'[i].tag \notin EndTags
    <3>1. i \in 1 .. Len(toServer) /\ toServer'[i] = toServer[i] /\ i \in DOMAIN toServer
      BY <2>2, <2>4, <1>1, <1>6, WriteGrows
    <3> QED
      BY <3>1, <1>3 DEF Sends
  <2> QED
    BY <2>1, <2>3, <2>4
<1>18. Counted'
  <2>1. SyncsIn' = SyncsIn /\ ReadiesIn' = ReadiesIn
    BY <1>1, <1>6, WriteSyncs DEF ReadiesIn
  <2>2. ReadiesToCome' = ReadiesToCome
    BY <2>1 DEF ReadiesToCome, SyncsIn, ReadiesIn
  <2>3. SimpleQueryRuns' <=> SimpleQueryRuns
    BY <1>2 DEF SimpleQueryRuns
  <2>4. ~SimpleQueryRuns => session.pending = ReadiesToCome
    BY <1>1, <1>4 DEF ExchangeInv, Counted
  <2> QED
    BY <2>2, <2>3, <2>4, <1>4, <1>5 DEF Counted
<1>19. BatchInv'
  <2>1. BatchInv
    BY <1>1 DEF ExchangeInv
  <2>2. session'.state \in {"Copy_In_Active", "Copy_Both_Active", "Copy_Completion_Active"}
    BY <1>2
  <2> QED
    BY <2>1, <2>2, <1>2 DEF BatchInv
<1>20. EndsBySync'
  BY <1>2 DEF EndsBySync, Loose, SimpleQueryRuns
<1>21. WireTypes'
  BY <1>1, <1>6, WriteGrows DEF WireTypes
<1> QED
  BY <1>13, <1>14, <1>16, <1>17, <1>18, <1>19, <1>20, <1>21
     DEF WireInv, ExchangeInv, NoDesynchronisation

LEMMA CopyDataKeeps ==
  ASSUME WireInv, session.state # "Closed", SendCopyData,
         Write("CopyData", "no_rows"), toClient' = toClient, server' = server
  PROVE  WireInv'
<1>1. CanSendCopy /\ session' = session /\ raised' = "none"
  BY DEF SendCopyData, Becomes
<1>2. session'.sendOpen
  BY <1>1 DEF CanSendCopy
<1>3. SessionInv'
  BY SendCopyDataStep DEF WireInv
<1>4. "CopyData" \in CopyTags
  BY DEF CopyTags
<1> QED
  BY <1>1, <1>2, <1>3, <1>4, CopyWriteKeeps

LEMMA CopyEndKeeps ==
  ASSUME WireInv, session.state # "Closed", NEW tag \in EndTags, EndCopyData,
         Write(tag, "no_rows"), toClient' = toClient, server' = server
  PROVE  WireInv'
<1>1. SessionInv'
  BY EndCopyDataStep DEF WireInv
<1>2. session \in Sessions
  BY DEF WireInv, SessionInv, TypeOK
<1>3. /\ CanSendCopy /\ raised' = "none"
      /\ session'.origin = session.origin /\ session'.recvOpen = session.recvOpen
      /\ session'.bidir = session.bidir /\ session'.copySync = session.copySync
      /\ session'.pipelined = session.pipelined /\ session'.pending = session.pending
      /\ session'.batchOpen = session.batchOpen /\ session'.bound = session.bound
      /\ session'.suspended = session.suspended /\ ~session'.sendOpen
      /\ session'.state = IF session.state = "Copy_Both_Active" /\ session.recvOpen
                          THEN session.state ELSE "Copy_Completion_Active"
  BY <1>2 DEF EndCopyData, Becomes, Sessions
<1>4. tag \in CopyTags
  BY DEF CopyTags, EndTags
<1> QED
  BY <1>1, <1>3, <1>4, CopyWriteKeeps

\* Terminate gives up what is in flight.
LEMMA TerminateKeeps ==
  ASSUME WireInv, WriteTerminate
  PROVE  WireInv'
<1>1. /\ session' = ClosedSession /\ raised' = "none"
      /\ toServer' = <<>> /\ toClient' = <<>> /\ server' = server
  BY DEF WriteTerminate, Terminate, Becomes
<1>2. SessionInv' /\ session'.state = "Closed"
  BY <1>1, TerminateStep, ClosedSessionIs DEF WireInv, Outcomes
<1>3. WireTypes'
  BY <1>1 DEF WireInv, WireTypes
<1> QED
  BY <1>1, <1>2, <1>3 DEF WireInv, NoDesynchronisation

-----------------------------------------------------------------------------
(* Serving.  A step of the backend leaves the session alone.               *)

LEMMA BackendKeeps ==
  ASSUME WireInv, UNCHANGED clientVars, WireTypes',
         session.state # "Closed" =>
           /\ \E p, q \in Phases : Flow(p, q)'
           /\ EndsInOrder' /\ NothingFollows' /\ CopyInIsOrdered' /\ Counted' /\ EndsBySync'
  PROVE  WireInv'
<1>1. session' = session /\ raised' = raised
  BY DEF clientVars
<1>2. SessionInv'
  BY <1>1, SameSession DEF WireInv, SessionInv, TypeOK
<1>3. session.state # "Closed" => BatchInv'
  BY <1>1 DEF WireInv, ExchangeInv, BatchInv
<1> QED
  BY <1>1, <1>2, <1>3 DEF WireInv, ExchangeInv, NoDesynchronisation

\* No answer: the responses stay as they are.
LEMMA NothingGrows ==
  ASSUME WireTypes, toClient' = toClient
  PROVE  /\ Grown(<<>>) /\ <<>> \in Seq(BackendKinds) /\ Len(<<>>) = 0
<1>1. <<>> \in Seq(BackendKinds) /\ Len(<<>>) = 0
  BY EmptySeq
<1>2. Len(toClient) \in Nat /\ toClient \in Seq(Responses)
  BY DEF WireTypes
<1> QED
  BY <1>1, <1>2 DEF Grown

\* Commands are taken from the head of the wire, or none is.
TakesCommands == Serves \/ toServer' = toServer

\* Taking commands brings no new ones.
LEMMA TakesSends ==
  ASSUME WireTypes, TakesCommands, NEW K
  PROVE  Sends(K)' => Sends(K)
<1>1. CASE Serves
  BY <1>1, ServeSends
<1>2. CASE toServer' = toServer
  BY <1>2 DEF Sends
<1> QED
  BY <1>1, <1>2 DEF TakesCommands

\* The commands fit a phase still when some are taken.
LEMMA FitsStill ==
  ASSUME WireTypes, TakesCommands, NEW q, CommandsFit(q), q # "asked"
  PROVE  CommandsFit(q)'
<1>1. \A K \in {{"Query"}, BatchTags \union {"Query"}, BatchTags \union {"Sync", "Query"}} :
        ~Sends(K) => ~Sends(K)'
  BY TakesSends
<1> QED
  BY <1>1 DEF CommandsFit

\* An answer keeps the order of a COPY that it does not open or end.
LEMMA GrownEndsInOrder ==
  ASSUME WireTypes, EndsInOrder, TakesCommands, session' = session,
         NEW kinds \in Seq(BackendKinds), Grown(kinds),
         \A i \in 1 .. Len(kinds) : kinds[i] \notin WritableCopy,
         \A i \in 1 .. Len(kinds) : kinds[i] = "CommandComplete" =>
           ~session.sendOpen /\ ~Brings(WritableCopy)
  PROVE  EndsInOrder'
<1>1. toClient \in Seq(Responses) /\ Len(toClient) \in Nat
      /\ DOMAIN toClient = 1 .. Len(toClient)
  BY DEF WireTypes
<1>2. \A K : Brings(K)' <=> Brings(K) \/ \E i \in 1 .. Len(kinds) : kinds[i] \in K
  BY <1>1, GrownBrings
<1>3. Sends(EndTags)' => Sends(EndTags)
  BY TakesSends
<1>4. session.sendOpen \/ Brings(WritableCopy)' => ~Sends(EndTags)'
  BY <1>2, <1>3 DEF EndsInOrder
<1>5. session.sendOpen => ~Brings(WritableCopy \union {"CommandComplete"})'
  BY <1>2 DEF EndsInOrder
<1>6. /\ DOMAIN toClient' = 1 .. Len(toClient') /\ Len(toClient') = Len(toClient) + Len(kinds)
      /\ Len(kinds) \in Nat
  BY DEF Grown
<1>7. \A i \in DOMAIN toClient' :
        \/ i \in DOMAIN toClient /\ toClient'[i] = toClient[i]
        \/ /\ i > Len(toClient) /\ i - Len(toClient) \in 1 .. Len(kinds)
           /\ toClient'[i].kind = kinds[i - Len(toClient)]
  <2> TAKE i \in DOMAIN toClient'
  <2>1. CASE i <= Len(toClient)
    BY <2>1, <1>1, <1>6 DEF Grown
  <2>2. CASE i > Len(toClient)
    <3> DEFINE k == i - Len(toClient)
    <3>1. k \in 1 .. Len(kinds) /\ i = Len(toClient) + k
      BY <2>2, <1>1, <1>6
    <3>2. toClient'[Len(toClient) + k].kind = kinds[k]
      BY <3>1 DEF Grown
    <3> QED
      BY <2>2, <3>1, <3>2
  <2> QED
    BY <2>1, <2>2, <1>1, <1>6
<1>8. \A i \in DOMAIN toClient' : toClient'[i].kind \in WritableCopy =>
        i \in DOMAIN toClient /\ toClient'[i] = toClient[i]
  BY <1>7
<1>9. ASSUME NEW i \in DOMAIN toClient', NEW j \in DOMAIN toClient', i < j,
             toClient'[i].kind \in WritableCopy
      PROVE  toClient'[j].kind \notin WritableCopy \union {"CommandComplete"}
  <2>1. i \in DOMAIN toClient /\ toClient[i].kind \in WritableCopy
    BY <1>8, <1>9
  <2>2. Brings(WritableCopy)
    BY <2>1 DEF Brings
  <2>3. CASE j \in DOMAIN toClient /\ toClient'[j] = toClient[j]
    BY <2>1, <2>3, <1>9 DEF EndsInOrder
  <2>4. CASE ~(j \in DOMAIN toClient /\ toClient'[j] = toClient[j])
    BY <2>2, <2>4, <1>7
  <2> QED
    BY <2>3, <2>4
<1>10. \A i \in DOMAIN toClient' : toClient'[i].kind = "CopyBothResponse" => i = 1
  BY <1>8 DEF EndsInOrder, WritableCopy
<1> QED
  BY <1>4, <1>5, <1>9, <1>10 DEF EndsInOrder

\* Taking commands puts nothing behind a COPY IN.
LEMMA TakesNothingFollows ==
  ASSUME WireTypes, NothingFollows, TakesCommands,
         NEW kinds \in Seq(BackendKinds), Grown(kinds),
         \A i \in 1 .. Len(kinds) : kinds[i] # "CopyInResponse",
         Brings({"CopyInResponse"}) => Len(kinds) = 0
  PROVE  NothingFollows'
<1>1. /\ DOMAIN toServer = 1 .. Len(toServer) /\ DOMAIN toClient = 1 .. Len(toClient)
      /\ Len(toServer) \in Nat /\ Len(toClient) \in Nat /\ toClient \in Seq(Responses)
  BY WireElements DEF WireTypes
<1>2. ASSUME NEW i \in DOMAIN toServer', NEW j \in DOMAIN toServer', i < j,
             toServer'[i].tag = "Execute", toServer'[i].work = "copy_in"
      PROVE  toServer'[j].tag = "Sync"
  <2>1. CASE Serves
    <3>1. /\ i + 1 \in DOMAIN toServer /\ j + 1 \in DOMAIN toServer /\ i + 1 < j + 1
          /\ toServer'[i] = toServer[i + 1] /\ toServer'[j] = toServer[j + 1]
      BY <2>1, <1>2, ServeShift
    <3> QED
      BY <3>1, <1>2 DEF NothingFollows
  <2>2. CASE toServer' = toServer
    BY <2>2, <1>2 DEF NothingFollows
  <2> QED
    BY <2>1, <2>2 DEF TakesCommands
<1>3. ASSUME NEW i \in DOMAIN toClient', toClient'[i].kind = "CopyInResponse"
      PROVE  i = Len(toClient') /\ ~Sends(Tags \ {"Sync"})'
  <2>1. Brings({"CopyInResponse"})'
    BY <1>3 DEF Brings
  <2>2. Brings({"CopyInResponse"})
    BY <2>1, <1>1, GrownBrings
  <2>3. Len(toClient') = Len(toClient)
        /\ \A k \in 1 .. Len(toClient) : toClient'[k] = toClient[k]
    BY <2>2, <1>1 DEF Grown
  <2>4. i \in DOMAIN toClient /\ toClient[i].kind = "CopyInResponse"
    BY <2>3, <1>1, <1>3 DEF Grown
  <2>5. i = Len(toClient) /\ ~Sends(Tags \ {"Sync"})
    BY <2>4 DEF NothingFollows
  <2> QED
    BY <2>3, <2>5, TakesSends
<1> QED
  BY <1>2, <1>3 DEF NothingFollows

\* What is in flight still ends with a Sync, if no Sync has been answered.
LEMMA ServeSynced ==
  ASSUME WireTypes, EndsBySync, Serves, session' = session,
         NEW kinds \in Seq(BackendKinds), Grown(kinds),
         \A i \in 1 .. Len(toServer') :
           toServer'[i].tag = "Sync" => (SwallowedAt(i)' <=> SwallowedAt(i + 1)),
         Command.tag = "Sync" => server = "copy_in",
         server = "idle" /\ (server' # "idle" \/ Len(kinds) # 0) /\ ~Loose =>
           Command.tag \in BatchTags
  PROVE  EndsBySync'
<1>1. toClient \in Seq(Responses) /\ Len(toClient) \in Nat
      /\ DOMAIN toClient = 1 .. Len(toClient)
  BY DEF WireTypes
<1>2. Loose => Loose'
  BY <1>1, GrownBrings DEF Loose, SimpleQueryRuns, CopyIsOver
<1> SUFFICES ASSUME ~Loose
             PROVE  /\ \A i \in DOMAIN toServer' : toServer'[i].tag \in BatchTags =>
                         \E j \in DOMAIN toServer' : j > i /\ toServer'[j].tag = "Sync"
                    /\ server' # "idle" => SyncsIn' # {}
                    /\ toClient' # <<>> =>
                         SyncsIn' # {} \/ toClient'[Len(toClient')].kind = "ReadyForQuery"
  BY <1>2 DEF EndsBySync
<1>3. SyncsIn # {} => SyncsIn' # {}
  <2>1. 1 \notin SyncsIn
    BY ServeSyncs
  <2> QED
    BY <2>1, ServeSyncs
<1>4. ASSUME NEW i \in DOMAIN toServer', toServer'[i].tag \in BatchTags
      PROVE  \E j \in DOMAIN toServer' : j > i /\ toServer'[j].tag = "Sync"
  <2>1. i + 1 \in DOMAIN toServer /\ toServer[i + 1].tag \in BatchTags
    BY <1>4, ServeShift
  <2>2. PICK j \in DOMAIN toServer : j > i + 1 /\ toServer[j].tag = "Sync"
    BY <2>1 DEF EndsBySync
  <2>3. j - 1 \in DOMAIN toServer' /\ j - 1 > i /\ (j - 1) + 1 = j
    BY <1>4, <2>2, ServeShift
  <2>4. toServer'[j - 1] = toServer[j]
    BY <2>3, ServeShift
  <2> QED
    BY <2>2, <2>3, <2>4
<1>5. ASSUME server = "idle", server' # "idle" \/ Len(kinds) # 0
      PROVE  SyncsIn' # {}
  <2>1. 1 \in DOMAIN toServer /\ toServer[1].tag \in BatchTags
    BY <1>5, ServeShift
  <2>2. PICK j \in DOMAIN toServer : j > 1 /\ toServer[j].tag = "Sync"
    BY <2>1 DEF EndsBySync
  <2>3. j \in SyncsIn
    BY <2>2, <1>5 DEF SyncsIn, SwallowedAt
  <2> QED
    BY <2>3, <1>3
<1>6. server # "idle" => SyncsIn' # {}
  BY <1>3 DEF EndsBySync
<1>7. ASSUME toClient' # <<>>, Len(kinds) = 0, SyncsIn' = {}
      PROVE  toClient'[Len(toClient')].kind = "ReadyForQuery"
  <2>1. Len(toClient') = Len(toClient) /\ toClient' \in Seq(Responses)
    BY <1>1, <1>7 DEF Grown
  <2>2. Len(toClient) \in 1 .. Len(toClient)
    BY <2>1, <1>1, <1>7, EmptySeq
  <2>3. toClient'[Len(toClient)] = toClient[Len(toClient)] /\ toClient # <<>>
    BY <2>2, EmptySeq DEF Grown
  <2> QED
    BY <2>1, <2>3, <1>3, <1>7 DEF EndsBySync
<1> QED
  BY <1>4, <1>5, <1>6, <1>7

\* What a command of a batch finds when the backend turns to it.
LEMMA BatchCommandServed ==
  ASSUME WireInv, session.state # "Closed", server = "idle", Serves,
         Command.tag \in BatchTags, NEW p, NEW q, Flow(p, q)
  PROVE  /\ q = "flat" /\ p \in BatchPhases /\ p # "in"
         /\ ~session.sendOpen /\ ~Brings({"CopyInResponse"}) /\ ~SimpleQueryRuns
         /\ session.batchOpen \/ \E j \in DOMAIN toServer : j > 1 /\ toServer[j].tag = "Sync"
<1>1. SessionInv /\ WireTypes /\ ExchangeInv
  BY DEF WireInv
<1>2. /\ Walk(toClient, p, q) /\ ClientIn(p) /\ ServerIn(q) /\ CommandsFit(q)
      /\ p \in BatchPhases <=> q \in BatchPhases
      /\ p = "in" => ~Sends(BatchTags \union {"Query"})
  BY DEF Flow
<1>3. /\ 1 \in DOMAIN toServer /\ Command = toServer[1] /\ Len(toServer) \in Nat \ {0}
      /\ DOMAIN toServer = 1 .. Len(toServer)
  BY <1>1, ServeShift
<1>4. Sends(BatchTags)
  BY <1>3 DEF Sends
<1>5. q = "flat"
  <2>1. q \in {"flat", "asked", "quiet"}
    BY <1>2 DEF ServerIn
  <2>2. q # "quiet"
    <3>1. q = "quiet" => ~Sends(BatchTags \union {"Sync", "Query"})
      BY <1>2 DEF CommandsFit
    <3> QED
      BY <3>1, <1>4 DEF Sends
  <2>3. q # "asked"
    <3>1. ASSUME q = "asked" PROVE FALSE
      <4>1. /\ toServer[Len(toServer)].tag = "Query"
            /\ \A i \in 1 .. Len(toServer) - 1 : toServer[i].tag \in CopyTags
        BY <3>1, <1>2 DEF CommandsFit, QueryPhases
      <4>2. 1 = Len(toServer) \/ 1 \in 1 .. Len(toServer) - 1
        BY <1>3
      <4> QED
        BY <4>1, <4>2, <1>3 DEF BatchTags, CopyTags
    <3> QED
      BY <3>1
  <2> QED
    BY <2>1, <2>2, <2>3
<1>6. p \in BatchPhases
  BY <1>2, <1>5 DEF BatchPhases
<1>7. p # "in"
  <2>1. Sends(BatchTags \union {"Query"})
    BY <1>4 DEF Sends
  <2> QED
    BY <2>1, <1>2
<1>8. ~Brings({"CopyInResponse"})
  BY <1>1, <1>2, <1>5, CopyInIsLast DEF ExchangeInv
<1>9. p \in {"flat", "out", "done", "failed"}
  BY <1>6, <1>7 DEF BatchPhases
<1>10. ~session.sendOpen
  BY <1>1, <1>2, <1>9 DEF ClientIn, CopyIsOver, BothClosed, SessionInv, CopyFlagsAgree
<1>11. ~SimpleQueryRuns
  BY <1>1, <1>2, <1>9, OutsideCopyFlags DEF ClientIn, CopyIsOver, SimpleQueryRuns
<1>12. session.state # "Recovery_Required"
  <2>1. ASSUME session.state = "Recovery_Required" PROVE FALSE
    <3>1. session.pending = 0 /\ session.origin = "No_Copy"
      BY <2>1, <1>1, OutsideCopyFlags DEF ExchangeInv, BatchInv
    <3>2. p = "failed"
      BY <2>1, <3>1, <1>2, <1>9 DEF ClientIn, CopyIsOver
    <3>3. toClient # <<>>
      BY <3>2, <1>2, <1>5, WalkNowhere DEF Phases, BatchPhases
    <3>4. toClient \in Seq(Responses)
      BY <1>1 DEF WireTypes
    <3>5. \E x \in Phases : Leads("failed", Head(toClient).kind, x)
      BY <3>2, <3>3, <3>4, <1>2, WalkFirst
    <3>6. Head(toClient).kind = "ReadyForQuery"
      BY <3>5 DEF Leads
    <3>7. 1 \in DOMAIN toClient /\ Head(toClient) = toClient[1]
      BY <3>3, <3>4, EmptySeq
    <3>8. ReadiesIn # {}
      BY <3>6, <3>7 DEF ReadiesIn
    <3> QED
      BY <3>1, <3>8, <1>1, <1>8, <1>11, ReadiesCount DEF ExchangeInv, Counted
  <2> QED
    BY <2>1
<1>13. session.batchOpen \/ \E j \in DOMAIN toServer : j > 1 /\ toServer[j].tag = "Sync"
  <2> SUFFICES ASSUME ~session.batchOpen
               PROVE  \E j \in DOMAIN toServer : j > 1 /\ toServer[j].tag = "Sync"
    OBVIOUS
  <2>1. ~(session.origin = "Extended_Copy" /\ ~session.copySync)
    BY <1>1, <1>2, <1>9, <1>12 DEF ClientIn, CopyIsOver, SessionInv, OriginFits, CopyStates,
       CopyStreams
  <2>2. ~Loose
    BY <2>1, <1>8, <1>11, <1>12 DEF Loose
  <2> QED
    BY <2>2, <1>1, <1>3 DEF ExchangeInv, EndsBySync
<1> QED
  BY <1>5, <1>6, <1>7, <1>8, <1>10, <1>11, <1>13

\* The Syncs behind the head are as good as before.
LEMMA LotsStand ==
  ASSUME server # "copy_in", server' # "copy_in"
  PROVE  \A i : (SwallowedAt(i)' <=> SwallowedAt(i + 1)) /\ ~SwallowedAt(i) /\ ~SwallowedAt(i)'
BY DEF SwallowedAt

\* How many ReadyForQuery are to come when a command is served that is no Sync.
LEMMA ServeCounted ==
  ASSUME WireTypes, Counted, Serves, session' = session,
         NEW kinds \in Seq(BackendKinds), Grown(kinds),
         ~SimpleQueryRuns => \A i \in 1 .. Len(kinds) : kinds[i] # "ReadyForQuery",
         \A i \in 1 .. Len(kinds) : kinds[i] # "CopyInResponse",
         \A i \in 1 .. Len(toServer') :
           toServer'[i].tag = "Sync" => (SwallowedAt(i)' <=> SwallowedAt(i + 1)),
         Command.tag = "Sync" => server = "copy_in",
         toServer' \in Seq(Commands), server' \in Modes
  PROVE  Counted'
<1>1. toClient \in Seq(Responses) /\ toClient' \in Seq(Responses)
  BY DEF WireTypes, Grown
<1>2. WireTypes'
  BY <1>1 DEF WireTypes
<1>3. SimpleQueryRuns' <=> SimpleQueryRuns
  BY DEF SimpleQueryRuns
<1> SUFFICES ASSUME ~SimpleQueryRuns
             PROVE  IF Brings({"CopyInResponse"})'
                    THEN session.pending >=
                           Cardinality(ReadiesIn') + (IF session.batchOpen THEN 0 ELSE 1)
                    ELSE session.pending = ReadiesToCome'
  BY <1>3 DEF Counted
<1>4. Brings({"CopyInResponse"})' <=> Brings({"CopyInResponse"})
  BY <1>1, GrownBrings
<1>5. ReadiesIn' = ReadiesIn
  BY GrownReadies
<1>6. Cardinality(SyncsIn) = Cardinality(SyncsIn')
  <2>1. 1 \notin SyncsIn
    BY ServeSyncs
  <2>2. Cardinality(SyncsIn') \in Nat
    <3>1. DOMAIN toServer' = 1 .. Len(toServer') /\ Len(toServer') \in Nat
      BY <1>2 DEF WireTypes
    <3>2. SyncsIn' \subseteq 1 .. Len(toServer')
      BY <3>1 DEF SyncsIn
    <3> QED
      BY <3>1, <3>2, PartOfWire
  <2> QED
    BY <2>1, <2>2, ServeSyncs
<1>7. ReadiesToCome' = Cardinality(ReadiesIn') + Cardinality(SyncsIn')
  BY DEF ReadiesToCome, ReadiesIn, SyncsIn
<1>8. ReadiesToCome = Cardinality(ReadiesIn) + Cardinality(SyncsIn)
  BY DEF ReadiesToCome, ReadiesIn, SyncsIn
<1> QED
  BY <1>4, <1>5, <1>6, <1>7, <1>8 DEF Counted

\* The answers to a command of a batch that is no COPY IN.
LEMMA BatchAnswerKeeps ==
  ASSUME WireInv, UNCHANGED clientVars, Serves, server = "idle", Command.tag \in BatchTags,
         NEW kinds \in Seq(BackendKinds), Grown(kinds),
         \A i \in 1 .. Len(kinds) : kinds[i] \notin WritableCopy \union {"ReadyForQuery"},
         NEW r \in {"flat", "failed"}, ServerIn(r)',
         \A p \in Phases : Walk(toClient, p, "flat") => Walk(toClient', p, r)
  PROVE  WireInv'
<1>1. SessionInv /\ WireTypes /\ session' = session
  BY DEF WireInv, clientVars
<1>2. server' \in {"idle", "skipping"}
  BY DEF ServerIn
<1>3. WireTypes'
  BY <1>1, <1>2, ServeShift DEF WireTypes, Grown, Modes
<1>4. ASSUME session.state # "Closed"
      PROVE  /\ \E p, q \in Phases : Flow(p, q)'
             /\ EndsInOrder' /\ NothingFollows' /\ CopyInIsOrdered' /\ Counted' /\ EndsBySync'
  <2>1. ExchangeInv
    BY <1>4 DEF WireInv
  <2>2. PICK p, q \in Phases : Flow(p, q)
    BY <2>1 DEF ExchangeInv
  <2>3. /\ q = "flat" /\ p \in BatchPhases /\ p # "in"
        /\ ~session.sendOpen /\ ~Brings({"CopyInResponse"}) /\ ~SimpleQueryRuns
        /\ session.batchOpen \/ \E j \in DOMAIN toServer : j > 1 /\ toServer[j].tag = "Sync"
    BY <1>4, <2>2, BatchCommandServed
  <2>4. Flow(p, r)'
    <3>1. ClientIn(p)' <=> ClientIn(p)
      BY <1>1 DEF ClientIn, CopyIsOver, BothClosed
    <3>2. CommandsFit(r)'
      <4>1. ~Sends({"Query"})
        BY <2>2, <2>3 DEF Flow, CommandsFit, QueryPhases
      <4>2. ~Sends({"Query"})'
        BY <4>1, <1>1, TakesSends DEF TakesCommands
      <4> QED
        BY <4>2 DEF CommandsFit
    <3>3. Walk(toClient', p, r)
      BY <2>2, <2>3 DEF Flow
    <3> QED
      BY <3>1, <3>2, <3>3, <2>2, <2>3 DEF Flow, BatchPhases
  <2>5. ~Brings(WritableCopy)
    <3>1. ASSUME Brings(WritableCopy) PROVE FALSE
      <4>1. Brings({"CopyBothResponse"})
        BY <3>1, <2>3 DEF Brings, WritableCopy
      <4>2. PICK i \in DOMAIN toClient : toClient[i].kind = "CopyBothResponse"
        BY <4>1 DEF Brings
      <4>3. i = 1 /\ toClient \in Seq(Responses) /\ toClient # <<>>
        BY <4>2, <1>1, <2>1, EmptySeq DEF ExchangeInv, EndsInOrder, WireTypes
      <4>4. Head(toClient) = toClient[1]
        BY <4>3
      <4>5. \E x \in Phases : Leads(p, Head(toClient).kind, x)
        BY <4>3, <2>2, WalkFirst DEF Flow
      <4> QED
        BY <4>2, <4>3, <4>4, <4>5, <2>3 DEF Leads, BatchPhases
    <3> QED
      BY <3>1
  <2>6. EndsInOrder'
    BY <1>1, <2>1, <2>3, <2>5, GrownEndsInOrder DEF ExchangeInv, TakesCommands
  <2>7. NothingFollows'
    BY <1>1, <2>1, <2>3, TakesNothingFollows DEF ExchangeInv, TakesCommands, WritableCopy
  <2>8. CopyInIsOrdered'
    BY <1>2 DEF CopyInIsOrdered
  <2>9. Command.tag # "Sync"
    BY DEF BatchTags
  <2>10. \A i : SwallowedAt(i)' <=> SwallowedAt(i + 1)
    BY <1>2, LotsStand
  <2>11. Counted'
    BY <1>1, <1>3, <2>1, <2>9, <2>10, ServeCounted DEF ExchangeInv, WireTypes, WritableCopy
  <2>12. EndsBySync'
    BY <1>1, <2>1, <2>9, <2>10, ServeSynced DEF ExchangeInv
  <2>13. r \in Phases
    BY DEF Phases, BatchPhases
  <2> QED
    BY <2>4, <2>6, <2>7, <2>8, <2>11, <2>12, <2>13
<1> QED
  BY <1>3, <1>4, BackendKeeps

\* A command that is served is a command.
LEMMA CommandWorks ==
  ASSUME WireTypes, Serves
  PROVE  Command.tag \in Tags /\ Command.work \in AllWorks
BY ServeShift DEF Commands

LEMMA ServeFailureKeeps ==
  ASSUME WireInv, ServeFailure PROVE WireInv'
<1>1. WireTypes /\ Serves /\ UNCHANGED clientVars /\ server = "idle" /\ server' = "skipping"
      /\ Command.tag \in BatchTags /\ Answer(<<"Error">>)
  BY DEF WireInv, ServeFailure, ServeOne, Serves, Receives
<1>2. "Error" \in BackendKinds
  BY DEF BackendKinds
<1>3. /\ <<"Error">> \in Seq(BackendKinds)
      /\ \A i \in 1 .. Len(<<"Error">>) : <<"Error">>[i] = "Error"
  BY <1>2
<1>4. Grown(<<"Error">>)
  BY <1>1, <1>3, AnswerGrows DEF HasShape, Serves
<1>5. \A p \in Phases : Walk(toClient, p, "flat") => Walk(toClient', p, "failed")
  BY <1>1, <1>2, <1>4, GrownWalk1 DEF Leads, Phases, BatchPhases, WireTypes
<1> QED
  BY <1>1, <1>3, <1>4, <1>5, BatchAnswerKeeps DEF ServerIn, WritableCopy

LEMMA ServeDefinitionKeeps ==
  ASSUME WireInv, ServeDefinition PROVE WireInv'
<1>1. WireTypes /\ Serves /\ UNCHANGED clientVars /\ server = "idle" /\ server' = "idle"
      /\ Command.tag \in BatchTags /\ toClient' = toClient
  BY DEF WireInv, ServeDefinition, ServeOne, Serves, Receives, BatchTags
<1>2. Grown(<<>>) /\ <<>> \in Seq(BackendKinds) /\ Len(<<>>) = 0
  BY <1>1, NothingGrows
<1>3. \A i \in 1 .. Len(<<>>) : FALSE
  BY <1>2
<1>4. ServerIn("flat")'
  BY <1>1 DEF ServerIn
<1> QED
  BY <1>1, <1>2, <1>3, <1>4, BatchAnswerKeeps

\* An answer of one message that leaves the backend idle.
LEMMA BatchSaysKeeps ==
  ASSUME WireInv, UNCHANGED clientVars, Serves, server = "idle", server' = "idle",
         Command.tag \in BatchTags,
         NEW kind \in {"RowDescription", "NoData", "CommandComplete", "EmptyQuery"},
         kind = "RowDescription" => Command.work \in Columns, Answer(<<kind>>)
  PROVE  WireInv'
<1>1. kind \in BackendKinds /\ WireTypes
  BY DEF BackendKinds, WireInv
<1>2. /\ <<kind>> \in Seq(BackendKinds)
      /\ \A i \in 1 .. Len(<<kind>>) : <<kind>>[i] = kind
  BY <1>1
<1>3. Grown(<<kind>>)
  BY <1>1, <1>2, AnswerGrows DEF HasShape, Serves
<1>4. \A p \in Phases : Walk(toClient, p, "flat") => Walk(toClient', p, "flat")
  BY <1>1, <1>3, GrownWalk1 DEF Leads, Phases, BatchPhases, WireTypes
<1> QED
  BY <1>2, <1>3, <1>4, BatchAnswerKeeps DEF ServerIn, WritableCopy

LEMMA ServeDescribeKeeps ==
  ASSUME WireInv, ServeDescribe PROVE WireInv'
<1>1. /\ Serves /\ UNCHANGED clientVars /\ server = "idle" /\ server' = "idle"
      /\ Command.tag \in BatchTags
      /\ Answer(<<IF Command.work \in Columns THEN "RowDescription" ELSE "NoData">>)
  BY DEF ServeDescribe, ServeOne, Serves, Receives, BatchTags
<1>2. CASE Command.work \in Columns
  <2>1. Answer(<<"RowDescription">>)
    BY <1>1, <1>2
  <2> QED
    BY <2>1, <1>1, <1>2, BatchSaysKeeps
<1>3. CASE Command.work \notin Columns
  <2>1. Answer(<<"NoData">>)
    BY <1>1, <1>3
  <2> QED
    BY <2>1, <1>1, BatchSaysKeeps
<1> QED
  BY <1>2, <1>3

\* A portal with rows.
LEMMA ServeRowsKeeps ==
  ASSUME WireInv, UNCHANGED clientVars, Serves, server = "idle", Command.tag \in BatchTags,
         Command.work \in Columns, NEW kind,
         \/ kind \in {"CommandComplete", "PortalSuspended"} /\ server' = "idle"
         \/ kind = "Error" /\ server' = "skipping",
         Answer(<<"DataRow", kind>>)
  PROVE  WireInv'
<1> DEFINE kinds == <<"DataRow", kind>>
           r == IF kind = "Error" THEN "failed" ELSE "flat"
<1>1. "DataRow" \in BackendKinds /\ kind \in BackendKinds /\ WireTypes
  BY DEF BackendKinds, WireInv
<1>2. /\ kinds \in Seq(BackendKinds)
      /\ \A i \in 1 .. Len(kinds) : kinds[i] = "DataRow" \/ kinds[i] = kind
  BY <1>1
<1>3. Answer(kinds)
  OBVIOUS
<1>4. Grown(kinds)
  <2> HIDE DEF kinds
  <2> QED
    BY <1>1, <1>2, <1>3, AnswerGrows DEF HasShape, Serves
<1>5. r \in Phases /\ "flat" \in Phases /\ Leads("flat", "DataRow", "flat")
      /\ Leads("flat", kind, r)
  BY DEF Phases, BatchPhases, Leads
<1>6. \A p \in Phases : Walk(toClient, p, "flat") => Walk(toClient', p, r)
  <2>1. Grown(<<"DataRow", kind>>) /\ toClient \in Seq(Responses)
    BY <1>1, <1>4 DEF WireTypes
  <2> HIDE DEF r, kinds
  <2> QED
    BY <2>1, <1>1, <1>5, GrownWalk2
<1>7. r \in {"flat", "failed"} /\ ServerIn(r)'
  BY DEF ServerIn
<1>8. \A i \in 1 .. Len(kinds) : kinds[i] \notin WritableCopy \union {"ReadyForQuery"}
  BY <1>2 DEF WritableCopy
<1> HIDE DEF kinds, r
<1> QED
  BY <1>2, <1>4, <1>6, <1>7, <1>8, BatchAnswerKeeps

\* A COPY OUT that completes, and one that fails.
LEMMA ServeCopyOutKeeps ==
  ASSUME WireInv, UNCHANGED clientVars, Serves, server = "idle", Command.tag \in BatchTags,
         \/ /\ Answer(<<"CopyOutResponse", "CopyData", "CopyDone", "CommandComplete">>)
            /\ server' = "idle"
         \/ /\ Answer(<<"CopyOutResponse", "CopyData", "Error">>)
            /\ server' = "skipping"
  PROVE  WireInv'
<1>1. /\ {"CopyOutResponse", "CopyData", "CopyDone", "CommandComplete", "Error"} \subseteq BackendKinds
      /\ WireTypes
  BY DEF BackendKinds, WireInv, CopyResponses
<1>2. toClient \in Seq(Responses) /\ {"flat", "out", "done", "failed"} \subseteq Phases
  BY <1>1 DEF WireTypes, Phases, BatchPhases
<1>3. /\ Leads("flat", "CopyOutResponse", "out") /\ Leads("out", "CopyData", "out")
      /\ Leads("out", "CopyDone", "done") /\ Leads("done", "CommandComplete", "flat")
      /\ Leads("out", "Error", "failed")
  BY DEF Leads
<1>4. CASE /\ Answer(<<"CopyOutResponse", "CopyData", "CopyDone", "CommandComplete">>)
           /\ server' = "idle"
  <2> DEFINE kinds == <<"CopyOutResponse", "CopyData", "CopyDone", "CommandComplete">>
  <2>1. /\ kinds \in Seq(BackendKinds) /\ Len(kinds) = 4
        /\ kinds[1] = "CopyOutResponse" /\ kinds[2] = "CopyData" /\ kinds[3] = "CopyDone"
        /\ kinds[4] = "CommandComplete"
    BY <1>1
  <2>2. \A i \in 1 .. Len(kinds) : i = 1 \/ i = 2 \/ i = 3 \/ i = 4
    BY <2>1
  <2>3. \A i \in 1 .. Len(kinds) : kinds[i] \in {"CopyOutResponse", "CopyData", "CopyDone", "CommandComplete"}
    BY <2>1, <2>2
  <2>4. Answer(kinds)
    BY <1>4
  <2>5. Grown(kinds)
    <3> HIDE DEF kinds
    <3> QED
      BY <1>1, <2>1, <2>3, <2>4, AnswerGrows DEF HasShape, Serves
  <2>6. Grown(<<"CopyOutResponse", "CopyData", "CopyDone", "CommandComplete">>)
    BY <2>5
  <2> HIDE DEF kinds
  <2>7. \A p \in Phases : Walk(toClient, p, "flat") => Walk(toClient', p, "flat")
    BY <2>6, <1>1, <1>2, <1>3, GrownWalk4
  <2>8. \A i \in 1 .. Len(kinds) : kinds[i] \notin WritableCopy \union {"ReadyForQuery"}
    BY <2>3 DEF WritableCopy
  <2>9. ServerIn("flat")'
    BY <1>4 DEF ServerIn
  <2> QED
    BY <2>1, <2>5, <2>7, <2>8, <2>9, BatchAnswerKeeps
<1>5. CASE Answer(<<"CopyOutResponse", "CopyData", "Error">>) /\ server' = "skipping"
  <2> DEFINE kinds == <<"CopyOutResponse", "CopyData", "Error">>
  <2>1. /\ kinds \in Seq(BackendKinds) /\ Len(kinds) = 3
        /\ kinds[1] = "CopyOutResponse" /\ kinds[2] = "CopyData" /\ kinds[3] = "Error"
    BY <1>1
  <2>2. \A i \in 1 .. Len(kinds) : i = 1 \/ i = 2 \/ i = 3
    BY <2>1
  <2>3. \A i \in 1 .. Len(kinds) : kinds[i] \in {"CopyOutResponse", "CopyData", "Error"}
    BY <2>1, <2>2
  <2>4. Answer(kinds)
    BY <1>5
  <2>5. Grown(kinds)
    <3> HIDE DEF kinds
    <3> QED
      BY <1>1, <2>1, <2>3, <2>4, AnswerGrows DEF HasShape, Serves
  <2>6. Grown(<<"CopyOutResponse", "CopyData", "Error">>)
    BY <2>5
  <2> HIDE DEF kinds
  <2>7. \A p \in Phases : Walk(toClient, p, "flat") => Walk(toClient', p, "failed")
    BY <2>6, <1>1, <1>2, <1>3, GrownWalk3
  <2>8. \A i \in 1 .. Len(kinds) : kinds[i] \notin WritableCopy \union {"ReadyForQuery"}
    BY <2>3 DEF WritableCopy
  <2>9. ServerIn("failed")'
    BY <1>5 DEF ServerIn
  <2> QED
    BY <2>1, <2>5, <2>7, <2>8, <2>9, BatchAnswerKeeps
<1> QED
  BY <1>4, <1>5

\* The response that opens a COPY IN: only Syncs are behind its Execute.
LEMMA OpenCopyInKeeps ==
  ASSUME WireInv, UNCHANGED clientVars, Serves, server = "idle", server' = "copy_in",
         Command.tag = "Execute", Command.work = "copy_in", Answer(<<"CopyInResponse">>)
  PROVE  WireInv'
<1>1. SessionInv /\ WireTypes /\ session' = session
  BY DEF WireInv, clientVars
<1>2. "CopyInResponse" \in BackendKinds
  BY DEF BackendKinds, CopyResponses
<1>3. /\ <<"CopyInResponse">> \in Seq(BackendKinds) /\ Len(<<"CopyInResponse">>) = 1
      /\ \A i \in 1 .. Len(<<"CopyInResponse">>) : <<"CopyInResponse">>[i] = "CopyInResponse"
      /\ 1 \in 1 .. Len(<<"CopyInResponse">>)
  BY <1>2
<1>4. Grown(<<"CopyInResponse">>)
  BY <1>1, <1>3, AnswerGrows DEF HasShape, Serves
<1>5. WireTypes'
  BY <1>1, <1>4, ServeShift DEF WireTypes, Grown, Modes
<1>6. ASSUME session.state # "Closed"
      PROVE  /\ \E p, q \in Phases : Flow(p, q)'
             /\ EndsInOrder' /\ NothingFollows' /\ CopyInIsOrdered' /\ Counted' /\ EndsBySync'
  <2>1. ExchangeInv
    BY <1>6 DEF WireInv
  <2>2. PICK p, q \in Phases : Flow(p, q)
    BY <2>1 DEF ExchangeInv
  <2>3. /\ q = "flat" /\ p \in BatchPhases /\ p # "in"
        /\ ~session.sendOpen /\ ~Brings({"CopyInResponse"}) /\ ~SimpleQueryRuns
        /\ session.batchOpen \/ \E j \in DOMAIN toServer : j > 1 /\ toServer[j].tag = "Sync"
    BY <1>6, <2>2, BatchCommandServed DEF BatchTags
  <2>4. /\ toClient \in Seq(Responses) /\ Len(toClient) \in Nat
           /\ DOMAIN toClient = 1 .. Len(toClient)
        /\ DOMAIN toClient' = 1 .. Len(toClient') /\ Len(toClient') = Len(toClient) + 1
        /\ toClient'[Len(toClient) + 1].kind = "CopyInResponse"
        /\ \A i \in 1 .. Len(toClient) : toClient'[i] = toClient[i]
    BY <1>1, <1>3, <1>4 DEF WireTypes, Grown
  <2>5. \A K : Brings(K)' <=> Brings(K) \/ "CopyInResponse" \in K
    BY <1>3, <1>4, <2>4, GrownBrings
  <2>6. Brings({"CopyInResponse"})'
    BY <2>5
  <2>7. ~Sends(Tags \ {"Sync"})'
    <3>1. ASSUME NEW i \in DOMAIN toServer' PROVE toServer'[i].tag = "Sync"
      <4>1. /\ i + 1 \in DOMAIN toServer /\ 1 \in DOMAIN toServer /\ 1 < i + 1
            /\ toServer'[i] = toServer[i + 1] /\ Command = toServer[1]
        BY <1>1, ServeShift
      <4> QED
        BY <4>1, <2>1 DEF ExchangeInv, NothingFollows
    <3> QED
      BY <3>1 DEF Sends
  <2>8. /\ ~Sends(BatchTags \union {"Query"})' /\ ~Sends(EndTags)'
    BY <2>7 DEF Sends, Tags, BatchTags, EndTags, CopyTags
  <2>9. Flow(p, "in")'
    <3>1. ClientIn(p)' <=> ClientIn(p)
      BY <1>1 DEF ClientIn, CopyIsOver, BothClosed
    <3>2. CommandsFit("in")'
      BY <2>8 DEF CommandsFit
    <3>3. Walk(toClient', p, "in")
      BY <2>2, <2>3, <2>4, <1>2, <1>4, GrownWalk1 DEF Flow, Leads, Phases, BatchPhases
    <3>4. ServerIn("in")'
      BY DEF ServerIn
    <3> QED
      BY <3>1, <3>2, <3>3, <3>4, <2>2, <2>3 DEF Flow, BatchPhases
  <2>10. ~Brings(WritableCopy)
    <3>1. ASSUME Brings(WritableCopy) PROVE FALSE
      <4>1. Brings({"CopyBothResponse"})
        BY <3>1, <2>3 DEF Brings, WritableCopy
      <4>2. PICK i \in DOMAIN toClient : toClient[i].kind = "CopyBothResponse"
        BY <4>1 DEF Brings
      <4>3. i = 1 /\ toClient # <<>>
        BY <4>2, <2>1, <2>4, EmptySeq DEF ExchangeInv, EndsInOrder
      <4>4. Head(toClient) = toClient[1]
        BY <4>3, <2>4
      <4>5. \E x \in Phases : Leads(p, Head(toClient).kind, x)
        BY <4>3, <2>2, <2>4, WalkFirst DEF Flow
      <4> QED
        BY <4>2, <4>3, <4>4, <4>5, <2>3 DEF Leads, BatchPhases
    <3> QED
      BY <3>1
  <2>11. EndsInOrder'
    <3>1. ASSUME NEW i \in DOMAIN toClient', toClient'[i].kind \in WritableCopy
          PROVE  i = Len(toClient) + 1
      <4>1. i \in 1 .. Len(toClient) => FALSE
        BY <3>1, <2>4, <2>10 DEF Brings
      <4> QED
        BY <4>1, <2>4
    <3>2. \A i, j \in DOMAIN toClient' : i < j => i # Len(toClient) + 1
      BY <2>4
    <3>3. \A i \in DOMAIN toClient' : toClient'[i].kind # "CopyBothResponse"
      BY <3>1, <2>4 DEF WritableCopy
    <3> QED
      BY <3>1, <3>2, <3>3, <1>1, <2>3, <2>8 DEF EndsInOrder
  <2>12. NothingFollows'
    <3>1. \A i, j \in DOMAIN toServer' : toServer'[i].tag = "Execute" => FALSE
      BY <2>8 DEF Sends, BatchTags
    <3>2. \A i \in DOMAIN toClient' : toClient'[i].kind = "CopyInResponse" => i = Len(toClient')
      <4> TAKE i \in DOMAIN toClient'
      <4>1. i \in 1 .. Len(toClient) => toClient'[i].kind # "CopyInResponse"
        BY <2>3, <2>4 DEF Brings
      <4> QED
        BY <4>1, <2>4
    <3> QED
      BY <3>1, <3>2, <2>7 DEF NothingFollows
  <2>13. CopyInIsOrdered'
    BY <2>6 DEF CopyInIsOrdered
  <2>14. Counted'
    <3>1. session.pending = Cardinality(ReadiesIn) + Cardinality(SyncsIn)
      BY <1>1, <2>1, <2>3, ReadiesCount DEF ExchangeInv, Counted
    <3>2. Cardinality(ReadiesIn) \in Nat /\ Cardinality(SyncsIn) \in Nat
      BY <1>1, ReadiesCount
    <3>3. ~session.batchOpen => Cardinality(SyncsIn) # 0
      <4>1. ASSUME ~session.batchOpen PROVE SyncsIn # {}
        <5>1. PICK j \in DOMAIN toServer : j > 1 /\ toServer[j].tag = "Sync"
          BY <2>3, <4>1
        <5>2. j \in SyncsIn
          BY <5>1 DEF SyncsIn, SwallowedAt
        <5> QED
          BY <5>2
      <4> QED
        BY <4>1, <1>1, ReadiesCount
    <3>4. ReadiesIn' = ReadiesIn
      BY <1>1, <1>3, <1>4, GrownReadies
    <3>5. session.pending >= Cardinality(ReadiesIn) + (IF session.batchOpen THEN 0 ELSE 1)
      BY <3>1, <3>2, <3>3
    <3> QED
      BY <3>4, <3>5, <2>6, <1>1 DEF Counted
  <2>15. EndsBySync'
    BY <2>6 DEF EndsBySync, Loose
  <2>16. "in" \in Phases
    BY DEF Phases, BatchPhases
  <2> QED
    BY <2>9, <2>11, <2>12, <2>13, <2>14, <2>15, <2>16
<1> QED
  BY <1>5, <1>6, BackendKeeps

LEMMA ServeExecuteKeeps ==
  ASSUME WireInv, ServeExecute PROVE WireInv'
<1>1. /\ toServer # <<>> /\ server = "idle" /\ Command.tag = "Execute"
      /\ \A mode : ServeOne(mode) => Serves /\ UNCHANGED clientVars /\ server' = mode
  BY DEF ServeExecute, Receives, ServeOne, Serves
<1>2. Command.tag \in BatchTags
  BY <1>1 DEF BatchTags
<1>3. CASE Command.work \in Columns
           /\ \/ (Answer(<<"DataRow", "CommandComplete">>) \/ Answer(<<"DataRow", "PortalSuspended">>))
                   /\ ServeOne("idle")
              \/ Answer(<<"DataRow", "Error">>) /\ ServeOne("skipping")
  BY <1>1, <1>2, <1>3, ServeRowsKeeps
<1>4. CASE (Answer(<<"CommandComplete">>) \/ Answer(<<"EmptyQuery">>)) /\ ServeOne("idle")
  BY <1>1, <1>2, <1>4, BatchSaysKeeps
<1>5. CASE Command.work = "copy_in" /\ Answer(<<"CopyInResponse">>) /\ ServeOne("copy_in")
  BY <1>1, <1>5, OpenCopyInKeeps
<1>6. CASE \/ /\ Answer(<<"CopyOutResponse", "CopyData", "CopyDone", "CommandComplete">>)
              /\ ServeOne("idle")
           \/ Answer(<<"CopyOutResponse", "CopyData", "Error">>) /\ ServeOne("skipping")
  BY <1>1, <1>2, <1>6, ServeCopyOutKeeps
<1> QED
  BY <1>3, <1>4, <1>5, <1>6, Zenon DEF ServeExecute

\* The command at the head is the first on its way.
LEMMA HeadCommand ==
  ASSUME WireTypes, toServer # <<>>
  PROVE  Len(toServer) \in Nat \ {0} /\ Command = toServer[1]
<1>1. toServer \in Seq(Commands) /\ toServer # <<>>
  BY DEF WireTypes
<1>2. Len(toServer) \in Nat \ {0}
  BY <1>1, EmptySeq
<1>3. Head(toServer) = toServer[1] /\ Command = Head(toServer)
  BY <1>1, <1>2 DEF Command
<1> QED
  BY <1>2, <1>3

\* What heads the wire when a simple query is on it.
LEMMA HeadOfAsked ==
  ASSUME WireTypes, toServer # <<>>, NEW q, q = "asked", CommandsFit(q)
  PROVE  Command.tag \in CopyTags \/ (Command.tag = "Query" /\ Len(toServer) = 1)
<1>1. /\ toServer[Len(toServer)].tag = "Query"
      /\ \A i \in 1 .. Len(toServer) - 1 : toServer[i].tag \in CopyTags
  BY DEF CommandsFit, QueryPhases
<1>2. Len(toServer) \in Nat \ {0} /\ Command = toServer[1]
  BY HeadCommand
<1>3. \A n \in Nat \ {0} : n = 1 \/ 1 \in 1 .. n - 1
  OBVIOUS
<1> QED
  BY <1>1, <1>2, <1>3

\* A command of a batch is taken in a phase of a batch.
LEMMA BatchIsNoQuery ==
  ASSUME SessionInv, NEW p \in BatchPhases, ClientIn(p)
  PROVE  ~SimpleQueryRuns
BY OutsideCopyFlags DEF ClientIn, CopyIsOver, SimpleQueryRuns, BatchPhases

LEMMA ServeSyncKeeps ==
  ASSUME WireInv, ServeSync PROVE WireInv'
<1>1. /\ SessionInv /\ WireTypes /\ session' = session /\ UNCHANGED clientVars
      /\ Serves /\ Command.tag = "Sync" /\ server \in {"idle", "skipping"} /\ server' = "idle"
      /\ Answer(<<"ReadyForQuery">>)
  BY DEF WireInv, ServeSync, ServeOne, Serves, Receives, clientVars
<1>2. "ReadyForQuery" \in BackendKinds
  BY DEF BackendKinds
<1>3. /\ <<"ReadyForQuery">> \in Seq(BackendKinds) /\ Len(<<"ReadyForQuery">>) = 1
      /\ \A i \in 1 .. Len(<<"ReadyForQuery">>) : <<"ReadyForQuery">>[i] = "ReadyForQuery"
  BY <1>2
<1>4. Grown(<<"ReadyForQuery">>)
  BY <1>1, <1>3, AnswerGrows DEF HasShape, Serves
<1>5. WireTypes'
  BY <1>1, <1>4, ServeShift DEF WireTypes, Grown, Modes
<1>6. ASSUME session.state # "Closed"
      PROVE  /\ \E p, q \in Phases : Flow(p, q)'
             /\ EndsInOrder' /\ NothingFollows' /\ CopyInIsOrdered' /\ Counted' /\ EndsBySync'
  <2>1. ExchangeInv
    BY <1>6 DEF WireInv
  <2>2. PICK p, q \in Phases : Flow(p, q)
    BY <2>1 DEF ExchangeInv
  <2>3. /\ Walk(toClient, p, q) /\ ClientIn(p) /\ ServerIn(q) /\ CommandsFit(q)
        /\ p \in BatchPhases <=> q \in BatchPhases
        /\ p = "in" => ~Sends(BatchTags \union {"Query"})
    BY <2>2 DEF Flow
  <2>4. Sends({"Sync"})
    BY <1>1, ServeSends
  <2>5. q \in {"flat", "failed"}
    <3>1. q \in {"flat", "failed", "asked", "quiet"}
      BY <1>1, <2>3 DEF ServerIn
    <3>2. q # "quiet"
      BY <2>3, <2>4 DEF CommandsFit, Sends
    <3>3. q # "asked"
      BY <1>1, <2>3, HeadOfAsked DEF Serves, CopyTags
    <3> QED
      BY <3>1, <3>2, <3>3
  <2>6. p \in BatchPhases
    BY <2>3, <2>5 DEF BatchPhases
  <2>7. ~SimpleQueryRuns
    BY <1>1, <2>3, <2>6, BatchIsNoQuery
  <2>8. ~Brings({"CopyInResponse"})
    BY <1>1, <2>1, <2>3, <2>5, CopyInIsLast DEF ExchangeInv
  <2>9. \A i : (SwallowedAt(i)' <=> SwallowedAt(i + 1)) /\ ~SwallowedAt(i) /\ ~SwallowedAt(i)'
    BY <1>1, LotsStand
  <2>10. 1 \in SyncsIn /\ Cardinality(SyncsIn) = Cardinality(SyncsIn') + 1
    BY <1>1, <2>9, ServeSyncs
  <2>11. /\ Cardinality(ReadiesIn) \in Nat /\ Cardinality(SyncsIn) \in Nat
         /\ Cardinality(SyncsIn) # 0
            /\ session.pending = Cardinality(ReadiesIn) + Cardinality(SyncsIn)
    BY <1>1, <2>1, <2>7, <2>8, <2>10, ReadiesCount DEF ExchangeInv, Counted
  <2>12. ~(p = "in" /\ ~session.copySync)
    <3>1. p = "in" => session.origin = "Extended_Copy"
      BY <2>3 DEF ClientIn
    <3> QED
      BY <3>1, <2>1, <2>11 DEF ExchangeInv, BatchInv
  <2>13. TakesCommands
    BY <1>1 DEF TakesCommands
  <2>14. Flow(p, "flat")'
    <3>1. ClientIn(p)' <=> ClientIn(p)
      BY <1>1 DEF ClientIn, CopyIsOver, BothClosed
    <3>2. Walk(toClient', p, "flat")
      BY <1>1, <1>2, <1>4, <2>3, <2>5, GrownWalk1 DEF Leads, Phases, BatchPhases, WireTypes
    <3>3. CommandsFit("flat")'
      <4>1. ~Sends({"Query"})
        BY <2>3, <2>5 DEF CommandsFit, QueryPhases
      <4> QED
        BY <4>1, <1>1, <2>13, TakesSends DEF CommandsFit
    <3>4. p = "in" => ~Sends(BatchTags \union {"Query"})'
      BY <1>1, <2>3, <2>13, TakesSends
    <3>5. ServerIn("flat")'
      BY <1>1 DEF ServerIn
    <3> QED
      BY <3>1, <3>2, <3>3, <3>4, <3>5, <1>1, <2>3, <2>6, <2>12 DEF Flow, BatchPhases
  <2>15. EndsInOrder'
    BY <1>1, <1>3, <1>4, <2>1, <2>13, GrownEndsInOrder DEF ExchangeInv, WritableCopy
  <2>16. NothingFollows'
    BY <1>1, <1>3, <1>4, <2>1, <2>8, <2>13, TakesNothingFollows DEF ExchangeInv
  <2>17. CopyInIsOrdered'
    BY <1>1 DEF CopyInIsOrdered
  <2>18. ~Brings({"CopyInResponse"})'
    <3>1. toClient \in Seq(Responses)
      BY <1>1 DEF WireTypes
    <3>2. Brings({"CopyInResponse"})' <=>
            Brings({"CopyInResponse"}) \/ \E i \in 1 .. Len(<<"ReadyForQuery">>) :
                                             <<"ReadyForQuery">>[i] \in {"CopyInResponse"}
      BY <1>3, <1>4, <3>1, GrownBrings
    <3> QED
      BY <1>3, <2>8, <3>2
  <2>19. Counted'
    <3>1. Cardinality(ReadiesIn') = Cardinality(ReadiesIn) + 1
      BY <1>1, <1>3, <1>4, GrownReadies
    <3>2. ReadiesToCome' = Cardinality(ReadiesIn') + Cardinality(SyncsIn')
      BY DEF ReadiesToCome, ReadiesIn, SyncsIn
    <3>3. Cardinality(SyncsIn') \in Nat
      <4>1. DOMAIN toServer' = 1 .. Len(toServer') /\ Len(toServer') \in Nat
        BY <1>5 DEF WireTypes
      <4>2. SyncsIn' \subseteq 1 .. Len(toServer')
        BY <4>1 DEF SyncsIn
      <4> QED
        BY <4>1, <4>2, PartOfWire
    <3>4. session.pending = ReadiesToCome'
      BY <3>1, <3>2, <3>3, <2>10, <2>11
    <3> QED
      BY <3>4, <2>18, <1>1 DEF Counted
  <2>20. EndsBySync'
    <3>1. Loose => Loose'
      BY <1>1, <2>8 DEF Loose, SimpleQueryRuns
    <3>2. toClient' # <<>> => toClient'[Len(toClient')].kind = "ReadyForQuery"
      <4>1. Len(toClient') = Len(toClient) + 1
            /\ toClient'[Len(toClient) + 1].kind = "ReadyForQuery"
        BY <1>3, <1>4 DEF Grown
      <4> QED
        BY <4>1
    <3>3. ASSUME ~Loose, NEW i \in DOMAIN toServer', toServer'[i].tag \in BatchTags
          PROVE  \E j \in DOMAIN toServer' : j > i /\ toServer'[j].tag = "Sync"
      <4>1. i + 1 \in DOMAIN toServer /\ toServer[i + 1].tag \in BatchTags
        BY <3>3, <1>1, ServeShift
      <4>2. PICK j \in DOMAIN toServer : j > i + 1 /\ toServer[j].tag = "Sync"
        BY <4>1, <3>3, <2>1 DEF EndsBySync, ExchangeInv
      <4>3. j - 1 \in DOMAIN toServer' /\ j - 1 > i /\ (j - 1) + 1 = j
        BY <3>3, <4>2, <1>1, ServeShift
      <4>4. toServer'[j - 1] = toServer[j]
        BY <4>3, <1>1, ServeShift
      <4> QED
        BY <4>2, <4>3, <4>4
    <3> QED
      BY <3>1, <3>2, <3>3, <1>1 DEF EndsBySync
  <2>21. "flat" \in Phases
    BY DEF Phases, BatchPhases
  <2> QED
    BY <2>14, <2>15, <2>16, <2>17, <2>19, <2>20, <2>21
<1> QED
  BY <1>1, <1>5, <1>6, BackendKeeps

LEMMA ServeNothingKeeps ==
  ASSUME WireInv, ServeNothing PROVE WireInv'
<1>1. /\ SessionInv /\ WireTypes /\ session' = session /\ UNCHANGED clientVars
      /\ Serves /\ server' = server /\ toClient' = toClient
      /\ \/ server = "skipping" /\ Command.tag # "Sync"
         \/ server = "idle" /\ Command.tag \in CopyTags
  BY DEF WireInv, ServeNothing, ServeOne, Serves, Receives, clientVars
<1>2. Grown(<<>>) /\ <<>> \in Seq(BackendKinds) /\ Len(<<>>) = 0
  BY <1>1, NothingGrows
<1>3. \A i \in 1 .. Len(<<>>) : FALSE
  BY <1>2
<1>4. WireTypes'
  BY <1>1, ServeShift DEF WireTypes
<1>5. ASSUME session.state # "Closed"
      PROVE  /\ \E p, q \in Phases : Flow(p, q)'
             /\ EndsInOrder' /\ NothingFollows' /\ CopyInIsOrdered' /\ Counted' /\ EndsBySync'
  <2>1. ExchangeInv
    BY <1>5 DEF WireInv
  <2>2. PICK p, q \in Phases : Flow(p, q)
    BY <2>1 DEF ExchangeInv
  <2>3. TakesCommands
    BY <1>1 DEF TakesCommands
  <2>4. CommandsFit(q)'
    <3>1. CASE q # "asked"
      BY <3>1, <1>1, <2>2, <2>3, FitsStill DEF Flow
    <3>2. CASE q = "asked"
      <4>1. server = "idle" /\ CommandsFit("asked")
        BY <3>2, <1>1, <2>2 DEF Flow, ServerIn
      <4>2. /\ toServer[Len(toServer)].tag = "Query"
            /\ \A i \in 1 .. Len(toServer) - 1 : toServer[i].tag \in CopyTags
        BY <4>1 DEF CommandsFit, QueryPhases
      <4>3. /\ Len(toServer) \in Nat \ {0} /\ toServer[1].tag \in CopyTags
            /\ toServer' \in Seq(Commands) /\ Len(toServer') = Len(toServer) - 1
            /\ \A i \in 1 .. Len(toServer') : toServer'[i] = toServer[i + 1]
        BY <4>1, <1>1, ServeShift
      <4>4. Len(toServer) # 1
        BY <4>2, <4>3 DEF CopyTags
      <4>5. Len(toServer') \in 1 .. Len(toServer') /\ Len(toServer') + 1 = Len(toServer)
        BY <4>3, <4>4
      <4>6. toServer'[Len(toServer')].tag = "Query" /\ toServer' # <<>>
        BY <4>2, <4>3, <4>5, EmptySeq
      <4>7. ASSUME NEW i \in 1 .. Len(toServer') - 1 PROVE toServer'[i].tag \in CopyTags
        <5>1. i \in 1 .. Len(toServer') /\ i + 1 \in 1 .. Len(toServer) - 1
          BY <4>3, <4>5, <4>7
        <5> QED
          BY <5>1, <4>2, <4>3
      <4> QED
        BY <4>6, <4>7, <3>2 DEF CommandsFit
    <3> QED
      BY <3>1, <3>2
  <2>5. Flow(p, q)'
    <3>1. ClientIn(p)' <=> ClientIn(p)
      BY <1>1 DEF ClientIn, CopyIsOver, BothClosed
    <3>2. ServerIn(q)' <=> ServerIn(q)
      BY <1>1 DEF ServerIn
    <3>3. p = "in" => ~Sends(BatchTags \union {"Query"})'
      BY <1>1, <2>2, <2>3, TakesSends DEF Flow
    <3>4. Brings({"CommandComplete"})' <=> Brings({"CommandComplete"})
      BY <1>1 DEF Brings
    <3>5. toServer # <<>>
      BY <1>1 DEF Serves
    <3> QED
      BY <3>1, <3>2, <3>3, <3>4, <3>5, <1>1, <2>2, <2>4 DEF Flow
  <2>6. EndsInOrder'
    BY <1>1, <1>2, <1>3, <2>1, <2>3, GrownEndsInOrder DEF ExchangeInv
  <2>7. NothingFollows'
    BY <1>1, <1>2, <1>3, <2>1, <2>3, TakesNothingFollows DEF ExchangeInv
  <2>8. CopyInIsOrdered'
    BY <1>1 DEF CopyInIsOrdered
  <2>9. \A i : (SwallowedAt(i)' <=> SwallowedAt(i + 1)) /\ ~SwallowedAt(i) /\ ~SwallowedAt(i)'
    BY <1>1, LotsStand
  <2>10. Command.tag # "Sync"
    BY <1>1 DEF CopyTags
  <2>11. Counted'
    BY <1>1, <1>2, <1>3, <1>4, <2>1, <2>9, <2>10, ServeCounted DEF ExchangeInv, WireTypes
  <2>12. EndsBySync'
    BY <1>1, <1>2, <2>1, <2>9, <2>10, ServeSynced DEF ExchangeInv
  <2> QED
    BY <2>5, <2>6, <2>7, <2>8, <2>11, <2>12
<1> QED
  BY <1>1, <1>4, <1>5, BackendKeeps

-----------------------------------------------------------------------------
(* Serving a simple query and its COPY.                                    *)

\* While its responses come, the simple query is the session's.
LEMMA QueryRuns ==
  ASSUME SessionInv, NEW p \in QueryPhases, ClientIn(p)
  PROVE  SimpleQueryRuns
BY DEF ClientIn, SimpleQueryRuns, QueryPhases

\* Nothing is counted and no Sync is waited for while a simple query runs.
LEMMA QueryStepKeeps ==
  ASSUME WireInv, session.state # "Closed", UNCHANGED clientVars, WireTypes',
         server' # "copy_in",
         NEW p \in QueryPhases, ClientIn(p), NEW r \in QueryPhases,
         Walk(toClient', p, r), ServerIn(r)', CommandsFit(r)', EndsInOrder', NothingFollows'
  PROVE  WireInv'
<1>1. SessionInv /\ session' = session
  BY DEF WireInv, clientVars
<1>2. SimpleQueryRuns'
  BY <1>1, QueryRuns DEF SimpleQueryRuns
<1>3. Counted' /\ EndsBySync' /\ CopyInIsOrdered'
  BY <1>2 DEF Counted, EndsBySync, Loose, CopyInIsOrdered
<1>4. p \in Phases /\ r \in Phases /\ p \notin BatchPhases /\ r \notin BatchPhases /\ p # "in"
  BY DEF Phases, BatchPhases, QueryPhases
<1>5. ClientIn(p)' <=> ClientIn(p)
  BY <1>1 DEF ClientIn, CopyIsOver, BothClosed
<1>6. Flow(p, r)'
  BY <1>4, <1>5 DEF Flow
<1> QED
  BY <1>3, <1>4, <1>6, BackendKeeps

\* The answers to a query: it is alone on the wires.
LEMMA QueryAnswerKeeps ==
  ASSUME WireInv, UNCHANGED clientVars, Serves, server = "idle", Command.tag = "Query",
         NEW kinds \in Seq(BackendKinds), Grown(kinds),
         Len(kinds) = 1 \/ \A i \in 1 .. Len(kinds) : kinds[i] \notin WritableCopy,
         NEW r \in {"quiet", "reads", "both"}, ServerIn(r)',
         Walk(toClient, "asked", "asked") => Walk(toClient', "asked", r)
  PROVE  WireInv'
<1>1. SessionInv /\ WireTypes /\ session' = session
  BY DEF WireInv, clientVars
<1>2. server' \in Modes /\ server' # "copy_in"
  BY DEF ServerIn, Modes
<1>3. WireTypes'
  BY <1>1, <1>2, ServeShift DEF WireTypes, Grown
<1>4. CASE session.state = "Closed"
  BY <1>3, <1>4, BackendKeeps
<1>5. CASE session.state # "Closed"
  <2>1. ExchangeInv
    BY <1>5 DEF WireInv
  <2>2. PICK p, q \in Phases : Flow(p, q)
    BY <2>1 DEF ExchangeInv
  <2>3. Walk(toClient, p, q) /\ ClientIn(p) /\ ServerIn(q) /\ CommandsFit(q)
    BY <2>2 DEF Flow
  <2>4. Sends({"Query"})
    BY <1>1, ServeSends
  <2>5. q = "asked"
    <3>1. q \in {"flat", "asked", "quiet"}
      BY <2>3 DEF ServerIn
    <3>2. ~Sends({"Query"}) \/ q = "asked"
      BY <3>1, <2>3 DEF CommandsFit, QueryPhases, Sends
    <3> QED
      BY <3>2, <2>4
  <2>6. toClient = <<>> /\ p = "asked"
    BY <1>1, <2>3, <2>5, NothingLeadsToAsked
  <2>7. toServer' = <<>>
    <3>1. Len(toServer) = 1
      BY <1>1, <2>3, <2>5, HeadOfAsked DEF Serves, CopyTags
    <3>2. toServer' \in Seq(Commands) /\ Len(toServer') = 0
      BY <3>1, <1>1, ServeShift
    <3> QED
      BY <3>2, EmptySeq
  <2>8. \A K : ~Sends(K)'
    BY <2>7, EmptySeq DEF Sends
  <2>9. /\ Len(toClient) = 0 /\ toClient' \in Seq(Responses) /\ Len(toClient') = Len(kinds)
        /\ DOMAIN toClient' = 1 .. Len(kinds) /\ Len(kinds) \in Nat
        /\ \A i \in 1 .. Len(kinds) : toClient'[i].kind = kinds[i]
    <3>1. Len(toClient) = 0
      BY <2>6, EmptySeq
    <3>2. Len(kinds) \in Nat
      OBVIOUS
    <3>3. toClient' \in Seq(Responses) /\ Len(toClient') = Len(kinds)
      BY <3>1, <3>2 DEF Grown
    <3>4. \A i \in 1 .. Len(kinds) : toClient'[i].kind = kinds[i]
      <4> TAKE i \in 1 .. Len(kinds)
      <4>1. toClient'[Len(toClient) + i].kind = kinds[i]
        BY DEF Grown
      <4> QED
        BY <4>1, <3>1
    <3> QED
      BY <3>1, <3>2, <3>3, <3>4
  <2>10. ~session.sendOpen
    <3>1. session.state = "Simple_Query_Active"
      BY <2>3, <2>6 DEF ClientIn
    <3> QED
      BY <3>1, <1>1, OutsideCopyFlags
  <2>11. \A i \in DOMAIN toClient' : toClient'[i].kind \in WritableCopy => Len(kinds) = 1
                                     /\ i = 1
    BY <2>9
  <2>12. EndsInOrder'
    <3>1. \A i, j \in DOMAIN toClient' : i < j => toClient'[i].kind \notin WritableCopy
      BY <2>9, <2>11
    <3>2. \A i \in DOMAIN toClient' : toClient'[i].kind = "CopyBothResponse" => i = 1
      BY <2>11 DEF WritableCopy
    <3> QED
      BY <3>1, <3>2, <1>1, <2>8, <2>10 DEF EndsInOrder
  <2>13. NothingFollows'
    <3>1. \A i \in DOMAIN toClient' : toClient'[i].kind = "CopyInResponse" => i = Len(toClient')
      BY <2>9, <2>11 DEF WritableCopy
    <3>2. DOMAIN toServer' = {}
      BY <2>7, EmptySeq
    <3> QED
      BY <3>1, <3>2, <2>8 DEF NothingFollows
  <2>14. CommandsFit(r)' /\ r \in QueryPhases /\ p \in QueryPhases
    BY <2>6, <2>8 DEF CommandsFit, QueryPhases
  <2>15. Walk(toClient', p, r)
    BY <2>3, <2>5, <2>6
  <2> QED
    BY <1>2, <1>3, <1>5, <2>3, <2>12, <2>13, <2>14, <2>15, QueryStepKeeps
<1> QED
  BY <1>4, <1>5

\* An answer that ends the query with what came first.
LEMMA QueryEndsKeeps ==
  ASSUME WireInv, UNCHANGED clientVars, Serves, server = "idle", server' = "idle",
         Command.tag = "Query", NEW kind \in {"Error", "CommandComplete"},
         Answer(<<kind, "ReadyForQuery">>)
  PROVE  WireInv'
<1> DEFINE kinds == <<kind, "ReadyForQuery">>
<1>1. kind \in BackendKinds /\ "ReadyForQuery" \in BackendKinds /\ WireTypes
  BY DEF BackendKinds, WireInv
<1>2. /\ kinds \in Seq(BackendKinds)
      /\ \A i \in 1 .. Len(kinds) : kinds[i] = kind \/ kinds[i] = "ReadyForQuery"
  BY <1>1
<1>3. Answer(kinds)
  OBVIOUS
<1>4. Grown(kinds)
  <2> HIDE DEF kinds
  <2> QED
    BY <1>1, <1>2, <1>3, AnswerGrows DEF HasShape, Serves
<1>5. /\ "asked" \in Phases /\ "over" \in Phases /\ "quiet" \in Phases
      /\ Leads("asked", kind, "over") /\ Leads("over", "ReadyForQuery", "quiet")
  BY DEF Phases, QueryPhases, Leads
<1>6. Walk(toClient, "asked", "asked") => Walk(toClient', "asked", "quiet")
  <2>1. Grown(<<kind, "ReadyForQuery">>) /\ toClient \in Seq(Responses)
    BY <1>1, <1>4 DEF WireTypes
  <2> HIDE DEF kinds
  <2> QED
    BY <2>1, <1>1, <1>5, GrownWalk2
<1>7. ServerIn("quiet")'
  BY DEF ServerIn
<1>8. \A i \in 1 .. Len(kinds) : kinds[i] \notin WritableCopy
  BY <1>2 DEF WritableCopy
<1> HIDE DEF kinds
<1> QED
  BY <1>2, <1>4, <1>6, <1>7, <1>8, QueryAnswerKeeps

\* An answer in four messages: rows, or a COPY OUT that ends or fails.
LEMMA QueryResultKeeps ==
  ASSUME WireInv, UNCHANGED clientVars, Serves, server = "idle", server' = "idle",
         Command.tag = "Query", NEW a, NEW b, NEW c, NEW x, NEW y,
         \/ a = "RowDescription" /\ b = "DataRow" /\ c = "CommandComplete" /\ x = "rows"
            /\ y = "rows"
            /\ Command.work \in Columns
         \/ a = "CopyOutResponse" /\ b = "CopyDone" /\ c = "CommandComplete" /\ x = "copies"
            /\ y = "copied"
         \/ a = "CopyOutResponse" /\ b = "CopyData" /\ c = "Error" /\ x = "copies"
            /\ y = "copies",
         Answer(<<a, b, c, "ReadyForQuery">>)
  PROVE  WireInv'
<1> DEFINE kinds == <<a, b, c, "ReadyForQuery">>
<1>1. /\ a \in BackendKinds /\ b \in BackendKinds /\ c \in BackendKinds
      /\ "ReadyForQuery" \in BackendKinds
      /\ a \notin WritableCopy /\ b \notin WritableCopy /\ c \notin WritableCopy
      /\ HasShape(a) \/ HasShape(b) \/ HasShape(c) => Command.work \in Columns
  BY DEF BackendKinds, CopyResponses, WritableCopy, HasShape
<1>2. WireTypes /\ toClient \in Seq(Responses)
  BY DEF WireInv, WireTypes
<1>3. /\ kinds \in Seq(BackendKinds) /\ Len(kinds) = 4
      /\ kinds[1] = a /\ kinds[2] = b /\ kinds[3] = c /\ kinds[4] = "ReadyForQuery"
  BY <1>1
<1>4. \A i \in 1 .. Len(kinds) : i = 1 \/ i = 2 \/ i = 3 \/ i = 4
  BY <1>3
<1>5. \A i \in 1 .. Len(kinds) :
        kinds[i] = a \/ kinds[i] = b \/ kinds[i] = c \/ kinds[i] = "ReadyForQuery"
  BY <1>3, <1>4
<1>6. Answer(kinds)
  OBVIOUS
<1>7. Grown(kinds)
  <2> HIDE DEF kinds
  <2>1. \A i \in 1 .. Len(kinds) : HasShape(kinds[i]) => Command.work \in Columns
    BY <1>1, <1>5 DEF HasShape
  <2> QED
    BY <1>2, <1>3, <1>6, <2>1, AnswerGrows DEF Serves
<1>8. Grown(<<a, b, c, "ReadyForQuery">>)
  BY <1>7
<1> HIDE DEF kinds
<1>9. /\ "asked" \in Phases /\ "over" \in Phases /\ "quiet" \in Phases
      /\ x \in Phases /\ y \in Phases
      /\ Leads("asked", a, x) /\ Leads(x, b, y) /\ Leads(y, c, "over")
      /\ Leads("over", "ReadyForQuery", "quiet")
  BY DEF Phases, QueryPhases, Leads
<1>10. Walk(toClient, "asked", "asked") => Walk(toClient', "asked", "quiet")
  BY <1>1, <1>2, <1>8, <1>9, GrownWalk4
<1>11. ServerIn("quiet")'
  BY DEF ServerIn
<1>12. \A i \in 1 .. Len(kinds) : kinds[i] \notin WritableCopy
  BY <1>1, <1>5 DEF WritableCopy
<1> QED
  BY <1>3, <1>7, <1>10, <1>11, <1>12, QueryAnswerKeeps

\* A writable COPY starts.
LEMMA QueryCopyKeeps ==
  ASSUME WireInv, UNCHANGED clientVars, Serves, server = "idle", Command.tag = "Query",
         NEW kind, Answer(<<kind>>),
         \/ kind = "CopyInResponse" /\ server' = "simple_copy_in"
         \/ kind = "CopyBothResponse" /\ server' = "copy_both"
  PROVE  WireInv'
<1>1. kind \in BackendKinds /\ WireTypes
  BY DEF BackendKinds, CopyResponses, WireInv
<1>2. /\ <<kind>> \in Seq(BackendKinds) /\ Len(<<kind>>) = 1
      /\ \A i \in 1 .. Len(<<kind>>) : <<kind>>[i] = kind
  BY <1>1
<1>3. Grown(<<kind>>)
  BY <1>1, <1>2, AnswerGrows DEF HasShape, Serves
<1> DEFINE r == IF kind = "CopyInResponse" THEN "reads" ELSE "both"
<1>4. /\ "asked" \in Phases /\ r \in Phases /\ r \in {"quiet", "reads", "both"}
      /\ Leads("asked", kind, r) /\ ServerIn(r)'
  BY DEF Phases, QueryPhases, Leads, ServerIn
<1> HIDE DEF r
<1>5. Walk(toClient, "asked", "asked") => Walk(toClient', "asked", r)
  BY <1>1, <1>3, <1>4, GrownWalk1 DEF WireTypes
<1> QED
  BY <1>2, <1>3, <1>4, <1>5, QueryAnswerKeeps

LEMMA ServeQueryKeeps ==
  ASSUME WireInv, ServeQuery PROVE WireInv'
<1>1. /\ toServer # <<>> /\ server = "idle" /\ Command.tag = "Query"
      /\ \A mode : ServeOne(mode) => Serves /\ UNCHANGED clientVars /\ server' = mode
  BY DEF ServeQuery, Receives, ServeOne, Serves
<1>2. CASE ServeOne("idle")
           /\ \/ Answer(<<"Error", "ReadyForQuery">>)
              \/ Answer(<<"CommandComplete", "ReadyForQuery">>)
  BY <1>1, <1>2, QueryEndsKeeps
<1>3. CASE ServeOne("idle") /\ Command.work \in Columns
           /\ Answer(<<"RowDescription", "DataRow", "CommandComplete", "ReadyForQuery">>)
  BY <1>1, <1>3, QueryResultKeeps
<1>4. CASE ServeOne("idle")
           /\ \/ Answer(<<"CopyOutResponse", "CopyDone", "CommandComplete", "ReadyForQuery">>)
              \/ Answer(<<"CopyOutResponse", "CopyData", "Error", "ReadyForQuery">>)
  BY <1>1, <1>4, QueryResultKeeps
<1>5. CASE \/ Answer(<<"CopyInResponse">>) /\ ServeOne("simple_copy_in")
           \/ Answer(<<"CopyBothResponse">>) /\ ServeOne("copy_both")
  BY <1>1, <1>5, QueryCopyKeeps
<1> QED
  BY <1>2, <1>3, <1>4, <1>5, Zenon DEF ServeQuery

\* A step of the backend within the COPY of a query, or out of it.
LEMMA QueryCopyStepKeeps ==
  ASSUME WireInv, UNCHANGED clientVars, TakesCommands,
         server \notin {"idle", "skipping", "copy_in"},
         NEW q \in {"reads", "both", "half"}, ServerIn(q),
         NEW kinds \in Seq(BackendKinds), Grown(kinds),
         \A i \in 1 .. Len(kinds) : kinds[i] \notin WritableCopy,
         \A i \in 1 .. Len(kinds) :
           kinds[i] = "CommandComplete" => toServer # <<>> /\ Command.tag \in EndTags,
         q = "reads" => toServer # <<>> /\ Command.tag \in CopyTags,
         NEW r \in {"reads", "both", "half", "quiet"}, ServerIn(r)',
         \A p \in Phases : Walk(toClient, p, q) => Walk(toClient', p, r)
  PROVE  WireInv'
<1>1. SessionInv /\ WireTypes /\ session' = session
  BY DEF WireInv, clientVars
<1>2. server' \in Modes /\ server' # "copy_in"
  BY DEF ServerIn, Modes
<1>3. WireTypes'
  <2>1. toServer' \in Seq(Commands)
    BY <1>1, ServeShift DEF TakesCommands, WireTypes
  <2> QED
    BY <1>2, <2>1 DEF WireTypes, Grown
<1>4. CASE session.state = "Closed"
  BY <1>3, <1>4, BackendKeeps
<1>5. CASE session.state # "Closed"
  <2>1. ExchangeInv
    BY <1>5 DEF WireInv
  <2>2. PICK p, z \in Phases : Flow(p, z)
    BY <2>1 DEF ExchangeInv
  <2>3. /\ Walk(toClient, p, z) /\ ClientIn(p) /\ ServerIn(z) /\ CommandsFit(z)
        /\ p \in BatchPhases <=> z \in BatchPhases
    BY <2>2 DEF Flow
  <2>4. z = q
    BY <2>3 DEF ServerIn
  <2>5. p \in QueryPhases
    BY <2>3, <2>4 DEF Phases, BatchPhases
  <2>6. CommandsFit(r)'
    <3>1. ~Sends(BatchTags \union {"Sync", "Query"})
      BY <2>3, <2>4 DEF CommandsFit
    <3>2. ~Sends(BatchTags \union {"Sync", "Query"})'
      BY <1>1, <3>1, TakesSends
    <3> QED
      BY <3>2 DEF CommandsFit, QueryPhases
  <2>7. ASSUME toServer # <<>> PROVE \A K : Command.tag \in K => Sends(K)
    <3>1. 1 \in DOMAIN toServer /\ Command = toServer[1]
      BY <1>1, <2>7, HeadCommand, WireElements
    <3> QED
      BY <3>1 DEF Sends
  <2>8. ~Brings({"CopyInResponse"})
    <3>1. ASSUME Brings({"CopyInResponse"}) PROVE FALSE
      <4>1. z \in {"in", "reads"} /\ ~Sends(Tags \ {"Sync"})
        BY <3>1, <1>1, <2>1, <2>3, CopyInIsLast DEF ExchangeInv
      <4>2. toServer # <<>> /\ Command.tag \in CopyTags
        BY <4>1, <2>4
      <4>3. Command.tag \in Tags \ {"Sync"}
        BY <4>2 DEF Tags, CopyTags
      <4> QED
        BY <4>1, <4>2, <4>3, <2>7
    <3> QED
      BY <3>1
  <2>9. \A i \in 1 .. Len(kinds) : kinds[i] = "CommandComplete" =>
          ~session.sendOpen /\ ~Brings(WritableCopy)
    BY <2>1, <2>7 DEF ExchangeInv, EndsInOrder
  <2>10. EndsInOrder'
    BY <1>1, <2>1, <2>9, GrownEndsInOrder DEF ExchangeInv
  <2>11. \A i \in 1 .. Len(kinds) : kinds[i] # "CopyInResponse"
    BY DEF WritableCopy
  <2>12. NothingFollows'
    BY <1>1, <2>1, <2>8, <2>11, TakesNothingFollows DEF ExchangeInv
  <2>13. Walk(toClient', p, r) /\ r \in QueryPhases
    BY <2>3, <2>4 DEF QueryPhases
  <2> QED
    BY <1>2, <1>3, <1>5, <2>3, <2>5, <2>6, <2>10, <2>12, <2>13, QueryStepKeeps
<1> QED
  BY <1>4, <1>5

\* COPY data that is only read.
LEMMA QueryCopyReads ==
  ASSUME WireInv, UNCHANGED clientVars, Serves, Command.tag = "CopyData",
         NEW q \in {"reads", "both", "half"}, ServerIn(q),
         server \notin {"idle", "skipping", "copy_in"}, server' = server, toClient' = toClient
  PROVE  WireInv'
<1>1. WireTypes
  BY DEF WireInv
<1>2. Grown(<<>>) /\ <<>> \in Seq(BackendKinds) /\ Len(<<>>) = 0
  BY <1>1, NothingGrows
<1>3. \A i \in 1 .. Len(<<>>) : FALSE
  BY <1>2
<1>4. ServerIn(q)'
  BY DEF ServerIn
<1>5. \A p \in Phases : Walk(toClient, p, q) => Walk(toClient', p, q)
  OBVIOUS
<1>6. TakesCommands /\ toServer # <<>> /\ Command.tag \in CopyTags
  BY DEF TakesCommands, Serves, CopyTags
<1> QED
  BY <1>2, <1>3, <1>4, <1>5, <1>6, QueryCopyStepKeeps

\* It fails, or completes.
LEMMA QueryCopyEnds ==
  ASSUME WireInv, UNCHANGED clientVars, Serves, Command.tag \in CopyTags,
         NEW q \in {"reads", "both", "half"}, ServerIn(q),
         server \notin {"idle", "skipping", "copy_in"}, server' = "idle",
         NEW kind,
         \/ kind = "Error"
         \/ kind = "CommandComplete" /\ q # "both" /\ Command.tag = "CopyDone",
         Answer(<<kind, "ReadyForQuery">>)
  PROVE  WireInv'
<1> DEFINE kinds == <<kind, "ReadyForQuery">>
<1>1. kind \in BackendKinds /\ "ReadyForQuery" \in BackendKinds /\ WireTypes
  BY DEF BackendKinds, WireInv
<1>2. /\ kinds \in Seq(BackendKinds)
      /\ \A i \in 1 .. Len(kinds) : kinds[i] = kind \/ kinds[i] = "ReadyForQuery"
  BY <1>1
<1>3. Answer(kinds)
  OBVIOUS
<1>4. Grown(kinds)
  <2> HIDE DEF kinds
  <2> QED
    BY <1>1, <1>2, <1>3, AnswerGrows DEF HasShape, Serves
<1>5. /\ q \in Phases /\ "over" \in Phases /\ "quiet" \in Phases
      /\ Leads(q, kind, "over") /\ Leads("over", "ReadyForQuery", "quiet")
  BY DEF Phases, QueryPhases, Leads
<1>6. \A p \in Phases : Walk(toClient, p, q) => Walk(toClient', p, "quiet")
  <2>1. Grown(<<kind, "ReadyForQuery">>) /\ toClient \in Seq(Responses)
    BY <1>1, <1>4 DEF WireTypes
  <2> HIDE DEF kinds
  <2> QED
    BY <2>1, <1>1, <1>5, GrownWalk2
<1>7. ServerIn("quiet")'
  BY DEF ServerIn
<1>8. \A i \in 1 .. Len(kinds) : kinds[i] \notin WritableCopy
  BY <1>2 DEF WritableCopy
<1>9. \A i \in 1 .. Len(kinds) :
        kinds[i] = "CommandComplete" => toServer # <<>> /\ Command.tag \in EndTags
  BY <1>2 DEF Serves, EndTags
<1>10. TakesCommands /\ toServer # <<>>
  BY DEF TakesCommands, Serves
<1> HIDE DEF kinds
<1> QED
  BY <1>2, <1>4, <1>6, <1>7, <1>8, <1>9, <1>10, QueryCopyStepKeeps

\* COPY BOTH ends while the backend still streams.
LEMMA CopyBothEnds ==
  ASSUME WireInv, UNCHANGED clientVars, Serves, Command.tag = "CopyDone",
         server = "copy_both", server' = "idle",
         Answer(<<"CopyDone", "CopyData", "CommandComplete", "ReadyForQuery">>)
  PROVE  WireInv'
<1> DEFINE kinds == <<"CopyDone", "CopyData", "CommandComplete", "ReadyForQuery">>
<1>1. /\ {"CopyDone", "CopyData", "CommandComplete", "ReadyForQuery"} \subseteq BackendKinds
      /\ WireTypes /\ toClient \in Seq(Responses)
  BY DEF BackendKinds, WireInv, WireTypes
<1>2. /\ kinds \in Seq(BackendKinds) /\ Len(kinds) = 4
      /\ kinds[1] = "CopyDone" /\ kinds[2] = "CopyData" /\ kinds[3] = "CommandComplete"
      /\ kinds[4] = "ReadyForQuery"
  BY <1>1
<1>3. \A i \in 1 .. Len(kinds) : i = 1 \/ i = 2 \/ i = 3 \/ i = 4
  BY <1>2
<1>4. \A i \in 1 .. Len(kinds) :
        kinds[i] \in {"CopyDone", "CopyData", "CommandComplete", "ReadyForQuery"}
  BY <1>2, <1>3
<1>5. Answer(kinds)
  OBVIOUS
<1>6. Grown(kinds)
  <2> HIDE DEF kinds
  <2> QED
    BY <1>1, <1>2, <1>4, <1>5, AnswerGrows DEF HasShape, Serves
<1>7. Grown(<<"CopyDone", "CopyData", "CommandComplete", "ReadyForQuery">>)
  BY <1>6
<1> HIDE DEF kinds
<1>8. /\ {"both", "late", "last", "over", "quiet"} \subseteq Phases
      /\ Leads("both", "CopyDone", "late") /\ Leads("late", "CopyData", "last")
      /\ Leads("last", "CommandComplete", "over") /\ Leads("over", "ReadyForQuery", "quiet")
  BY DEF Phases, QueryPhases, Leads
<1>9. \A p \in Phases : Walk(toClient, p, "both") => Walk(toClient', p, "quiet")
  BY <1>1, <1>7, <1>8, GrownWalk4
<1>10. ServerIn("both") /\ ServerIn("quiet")'
  BY DEF ServerIn
<1>11. \A i \in 1 .. Len(kinds) : kinds[i] \notin WritableCopy
  BY <1>4 DEF WritableCopy
<1>12. TakesCommands /\ toServer # <<>> /\ Command.tag \in EndTags
  BY DEF TakesCommands, Serves, EndTags
<1> QED
  BY <1>2, <1>6, <1>9, <1>10, <1>11, <1>12, QueryCopyStepKeeps

LEMMA ServeSimpleCopyInKeeps ==
  ASSUME WireInv, ServeSimpleCopyIn PROVE WireInv'
<1>1. server = "simple_copy_in" /\ ServerIn("reads")
  BY DEF ServeSimpleCopyIn, ServerIn
<1>2. /\ Serves /\ UNCHANGED clientVars /\ Command.tag \in CopyTags
      /\ \/ Command.tag = "CopyData" /\ server' = server /\ toClient' = toClient
         \/ /\ Command.tag = "CopyDone" /\ server' = "idle"
            /\ Answer(<<"CommandComplete", "ReadyForQuery">>)
         \/ Answer(<<"Error", "ReadyForQuery">>) /\ server' = "idle"
  BY Zenon DEF ServeSimpleCopyIn, ServeOne, Serves, Receives, CopyTags
<1> QED
  BY <1>1, <1>2, QueryCopyReads, QueryCopyEnds

LEMMA ServeCopyBothKeeps ==
  ASSUME WireInv, ServeCopyBoth PROVE WireInv'
<1>1. /\ Serves /\ UNCHANGED clientVars /\ Command.tag \in CopyTags
      /\ \/ server = "copy_both" /\ ServerIn("both")
         \/ server = "copy_both_ended" /\ ServerIn("half")
  BY DEF ServeCopyBoth, ServeOne, Serves, Receives, CopyTags, ServerIn
<1>2. \/ Command.tag = "CopyData" /\ server' = server /\ toClient' = toClient
      \/ Answer(<<"Error", "ReadyForQuery">>) /\ server' = "idle"
      \/ /\ Command.tag = "CopyDone" /\ server = "copy_both" /\ server' = "idle"
         /\ Answer(<<"CopyDone", "CopyData", "CommandComplete", "ReadyForQuery">>)
      \/ /\ Command.tag = "CopyDone" /\ server = "copy_both_ended" /\ server' = "idle"
         /\ Answer(<<"CommandComplete", "ReadyForQuery">>)
  BY Zenon DEF ServeCopyBoth, ServeOne, Receives
<1>3. CASE Command.tag = "CopyData" /\ server' = server /\ toClient' = toClient
  BY <1>1, <1>3, QueryCopyReads
<1>4. CASE Answer(<<"Error", "ReadyForQuery">>) /\ server' = "idle"
  BY <1>1, <1>4, QueryCopyEnds
<1>5. CASE /\ Command.tag = "CopyDone" /\ server = "copy_both" /\ server' = "idle"
           /\ Answer(<<"CopyDone", "CopyData", "CommandComplete", "ReadyForQuery">>)
  BY <1>1, <1>5, CopyBothEnds
<1>6. CASE /\ Command.tag = "CopyDone" /\ server = "copy_both_ended" /\ server' = "idle"
           /\ Answer(<<"CommandComplete", "ReadyForQuery">>)
  BY <1>1, <1>6, QueryCopyEnds
<1> QED
  BY <1>2, <1>3, <1>4, <1>5, <1>6

\* COPY BOTH streams.
LEMMA StreamCopyBothKeeps ==
  ASSUME WireInv, StreamCopyBoth PROVE WireInv'
<1>1. PICK kind \in {"CopyData", "CopyDone"}, mode \in {"copy_both", "copy_both_ended"} :
        /\ Say(kind, mode) /\ server = "copy_both"
        /\ \/ kind = "CopyData" /\ mode = "copy_both"
           \/ kind = "CopyDone" /\ mode = "copy_both_ended"
  BY DEF StreamCopyBoth
<1>2. UNCHANGED clientVars /\ toServer' = toServer /\ server' = mode
  BY <1>1 DEF Say
<1>3. kind \in BackendKinds /\ WireTypes /\ ~HasShape(kind)
  BY DEF BackendKinds, WireInv, HasShape
<1>4. /\ <<kind>> \in Seq(BackendKinds)
      /\ \A i \in 1 .. Len(<<kind>>) : <<kind>>[i] = kind
  BY <1>3
<1>5. Grown(<<kind>>)
  BY <1>1, <1>3, SayGrows
<1> DEFINE r == IF kind = "CopyData" THEN "both" ELSE "half"
<1>6. /\ "both" \in Phases /\ r \in Phases /\ Leads("both", kind, r) /\ r \in {"both", "half"}
      /\ ServerIn("both") /\ ServerIn(r)'
  BY <1>1, <1>2 DEF Phases, QueryPhases, Leads, ServerIn
<1> HIDE DEF r
<1>7. \A p \in Phases : Walk(toClient, p, "both") => Walk(toClient', p, r)
  BY <1>3, <1>5, <1>6, GrownWalk1 DEF WireTypes
<1>8. TakesCommands
  BY <1>2 DEF TakesCommands
<1> QED
  BY <1>1, <1>2, <1>4, <1>5, <1>6, <1>7, <1>8, QueryCopyStepKeeps DEF WritableCopy

-----------------------------------------------------------------------------
(* Serving COPY IN.                                                        *)

\* COPY data, and a Sync that is swallowed.
LEMMA CopyInReads ==
  ASSUME WireInv, UNCHANGED clientVars, Serves, Command.tag \in {"CopyData", "Sync"},
         server = "copy_in", server' = server, toClient' = toClient
  PROVE  WireInv'
<1>1. SessionInv /\ WireTypes /\ session' = session
  BY DEF WireInv, clientVars
<1>2. Grown(<<>>) /\ <<>> \in Seq(BackendKinds) /\ Len(<<>>) = 0
  BY <1>1, NothingGrows
<1>3. \A i \in 1 .. Len(<<>>) : FALSE
  BY <1>2
<1>4. WireTypes'
  BY <1>1, ServeShift DEF WireTypes
<1>5. ASSUME session.state # "Closed"
      PROVE  /\ \E p, q \in Phases : Flow(p, q)'
             /\ EndsInOrder' /\ NothingFollows' /\ CopyInIsOrdered' /\ Counted' /\ EndsBySync'
  <2>1. ExchangeInv
    BY <1>5 DEF WireInv
  <2>2. PICK p, q \in Phases : Flow(p, q)
    BY <2>1 DEF ExchangeInv
  <2>3. TakesCommands /\ toServer # <<>>
    BY DEF TakesCommands, Serves
  <2>4. q = "in"
    BY <2>2 DEF Flow, ServerIn
  <2>5. Flow(p, q)'
    <3>1. ClientIn(p)' <=> ClientIn(p)
      BY <1>1 DEF ClientIn, CopyIsOver, BothClosed
    <3>2. ServerIn(q)' <=> ServerIn(q)
      BY DEF ServerIn
    <3>3. p = "in" => ~Sends(BatchTags \union {"Query"})'
      BY <1>1, <2>2, <2>3, TakesSends DEF Flow
    <3>4. Brings({"CommandComplete"})' <=> Brings({"CommandComplete"})
      BY DEF Brings
    <3>5. CommandsFit(q)'
      BY <1>1, <2>2, <2>3, <2>4, FitsStill DEF Flow
    <3> QED
      BY <3>1, <3>2, <3>3, <3>4, <3>5, <1>1, <2>2, <2>3 DEF Flow
  <2>6. EndsInOrder'
    BY <1>1, <1>2, <1>3, <2>1, <2>3, GrownEndsInOrder DEF ExchangeInv
  <2>7. NothingFollows'
    BY <1>1, <1>2, <1>3, <2>1, <2>3, TakesNothingFollows DEF ExchangeInv
  <2>8. /\ Len(toServer) \in Nat \ {0} /\ DOMAIN toServer = 1 .. Len(toServer)
        /\ Command = toServer[1] /\ Len(toServer') = Len(toServer) - 1
        /\ DOMAIN toServer' = 1 .. Len(toServer')
        /\ \A i \in 1 .. Len(toServer') : toServer'[i] = toServer[i + 1]
    BY <1>1, ServeShift
  <2>9. ASSUME NEW i \in 1 .. Len(toServer')
        PROVE  SwallowedAt(i)' <=> SwallowedAt(i + 1)
    <3>1. ASSUME SwallowedAt(i)' PROVE SwallowedAt(i + 1)
      <4>1. ASSUME NEW j \in 1 .. (i + 1) - 1 PROVE toServer[j].tag \notin {"CopyDone", "CopyFail"}
        <5>1. CASE j = 1
          BY <5>1, <2>8
        <5>2. CASE j # 1
          <6>1. j - 1 \in 1 .. i - 1 /\ j - 1 \in 1 .. Len(toServer') /\ (j - 1) + 1 = j
            BY <5>2, <4>1, <2>8, <2>9
          <6>2. toServer'[j - 1] = toServer[j]
                /\ toServer'[j - 1].tag \notin {"CopyDone", "CopyFail"}
            BY <6>1, <2>8, <3>1 DEF SwallowedAt
          <6> QED
            BY <6>2
        <5> QED
          BY <5>1, <5>2
      <4> QED
        BY <4>1 DEF SwallowedAt
    <3>2. ASSUME SwallowedAt(i + 1) PROVE SwallowedAt(i)'
      <4>1. ASSUME NEW j \in 1 .. i - 1 PROVE toServer'[j].tag \notin {"CopyDone", "CopyFail"}
        <5>1. j + 1 \in 1 .. (i + 1) - 1 /\ j \in 1 .. Len(toServer')
          BY <4>1, <2>8, <2>9
        <5> QED
          BY <5>1, <2>8, <3>2 DEF SwallowedAt
      <4> QED
        BY <4>1 DEF SwallowedAt
    <3> QED
      BY <3>1, <3>2
  <2>10. CopyInIsOrdered'
    <3> SUFFICES ASSUME ~Brings({"CopyInResponse"})'
                 PROVE  /\ ~session.sendOpen => Sends(EndTags)'
                        /\ \A i, j \in DOMAIN toServer' :
                             i < j /\ toServer'[j].tag = "Sync"
                             /\ toServer'[i].tag \in CopyTags => ~SwallowedAt(j)'
                        /\ \A i, j \in DOMAIN toServer' : i < j
                             /\ toServer'[i].tag \in EndTags =>
                             toServer'[j].tag = "Sync" /\ session.copySync
      BY <1>1 DEF CopyInIsOrdered
    <3>1. ~Brings({"CopyInResponse"})
      BY DEF Brings
    <3>2. ~session.sendOpen => Sends(EndTags)'
      <4>1. Command.tag \notin EndTags
        BY DEF EndTags
      <4> QED
        BY <3>1, <4>1, <1>1, <2>1, ServeSends DEF ExchangeInv, CopyInIsOrdered
    <3>3. ASSUME NEW i \in DOMAIN toServer', NEW j \in DOMAIN toServer', i < j
          PROVE  /\ i + 1 \in DOMAIN toServer /\ j + 1 \in DOMAIN toServer /\ i + 1 < j + 1
                 /\ toServer'[i] = toServer[i + 1] /\ toServer'[j] = toServer[j + 1]
                 /\ SwallowedAt(j)' <=> SwallowedAt(j + 1)
      BY <3>3, <2>8, <2>9
    <3> QED
      BY <3>1, <3>2, <3>3, <2>1 DEF ExchangeInv, CopyInIsOrdered
  <2>11. Counted'
    BY <1>1, <1>2, <1>3, <1>4, <2>1, <2>9, ServeCounted DEF ExchangeInv, WireTypes
  <2>12. EndsBySync'
    BY <1>1, <1>2, <2>1, <2>9, ServeSynced DEF ExchangeInv
  <2> QED
    BY <2>5, <2>6, <2>7, <2>10, <2>11, <2>12
<1> QED
  BY <1>1, <1>4, <1>5, BackendKeeps

\* It completes, or fails at what the client sent.
LEMMA CopyInEnds ==
  ASSUME WireInv, UNCHANGED clientVars, Serves, Command.tag \in CopyTags \union BatchTags,
         server = "copy_in", NEW kind,
         \/ kind = "CommandComplete" /\ Command.tag = "CopyDone" /\ server' = "idle"
         \/ kind = "Error" /\ server' = "skipping",
         Answer(<<kind>>)
  PROVE  WireInv'
<1>1. SessionInv /\ WireTypes /\ session' = session /\ TakesCommands /\ toServer # <<>>
  BY DEF WireInv, clientVars, TakesCommands, Serves
<1>2. kind \in BackendKinds
  BY DEF BackendKinds
<1>3. /\ <<kind>> \in Seq(BackendKinds) /\ Len(<<kind>>) = 1
      /\ \A i \in 1 .. Len(<<kind>>) : <<kind>>[i] = kind
  BY <1>2
<1>4. Grown(<<kind>>)
  BY <1>1, <1>3, AnswerGrows DEF HasShape
<1>5. WireTypes'
  BY <1>1, <1>4, ServeShift DEF WireTypes, Grown, Modes
<1>6. ASSUME session.state # "Closed"
      PROVE  /\ \E p, q \in Phases : Flow(p, q)'
             /\ EndsInOrder' /\ NothingFollows' /\ CopyInIsOrdered' /\ Counted' /\ EndsBySync'
  <2>1. ExchangeInv
    BY <1>6 DEF WireInv
  <2>2. PICK p, q \in Phases : Flow(p, q)
    BY <2>1 DEF ExchangeInv
  <2>3. q = "in"
    BY <2>2 DEF Flow, ServerIn
  <2>4. \A K : Command.tag \in K => Sends(K)
    <3>1. 1 \in DOMAIN toServer /\ Command = toServer[1]
      BY <1>1, HeadCommand, WireElements
    <3> QED
      BY <3>1 DEF Sends
  <2>5. ~Sends(BatchTags \union {"Query"})
    BY <2>2, <2>3 DEF Flow, CommandsFit, QueryPhases
  <2>6. Command.tag \in CopyTags
    BY <2>4, <2>5
  <2>7. ~Brings({"CopyInResponse"})
    <3>1. Command.tag \in Tags \ {"Sync"}
      BY <2>6 DEF Tags, CopyTags
    <3>2. Brings({"CopyInResponse"}) => ~Sends(Tags \ {"Sync"})
      BY <1>1, <2>1, <2>2, CopyInIsLast DEF ExchangeInv, Flow
    <3> QED
      BY <3>1, <3>2, <2>4
  <2>8. toClient = <<>> /\ p = "in" /\ session.origin = "Extended_Copy"
    BY <1>1, <2>2, <2>7, BackendCopiesIn
  <2>9. /\ ~session.sendOpen => Sends(EndTags)
        /\ \A i, j \in DOMAIN toServer :
             i < j /\ toServer[j].tag = "Sync" /\ toServer[i].tag \in CopyTags =>
             ~SwallowedAt(j)
        /\ \A i, j \in DOMAIN toServer : i < j /\ toServer[i].tag \in EndTags =>
             toServer[j].tag = "Sync" /\ session.copySync
    BY <2>1, <2>7 DEF ExchangeInv, CopyInIsOrdered
  <2>10. /\ Len(toServer) \in Nat \ {0} /\ DOMAIN toServer = 1 .. Len(toServer)
         /\ Command = toServer[1] /\ Len(toServer') = Len(toServer) - 1
         /\ toServer' \in Seq(Commands)
         /\ \A i \in 1 .. Len(toServer') : toServer'[i] = toServer[i + 1]
    BY <1>1, ServeShift
  <2>11. Len(toClient) = 0 /\ Len(toClient') = 1 /\ toClient \in Seq(Responses)
    <3>1. Len(toClient) = 0
      BY <2>8, EmptySeq
    <3>2. Len(toClient') = Len(toClient) + Len(<<kind>>)
      BY <1>4 DEF Grown
    <3> QED
      BY <3>1, <3>2, <1>1, <1>3 DEF WireTypes
  <2>12. \A K : Brings(K)' <=> kind \in K
    <3>1. \A K : ~Brings(K)
      BY <2>8, EmptySeq DEF Brings
    <3>2. \A K : Brings(K)' <=> Brings(K) \/ \E i \in 1 .. Len(<<kind>>) : <<kind>>[i] \in K
      BY <1>3, <1>4, <2>11, GrownBrings
    <3>3. 1 \in 1 .. Len(<<kind>>)
      BY <1>3
    <3> QED
      BY <3>1, <3>2, <3>3, <1>3
  <2>13. kind = "CommandComplete" /\ ~session.copySync => toServer' = <<>>
    <3>1. ASSUME kind = "CommandComplete", ~session.copySync, Len(toServer') # 0 PROVE FALSE
      <4>1. /\ 1 \in DOMAIN toServer /\ 2 \in DOMAIN toServer /\ 1 < 2
        BY <3>1, <2>10
      <4>2. toServer[1].tag \in EndTags
        BY <3>1, <2>10 DEF EndTags
      <4> QED
        BY <4>1, <4>2, <3>1, <2>9
    <3> QED
      BY <3>1, <2>10, EmptySeq
  <2> DEFINE r == IF kind = "Error" THEN "failed" ELSE "flat"
  <2>14. /\ r \in Phases /\ r \in {"flat", "failed"} /\ "in" \in Phases
         /\ Leads("in", kind, r) /\ ServerIn(r)' /\ r \in BatchPhases /\ "in" \in BatchPhases
    BY DEF Phases, BatchPhases, Leads, ServerIn
  <2> HIDE DEF r
  <2>15. Flow(p, r)'
    <3>1. ClientIn(p)' <=> ClientIn(p)
      BY <1>1 DEF ClientIn, CopyIsOver, BothClosed
    <3>2. ~Sends(BatchTags \union {"Query"})'
      BY <1>1, <2>5, TakesSends
    <3>3. CommandsFit(r)'
      BY <3>2, <2>14 DEF CommandsFit, Sends
    <3>4. Walk(toClient', p, r)
      BY <1>2, <1>4, <2>2, <2>3, <2>8, <2>11, <2>14, GrownWalk1 DEF Flow
    <3>5. ~session.copySync => Len(toClient') <= 1
            /\ (Brings({"CommandComplete"})' => toServer' = <<>>)
      BY <2>11, <2>12, <2>13
    <3> QED
      BY <3>1, <3>2, <3>3, <3>4, <3>5, <1>1, <2>2, <2>8, <2>14 DEF Flow
  <2>16. kind = "CommandComplete" => ~session.sendOpen /\ ~Brings(WritableCopy)
    BY <2>1, <2>4 DEF ExchangeInv, EndsInOrder, EndTags
  <2>17. kind \notin WritableCopy /\ kind # "ReadyForQuery"
    BY DEF WritableCopy
  <2>18. EndsInOrder'
    BY <1>1, <1>3, <1>4, <2>1, <2>16, <2>17, GrownEndsInOrder DEF ExchangeInv
  <2>19. NothingFollows'
    BY <1>1, <1>3, <1>4, <2>1, <2>7, <2>17, TakesNothingFollows DEF ExchangeInv, WritableCopy
  <2>20. CopyInIsOrdered'
    BY DEF CopyInIsOrdered
  <2>21. ASSUME NEW i \in 1 .. Len(toServer'), toServer'[i].tag = "Sync"
         PROVE  SwallowedAt(i)' <=> SwallowedAt(i + 1)
    <3>1. /\ 1 \in DOMAIN toServer /\ i + 1 \in DOMAIN toServer /\ 1 < i + 1
          /\ 1 \in 1 .. (i + 1) - 1 /\ toServer[i + 1].tag = "Sync"
      BY <2>10, <2>21
    <3>2. toServer[1].tag \in CopyTags
      BY <2>6, <2>10
    <3>3. ~SwallowedAt(i + 1)
      BY <3>1, <3>2, <2>9
    <3>4. ~SwallowedAt(i)'
      BY DEF SwallowedAt
    <3> QED
      BY <3>3, <3>4
  <2>22. Command.tag # "Sync"
    BY <2>6 DEF CopyTags
  <2>23. Counted'
    BY <1>1, <1>3, <1>4, <1>5, <2>1, <2>17, <2>21, <2>22, ServeCounted
    DEF ExchangeInv, WireTypes, WritableCopy
  <2>24. EndsBySync'
    BY <1>1, <1>3, <1>4, <2>1, <2>21, <2>22, ServeSynced DEF ExchangeInv
  <2> QED
    BY <2>14, <2>15, <2>18, <2>19, <2>20, <2>23, <2>24
<1> QED
  BY <1>1, <1>5, <1>6, BackendKeeps

LEMMA ServeCopyInKeeps ==
  ASSUME WireInv, ServeCopyIn PROVE WireInv'
<1>1. server = "copy_in" /\ Serves /\ UNCHANGED clientVars
  BY Zenon DEF ServeCopyIn, ServeOne, Serves, Receives
<1>2. \/ Command.tag \in {"CopyData", "Sync"} /\ server' = server /\ toClient' = toClient
      \/ Command.tag = "CopyDone" /\ Answer(<<"CommandComplete">>) /\ server' = "idle"
      \/ Command.tag \in CopyTags \union BatchTags /\ Answer(<<"Error">>)
         /\ server' = "skipping"
  BY Zenon DEF ServeCopyIn, ServeOne, Receives
<1>3. CASE Command.tag \in {"CopyData", "Sync"} /\ server' = server /\ toClient' = toClient
  BY <1>1, <1>3, CopyInReads
<1>4. CASE Command.tag = "CopyDone" /\ Answer(<<"CommandComplete">>) /\ server' = "idle"
  BY <1>1, <1>4, CopyInEnds DEF CopyTags
<1>5. CASE Command.tag \in CopyTags \union BatchTags /\ Answer(<<"Error">>)
           /\ server' = "skipping"
  BY <1>1, <1>5, CopyInEnds
<1> QED
  BY <1>2, <1>3, <1>4, <1>5

\* It fails by itself, when no Sync would be swallowed any more.
LEMMA FailCopyInKeeps ==
  ASSUME WireInv, server = "copy_in", ~SyncOvertook, ~CopyInOnItsWay, Say("Error", "skipping")
  PROVE  WireInv'
<1>1. /\ SessionInv /\ WireTypes /\ session' = session /\ UNCHANGED clientVars
      /\ toServer' = toServer /\ server' = "skipping" /\ TakesCommands
  BY DEF WireInv, clientVars, Say, TakesCommands
<1>2. "Error" \in BackendKinds /\ ~HasShape("Error")
  BY DEF BackendKinds, HasShape
<1>3. /\ <<"Error">> \in Seq(BackendKinds) /\ Len(<<"Error">>) = 1
      /\ \A i \in 1 .. Len(<<"Error">>) : <<"Error">>[i] = "Error"
  BY <1>2
<1>4. Grown(<<"Error">>)
  BY <1>1, <1>2, SayGrows
<1>5. WireTypes'
  BY <1>1, <1>4 DEF WireTypes, Grown, Modes
<1>6. ASSUME session.state # "Closed"
      PROVE  /\ \E p, q \in Phases : Flow(p, q)'
             /\ EndsInOrder' /\ NothingFollows' /\ CopyInIsOrdered' /\ Counted' /\ EndsBySync'
  <2>1. ExchangeInv
    BY <1>6 DEF WireInv
  <2>2. PICK p, q \in Phases : Flow(p, q)
    BY <2>1 DEF ExchangeInv
  <2>3. q = "in"
    BY <2>2 DEF Flow, ServerIn
  <2>4. ~Brings({"CopyInResponse"})
    BY DEF CopyInOnItsWay, Brings
  <2>5. toClient = <<>> /\ p = "in" /\ session.origin = "Extended_Copy"
    BY <1>1, <2>2, <2>4, BackendCopiesIn
  <2>6. ~Sends(BatchTags \union {"Query"})
    BY <2>2, <2>3 DEF Flow, CommandsFit, QueryPhases
  <2>7. Len(toClient) = 0 /\ Len(toClient') = 1 /\ toClient \in Seq(Responses)
    <3>1. Len(toClient) = 0
      BY <2>5, EmptySeq
    <3>2. Len(toClient') = Len(toClient) + Len(<<"Error">>)
      BY <1>4 DEF Grown
    <3> QED
      BY <3>1, <3>2, <1>1, <1>3 DEF WireTypes
  <2>8. \A K : Brings(K)' <=> "Error" \in K
    <3>1. \A K : ~Brings(K)
      BY <2>5, EmptySeq DEF Brings
    <3>2. \A K : Brings(K)' <=> Brings(K)
                 \/ \E i \in 1 .. Len(<<"Error">>) : <<"Error">>[i] \in K
      BY <1>3, <1>4, <2>7, GrownBrings
    <3>3. 1 \in 1 .. Len(<<"Error">>)
      BY <1>3
    <3> QED
      BY <3>1, <3>2, <3>3, <1>3
  <2>9. Flow(p, "failed")'
    <3>1. ClientIn(p)' <=> ClientIn(p)
      BY <1>1 DEF ClientIn, CopyIsOver, BothClosed
    <3>2. ~Sends(BatchTags \union {"Query"})'
      BY <1>1, <2>6 DEF Sends
    <3>3. CommandsFit("failed")'
      BY <3>2 DEF CommandsFit, Sends
    <3>4. Walk(toClient', p, "failed")
      BY <1>2, <1>4, <2>2, <2>3, <2>5, <2>7, GrownWalk1 DEF Flow, Leads, Phases, BatchPhases
    <3>5. Len(toClient') <= 1 /\ ~Brings({"CommandComplete"})'
      BY <2>7, <2>8
    <3>6. ServerIn("failed")'
      BY <1>1 DEF ServerIn
    <3> QED
      BY <3>1, <3>2, <3>3, <3>4, <3>5, <3>6, <1>1, <2>2, <2>5 DEF Flow, BatchPhases
  <2>10. EndsInOrder'
    BY <1>1, <1>3, <1>4, <2>1, GrownEndsInOrder DEF ExchangeInv, WritableCopy
  <2>11. NothingFollows'
    BY <1>1, <1>3, <1>4, <2>1, <2>4, TakesNothingFollows DEF ExchangeInv
  <2>12. CopyInIsOrdered'
    BY <1>1 DEF CopyInIsOrdered
  <2>13. SyncsIn' = SyncsIn
    <3>1. \A i \in DOMAIN toServer : toServer[i].tag = "Sync" => ~SwallowedAt(i)
      BY DEF SyncOvertook, SwallowedAt
    <3>2. \A i : ~SwallowedAt(i)'
      BY <1>1 DEF SwallowedAt
    <3> QED
      BY <3>1, <3>2, <1>1 DEF SyncsIn
  <2>14. Counted'
    <3>1. ReadiesIn' = ReadiesIn
      BY <1>1, <1>3, <1>4, GrownReadies
    <3>2. ReadiesToCome' = ReadiesToCome
      <4>1. ReadiesToCome' = Cardinality(ReadiesIn') + Cardinality(SyncsIn')
        BY DEF ReadiesToCome, ReadiesIn, SyncsIn
      <4>2. ReadiesToCome = Cardinality(ReadiesIn) + Cardinality(SyncsIn)
        BY DEF ReadiesToCome, ReadiesIn, SyncsIn
      <4> QED
        BY <4>1, <4>2, <3>1, <2>13
    <3>3. ~Brings({"CopyInResponse"})'
      BY <2>8
    <3> QED
      BY <3>2, <3>3, <1>1, <2>1, <2>4 DEF ExchangeInv, Counted, SimpleQueryRuns
  <2>15. EndsBySync'
    <3>1. Loose' <=> Loose
      BY <1>1, <2>4, <2>8 DEF Loose, SimpleQueryRuns
    <3> QED
      BY <3>1, <1>1, <2>1, <2>13 DEF ExchangeInv, EndsBySync
  <2>16. "failed" \in Phases
    BY DEF Phases, BatchPhases
  <2> QED
    BY <2>9, <2>10, <2>11, <2>12, <2>14, <2>15, <2>16
<1> QED
  BY <1>1, <1>5, <1>6, BackendKeeps

-----------------------------------------------------------------------------
(* Reading: the response that takes the session from phase p to phase x.   *)

Kind == Head(toClient).kind

Reading(p, q, x) ==
  /\ WireInv /\ session.state # "Closed"
  /\ Reads /\ toServer' = toServer /\ server' = server
  /\ Flow(p, q) /\ p \in Phases /\ q \in Phases /\ x \in Phases
  /\ Leads(p, Kind, x) /\ Walk(toClient', x, q)

\* What is known of the wires before and after a response is read.
LEMMA ReadingWires ==
  ASSUME NEW p, NEW q, NEW x, Reading(p, q, x)
  PROVE  /\ WireTypes /\ ExchangeInv /\ SessionInv /\ WireTypes' /\ SyncsIn' = SyncsIn
         /\ Kind \in BackendKinds /\ Cardinality(ReadiesIn') \in Nat
            /\ Cardinality(SyncsIn) \in Nat
         /\ Cardinality(ReadiesIn) = Cardinality(ReadiesIn') + (IF Kind = "ReadyForQuery" THEN 1 ELSE 0)
         /\ \A K : Brings(K) <=> Kind \in K \/ Brings(K)'
         /\ \A K : Sends(K)' <=> Sends(K)
         /\ Kind = "CopyInResponse" => toClient' = <<>> /\ ~Sends(Tags \ {"Sync"})
            /\ q \in {"in", "reads"}
<1>1. /\ WireTypes /\ ExchangeInv /\ SessionInv /\ Reads /\ toServer' = toServer
         /\ server' = server
      /\ Walk(toClient, p, q)
  BY DEF Reading, WireInv, Flow
<1>2. WireTypes'
  BY <1>1, ReadShift DEF WireTypes
<1>3. SyncsIn' = SyncsIn
  BY <1>1 DEF SyncsIn, SwallowedAt
<1>4. Kind \in BackendKinds
  BY <1>1, ReadShift DEF Kind, Responses
<1>5. Cardinality(ReadiesIn) = Cardinality(ReadiesIn') + (IF Kind = "ReadyForQuery" THEN 1 ELSE 0)
  BY <1>1, ReadReadies DEF Kind
<1>6. \A K : Brings(K) <=> Kind \in K \/ Brings(K)'
  BY <1>1, ReadBrings DEF Kind
<1>7. \A K : Sends(K)' <=> Sends(K)
  BY <1>1 DEF Sends
<1>8. ASSUME Kind = "CopyInResponse"
      PROVE  toClient' = <<>> /\ ~Sends(Tags \ {"Sync"}) /\ q \in {"in", "reads"}
  <2>1. Brings({"CopyInResponse"})
    BY <1>6, <1>8
  <2>2. q \in {"in", "reads"} /\ ~Sends(Tags \ {"Sync"})
    BY <1>1, <2>1, CopyInIsLast DEF ExchangeInv
  <2>3. 1 \in DOMAIN toClient /\ toClient[1].kind = "CopyInResponse"
    BY <1>1, <1>8, ReadShift DEF Kind
  <2>4. Len(toClient) = 1
    BY <1>1, <2>3 DEF ExchangeInv, NothingFollows
  <2>5. toClient' \in Seq(Responses) /\ Len(toClient') = 0
    BY <1>1, <2>4, ReadShift
  <2> QED
    BY <2>2, <2>5, EmptySeq
<1>9. Cardinality(ReadiesIn') \in Nat
  <2>1. DOMAIN toClient' = 1 .. Len(toClient') /\ Len(toClient') \in Nat
    BY <1>2 DEF WireTypes
  <2>2. ReadiesIn' \subseteq 1 .. Len(toClient')
    BY <2>1 DEF ReadiesIn
  <2> QED
    BY <2>1, <2>2, PartOfWire
<1> QED
  BY <1>1, <1>2, <1>3, <1>4, <1>5, <1>6, <1>7, <1>8, <1>9, ReadiesCount

\* What reading does to the order of things on the wires.
LEMMA ReadFlow ==
  ASSUME NEW p, NEW q, NEW x, Reading(p, q, x), ClientIn(x)',
         session'.sendOpen => session.sendOpen \/ Kind \in WritableCopy,
         Kind = "CopyInResponse" => session'.sendOpen
  PROVE  Flow(x, q)' /\ EndsInOrder' /\ NothingFollows' /\ CopyInIsOrdered'
<1>1. /\ Reads /\ toServer' = toServer /\ server' = server /\ Flow(p, q)
      /\ Leads(p, Kind, x) /\ Walk(toClient', x, q)
  BY DEF Reading
<1>2. /\ WireTypes /\ ExchangeInv /\ SessionInv /\ WireTypes' /\ SyncsIn' = SyncsIn
      /\ \A K : Brings(K) <=> Kind \in K \/ Brings(K)'
      /\ \A K : Sends(K)' <=> Sends(K)
      /\ Kind = "CopyInResponse" => toClient' = <<>> /\ ~Sends(Tags \ {"Sync"})
         /\ q \in {"in", "reads"}
  BY ReadingWires
<1>3. /\ Len(toClient) \in Nat \ {0} /\ DOMAIN toClient = 1 .. Len(toClient)
      /\ Head(toClient) = toClient[1] /\ Len(toClient') = Len(toClient) - 1
      /\ DOMAIN toClient' = 1 .. Len(toClient')
      /\ \A i \in 1 .. Len(toClient') : toClient'[i] = toClient[i + 1]
  BY <1>1, <1>2, ReadShift
<1>4. Kind = toClient[1].kind
  BY <1>3 DEF Kind
<1>5. /\ \A K : Kind = "CopyInResponse" => ~Brings(K)'
      /\ Kind = "CopyInResponse" => ~Sends(BatchTags \union {"Query"}) /\ ~Sends(EndTags)
         /\ ~Sends(CopyTags)
  <2>1. ASSUME Kind = "CopyInResponse", NEW K PROVE ~Brings(K)'
    BY <2>1, <1>2, EmptySeq DEF Brings
  <2>2. ~Sends(Tags \ {"Sync"}) => ~Sends(BatchTags \union {"Query"}) /\ ~Sends(EndTags)
         /\ ~Sends(CopyTags)
    BY DEF Sends, Tags, BatchTags, EndTags, CopyTags
  <2> QED
    BY <2>1, <2>2, <1>2
<1>6. Flow(x, q)'
  <2>1. x = "in" => Kind = "CopyInResponse"
    BY <1>1 DEF Leads
  <2>2. p \in BatchPhases <=> x \in BatchPhases
    BY <1>1 DEF Leads, BatchPhases
  <2>3. ServerIn(q)' <=> ServerIn(q)
    BY <1>1 DEF ServerIn
  <2>4. CommandsFit(q)' <=> CommandsFit(q)
    BY <1>1, <1>2 DEF CommandsFit
  <2>5. x = "in" => ~Sends(BatchTags \union {"Query"})' /\ Len(toClient') <= 1
                      /\ ~Brings({"CommandComplete"})'
    BY <2>1, <1>2, <1>5, EmptySeq
  <2> QED
    BY <1>1, <2>2, <2>3, <2>4, <2>5 DEF Flow
<1>7. EndsInOrder'
  <2>1. /\ session.sendOpen \/ Brings(WritableCopy) => ~Sends(EndTags)
        /\ session.sendOpen => ~Brings(WritableCopy \union {"CommandComplete"})
        /\ \A i, j \in DOMAIN toClient : i < j /\ toClient[i].kind \in WritableCopy =>
             toClient[j].kind \notin WritableCopy \union {"CommandComplete"}
        /\ \A i \in DOMAIN toClient : toClient[i].kind = "CopyBothResponse" => i = 1
    BY <1>2 DEF ExchangeInv, EndsInOrder
  <2>2. session'.sendOpen \/ Brings(WritableCopy)' => ~Sends(EndTags)'
    BY <2>1, <1>2
  <2>3. Kind \in WritableCopy => ~Brings(WritableCopy \union {"CommandComplete"})'
    <3>1. ASSUME Kind \in WritableCopy, NEW i \in DOMAIN toClient'
          PROVE  toClient'[i].kind \notin WritableCopy \union {"CommandComplete"}
      <4>1. 1 \in DOMAIN toClient /\ i + 1 \in DOMAIN toClient /\ 1 < i + 1
            /\ toClient'[i] = toClient[i + 1]
        BY <1>3
      <4> QED
        BY <4>1, <3>1, <2>1, <1>4
    <3> QED
      BY <3>1 DEF Brings
  <2>4. session'.sendOpen => ~Brings(WritableCopy \union {"CommandComplete"})'
    BY <2>1, <2>3, <1>2
  <2>5. \A i \in DOMAIN toClient' : i + 1 \in DOMAIN toClient
                                    /\ toClient'[i] = toClient[i + 1] /\ i + 1 # 1
    BY <1>3
  <2>6. \A i, j \in DOMAIN toClient' : i < j => i + 1 < j + 1
    BY <1>3
  <2>7. \A i, j \in DOMAIN toClient' : i < j /\ toClient'[i].kind \in WritableCopy =>
             toClient'[j].kind \notin WritableCopy \union {"CommandComplete"}
    BY <2>1, <2>5, <2>6
  <2>8. \A i \in DOMAIN toClient' : toClient'[i].kind = "CopyBothResponse" => i = 1
    BY <2>1, <2>5
  <2> QED
    BY <2>2, <2>4, <2>7, <2>8 DEF EndsInOrder
<1>8. NothingFollows'
  <2>1. ASSUME NEW i \in DOMAIN toClient', toClient'[i].kind = "CopyInResponse"
        PROVE  i = Len(toClient') /\ ~Sends(Tags \ {"Sync"})'
    <3>1. i + 1 \in DOMAIN toClient /\ toClient'[i] = toClient[i + 1]
      BY <1>3
    <3>2. i + 1 = Len(toClient) /\ ~Sends(Tags \ {"Sync"})
      BY <3>1, <2>1, <1>2 DEF ExchangeInv, NothingFollows
    <3> QED
      BY <3>2, <1>2, <1>3
  <2> QED
    BY <2>1, <1>1, <1>2 DEF ExchangeInv, NothingFollows
<1>9. CopyInIsOrdered'
  <2> SUFFICES ASSUME server = "copy_in", ~Brings({"CopyInResponse"})'
               PROVE  Kind = "CopyInResponse"
    <3>1. Kind = "CopyInResponse" /\ server = "copy_in" =>
            /\ session'.sendOpen
            /\ \A i \in DOMAIN toServer' : toServer'[i].tag \notin CopyTags
                 /\ toServer'[i].tag \notin EndTags
      BY <1>1, <1>5 DEF Sends
    <3> QED
      BY <3>1, <1>1 DEF CopyInIsOrdered
  <2>1. ASSUME ~Brings({"CopyInResponse"}) PROVE FALSE
    BY <2>1, <1>1, <1>2, BackendCopiesIn DEF Reads
  <2> QED
    BY <2>1, <1>2
<1> QED
  BY <1>6, <1>7, <1>8, <1>9

\* Why what is in flight need not end with a Sync, as far as the session says.
LooseSession ==
  \/ session.batchOpen \/ session.state = "Recovery_Required" \/ SimpleQueryRuns
  \/ session.origin = "Extended_Copy" /\ ~session.copySync

\* A response that neither ends a batch nor opens a COPY IN of one.
LEMMA CarriedKeeps ==
  ASSUME NEW p, NEW q, NEW x, Reading(p, q, x), SessionInv', NoDesynchronisation',
         ClientIn(x)', BatchInv',
         Kind # "ReadyForQuery",
         Kind = "CopyInResponse" => session'.sendOpen /\ SimpleQueryRuns,
         session'.sendOpen => session.sendOpen \/ Kind \in WritableCopy,
         session'.pending = session.pending, session'.batchOpen = session.batchOpen,
         SimpleQueryRuns' <=> SimpleQueryRuns,
         LooseSession => LooseSession'
         \/ (toServer = <<>> /\ server = "idle" /\ toClient' = <<>>)
  PROVE  WireInv'
<1>1. /\ Reads /\ toServer' = toServer /\ server' = server
      /\ SessionInv' /\ NoDesynchronisation' /\ x \in Phases /\ q \in Phases
  BY DEF Reading
<1>2. /\ WireTypes /\ ExchangeInv /\ WireTypes' /\ SyncsIn' = SyncsIn
      /\ Cardinality(ReadiesIn) = Cardinality(ReadiesIn')
      /\ \A K : Brings(K) <=> Kind \in K \/ Brings(K)'
  <2>1. Cardinality(ReadiesIn) = Cardinality(ReadiesIn') + 0
    BY ReadingWires
  <2>2. Cardinality(ReadiesIn') \in Nat
    BY ReadingWires
  <2> QED
    BY <2>1, <2>2, ReadingWires
<1>3. Flow(x, q)' /\ EndsInOrder' /\ NothingFollows' /\ CopyInIsOrdered'
  BY ReadFlow
<1>4. Counted'
  <2> SUFFICES ASSUME ~SimpleQueryRuns
               PROVE  IF Brings({"CopyInResponse"})'
                      THEN session.pending >=
                             Cardinality(ReadiesIn') + (IF session.batchOpen THEN 0 ELSE 1)
                      ELSE session.pending = ReadiesToCome'
    BY DEF Counted
  <2>1. Brings({"CopyInResponse"})' <=> Brings({"CopyInResponse"})
    BY <1>2
  <2>2. ReadiesToCome' = Cardinality(ReadiesIn') + Cardinality(SyncsIn')
    BY DEF ReadiesToCome, ReadiesIn, SyncsIn
  <2>3. ReadiesToCome = Cardinality(ReadiesIn) + Cardinality(SyncsIn)
    BY DEF ReadiesToCome, ReadiesIn, SyncsIn
  <2> QED
    BY <2>1, <2>2, <2>3, <1>2 DEF ExchangeInv, Counted
<1>5. EndsBySync'
  <2>1. CASE LooseSession'
    BY <2>1 DEF LooseSession, EndsBySync, Loose
  <2>2. CASE toServer = <<>> /\ server = "idle" /\ toClient' = <<>>
    BY <2>2, <1>1, EmptySeq DEF EndsBySync
  <2>3. CASE ~LooseSession
    <3> SUFFICES ASSUME ~Loose'
                 PROVE  /\ \A i \in DOMAIN toServer' : toServer'[i].tag \in BatchTags =>
                             \E j \in DOMAIN toServer' : j > i /\ toServer'[j].tag = "Sync"
                        /\ server' # "idle" => SyncsIn' # {}
                        /\ toClient' # <<>> =>
                             SyncsIn' # {} \/ toClient'[Len(toClient')].kind = "ReadyForQuery"
      BY DEF EndsBySync
    <3>1. ~Loose
      <4>1. Kind # "CopyInResponse"
        BY <2>3 DEF LooseSession
      <4>2. ~Brings({"CopyInResponse"})
        BY <4>1, <1>2 DEF Loose
      <4> QED
        BY <4>2, <2>3 DEF Loose, LooseSession
    <3>2. ASSUME toClient' # <<>> PROVE toClient'[Len(toClient')] = toClient[Len(toClient)]
                 /\ toClient # <<>>
      <4>1. /\ toClient' \in Seq(Responses) /\ Len(toClient') = Len(toClient) - 1
               /\ Len(toClient) \in Nat \ {0}
            /\ \A i \in 1 .. Len(toClient') : toClient'[i] = toClient[i + 1]
        BY <1>1, <1>2, ReadShift
      <4>2. Len(toClient') # 0
        BY <3>2, <4>1, EmptySeq
      <4>3. Len(toClient') \in 1 .. Len(toClient') /\ Len(toClient') + 1 = Len(toClient)
        BY <4>1, <4>2
      <4>4. toClient # <<>>
        BY <1>1 DEF Reads
      <4> QED
        BY <4>1, <4>3, <4>4
    <3> QED
      BY <3>1, <3>2, <1>1, <1>2 DEF ExchangeInv, EndsBySync
  <2> QED
    BY <2>1, <2>2, <2>3
<1> QED
  BY <1>1, <1>2, <1>3, <1>4, <1>5 DEF WireInv, ExchangeInv

\* What is read from a batch has a Sync that was sent, or one that will be.
LEMMA BatchReading ==
  ASSUME NEW p \in BatchPhases, NEW q, NEW x, Reading(p, q, x)
  PROVE  /\ ~SimpleQueryRuns /\ session.pending \in Nat
         /\ session.state \notin {"Ready", "Recovery_Required"}
         /\ Kind = "ReadyForQuery" => session.pending > 0
         /\ \/ session.pending > 0 \/ session.batchOpen
            \/ session.origin = "Extended_Copy" /\ ~session.copySync
<1>1. /\ WireInv /\ WireTypes /\ ExchangeInv /\ SessionInv /\ Reads /\ ClientIn(p)
         /\ Leads(p, Kind, x)
      /\ session.state # "Closed"
  BY ReadingWires DEF Reading, Flow
<1>2. ~SimpleQueryRuns
  BY <1>1, BatchIsNoQuery
<1>3. session.pending \in Nat
  BY <1>1 DEF SessionInv, TypeOK, Sessions
<1>4. session.state # "Ready"
  BY <1>1, QuietWhenReady DEF ReadyMeansQuiet, Reads
<1>5. /\ Cardinality(ReadiesIn) \in Nat /\ (Cardinality(ReadiesIn) = 0 <=> ReadiesIn = {})
      /\ Cardinality(SyncsIn) \in Nat /\ (Cardinality(SyncsIn) = 0 <=> SyncsIn = {})
      /\ ReadiesToCome = Cardinality(ReadiesIn) + Cardinality(SyncsIn)
  BY <1>1, ReadiesCount
<1>6. ReadiesIn # {} => session.pending > 0
  BY <1>1, <1>2, <1>3, <1>5 DEF ExchangeInv, Counted
<1>7. /\ Len(toClient) \in Nat \ {0} /\ DOMAIN toClient = 1 .. Len(toClient)
         /\ Kind = toClient[1].kind
  BY <1>1, ReadShift DEF Kind
<1>8. Kind = "ReadyForQuery" => ReadiesIn # {}
  <2>1. 1 \in DOMAIN toClient
    BY <1>7
  <2> QED
    BY <2>1, <1>7 DEF ReadiesIn
<1>9. session.state # "Recovery_Required"
  <2>1. ASSUME session.state = "Recovery_Required" PROVE FALSE
    <3>1. session.pending = 0 /\ session.origin = "No_Copy"
      BY <2>1, <1>1, OutsideCopyFlags DEF ExchangeInv, BatchInv
    <3>2. p = "failed"
      BY <2>1, <3>1, <1>1 DEF ClientIn, CopyIsOver, BatchPhases
    <3>3. Kind = "ReadyForQuery"
      BY <3>2, <1>1 DEF Leads
    <3> QED
      BY <3>1, <3>3, <1>6, <1>8
  <2> QED
    BY <2>1
<1>10. ASSUME session.pending = 0, ~session.batchOpen,
              ~(session.origin = "Extended_Copy" /\ ~session.copySync)
       PROVE  FALSE
  <2>1. ReadiesIn = {} /\ ~Brings({"CopyInResponse"}) /\ SyncsIn = {}
    BY <1>1, <1>2, <1>5, <1>6, <1>10 DEF ExchangeInv, Counted
  <2>2. ~Loose
    BY <2>1, <1>2, <1>9, <1>10 DEF Loose
  <2>3. toClient[Len(toClient)].kind = "ReadyForQuery"
    BY <2>1, <2>2, <1>1 DEF ExchangeInv, EndsBySync, Reads
  <2>4. Len(toClient) \in DOMAIN toClient
    BY <1>7
  <2>5. Len(toClient) \in ReadiesIn
    BY <2>3, <2>4 DEF ReadiesIn
  <2> QED
    BY <2>1, <2>5
<1> QED
  BY <1>2, <1>3, <1>4, <1>6, <1>8, <1>9, <1>10

\* A batch is over: what Complete_Synchronization does when a Sync is pending.
Completes ==
  /\ session'.pending = session.pending - 1 /\ session'.batchOpen = session.batchOpen
  /\ session'.pipelined = session.pipelined
  /\ session'.origin = "No_Copy" /\ ~session'.sendOpen /\ ~session'.copySync
  /\ IF session.batchOpen
     THEN session'.state = session.state
     ELSE /\ ~session'.bound /\ ~session'.suspended
          /\ session'.state = IF session.pending > 1 THEN "Awaiting_Ready" ELSE "Ready"

LEMMA CompletedKeeps ==
  ASSUME NEW p \in BatchPhases, NEW q, NEW x, Reading(p, q, x), SessionInv',
         NoDesynchronisation', Kind = "ReadyForQuery", Completes
  PROVE  WireInv'
<1>1. /\ toServer' = toServer /\ server' = server /\ ClientIn(p) /\ Leads(p, Kind, x)
      /\ SessionInv' /\ NoDesynchronisation' /\ x \in Phases /\ q \in Phases /\ Reads
  BY DEF Reading, Flow
<1>2. /\ WireTypes /\ ExchangeInv /\ SessionInv /\ WireTypes' /\ SyncsIn' = SyncsIn
      /\ Cardinality(ReadiesIn') \in Nat /\ Cardinality(SyncsIn) \in Nat
      /\ Cardinality(ReadiesIn) = Cardinality(ReadiesIn') + 1
      /\ \A K : Brings(K) <=> Kind \in K \/ Brings(K)'
  <2>1. (IF Kind = "ReadyForQuery" THEN 1 ELSE 0) = 1
    OBVIOUS
  <2> QED
    BY <2>1, ReadingWires
<1>3. /\ ~SimpleQueryRuns /\ session.pending \in Nat /\ session.pending > 0
      /\ session.state \notin {"Ready", "Recovery_Required"}
  BY BatchReading
<1>4. x = "flat" /\ p \in {"flat", "failed"}
  BY <1>1 DEF Leads, BatchPhases
<1>5. session.state \in {"Extended_Query_Active", "Awaiting_Ready"}
  BY <1>1, <1>3, <1>4 DEF ClientIn, CopyIsOver
<1>6. BatchInv
  BY <1>2 DEF ExchangeInv
<1>7. session'.state \in {"Ready", "Extended_Query_Active", "Awaiting_Ready"}
  BY <1>5 DEF Completes
<1>8. ClientIn(x)'
  BY <1>4, <1>7 DEF Completes, ClientIn
<1>9. BatchInv'
  BY <1>3, <1>5, <1>6 DEF BatchInv, Completes
<1>10. Flow(x, q)' /\ EndsInOrder' /\ NothingFollows' /\ CopyInIsOrdered'
  BY <1>8, ReadFlow DEF Completes
<1>11. ~SimpleQueryRuns'
  BY <1>7 DEF SimpleQueryRuns, Completes
<1>12. Counted'
  <2>1. Brings({"CopyInResponse"})' <=> Brings({"CopyInResponse"})
    BY <1>2
  <2>2. ReadiesToCome' = Cardinality(ReadiesIn') + Cardinality(SyncsIn')
    BY DEF ReadiesToCome, ReadiesIn, SyncsIn
  <2>3. ReadiesToCome = Cardinality(ReadiesIn) + Cardinality(SyncsIn)
    BY DEF ReadiesToCome, ReadiesIn, SyncsIn
  <2>4. IF Brings({"CopyInResponse"})
        THEN session.pending >= Cardinality(ReadiesIn) + (IF session.batchOpen THEN 0 ELSE 1)
        ELSE session.pending = ReadiesToCome
    BY <1>2, <1>3 DEF ExchangeInv, Counted
  <2>5. session'.pending = session.pending - 1 /\ session'.batchOpen = session.batchOpen
    BY DEF Completes
  <2>6. CASE Brings({"CopyInResponse"})
    <3>1. session.pending - 1 >= Cardinality(ReadiesIn') + (IF session.batchOpen THEN 0 ELSE 1)
      BY <2>4, <2>6, <1>2, <1>3
    <3> QED
      BY <3>1, <2>1, <2>5, <2>6 DEF Counted
  <2>7. CASE ~Brings({"CopyInResponse"})
    <3>1. session.pending - 1 = ReadiesToCome'
      BY <2>2, <2>3, <2>4, <2>7, <1>2, <1>3
    <3> QED
      BY <3>1, <2>1, <2>5, <2>7 DEF Counted
  <2> QED
    BY <2>6, <2>7
<1>13. EndsBySync'
  <2> SUFFICES ASSUME ~Loose'
               PROVE  /\ \A i \in DOMAIN toServer' : toServer'[i].tag \in BatchTags =>
                           \E j \in DOMAIN toServer' : j > i /\ toServer'[j].tag = "Sync"
                      /\ server' # "idle" => SyncsIn' # {}
                      /\ toClient' # <<>> =>
                           SyncsIn' # {} \/ toClient'[Len(toClient')].kind = "ReadyForQuery"
    BY DEF EndsBySync
  <2>1. ~Loose
    <3>1. ~Brings({"CopyInResponse"}) /\ ~session.batchOpen
      BY <1>2 DEF Loose, Completes
    <3>2. ~(session.origin = "Extended_Copy" /\ ~session.copySync)
      BY <1>3, <1>6 DEF BatchInv
    <3> QED
      BY <3>1, <3>2, <1>3 DEF Loose
  <2>2. ASSUME toClient' # <<>> PROVE toClient'[Len(toClient')] = toClient[Len(toClient)]
               /\ toClient # <<>>
    <3>1. /\ toClient' \in Seq(Responses) /\ Len(toClient') = Len(toClient) - 1
             /\ Len(toClient) \in Nat \ {0}
          /\ \A i \in 1 .. Len(toClient') : toClient'[i] = toClient[i + 1]
      BY <1>1, <1>2, ReadShift
    <3>2. Len(toClient') # 0
      BY <2>2, <3>1, EmptySeq
    <3>3. Len(toClient') \in 1 .. Len(toClient') /\ Len(toClient') + 1 = Len(toClient)
      BY <3>1, <3>2
    <3>4. toClient # <<>>
      BY <1>1 DEF Reads
    <3> QED
      BY <3>1, <3>3, <3>4
  <2> QED
    BY <2>1, <2>2, <1>1, <1>2 DEF ExchangeInv, EndsBySync
<1> QED
  BY <1>1, <1>2, <1>9, <1>10, <1>12, <1>13 DEF WireInv, ExchangeInv

\* A simple query is over, and everything is at rest.
LEMMA QueryOverKeeps ==
  ASSUME NEW p, NEW q, NEW x, Reading(p, q, x), SessionInv', NoDesynchronisation', p = "over",
         session'.state = "Ready", session'.pipelined = session.pipelined
  PROVE  WireInv'
<1>1. /\ toServer' = toServer /\ server' = server /\ ClientIn(p) /\ Leads(p, Kind, x)
      /\ Walk(toClient', x, q) /\ ServerIn(q) /\ CommandsFit(q)
      /\ SessionInv' /\ NoDesynchronisation'
  BY DEF Reading, Flow
<1>2. WireTypes /\ SessionInv /\ WireTypes' /\ ExchangeInv
  BY ReadingWires
<1>3. x = "quiet"
  BY <1>1 DEF Leads
<1>4. toClient' = <<>>
  <2>1. ASSUME toClient' # <<>> PROVE FALSE
    <3>1. toClient' \in Seq(Responses)
      BY <1>2 DEF WireTypes
    <3>2. \E y \in Phases : Leads(x, Head(toClient').kind, y)
      BY <2>1, <3>1, <1>1, WalkFirst
    <3> QED
      BY <3>2, <1>3 DEF Leads
  <2> QED
    BY <2>1
<1>5. q = "quiet"
  BY <1>1, <1>3, <1>4, WalkNowhere DEF Phases, QueryPhases
<1>6. ~Sends(BatchTags \union {"Sync", "Query"}) /\ server = "idle"
  BY <1>1, <1>5 DEF CommandsFit, ServerIn
<1>7. \A i \in DOMAIN toServer' : toServer'[i].tag \notin BatchTags \union {"Sync", "Query"}
  BY <1>1, <1>6 DEF Sends
<1>8. /\ session'.pending = 0 /\ ~session'.batchOpen /\ ~session'.bound /\ ~session'.suspended
      /\ session'.origin = "No_Copy" /\ ~session'.sendOpen
  BY <1>1 DEF SessionInv, ReadyIsClean, OriginFits, BothClosed
<1>9. DOMAIN toClient' = {} /\ Len(toClient') = 0
  BY <1>4, EmptySeq
<1>10. ~SimpleQueryRuns'
  BY <1>8 DEF SimpleQueryRuns
<1>11. Flow("flat", "flat")'
  <2>1. Walk(toClient', "flat", "flat")
    BY <1>4, WalkNowhere DEF Phases, BatchPhases
  <2>2. ClientIn("flat")' /\ ServerIn("flat")'
    BY <1>1, <1>6, <1>8 DEF ClientIn, ServerIn
  <2>3. CommandsFit("flat")'
    BY <1>7 DEF CommandsFit, Sends
  <2> QED
    BY <2>1, <2>2, <2>3 DEF Flow
<1>12. \A K : ~Brings(K)'
  BY <1>9 DEF Brings
<1>13. EndsInOrder'
  BY <1>8, <1>9, <1>12 DEF EndsInOrder
<1>14. NothingFollows'
  BY <1>7, <1>9 DEF NothingFollows, BatchTags
<1>15. CopyInIsOrdered'
  BY <1>1, <1>6 DEF CopyInIsOrdered
<1>16. Counted'
  <2>1. ReadiesIn' = {} /\ SyncsIn' = {}
    BY <1>7, <1>9 DEF ReadiesIn, SyncsIn
  <2>2. ReadiesToCome' = Cardinality(ReadiesIn') + Cardinality(SyncsIn')
    BY DEF ReadiesToCome, ReadiesIn, SyncsIn
  <2>3. Cardinality({}) = 0
    BY FS_EmptySet
  <2>4. ReadiesToCome' = 0
    BY <2>1, <2>2, <2>3
  <2> QED
    BY <2>4, <1>8, <1>12 DEF Counted
<1>17. BatchInv'
  BY <1>8 DEF BatchInv
<1>18. EndsBySync'
  BY <1>1, <1>4, <1>6, <1>7 DEF EndsBySync
<1>19. "flat" \in Phases
  BY DEF Phases, BatchPhases
<1> QED
  BY <1>1, <1>2, <1>11, <1>13, <1>14, <1>15, <1>16, <1>17, <1>18, <1>19 DEF WireInv, ExchangeInv

\* The session refuses COPY in a pipeline.
LEMMA RefusedKeeps ==
  ASSUME NEW p, NEW q, NEW x, Reading(p, q, x), SessionInv', NoDesynchronisation',
         session'.state = "Closed"
  PROVE  WireInv'
BY ReadingWires DEF Reading, WireInv

-----------------------------------------------------------------------------
(* What a response does to the session, a lemma per effect.                *)

\* Neither the state nor the COPY changes; the portal may be suspended.
Stays ==
  /\ session'.state = session.state
  /\ session'.origin = session.origin /\ session'.sendOpen = session.sendOpen
  /\ session'.recvOpen = session.recvOpen /\ session'.bidir = session.bidir
  /\ session'.copySync = session.copySync
  /\ session'.pending = session.pending /\ session'.batchOpen = session.batchOpen
  /\ session'.pipelined = session.pipelined
  /\ session'.bound => session.bound
  /\ session'.suspended => session.suspended \/ session.pending = 0

LEMMA StaysKeeps ==
  ASSUME NEW p, NEW q, NEW x, Reading(p, q, x), SessionInv', NoDesynchronisation', Stays,
         Kind \notin CopyResponses \union {"ReadyForQuery", "CopyDone"},
         Kind \in {"CommandComplete", "Error"} =>
           session.state \in {"Extended_Query_Active", "Awaiting_Ready", "Simple_Query_Active"},
         Kind = "Error" => session.pending > 0 \/ session.state = "Simple_Query_Active"
  PROVE  WireInv'
<1>1. ExchangeInv /\ SessionInv /\ ClientIn(p) /\ Leads(p, Kind, x)
  BY ReadingWires DEF Reading, Flow
<1>2. BatchInv'
  BY <1>1 DEF ExchangeInv, BatchInv, Stays
<1>3. SimpleQueryRuns' <=> SimpleQueryRuns
  BY DEF SimpleQueryRuns, Stays
<1>4. LooseSession' <=> LooseSession
  BY <1>3 DEF LooseSession, Stays
<1>5. session.state \in {"Extended_Query_Active", "Awaiting_Ready", "Simple_Query_Active"} =>
      ~session.sendOpen
  BY <1>1 DEF SessionInv, CopyFlagsAgree
<1>6. ClientIn(x)'
  <2>1. CASE Kind \notin {"CommandComplete", "Error"}
    <3>1. \/ x = p /\ p \in {"flat", "out", "rows", "copies", "both"}
          \/ p = "asked" /\ x = "rows"
          \/ p = "late" /\ x = "last"
      BY <2>1, <1>1 DEF Leads, CopyResponses
    <3> QED
      BY <3>1, <1>1 DEF ClientIn, CopyIsOver, BothClosed, Stays
  <2>2. CASE Kind = "CommandComplete"
    <3>1. \/ x = "flat" /\ p \in {"flat", "done", "in"}
          \/ x = "over" /\ p \in {"asked", "rows", "reads", "copied", "half", "last"}
      BY <2>2, <1>1 DEF Leads
    <3>2. session.state \in {"Extended_Query_Active", "Awaiting_Ready", "Simple_Query_Active"}
      BY <2>2
    <3>3. CASE x = "flat"
      BY <3>1, <3>2, <3>3, <1>1, <1>5 DEF ClientIn, CopyIsOver, BothClosed, Stays
    <3>4. CASE x = "over"
      BY <3>1, <3>2, <3>4, <1>1 DEF ClientIn, Stays
    <3> QED
      BY <3>1, <3>3, <3>4
  <2>3. CASE Kind = "Error"
    <3>1. \/ x = "failed" /\ p \in {"flat", "out", "in"}
          \/ x = "over" /\ p \in {"asked", "reads", "copies", "both", "half"}
      BY <2>3, <1>1 DEF Leads
    <3>2. session.state \in {"Extended_Query_Active", "Awaiting_Ready", "Simple_Query_Active"}
      BY <2>3
    <3>3. CASE x = "failed"
      BY <3>1, <3>2, <3>3, <2>3, <1>1 DEF ClientIn, CopyIsOver, Stays
    <3>4. CASE x = "over"
      BY <3>1, <3>2, <3>4, <1>1 DEF ClientIn, Stays
    <3> QED
      BY <3>1, <3>3, <3>4
  <2> QED
    BY <2>1, <2>2, <2>3
<1> QED
  BY <1>2, <1>3, <1>4, <1>6, CarriedKeeps DEF Stays, CopyResponses

\* COPY never runs in a pipelined session, nor with a second batch open.
LEMMA CopyAlone ==
  ASSUME SessionInv, BatchInv, session.origin # "No_Copy"
  PROVE  /\ ~session.pipelined /\ session.pending \in Nat /\ session.pending <= 1
         /\ session.pending > 0 => ~session.batchOpen
         /\ session.copySync => session.pending > 0 /\ session.origin = "Extended_Copy"
BY DEF SessionInv, PipelineExcludesCopy, BatchInv, CopySyncIsPending, TypeOK, Sessions

\* A COPY BOTH whose backend has ended its stream first completes.
LEMMA LateCompletes ==
  ASSUME NEW p, NEW q, NEW x, Reading(p, q, x), x = "late"
  PROVE  Brings({"CommandComplete"})
<1>1. WireTypes' /\ Walk(toClient', x, q) /\ ServerIn(q) /\ \A K : Brings(K) <=> Kind \in K
      \/ Brings(K)'
  BY ReadingWires DEF Reading, Flow
<1>2. toClient' \in Seq(Responses) /\ q \notin {"late", "last"} /\ "late" \in Phases
      /\ "last" \in Phases
  BY <1>1 DEF WireTypes, ServerIn, Phases, QueryPhases
<1>3. toClient' # <<>>
  BY <1>1, <1>2, WalkNowhere
<1>4. PICK y \in Phases : Leads(x, Head(toClient').kind, y) /\ Walk(Tail(toClient'), y, q)
  BY <1>1, <1>2, <1>3, WalkFirst
<1>5. y = "last"
  BY <1>4 DEF Leads
<1>6. Tail(toClient') \in Seq(Responses) /\ Tail(toClient') # <<>>
  <2>1. Tail(toClient') \in Seq(Responses)
    BY <1>2, <1>3, HeadTailProperties
  <2>2. Tail(toClient') # <<>>
    BY <1>2, <1>4, <1>5, WalkNowhere
  <2> QED
    BY <2>1, <2>2
<1>7. \E z \in Phases : Leads(y, Head(Tail(toClient')).kind, z)
  BY <1>4, <1>6, WalkFirst
<1>8. Head(Tail(toClient')).kind = "CommandComplete"
  BY <1>5, <1>7 DEF Leads
<1>9. 2 \in DOMAIN toClient' /\ Head(Tail(toClient')) = toClient'[2]
  <2>1. /\ Len(toClient') \in Nat \ {0} /\ Len(Tail(toClient')) = Len(toClient') - 1
        /\ \A i \in 1 .. Len(Tail(toClient')) : Tail(toClient')[i] = toClient'[i + 1]
    BY <1>2, <1>3, EmptySeq, HeadTailProperties
  <2>2. Len(Tail(toClient')) \in Nat \ {0}
    BY <1>6, EmptySeq
  <2>3. Head(Tail(toClient')) = Tail(toClient')[1]
    BY <1>6, <2>2
  <2>4. 1 \in 1 .. Len(Tail(toClient')) /\ 2 \in 1 .. Len(toClient')
    BY <2>1, <2>2
  <2>5. Tail(toClient')[1] = toClient'[2]
    BY <2>1, <2>4
  <2> QED
    BY <2>3, <2>4, <2>5, <1>2
<1>10. Brings({"CommandComplete"})'
  BY <1>8, <1>9 DEF Brings
<1> QED
  BY <1>1, <1>10

\* The backend's stream ended.
LEMMA StreamEndKeeps ==
  ASSUME NEW p, NEW q, NEW x, Reading(p, q, x), SessionInv', NoDesynchronisation',
         Kind = "CopyDone",
         session'.state = IF session.sendOpen THEN session.state ELSE "Copy_Completion_Active",
         session'.origin = session.origin, session'.sendOpen = session.sendOpen,
         ~session'.recvOpen, session'.bidir = session.bidir,
          session'.copySync = session.copySync,
         session'.pending = session.pending, session'.batchOpen = session.batchOpen,
         session'.pipelined = session.pipelined, session'.bound = session.bound,
         session'.suspended = session.suspended
  PROVE  WireInv'
<1>1. ExchangeInv /\ SessionInv /\ ClientIn(p) /\ Leads(p, Kind, x) /\ BatchInv
  BY ReadingWires DEF Reading, Flow, ExchangeInv
<1>2. \/ p = "out" /\ x = "done"
      \/ p = "copies" /\ x = "copied"
      \/ p = "both" /\ x \in {"half", "late"}
  BY <1>1 DEF Leads
<1>3. session.origin # "No_Copy"
      /\ session.state \notin {"Recovery_Required", "Simple_Query_Active", "Extended_Query_Active"}
  BY <1>1, <1>2 DEF ClientIn
<1>4. p \in {"out", "copies"} => ~session.sendOpen
  BY <1>1 DEF ClientIn, SessionInv, CopyFlagsAgree
<1>5. x = "late" => ~session.sendOpen
  BY <1>1, LateCompletes DEF ExchangeInv, EndsInOrder, Brings
<1>6. ClientIn(x)'
  BY <1>1, <1>2, <1>4, <1>5 DEF ClientIn, BothClosed
<1>7. BatchInv'
  BY <1>1, <1>3 DEF BatchInv
<1>8. SimpleQueryRuns' <=> SimpleQueryRuns
  BY <1>3 DEF SimpleQueryRuns
<1>9. LooseSession => LooseSession'
  BY <1>3, <1>8 DEF LooseSession
<1> QED
  BY <1>6, <1>7, <1>8, <1>9, CarriedKeeps

\* What ends a COPY leaves alone.
KeepsBatch ==
  /\ session'.pending = session.pending /\ session'.batchOpen = session.batchOpen
  /\ session'.pipelined = session.pipelined
  /\ session'.bound => session.bound
  /\ session'.suspended => session.suspended

CopyIsReset ==
  /\ session'.origin = "No_Copy" /\ ~session'.sendOpen /\ ~session'.recvOpen
  /\ ~session'.bidir /\ ~session'.copySync

\* COPY completed, and the client has sent all it had to.
LEMMA CopyCompletedKeeps ==
  ASSUME NEW p, NEW q, NEW x, Reading(p, q, x), SessionInv', NoDesynchronisation',
         Kind = "CommandComplete", KeepsBatch,
         session.origin # "No_Copy",
         \/ session.origin = "Simple_Copy" /\ CopyIsReset
            /\ session'.state = "Simple_Query_Active"
         \/ /\ session.copySync /\ session'.state = "Awaiting_Ready"
            /\ session'.origin = session.origin /\ session'.copySync = session.copySync
            /\ session'.sendOpen = session.sendOpen /\ session'.recvOpen = session.recvOpen
         \/ /\ session.origin = "Extended_Copy" /\ ~session.copySync
            /\ CopyIsReset /\ session'.state = "Extended_Query_Active"
  PROVE  WireInv'
<1>1. /\ ExchangeInv /\ SessionInv /\ ClientIn(p) /\ Leads(p, Kind, x) /\ BatchInv /\ WireTypes
      /\ Flow(p, q) /\ Walk(toClient', x, q) /\ Reads /\ q \in Phases /\ x \in Phases
      /\ Brings({"CommandComplete"})
  BY ReadingWires DEF Reading, Flow, ExchangeInv
<1>2. /\ ~session.pipelined /\ session.pending \in Nat /\ session.pending <= 1
      /\ session.pending > 0 => ~session.batchOpen
      /\ session.copySync => session.pending > 0 /\ session.origin = "Extended_Copy"
  BY <1>1, CopyAlone
<1>3. ~session.sendOpen
  BY <1>1 DEF ExchangeInv, EndsInOrder, Brings
<1>4. \/ x = "flat" /\ p \in {"flat", "done", "in"}
      \/ x = "over" /\ p \in {"asked", "rows", "reads", "copied", "half", "last"}
  BY <1>1 DEF Leads
<1>5. x = "over" => session.origin = "Simple_Copy"
  <2>1. session.state = "Simple_Query_Active" => session.origin = "No_Copy"
    BY <1>1, OutsideCopyFlags
  <2> QED
    BY <2>1, <1>1, <1>4 DEF ClientIn
<1>6. x = "flat" => session.origin = "Extended_Copy" /\ ~session.recvOpen
  BY <1>1, <1>4 DEF ClientIn, CopyIsOver, BothClosed
<1>7. ClientIn(x)'
  BY <1>2, <1>3, <1>4, <1>5, <1>6 DEF ClientIn, CopyIsOver, BothClosed, CopyIsReset
<1>8. BatchInv'
  BY <1>1, <1>2, <1>3 DEF BatchInv, KeepsBatch, CopyIsReset
<1>9. SimpleQueryRuns' <=> SimpleQueryRuns
  <2>1. session.state = "Simple_Query_Active" => session.origin = "No_Copy"
    BY <1>1, OutsideCopyFlags
  <2> QED
    BY <2>1, <1>2 DEF SimpleQueryRuns, CopyIsReset
<1>10. session.state # "Recovery_Required"
  BY <1>1, OutsideCopyFlags
<1>11. ASSUME session.origin = "Extended_Copy", ~session.copySync, ~session.batchOpen
       PROVE  toServer = <<>> /\ server = "idle" /\ toClient' = <<>>
  <2>1. x = "flat"
    BY <1>4, <1>11, <1>5
  <2>2. p = "in"
    <3>1. p # "flat"
      <4>1. p = "flat" => CopyIsOver
        BY <1>1, <1>11 DEF ClientIn
      <4>2. session.state = "Awaiting_Ready" => session.pending > 0
        BY <1>1 DEF BatchInv
      <4>3. session.pending = 0
        BY <1>1, <1>11 DEF BatchInv
      <4> QED
        BY <4>1, <4>2, <4>3 DEF CopyIsOver
    <3> QED
      BY <3>1, <2>1, <1>1, <1>4, <1>11 DEF ClientIn
  <2>3. Len(toClient) <= 1 /\ toServer = <<>>
    BY <2>2, <1>1, <1>11 DEF Flow
  <2>4. toClient' = <<>>
    <3>1. toClient' \in Seq(Responses) /\ Len(toClient') = 0
      BY <2>3, <1>1, ReadShift
    <3> QED
      BY <3>1, EmptySeq
  <2>5. q = "flat"
    BY <2>1, <2>4, <1>1, WalkNowhere
  <2>6. server = "idle"
    BY <2>5, <1>1 DEF Flow, ServerIn
  <2> QED
    BY <2>3, <2>4, <2>6
<1>12. LooseSession => LooseSession' \/ (toServer = <<>> /\ server = "idle" /\ toClient' = <<>>)
  BY <1>9, <1>10, <1>11 DEF LooseSession, KeepsBatch
<1>13. session'.sendOpen => session.sendOpen
  BY DEF CopyIsReset
<1> QED
  BY <1>7, <1>8, <1>9, <1>12, <1>13, CarriedKeeps DEF KeepsBatch

\* COPY failed.
LEMMA CopyFailedKeeps ==
  ASSUME NEW p, NEW q, NEW x, Reading(p, q, x), SessionInv', NoDesynchronisation',
         Kind = "Error", KeepsBatch,
         session.origin # "No_Copy", session'.sendOpen => session.sendOpen,
         \/ /\ session.origin = "Simple_Copy" /\ session'.state = "Copy_Completion_Active"
            /\ session'.origin = session.origin /\ session'.copySync = session.copySync
         \/ /\ session.copySync /\ session'.state = "Awaiting_Ready"
            /\ session'.origin = session.origin /\ session'.copySync = session.copySync
         \/ /\ session.origin = "Extended_Copy" /\ ~session.copySync
            /\ CopyIsReset /\ session'.state = "Recovery_Required"
  PROVE  WireInv'
<1>1. /\ ExchangeInv /\ SessionInv /\ ClientIn(p) /\ Leads(p, Kind, x) /\ BatchInv
  BY ReadingWires DEF Reading, Flow, ExchangeInv
<1>2. /\ ~session.pipelined /\ session.pending \in Nat /\ session.pending <= 1
      /\ session.pending > 0 => ~session.batchOpen
      /\ session.copySync => session.pending > 0 /\ session.origin = "Extended_Copy"
  BY <1>1, CopyAlone
<1>3. \/ x = "failed" /\ p \in {"flat", "out", "in"}
      \/ x = "over" /\ p \in {"asked", "reads", "copies", "both", "half"}
  BY <1>1 DEF Leads
<1>4. session.state \notin {"Simple_Query_Active", "Recovery_Required"}
  BY <1>1, OutsideCopyFlags
<1>5. ClientIn(x)'
  BY <1>1, <1>2, <1>3, <1>4 DEF ClientIn, CopyIsOver
<1>6. BatchInv'
  BY <1>1, <1>2 DEF BatchInv, KeepsBatch, CopyIsReset
<1>7. SimpleQueryRuns' <=> SimpleQueryRuns
  BY <1>2, <1>4 DEF SimpleQueryRuns, CopyIsReset
<1>8. LooseSession => LooseSession'
  BY <1>4, <1>7 DEF LooseSession, KeepsBatch
<1> QED
  BY <1>5, <1>6, <1>7, <1>8, CarriedKeeps DEF KeepsBatch

\* The open batch failed, and no Sync is there to resume after.
LEMMA BatchFailedKeeps ==
  ASSUME NEW p, NEW q, NEW x, Reading(p, q, x), SessionInv', NoDesynchronisation',
         Kind = "Error", KeepsBatch,
         session.state = "Extended_Query_Active", session.pending = 0,
         session'.state = "Recovery_Required",
         session'.origin = session.origin, session'.sendOpen = session.sendOpen,
         session'.copySync = session.copySync
  PROVE  WireInv'
<1>1. /\ ExchangeInv /\ SessionInv /\ ClientIn(p) /\ Leads(p, Kind, x) /\ BatchInv
  BY ReadingWires DEF Reading, Flow, ExchangeInv
<1>2. session.origin = "No_Copy" /\ ~session.sendOpen
  BY <1>1, OutsideCopyFlags
<1>3. x = "failed"
  <2>1. \/ x = "failed" /\ p \in {"flat", "out", "in"}
        \/ x = "over" /\ p \in {"asked", "reads", "copies", "both", "half"}
    BY <1>1 DEF Leads
  <2> QED
    BY <2>1, <1>1, <1>2 DEF ClientIn
<1>4. ClientIn(x)'
  BY <1>3 DEF ClientIn
<1>5. BatchInv'
  BY <1>1, <1>2 DEF BatchInv, KeepsBatch
<1>6. SimpleQueryRuns' <=> SimpleQueryRuns
  BY <1>2 DEF SimpleQueryRuns
<1>7. LooseSession'
  BY DEF LooseSession
<1> QED
  BY <1>2, <1>4, <1>5, <1>6, <1>7, CarriedKeeps DEF KeepsBatch

-----------------------------------------------------------------------------
(* A COPY response.                                                        *)

\* The session as EnterCopy leaves it.
LEMMA EnteredFields ==
  ASSUME session \in Sessions, Kind \in CopyResponses, NEW origin, NEW syncPending \in BOOLEAN,
         session' = EnterCopy(session, Kind, origin, syncPending)
  PROVE  /\ session'.origin = origin
         /\ session'.copySync <=> syncPending /\ Kind \notin WritableCopy
         /\ session'.sendOpen <=> Kind \in WritableCopy
         /\ session'.recvOpen <=> Kind # "CopyInResponse"
         /\ session'.bidir <=> Kind = "CopyBothResponse"
         /\ Kind = "CopyInResponse" => session'.state = "Copy_In_Active"
         /\ Kind = "CopyOutResponse" => session'.state = "Copy_Out_Active"
         /\ Kind = "CopyBothResponse" => session'.state = "Copy_Both_Active"
         /\ session'.pending = IF origin = "Extended_Copy" /\ syncPending
            /\ Kind \in WritableCopy
                               THEN session.pending - 1 ELSE session.pending
         /\ session'.batchOpen = session.batchOpen /\ session'.pipelined = session.pipelined
         /\ session'.bound = session.bound /\ session'.suspended = session.suspended
BY DEF EnterCopy, Sessions, CopyResponses, WritableCopy

\* A COPY outside any batch: nothing is pending.
LEMMA QuietCopyFits ==
  ASSUME session'.state \in {"Copy_In_Active", "Copy_Out_Active", "Copy_Both_Active"},
         session'.pending = 0, ~session'.batchOpen, ~session'.pipelined,
         ~session'.bound, ~session'.suspended, ~session'.copySync
  PROVE  BatchInv'
BY DEF BatchInv

\* The COPY of a query.
LEMMA QueryCopyEntered ==
  ASSUME NEW p, NEW q, NEW x, Reading(p, q, x), SessionInv', NoDesynchronisation',
         Kind \in CopyResponses,
         session.state = "Simple_Query_Active",
         session' = EnterCopy(session, Kind, "Simple_Copy", FALSE)
  PROVE  WireInv'
<1>1. /\ ExchangeInv /\ SessionInv /\ ClientIn(p) /\ Leads(p, Kind, x) /\ BatchInv
  BY ReadingWires DEF Reading, Flow, ExchangeInv
<1>2. /\ session'.origin = "Simple_Copy" /\ ~session'.copySync
      /\ session'.sendOpen <=> Kind \in WritableCopy
      /\ session'.recvOpen <=> Kind # "CopyInResponse"
      /\ session'.bidir <=> Kind = "CopyBothResponse"
      /\ Kind = "CopyInResponse" => session'.state = "Copy_In_Active"
      /\ Kind = "CopyOutResponse" => session'.state = "Copy_Out_Active"
      /\ Kind = "CopyBothResponse" => session'.state = "Copy_Both_Active"
      /\ session'.pending = session.pending
      /\ session'.batchOpen = session.batchOpen /\ session'.pipelined = session.pipelined
      /\ session'.bound = session.bound /\ session'.suspended = session.suspended
  BY <1>1, EnteredFields DEF SessionInv, TypeOK
<1>3. Alone
  BY <1>1 DEF SessionInv, OriginFits
<1>4. \/ Kind = "CopyInResponse" /\ x = "reads"
      \/ Kind = "CopyOutResponse" /\ x = "copies"
      \/ Kind = "CopyBothResponse" /\ x = "both"
  <2>1. p \notin {"flat"}
    BY <1>1 DEF ClientIn, CopyIsOver
  <2> QED
    BY <2>1, <1>1 DEF Leads, CopyResponses
<1>5. ClientIn(x)'
  BY <1>2, <1>4 DEF ClientIn
<1>6. BatchInv'
  <2>1. session'.state \in {"Copy_In_Active", "Copy_Out_Active", "Copy_Both_Active"}
    BY <1>2, <1>4
  <2>2. /\ session'.pending = 0 /\ ~session'.batchOpen /\ ~session'.pipelined
        /\ ~session'.bound /\ ~session'.suspended
    BY <1>2, <1>3 DEF Alone
  <2>3. session'.origin = "Simple_Copy" /\ ~session'.copySync
    BY <1>2
  <2> QED
    BY <2>1, <2>2, <2>3, QuietCopyFits
<1>7. SimpleQueryRuns' /\ SimpleQueryRuns
  BY <1>2 DEF SimpleQueryRuns
<1>8. LooseSession'
  BY <1>7 DEF LooseSession
<1> QED
  BY <1>2, <1>5, <1>6, <1>7, <1>8, CarriedKeeps DEF WritableCopy, CopyResponses

\* COPY in a batch starts from between two responses.
LEMMA CopyFromFlat ==
  ASSUME NEW p, NEW q, NEW x, Reading(p, q, x), Kind \in CopyResponses,
         session.state \in {"Extended_Query_Active", "Awaiting_Ready"}
  PROVE  /\ p = "flat" /\ p \in BatchPhases
            /\ (session.origin = "Extended_Copy" => session.copySync)
         /\ \/ Kind = "CopyInResponse" /\ x = "in"
            \/ Kind = "CopyOutResponse" /\ x = "out"
<1>1. ExchangeInv /\ SessionInv /\ ClientIn(p) /\ Leads(p, Kind, x)
  BY ReadingWires DEF Reading, Flow
<1>2. p # "asked"
  BY <1>1 DEF ClientIn
<1>3. /\ p = "flat" /\ p \in BatchPhases
      /\ \/ Kind = "CopyInResponse" /\ x = "in"
         \/ Kind = "CopyOutResponse" /\ x = "out"
  BY <1>1, <1>2 DEF Leads, CopyResponses, BatchPhases
<1>4. session.origin = "Extended_Copy" => session.copySync
  BY <1>1 DEF SessionInv, OriginFits, CopyStates, CopyStreams
<1> QED
  BY <1>3, <1>4

\* The session in the COPY OUT that it has entered.
LEMMA CopyOutEntered ==
  ASSUME NEW p, NEW q, NEW x, Reading(p, q, x), SessionInv', NoDesynchronisation',
         Kind = "CopyOutResponse", ~session.pipelined,
         session.state \in {"Extended_Query_Active", "Awaiting_Ready"},
         session' = EnterCopy(session, Kind, "Extended_Copy", session.pending > 0)
  PROVE  WireInv'
<1>1. ExchangeInv /\ SessionInv /\ BatchInv /\ session \in Sessions
  BY ReadingWires DEF ExchangeInv, SessionInv, TypeOK
<1>2. p \in BatchPhases /\ x = "out" /\ (session.origin = "Extended_Copy" => session.copySync)
  BY CopyFromFlat DEF CopyResponses
<1>3. ~SimpleQueryRuns /\ (session.pending > 0 \/ session.batchOpen) /\ session.pending \in Nat
  BY <1>2, BatchReading
<1>4. /\ session'.origin = "Extended_Copy" /\ (session'.copySync <=> session.pending > 0)
      /\ ~session'.sendOpen /\ session'.recvOpen /\ session'.state = "Copy_Out_Active"
      /\ session'.pending = session.pending
      /\ session'.batchOpen = session.batchOpen /\ session'.pipelined = session.pipelined
      /\ session'.bound = session.bound /\ session'.suspended = session.suspended
  <2> DEFINE expected == session.pending > 0
  <2>1. expected \in BOOLEAN /\ session' = EnterCopy(session, Kind, "Extended_Copy", expected)
    OBVIOUS
  <2>2. Kind \in CopyResponses /\ (Kind \in WritableCopy <=> Kind # "CopyOutResponse")
    BY DEF CopyResponses, WritableCopy
  <2>3. expected <=> session.pending > 0
    OBVIOUS
  <2> HIDE DEF expected
  <2> QED
    BY <1>1, <2>1, <2>2, <2>3, EnteredFields
<1>5. ClientIn(x)'
  BY <1>2, <1>3, <1>4 DEF ClientIn
<1>6. BatchInv'
  BY <1>1, <1>3, <1>4 DEF BatchInv
<1>7. ~SimpleQueryRuns'
  BY <1>4 DEF SimpleQueryRuns
<1>8. LooseSession => LooseSession'
  BY <1>2, <1>3, <1>4 DEF LooseSession
<1> QED
  BY <1>3, <1>4, <1>5, <1>6, <1>7, <1>8, CarriedKeeps

\* The Syncs that overtook the response are swallowed, and none is pending.
LEMMA CopyInEntered ==
  ASSUME NEW p, NEW q, NEW x, Reading(p, q, x), SessionInv', NoDesynchronisation',
         Kind = "CopyInResponse", ~session.pipelined,
         session.state \in {"Extended_Query_Active", "Awaiting_Ready"},
         session' = EnterCopy(session, Kind, "Extended_Copy", session.pending > 0)
  PROVE  WireInv'
<1>1. /\ ExchangeInv /\ SessionInv /\ BatchInv /\ session \in Sessions /\ WireTypes'
      /\ \A K : Sends(K)' <=> Sends(K)
      /\ toClient' = <<>> /\ ~Sends(Tags \ {"Sync"}) /\ q \in {"in", "reads"}
      /\ Flow(p, q) /\ SessionInv' /\ NoDesynchronisation' /\ toServer' = toServer
         /\ server' = server
      /\ x \in Phases /\ q \in Phases /\ WireTypes
  BY ReadingWires DEF ExchangeInv, SessionInv, TypeOK, Reading
<1>2. p \in BatchPhases /\ x = "in"
  BY CopyFromFlat DEF CopyResponses
<1>3. session.pending \in Nat /\ session.pending <= 1
  BY <1>1, <1>2, BatchReading DEF BatchInv
<1>4. /\ session'.origin = "Extended_Copy" /\ ~session'.copySync
      /\ session'.sendOpen /\ ~session'.recvOpen /\ session'.state = "Copy_In_Active"
      /\ session'.pending = IF session.pending > 0 THEN session.pending - 1 ELSE session.pending
      /\ session'.batchOpen = session.batchOpen /\ session'.pipelined = session.pipelined
      /\ session'.bound = session.bound /\ session'.suspended = session.suspended
  <2> DEFINE expected == session.pending > 0
  <2>1. expected \in BOOLEAN /\ session' = EnterCopy(session, Kind, "Extended_Copy", expected)
    OBVIOUS
  <2>2. Kind \in CopyResponses /\ (Kind \in WritableCopy <=> Kind # "CopyOutResponse")
    BY DEF CopyResponses, WritableCopy
  <2>3. expected <=> session.pending > 0
    OBVIOUS
  <2> HIDE DEF expected
  <2> QED
    BY <1>1, <2>1, <2>2, <2>3, EnteredFields
<1>5. session'.pending = 0
  BY <1>3, <1>4
<1>6. ClientIn(x)'
  BY <1>2, <1>4 DEF ClientIn
<1>7. BatchInv'
  BY <1>4, <1>5 DEF BatchInv
<1>8. Flow(x, q)' /\ EndsInOrder' /\ NothingFollows' /\ CopyInIsOrdered'
  BY <1>4, <1>6, ReadFlow DEF WritableCopy
<1>9. q = "in"
  BY <1>1, <1>2 DEF Flow, BatchPhases
<1>10. server = "copy_in"
  BY <1>1, <1>9 DEF Flow, ServerIn
<1>11. ~Brings({"CopyInResponse"})'
  BY <1>1, EmptySeq DEF Brings
<1>12. SyncsIn' = {} /\ ReadiesIn' = {}
  <2>1. \A i \in DOMAIN toServer : toServer[i].tag = "Sync"
    BY <1>1, WireElements DEF Sends
  <2>2. DOMAIN toServer = 1 .. Len(toServer) /\ Len(toServer) \in Nat
    BY <1>1, WireElements
  <2>3. \A i \in DOMAIN toServer' : SwallowedAt(i)'
    <3>1. ASSUME NEW i \in DOMAIN toServer', NEW j \in 1 .. i - 1
          PROVE  toServer'[j].tag \notin {"CopyDone", "CopyFail"}
      <4>1. j \in DOMAIN toServer
        BY <3>1, <1>1, <2>2
      <4> QED
        BY <4>1, <2>1, <1>1
    <3> QED
      BY <3>1, <1>1, <1>10 DEF SwallowedAt
  <2>4. SyncsIn' = {}
    BY <2>3 DEF SyncsIn
  <2>5. ReadiesIn' = {}
    BY <1>1, EmptySeq DEF ReadiesIn
  <2> QED
    BY <2>4, <2>5
<1>13. Counted'
  <2>1. ReadiesToCome' = Cardinality(ReadiesIn') + Cardinality(SyncsIn')
    BY DEF ReadiesToCome, ReadiesIn, SyncsIn
  <2>2. ReadiesToCome' = 0
    BY <2>1, <1>12, FS_EmptySet
  <2> QED
    BY <2>2, <1>5, <1>11 DEF Counted
<1>14. EndsBySync'
  BY <1>4 DEF EndsBySync, Loose
<1> QED
  BY <1>1, <1>7, <1>8, <1>13, <1>14 DEF WireInv, ExchangeInv

-----------------------------------------------------------------------------
(* What each receive operation makes of the response it reads.             *)

\* A response is read between two phases of a flow.
LEMMA ReadStarts ==
  ASSUME WireInv, session.state # "Closed", Reads, toServer' = toServer, server' = server
  PROVE  \E p, q, x \in Phases : Reading(p, q, x)
<1>1. WireTypes /\ ExchangeInv
  BY DEF WireInv
<1>2. PICK p \in Phases, q \in Phases : Flow(p, q)
  BY <1>1 DEF ExchangeInv
<1>3. PICK x \in Phases : Leads(p, Head(toClient).kind, x) /\ Walk(Tail(toClient), x, q)
  BY <1>1, <1>2, WalkFirst DEF Flow, WireTypes, Reads
<1> QED
  BY <1>2, <1>3 DEF Reading, Reads, Kind

\* What is known of the session when a response is read.
LEMMA ReadingSession ==
  ASSUME NEW p, NEW q, NEW x, Reading(p, q, x)
  PROVE  /\ session \in Sessions /\ SessionInv /\ BatchInv /\ session.state # "Closed"
         /\ ClientIn(p) /\ Leads(p, Kind, x)
         /\ Kind \in BackendKinds /\ (HasShape(Kind) => Head(toClient).shape \in Columns)
         /\ Kind = "CommandComplete" => ~session.sendOpen
<1>1. /\ WireTypes /\ ExchangeInv /\ SessionInv /\ Kind \in BackendKinds
      /\ \A K : Brings(K) <=> Kind \in K \/ Brings(K)'
  BY ReadingWires
<1>2. /\ session.state # "Closed" /\ ClientIn(p) /\ Leads(p, Kind, x) /\ Reads
  BY DEF Reading, Flow
<1>3. HasShape(Kind) => Head(toClient).shape \in Columns
  BY <1>1, <1>2, ReadShift DEF Kind, Responses
<1>4. Kind = "CommandComplete" => ~session.sendOpen
  <2>1. Kind = "CommandComplete" => Brings(WritableCopy \union {"CommandComplete"})
    BY <1>1
  <2> QED
    BY <1>1, <2>1 DEF ExchangeInv, EndsInOrder
<1> QED
  BY <1>1, <1>2, <1>3, <1>4 DEF SessionInv, TypeOK, ExchangeInv

\* A response of which a receive operation at most notes the columns.
LEMMA NotedKeeps ==
  ASSUME NEW p, NEW q, NEW x, Reading(p, q, x), SessionInv', NoDesynchronisation',
         session' = session \/ \E d \in Descriptions : session' = Described(d),
         Kind \notin CopyResponses \union {"ReadyForQuery", "CopyDone"},
         Kind \in {"CommandComplete", "Error"} =>
           session.state \in {"Extended_Query_Active", "Awaiting_Ready", "Simple_Query_Active"},
         Kind = "Error" => session.pending > 0 \/ session.state = "Simple_Query_Active"
  PROVE  WireInv'
<1>1. session \in Sessions
  BY ReadingSession
<1>2. Stays
  BY <1>1, DescribedIs DEF Stays
<1> QED
  BY <1>2, StaysKeeps

LEMMA QueryEventKeeps ==
  ASSUME NEW p, NEW q, NEW x, Reading(p, q, x), ReceiveQueryEvent(Kind, Head(toClient).shape)
  PROVE  WireInv'
<1> DEFINE shape == Head(toClient).shape
<1>1. /\ session \in Sessions /\ SessionInv /\ ClientIn(p) /\ Leads(p, Kind, x)
      /\ Kind \in BackendKinds /\ (HasShape(Kind) => shape \in Columns)
  BY ReadingSession
<1>2. SessionInv'
  BY <1>1, ReceiveQueryEventStep
<1>3. session.state = "Simple_Query_Active"
  BY DEF ReceiveQueryEvent
<1>4. (p = "asked" /\ session.desc = NoDescription) \/ p = "rows" \/ p = "over"
  BY <1>1, <1>3 DEF ClientIn, CopyIsOver
<1>5. Kind \in {"RowDescription", "DataRow", "CommandComplete", "Error", "ReadyForQuery"} \union CopyResponses
  BY <1>1, <1>4 DEF Leads, CopyResponses
<1>6. Kind = "ReadyForQuery" => p = "over"
  BY <1>1, <1>4 DEF Leads
<1>7. Kind = "RowDescription" => p = "asked"
  BY <1>1, <1>4 DEF Leads
<1> HIDE DEF shape
<1>8. CASE Kind \in CopyResponses
  <2>1. session' = EnterCopy(session, Kind, "Simple_Copy", FALSE) /\ raised' = "none"
    BY <1>8 DEF ReceiveQueryEvent, Becomes, CopyResponses, Silent
  <2>2. NoDesynchronisation'
    BY <2>1 DEF NoDesynchronisation
  <2> QED
    BY <1>2, <1>3, <1>8, <2>1, <2>2, QueryCopyEntered
<1>9. CASE Kind = "ReadyForQuery"
  <2>1. session' = [Undescribed EXCEPT !.state = "Ready"] /\ raised' = "none"
    BY <1>9 DEF ReceiveQueryEvent, Becomes, CopyResponses, Silent
  <2>2. /\ Undescribed \in Sessions /\ Undescribed.pipelined = session.pipelined
    BY <1>1, DescribedIs, UndescribedIs
  <2>3. session'.state = "Ready" /\ session'.pipelined = session.pipelined
    BY <2>1, <2>2 DEF Sessions
  <2>4. NoDesynchronisation'
    BY <2>1 DEF NoDesynchronisation
  <2> QED
    BY <1>2, <1>6, <1>9, <2>3, <2>4, QueryOverKeeps
<1>10. CASE Kind \notin CopyResponses \union {"ReadyForQuery"}
  <2>1. session' = session \/ \E d \in Descriptions : session' = Described(d)
    BY <1>1, <1>5, <1>10, UndescribedIs DEF ReceiveQueryEvent, Becomes, Raises, HasShape,
       Descriptions, shape
  <2>2. raised' \in {"none", "row_does_not_match_its_description"}
    BY <1>4, <1>5, <1>7, <1>10 DEF ReceiveQueryEvent, Becomes, Raises
  <2>3. NoDesynchronisation'
    BY <2>2 DEF NoDesynchronisation
  <2>4. Kind \notin CopyResponses \union {"ReadyForQuery", "CopyDone"}
    BY <1>5, <1>10 DEF CopyResponses
  <2> QED
    BY <1>2, <1>3, <2>1, <2>3, <2>4, NotedKeeps
<1> QED
  BY <1>8, <1>9, <1>10

\* Outside COPY a session that reads answers to a batch is in one of its phases.
LEMMA BatchStateReads ==
  ASSUME NEW p, NEW q, NEW x, Reading(p, q, x),
         session.state \in {"Extended_Query_Active", "Awaiting_Ready"}
  PROVE  p \in BatchPhases
         /\ (session.origin = "No_Copy" \/ CopyIsOver => p \in {"flat", "done", "in", "failed"})
BY ReadingSession DEF ClientIn, CopyIsOver, BothClosed, BatchPhases

LEMMA ExtendedCopyKeeps ==
  ASSUME NEW p, NEW q, NEW x, Reading(p, q, x), SessionInv', NoDesynchronisation',
         Kind \in CopyResponses, ~session.pipelined,
         session.state \in {"Extended_Query_Active", "Awaiting_Ready"},
         session' = EnterCopy(session, Kind, "Extended_Copy", session.pending > 0)
  PROVE  WireInv'
<1>1. Kind \in {"CopyInResponse", "CopyOutResponse"}
  BY CopyFromFlat
<1>2. CASE Kind = "CopyInResponse"
  BY <1>2, CopyInEntered
<1>3. CASE Kind = "CopyOutResponse"
  BY <1>3, CopyOutEntered
<1> QED
  BY <1>1, <1>2, <1>3

\* ReadyForQuery: the session, or the session with its batch closed, is synchronized.
LEMMA SynchronizedKeeps ==
  ASSUME NEW p, NEW q, NEW x, Reading(p, q, x), SessionInv', NoDesynchronisation',
         Kind = "ReadyForQuery", NEW s \in Sessions, session' = CompleteSynchronization(s),
         s.pipelined = session.pipelined, s.state = session.state,
         s.pending = session.pending, s.batchOpen = session.batchOpen
  PROVE  WireInv'
<1>1. /\ session \in Sessions /\ SessionInv /\ BatchInv /\ session.state # "Closed"
      /\ ClientIn(p) /\ Leads(p, Kind, x)
  BY ReadingSession
<1> DEFINE open == s.batchOpen /\ s.pending > 0
<1>2. /\ session' \in Sessions /\ NoCopy(session') /\ session'.pipelined = s.pipelined
      /\ session'.pending = IF s.pending > 0 THEN s.pending - 1 ELSE 0
      /\ session'.batchOpen = open
      /\ open => session'.state = s.state
      /\ ~open => /\ ~session'.bound /\ ~session'.suspended
                  /\ session'.state = IF session'.pending > 0 THEN "Awaiting_Ready" ELSE "Ready"
  BY CompleteSynchronizationIs
<1>3. p \in {"flat", "failed", "over"}
  BY <1>1 DEF Leads, CopyResponses
<1>4. CASE p = "over"
  <2>1. session.pending = 0
    BY <1>1, <1>4 DEF ClientIn, SessionInv, OriginFits, Alone
  <2>2. session'.state = "Ready" /\ session'.pipelined = session.pipelined
    BY <1>2, <2>1
  <2> QED
    BY <1>4, <2>2, QueryOverKeeps
<1>5. CASE p \in {"flat", "failed"}
  <2>1. p \in BatchPhases
    BY <1>5 DEF BatchPhases
  <2>2. session.pending > 0 /\ session.pending \in Nat
    BY <2>1, BatchReading
  <2>3. s.batchOpen \in BOOLEAN /\ (open <=> session.batchOpen)
    BY <2>2 DEF Sessions
  <2>4. session'.pending = session.pending - 1 /\ session'.batchOpen = session.batchOpen
    BY <1>2, <2>2, <2>3
  <2> HIDE DEF open
  <2>5. /\ session'.pipelined = session.pipelined
        /\ session'.origin = "No_Copy" /\ ~session'.sendOpen /\ ~session'.copySync
    BY <1>2 DEF NoCopy
  <2>6. session.batchOpen => session'.state = session.state
    BY <1>2, <2>3
  <2>8. ~session.batchOpen =>
          /\ ~session'.bound /\ ~session'.suspended
          /\ session'.state = IF session.pending > 1 THEN "Awaiting_Ready" ELSE "Ready"
    BY <1>2, <2>2, <2>3, <2>4
  <2>7. Completes
    BY <2>4, <2>5, <2>6, <2>8 DEF Completes
  <2> QED
    BY <2>1, <2>7, CompletedKeeps
<1> QED
  BY <1>3, <1>4, <1>5

LEMMA ExtendedEventKeeps ==
  ASSUME NEW p, NEW q, NEW x, Reading(p, q, x),
         ReceiveExtendedEvent(Kind, Head(toClient).shape),
         session.origin = "No_Copy" \/ CopyIsOver
  PROVE  WireInv'
<1> DEFINE shape == Head(toClient).shape
<1>1. /\ session \in Sessions /\ SessionInv /\ BatchInv /\ ClientIn(p) /\ Leads(p, Kind, x)
      /\ Kind \in BackendKinds /\ (HasShape(Kind) => shape \in Columns)
  BY ReadingSession
<1>2. SessionInv'
  BY <1>1, ReceiveExtendedEventStep
<1>3. session.state \in {"Extended_Query_Active", "Awaiting_Ready"}
  BY DEF ReceiveExtendedEvent
<1>4. p \in BatchPhases /\ p \in {"flat", "done", "in", "failed"}
  BY <1>3, BatchStateReads
<1>5. /\ session.pending \in Nat /\ (Kind = "ReadyForQuery" => session.pending > 0)
      /\ session.state = "Awaiting_Ready" => session.pending > 0
  BY <1>1, <1>4, BatchReading DEF BatchInv
<1>6. Kind \in {"RowDescription", "NoData", "DataRow", "CommandComplete", "EmptyQuery", "PortalSuspended",
                "ReadyForQuery", "Error"} \union CopyResponses
  BY <1>1, <1>4 DEF Leads, CopyResponses
<1> HIDE DEF shape
<1>7. CASE Kind \in CopyResponses
  <2>1. CASE session.pipelined
    <3>1. session' = ClosedSession /\ raised' = "copy_in_pipeline_mode"
      BY <1>7, <2>1 DEF ReceiveExtendedEvent, CopyResponses, Silent
    <3>2. NoDesynchronisation' /\ session'.state = "Closed"
      BY <3>1, ClosedSessionIs DEF NoDesynchronisation
    <3> QED
      BY <1>2, <3>2, RefusedKeeps
  <2>2. CASE ~session.pipelined
    <3>1. session' = EnterCopy(session, Kind, "Extended_Copy", session.pending > 0)
          /\ raised' = "none"
      BY <1>7, <2>2 DEF ReceiveExtendedEvent, Becomes, CopyResponses, Silent
    <3>2. NoDesynchronisation'
      BY <3>1 DEF NoDesynchronisation
    <3> QED
      BY <1>2, <1>3, <1>7, <2>2, <3>1, <3>2, ExtendedCopyKeeps
  <2> QED
    BY <2>1, <2>2
<1>8. CASE Kind = "ReadyForQuery"
  <2>1. session' = CompleteSynchronization(session) /\ raised' = "none"
    BY <1>5, <1>8 DEF ReceiveExtendedEvent, Becomes, CopyResponses, Silent
  <2>2. NoDesynchronisation'
    BY <2>1 DEF NoDesynchronisation
  <2> QED
    BY <1>1, <1>2, <1>8, <2>1, <2>2, SynchronizedKeeps
<1>9. CASE Kind \in {"RowDescription", "NoData", "DataRow"}
           \/ (Kind = "Error" /\ session.pending > 0)
  <2>1. session' = session \/ \E d \in Descriptions : session' = Described(d)
    <3>1. Kind = "RowDescription" => shape \in Descriptions
      BY <1>1 DEF HasShape, Descriptions
    <3>2. CASE Kind = "RowDescription"
      <4>1. session' = Described(shape)
        BY <3>2 DEF ReceiveExtendedEvent, Becomes, CopyResponses, Silent, shape
      <4> QED
        BY <3>1, <3>2, <4>1
    <3>3. CASE Kind = "DataRow"
      BY <3>3 DEF ReceiveExtendedEvent, Becomes, Raises, CopyResponses, Silent
    <3>4. CASE Kind = "NoData" \/ (Kind = "Error" /\ session.pending > 0)
      <4>1. session' = Undescribed
        BY <3>4 DEF ReceiveExtendedEvent, Becomes, CopyResponses, Silent
      <4> QED
        BY <4>1, UndescribedIs
    <3> QED
      BY <1>9, <3>2, <3>3, <3>4
  <2>2. raised' \in {"none", "row_does_not_match_its_description"}
    BY <1>9 DEF ReceiveExtendedEvent, Becomes, Raises, CopyResponses, Silent
  <2>3. NoDesynchronisation'
    BY <2>2 DEF NoDesynchronisation
  <2>4. Kind \notin CopyResponses \union {"ReadyForQuery", "CopyDone"}
    BY <1>9 DEF CopyResponses
  <2> QED
    BY <1>2, <1>3, <1>9, <2>1, <2>3, <2>4, NotedKeeps
<1>10. CASE Kind \in {"CommandComplete", "EmptyQuery", "PortalSuspended"}
  <2>1. raised' = "none"
    BY <1>10 DEF ReceiveExtendedEvent, Becomes, CopyResponses, Silent
  <2>2. NoDesynchronisation'
    BY <2>1 DEF NoDesynchronisation
  <2> DEFINE sync == session.pending > 0
  <2>3. PICK s \in {session, Undescribed} : \E b \in BOOLEAN :
          /\ session' = [s EXCEPT !.suspended = b]
          /\ b => s.suspended \/ ~sync
    <3>1. CASE Kind \in {"CommandComplete", "EmptyQuery"}
      <4>1. session' = [Undescribed EXCEPT !.suspended = @ /\ sync]
        BY <3>1 DEF ReceiveExtendedEvent, Becomes, CopyResponses, Silent
      <4>2. (Undescribed.suspended /\ sync) \in BOOLEAN
        OBVIOUS
      <4> QED
        BY <4>1, <4>2
    <3>2. CASE Kind = "PortalSuspended"
      <4>1. session' = [session EXCEPT !.suspended = @ \/ ~sync]
        BY <3>2 DEF ReceiveExtendedEvent, Becomes, CopyResponses, Silent
      <4>2. (session.suspended \/ ~sync) \in BOOLEAN
        OBVIOUS
      <4> QED
        BY <4>1, <4>2
    <3> QED
      BY <1>10, <3>1, <3>2
  <2>4. PICK b \in BOOLEAN : session' = [s EXCEPT !.suspended = b]
        /\ (b => s.suspended \/ ~sync)
    BY <2>3
  <2>5. /\ s \in Sessions
        /\ s.state = session.state /\ s.pipelined = session.pipelined
        /\ s.pending = session.pending /\ s.batchOpen = session.batchOpen
        /\ s.origin = session.origin /\ s.sendOpen = session.sendOpen
        /\ s.recvOpen = session.recvOpen /\ s.bidir = session.bidir
        /\ s.copySync = session.copySync
        /\ s.bound = session.bound /\ s.suspended = session.suspended
    BY <1>1, DescribedIs, UndescribedIs
  <2>6. /\ session'.state = s.state /\ session'.pipelined = s.pipelined
        /\ session'.pending = s.pending /\ session'.batchOpen = s.batchOpen
        /\ session'.origin = s.origin /\ session'.sendOpen = s.sendOpen
        /\ session'.recvOpen = s.recvOpen /\ session'.bidir = s.bidir
        /\ session'.copySync = s.copySync
        /\ session'.bound = s.bound /\ session'.suspended = b
    BY <2>4, <2>5 DEF Sessions
  <2>7. Stays
    BY <2>4, <2>5, <2>6, <1>5 DEF Stays
  <2>8. Kind \notin CopyResponses \union {"ReadyForQuery", "CopyDone", "Error"}
    BY <1>10 DEF CopyResponses
  <2> QED
    BY <1>2, <1>3, <2>2, <2>7, <2>8, StaysKeeps
<1>11. CASE Kind = "Error" /\ session.pending = 0
  <2> DEFINE s == Undescribed
  <2>1. /\ session' = [s EXCEPT !.state = "Recovery_Required", !.bound = FALSE, !.suspended = FALSE]
        /\ raised' = "none"
    BY <1>11 DEF ReceiveExtendedEvent, Becomes, CopyResponses, Silent
  <2>2. /\ s \in Sessions
        /\ s.pipelined = session.pipelined
        /\ s.pending = session.pending /\ s.batchOpen = session.batchOpen
        /\ s.origin = session.origin /\ s.sendOpen = session.sendOpen
        /\ s.copySync = session.copySync
    BY <1>1, DescribedIs, UndescribedIs
  <2> HIDE DEF s
  <2>3. /\ session'.state = "Recovery_Required" /\ session'.pipelined = s.pipelined
        /\ session'.pending = s.pending /\ session'.batchOpen = s.batchOpen
        /\ session'.origin = s.origin /\ session'.sendOpen = s.sendOpen
        /\ session'.copySync = s.copySync /\ ~session'.bound /\ ~session'.suspended
    BY <2>1, <2>2 DEF Sessions
  <2>4. KeepsBatch
    BY <2>2, <2>3 DEF KeepsBatch
  <2>5. NoDesynchronisation'
    BY <2>1 DEF NoDesynchronisation
  <2>6. session.state = "Extended_Query_Active"
    BY <1>3, <1>5, <1>11
  <2> QED
    BY <1>2, <1>11, <2>2, <2>3, <2>4, <2>5, <2>6, BatchFailedKeeps
<1> QED
  BY <1>5, <1>6, <1>7, <1>8, <1>9, <1>10, <1>11

\* The CopyDone of the backend.
LEMMA CopyDoneKeeps ==
  ASSUME NEW p, NEW q, NEW x, Reading(p, q, x), SessionInv', NoDesynchronisation',
         Kind = "CopyDone", session' = AfterCopyDone
  PROVE  WireInv'
<1> DEFINE state == IF session.sendOpen THEN session.state ELSE "Copy_Completion_Active"
<1>1. session \in Sessions
  BY ReadingSession
<1>2. session' = [session EXCEPT !.recvOpen = FALSE, !.state = state]
  BY <1>1 DEF AfterCopyDone, Sessions
<1> HIDE DEF state
<1>3. /\ session'.state = state
      /\ session'.origin = session.origin /\ session'.sendOpen = session.sendOpen
      /\ ~session'.recvOpen /\ session'.bidir = session.bidir
          /\ session'.copySync = session.copySync
      /\ session'.pending = session.pending /\ session'.batchOpen = session.batchOpen
      /\ session'.pipelined = session.pipelined /\ session'.bound = session.bound
      /\ session'.suspended = session.suspended
  BY <1>1, <1>2 DEF Sessions
<1>4. session'.state = IF session.sendOpen THEN session.state ELSE "Copy_Completion_Active"
  BY <1>3 DEF state
<1> QED
  BY <1>3, <1>4, StreamEndKeeps

\* What is left of a COPY that is over.
LEMMA AfterCopyFields ==
  ASSUME session \in Sessions, session.origin # "No_Copy", NEW failed \in States,
         session' = AfterCopy(failed)
  PROVE  /\ KeepsBatch
         /\ \/ session.origin = "Simple_Copy" /\ CopyIsReset
               /\ session'.state = "Simple_Query_Active"
            \/ /\ session.origin = "Extended_Copy"
               /\ session.copySync /\ session'.state = "Awaiting_Ready"
               /\ session'.origin = session.origin /\ session'.copySync = session.copySync
               /\ session'.sendOpen = session.sendOpen /\ session'.recvOpen = session.recvOpen
            \/ /\ session.origin = "Extended_Copy" /\ ~session.copySync
               /\ CopyIsReset /\ session'.state = failed
<1>1. session.origin \in {"Simple_Copy", "Extended_Copy"}
  BY DEF Sessions, Origins
<1>2. ASSUME NEW state \in States, session' = ResetCopy([session EXCEPT !.state = state])
      PROVE  KeepsBatch /\ CopyIsReset /\ session'.state = state
  <2> DEFINE s == [session EXCEPT !.state = state]
  <2>1. /\ s \in Sessions /\ s.state = state
        /\ s.pending = session.pending /\ s.batchOpen = session.batchOpen
        /\ s.bound = session.bound /\ s.suspended = session.suspended
        /\ s.pipelined = session.pipelined
    BY DEF Sessions
  <2>2. session' = ResetCopy(s)
    BY <1>2
  <2> HIDE DEF s
  <2>3. NoCopy(session') /\ SameBatch(s, session') /\ session'.state = s.state
        /\ session'.pending = s.pending
    BY <2>1, <2>2, ResetCopyIs
  <2> QED
    BY <2>1, <2>3 DEF NoCopy, SameBatch, KeepsBatch, CopyIsReset
<1>3. CASE session.origin = "Simple_Copy"
  <2>1. session' = ResetCopy([session EXCEPT !.state = "Simple_Query_Active"])
    BY <1>3 DEF AfterCopy
  <2> QED
    BY <1>2, <1>3, <2>1 DEF States
<1>4. CASE session.origin = "Extended_Copy" /\ session.copySync
  <2>1. session' = [session EXCEPT !.state = "Awaiting_Ready"]
    BY <1>4 DEF AfterCopy
  <2> QED
    BY <1>4, <2>1 DEF Sessions, KeepsBatch
<1>5. CASE session.origin = "Extended_Copy" /\ ~session.copySync
  <2>1. session' = ResetCopy([session EXCEPT !.state = failed])
    BY <1>5 DEF AfterCopy
  <2> QED
    BY <1>2, <1>5, <2>1
<1> QED
  BY <1>1, <1>3, <1>4, <1>5

LEMMA CopyEndsKeeps ==
  ASSUME NEW p, NEW q, NEW x, Reading(p, q, x), SessionInv', NoDesynchronisation',
         session.origin # "No_Copy", Kind = "CommandComplete",
         session' = AfterCopy("Extended_Query_Active")
  PROVE  WireInv'
<1>1. session \in Sessions /\ "Extended_Query_Active" \in States
  BY ReadingSession DEF States
<1> QED
  BY <1>1, AfterCopyFields, CopyCompletedKeeps

\* An error closes both directions of a COPY.
LEMMA CopyClosesKeeps ==
  ASSUME NEW p, NEW q, NEW x, Reading(p, q, x), SessionInv', NoDesynchronisation',
         Kind = "Error", session.origin # "No_Copy",
         NEW state \in {"Copy_Completion_Active", "Awaiting_Ready"},
         session' = [session EXCEPT !.sendOpen = FALSE, !.recvOpen = FALSE, !.state = state],
         \/ session.origin = "Simple_Copy" /\ state = "Copy_Completion_Active"
         \/ session.copySync /\ state = "Awaiting_Ready"
  PROVE  WireInv'
<1>1. session \in Sessions
  BY ReadingSession
<1>2. /\ session'.state = state /\ session'.origin = session.origin
         /\ session'.copySync = session.copySync
      /\ ~session'.sendOpen
      /\ session'.pending = session.pending /\ session'.batchOpen = session.batchOpen
      /\ session'.pipelined = session.pipelined /\ session'.bound = session.bound
      /\ session'.suspended = session.suspended
  BY <1>1 DEF Sessions
<1>3. KeepsBatch
  BY <1>2 DEF KeepsBatch
<1> QED
  BY <1>2, <1>3, CopyFailedKeeps

\* In which phases a session that is in COPY reads which responses.
LEMMA CopyReads ==
  ASSUME NEW p, NEW q, NEW x, Reading(p, q, x), session.origin # "No_Copy"
  PROVE  /\ Kind \in {"CopyData", "CopyDone", "CommandComplete", "Error", "ReadyForQuery"}
            \/ CopyIsOver
         /\ Kind = "CopyDone" => session.recvOpen
         /\ Kind = "CopyData" => \/ session.recvOpen
                                 \/ /\ session.bidir /\ ~session.sendOpen
                                    /\ session.state = "Copy_Completion_Active"
         /\ Kind = "CommandComplete" => BothClosed
<1>1. /\ session \in Sessions /\ SessionInv /\ ClientIn(p) /\ Leads(p, Kind, x)
      /\ Kind = "CommandComplete" => ~session.sendOpen
  BY ReadingSession
<1>2. /\ session.state = "Copy_Out_Active" => session.recvOpen
      /\ session.state = "Copy_Completion_Active" => BothClosed
      /\ session.state = "Simple_Query_Active" => session.origin = "No_Copy"
      /\ session.state = "Recovery_Required" => session.origin = "No_Copy"
  BY <1>1, OutsideCopyFlags DEF SessionInv, CopyFlagsAgree
<1>3. \/ p = "flat" /\ CopyIsOver
      \/ p = "out" /\ session.recvOpen
      \/ p = "done" /\ BothClosed
      \/ p = "in" /\ ~session.recvOpen
      \/ p = "failed"
      \/ p = "over"
      \/ p = "reads" /\ ~session.recvOpen
      \/ p = "copies" /\ session.recvOpen
      \/ p = "copied" /\ BothClosed
      \/ p = "both" /\ session.recvOpen
      \/ p = "half" /\ ~session.recvOpen
      \/ /\ p \in {"late", "last"} /\ session.bidir /\ BothClosed
         /\ session.state = "Copy_Completion_Active"
  BY <1>1, <1>2 DEF ClientIn
<1>4. CopyIsOver => BothClosed
  BY DEF CopyIsOver
<1>5. CASE p = "flat" /\ CopyIsOver
  BY <1>1, <1>4, <1>5 DEF Leads, CopyResponses
<1>6. CASE p # "flat"
  <2>1. Kind \in {"CopyData", "CopyDone", "CommandComplete", "Error", "ReadyForQuery"}
    BY <1>1, <1>3, <1>6 DEF Leads
  <2>2. Kind = "CopyDone" => p \in {"out", "copies", "both"}
    BY <1>1 DEF Leads
  <2>3. Kind = "CopyData" => p \in {"out", "copies", "both", "late"}
    BY <1>1 DEF Leads
  <2>4. Kind = "CommandComplete" =>
        p \in {"done", "in", "asked", "rows", "reads", "copied", "half", "last"}
    BY <1>1, <1>6 DEF Leads
  <2>5. Kind = "CommandComplete" => BothClosed
    BY <1>1, <1>3, <2>4 DEF BothClosed
  <2> QED
    BY <1>3, <2>1, <2>2, <2>3, <2>5 DEF BothClosed
<1> QED
  BY <1>3, <1>5, <1>6

LEMMA CopyEventKeeps ==
  ASSUME NEW p, NEW q, NEW x, Reading(p, q, x), ReceiveCopyEvent(Kind, Head(toClient).shape),
         CopyIsOver => Kind = "ReadyForQuery"
  PROVE  WireInv'
<1> DEFINE shape == Head(toClient).shape
<1>1. /\ session \in Sessions /\ SessionInv /\ BatchInv /\ ClientIn(p) /\ Leads(p, Kind, x)
      /\ Kind \in BackendKinds /\ (HasShape(Kind) => shape \in Columns)
  BY ReadingSession
<1>2. SessionInv'
  BY <1>1, ReceiveCopyEventStep
<1>3. session.origin # "No_Copy" /\ session.origin \in Origins
  BY <1>1 DEF ReceiveCopyEvent, Sessions
<1>4. /\ Kind \in {"CopyData", "CopyDone", "CommandComplete", "Error", "ReadyForQuery"}
      /\ Kind = "CopyDone" => session.recvOpen
      /\ Kind = "CopyData" => \/ session.recvOpen
                              \/ /\ session.bidir /\ ~session.sendOpen
                                 /\ session.state = "Copy_Completion_Active"
      /\ Kind = "CommandComplete" => BothClosed
  <2>1. Kind \in {"CopyData", "CopyDone", "CommandComplete", "Error", "ReadyForQuery"}
    BY <1>3, CopyReads
  <2> QED
    BY <2>1, <1>3, CopyReads
<1>5. CASE Kind = "CopyData"
  <2>1. session' = session /\ raised' = "none"
    BY <1>4, <1>5 DEF ReceiveCopyEvent, Becomes, CopyResponses, WritableCopy
  <2>2. NoDesynchronisation'
    BY <2>1 DEF NoDesynchronisation
  <2>3. Kind \notin CopyResponses \union {"ReadyForQuery", "CopyDone"}
    BY <1>5 DEF CopyResponses
  <2> QED
    BY <1>2, <1>5, <2>1, <2>2, <2>3, NotedKeeps
<1>6. CASE Kind = "CopyDone"
  <2>1. session' = AfterCopyDone /\ raised' = "none"
    BY <1>4, <1>6 DEF ReceiveCopyEvent, Becomes, CopyResponses, WritableCopy
  <2>2. NoDesynchronisation'
    BY <2>1 DEF NoDesynchronisation
  <2> QED
    BY <1>2, <1>6, <2>1, <2>2, CopyDoneKeeps
<1>7. CASE Kind = "CommandComplete"
  <2>1. session' = AfterCopy("Extended_Query_Active") /\ raised' = "none"
    BY <1>4, <1>7 DEF ReceiveCopyEvent, Becomes, CopyResponses, WritableCopy
  <2>2. NoDesynchronisation'
    BY <2>1 DEF NoDesynchronisation
  <2> QED
    BY <1>2, <1>3, <1>7, <2>1, <2>2, CopyEndsKeeps
<1>8. CASE Kind = "Error"
  <2> DEFINE closed == [session EXCEPT !.sendOpen = FALSE, !.recvOpen = FALSE]
  <2>1. raised' = "none"
    BY <1>8 DEF ReceiveCopyEvent, Becomes, CopyResponses, WritableCopy
  <2>2. NoDesynchronisation'
    BY <2>1 DEF NoDesynchronisation
  <2>3. CASE session.origin = "Simple_Copy"
    <3>1. session' = [session EXCEPT !.sendOpen = FALSE, !.recvOpen = FALSE,
                                     !.state = "Copy_Completion_Active"]
      BY <1>8, <2>3 DEF ReceiveCopyEvent, Becomes, WritableCopy
    <3> QED
      BY <1>2, <1>3, <1>8, <2>2, <2>3, <3>1, CopyClosesKeeps
  <2>4. CASE session.origin # "Simple_Copy" /\ session.copySync
    <3>1. session' = [session EXCEPT !.sendOpen = FALSE, !.recvOpen = FALSE,
                                     !.state = "Awaiting_Ready"]
      BY <1>8, <2>4 DEF ReceiveCopyEvent, Becomes, WritableCopy
    <3> QED
      BY <1>2, <1>3, <1>8, <2>2, <2>4, <3>1, CopyClosesKeeps
  <2>5. CASE session.origin # "Simple_Copy" /\ ~session.copySync
    <3> DEFINE s == [closed EXCEPT !.state = "Recovery_Required"]
    <3>1. session' = ResetCopy(s)
      BY <1>8, <2>5 DEF ReceiveCopyEvent, Becomes, WritableCopy
    <3>2. /\ closed \in Sessions /\ closed.pipelined = session.pipelined
          /\ closed.pending = session.pending /\ closed.batchOpen = session.batchOpen
          /\ closed.bound = session.bound /\ closed.suspended = session.suspended
      BY <1>1 DEF Sessions
    <3>3. /\ s \in Sessions /\ s.state = "Recovery_Required"
          /\ s.pipelined = closed.pipelined
          /\ s.pending = closed.pending /\ s.batchOpen = closed.batchOpen
          /\ s.bound = closed.bound /\ s.suspended = closed.suspended
      <4> HIDE DEF closed
      <4> QED
        BY <3>2 DEF Sessions, States
    <3> HIDE DEF s, closed
    <3>4. /\ NoCopy(session') /\ SameBatch(s, session')
          /\ session'.state = s.state /\ session'.pending = s.pending
      BY <3>1, <3>3, ResetCopyIs
    <3>5. KeepsBatch /\ CopyIsReset /\ session'.state = "Recovery_Required"
      BY <3>2, <3>3, <3>4 DEF NoCopy, SameBatch, KeepsBatch, CopyIsReset
    <3>6. session.origin = "Extended_Copy" /\ ~session'.sendOpen
      BY <1>3, <2>5, <3>5 DEF Origins, CopyIsReset
    <3> QED
      BY <1>2, <1>3, <1>8, <2>2, <2>5, <3>5, <3>6, CopyFailedKeeps
  <2> QED
    BY <2>3, <2>4, <2>5
<1>9. CASE Kind = "ReadyForQuery"
  <2>1. p \in {"flat", "failed", "over"}
    BY <1>1, <1>9 DEF Leads, CopyResponses
  <2>2. session.origin = "Extended_Copy" => session.copySync
    <3>1. session.origin = "Extended_Copy" => session.state \in CopyStates \/ session.copySync
      BY <1>1 DEF SessionInv, OriginFits
    <3>2. session.origin = "Extended_Copy" =>
          session.state \in {"Awaiting_Ready", "Recovery_Required"}
      BY <1>1, <2>1 DEF ClientIn, CopyIsOver, SessionInv, OriginFits, CopyStates, CopyStreams
    <3> QED
      BY <3>1, <3>2 DEF CopyStates, CopyStreams
  <2> DEFINE s == [session EXCEPT !.batchOpen = FALSE]
  <2>3. session' = CompleteSynchronization(s) /\ raised' = "none"
    BY <1>9, <2>2 DEF ReceiveCopyEvent, Becomes, CopyResponses, WritableCopy
  <2>4. NoDesynchronisation'
    BY <2>3 DEF NoDesynchronisation
  <2>5. ~session.batchOpen
    BY <1>1, <1>3, <2>2, CopyAlone DEF SessionInv, OriginFits, Alone, Origins
  <2>6. /\ s \in Sessions /\ s.pipelined = session.pipelined /\ s.state = session.state
        /\ s.pending = session.pending /\ s.batchOpen = session.batchOpen
    BY <1>1, <2>5 DEF Sessions
  <2> HIDE DEF s
  <2> QED
    BY <1>2, <1>9, <2>3, <2>4, <2>6, SynchronizedKeeps
<1> QED
  BY <1>4, <1>5, <1>6, <1>7, <1>8, <1>9

-----------------------------------------------------------------------------
(* The raw receive operation.                                              *)

LEMMA RawCopyKeeps ==
  ASSUME NEW p, NEW q, NEW x, Reading(p, q, x), ReceiveMessage(Kind), Kind \in CopyResponses
  PROVE  WireInv'
<1>1. /\ session \in Sessions /\ SessionInv /\ session.state # "Closed"
      /\ ClientIn(p) /\ Leads(p, Kind, x)
  BY ReadingSession
<1>2. p \in {"flat", "asked"}
  BY <1>1 DEF Leads, CopyResponses
<1>3. session.state \in {"Simple_Query_Active", "Extended_Query_Active", "Awaiting_Ready"}
  <2>1. CASE p = "asked"
    BY <1>1, <2>1 DEF ClientIn
  <2>2. CASE p = "flat"
    <3>1. session.state # "Ready"
      BY <2>2, BatchReading DEF BatchPhases
    <3> QED
      BY <1>1, <2>2, <3>1 DEF ClientIn, CopyIsOver
  <2> QED
    BY <1>2, <2>1, <2>2
<1>4. CASE session.state = "Simple_Query_Active"
  <2>1. session' = EnterCopy(session, Kind, "Simple_Copy", FALSE) /\ raised' = "none"
    BY <1>4 DEF ReceiveMessage, Becomes, CopyResponses
  <2>2. NoDesynchronisation' /\ raised' \in Outcomes
    BY <2>1 DEF NoDesynchronisation, Outcomes
  <2>3. Alone
    BY <1>1, <1>4 DEF SessionInv, OriginFits
  <2>4. SessionInv'
    BY <1>1, <2>1, <2>2, <2>3, EnterSimpleCopyStep
  <2> QED
    BY <1>4, <2>1, <2>2, <2>4, QueryCopyEntered
<1>5. CASE session.state # "Simple_Query_Active" /\ session.pipelined
  <2>1. session' = ClosedSession /\ raised' = "copy_in_pipeline_mode"
    BY <1>3, <1>5 DEF ReceiveMessage, CopyResponses
  <2>2. NoDesynchronisation' /\ raised' \in Outcomes /\ session'.state = "Closed"
    BY <2>1, ClosedSessionIs DEF NoDesynchronisation, Outcomes
  <2>3. SessionInv'
    BY <1>1, <2>1, <2>2, TerminateStep
  <2> QED
    BY <2>2, <2>3, RefusedKeeps
<1>6. CASE session.state # "Simple_Query_Active" /\ ~session.pipelined
  <2>1. session' = EnterCopy(session, Kind, "Extended_Copy", session.pending > 0)
        /\ raised' = "none"
    BY <1>3, <1>6 DEF ReceiveMessage, Becomes, CopyResponses
  <2>2. NoDesynchronisation' /\ raised' \in Outcomes
    BY <2>1 DEF NoDesynchronisation, Outcomes
  <2>3. (session.pending > 0) \in BOOLEAN
    OBVIOUS
  <2>4. SessionInv'
    BY <1>1, <1>6, <2>1, <2>2, <2>3, EnterExtendedCopyStep
  <2> QED
    BY <1>3, <1>6, <2>1, <2>2, <2>4, ExtendedCopyKeeps
<1> QED
  BY <1>4, <1>5, <1>6

LEMMA RawCopyDoneKeeps ==
  ASSUME NEW p, NEW q, NEW x, Reading(p, q, x), ReceiveMessage(Kind), Kind = "CopyDone"
  PROVE  WireInv'
<1>1. /\ session \in Sessions /\ SessionInv /\ ClientIn(p) /\ Leads(p, Kind, x)
  BY ReadingSession
<1>2. p \in {"out", "copies", "both"}
  BY <1>1 DEF Leads, CopyResponses
<1>3. session.origin # "No_Copy"
  BY <1>1, <1>2 DEF ClientIn
<1>4. session.recvOpen /\ session.origin \in {"Simple_Copy", "Extended_Copy"}
  BY <1>1, <1>3, CopyReads DEF Sessions, Origins
<1>5. session' = AfterCopyDone /\ raised' = "none"
  BY <1>3, <1>4 DEF ReceiveMessage, Becomes, CopyResponses
<1>6. NoDesynchronisation' /\ raised' \in Outcomes
  BY <1>5 DEF NoDesynchronisation, Outcomes
<1>7. CASE session.sendOpen
  <2>1. session.state = "Copy_Both_Active"
    BY <1>1, <1>4, <1>7 DEF SessionInv, CopyFlagsAgree
  <2>2. session' = [session EXCEPT !.sendOpen = TRUE, !.recvOpen = FALSE,
                                   !.state = "Copy_Both_Active"]
    BY <1>1, <1>5, <1>7, <2>1 DEF AfterCopyDone, Sessions
  <2>3. SessionInv'
    BY <1>1, <1>4, <1>6, <2>2, CopyGoesOn DEF States
  <2> QED
    BY <1>5, <1>6, <2>3, CopyDoneKeeps
<1>8. CASE ~session.sendOpen
  <2>1. session' = [session EXCEPT !.sendOpen = FALSE, !.recvOpen = FALSE,
                                   !.state = "Copy_Completion_Active"]
    BY <1>1, <1>5, <1>8 DEF AfterCopyDone, Sessions
  <2>2. SessionInv'
    BY <1>1, <1>4, <1>6, <2>1, CopyGoesOn DEF States
  <2> QED
    BY <1>5, <1>6, <2>2, CopyDoneKeeps
<1> QED
  BY <1>7, <1>8

\* COPY ends, by CommandComplete or by an error.
LEMMA AfterCopyStep ==
  ASSUME SessionInv, BatchInv, session.origin # "No_Copy", session.state # "Closed",
         ~session.sendOpen \/ session.origin = "Extended_Copy", raised' \in Outcomes,
         NEW failed \in {"Extended_Query_Active", "Recovery_Required"},
         session' = AfterCopy(failed)
  PROVE  SessionInv'
<1>1. /\ session \in Sessions /\ session.origin \in {"Simple_Copy", "Extended_Copy"}
      /\ ~session.pipelined /\ (session.origin = "Simple_Copy" => Alone)
  BY DEF SessionInv, TypeOK, Sessions, Origins, PipelineExcludesCopy, OriginFits
<1>2. CASE session.origin = "Simple_Copy"
  <2> DEFINE s == [session EXCEPT !.state = "Simple_Query_Active"]
  <2>1. session' = ResetCopy(s)
    BY <1>2 DEF AfterCopy
  <2>2. /\ s \in Sessions /\ s.state = "Simple_Query_Active"
        /\ s.pending = session.pending /\ s.batchOpen = session.batchOpen
        /\ s.bound = session.bound /\ s.suspended = session.suspended
        /\ s.pipelined = session.pipelined
    BY <1>1 DEF Sessions, States
  <2> HIDE DEF s
  <2> QED
    BY <1>1, <1>2, <2>1, <2>2, ResetCopyStep DEF Alone
<1>3. CASE session.origin = "Extended_Copy" /\ session.copySync
  <2>1. ~session.sendOpen
    BY <1>3 DEF BatchInv
  <2>2. session' = [session EXCEPT !.sendOpen = FALSE, !.recvOpen = session.recvOpen,
                                   !.state = "Awaiting_Ready"]
    BY <1>1, <1>3, <2>1 DEF AfterCopy, Sessions
  <2>3. session.recvOpen \in BOOLEAN /\ "Awaiting_Ready" \in States
    BY <1>1 DEF Sessions, States
  <2> QED
    BY <1>1, <1>3, <2>2, <2>3, CopyGoesOn
<1>4. CASE session.origin = "Extended_Copy" /\ ~session.copySync
  <2> DEFINE s == [session EXCEPT !.state = failed]
  <2>1. session' = ResetCopy(s)
    BY <1>4 DEF AfterCopy
  <2>2. /\ s \in Sessions /\ s.state = failed /\ s.pipelined = session.pipelined
    BY <1>1 DEF Sessions, States
  <2> HIDE DEF s
  <2> QED
    BY <1>1, <2>1, <2>2, ResetCopyStep
<1> QED
  BY <1>1, <1>2, <1>3, <1>4

LEMMA RawCompleteKeeps ==
  ASSUME NEW p, NEW q, NEW x, Reading(p, q, x), ReceiveMessage(Kind), Kind = "CommandComplete"
  PROVE  WireInv'
<1>1. /\ session \in Sessions /\ SessionInv /\ BatchInv /\ ClientIn(p) /\ Leads(p, Kind, x)
      /\ session.state # "Closed" /\ ~session.sendOpen
  BY ReadingSession
<1>2. raised' = "none"
  BY DEF ReceiveMessage, Becomes, CopyResponses
<1>3. NoDesynchronisation' /\ raised' \in Outcomes
  BY <1>2 DEF NoDesynchronisation, Outcomes
<1>4. CASE session.origin = "No_Copy"
  <2>1. session' = session
    BY <1>4 DEF ReceiveMessage, Becomes, CopyResponses
  <2>2. SessionInv'
    BY <1>1, <1>3, <2>1, SameSession
  <2>3. p \in {"flat", "asked", "rows"}
    BY <1>1, <1>4 DEF Leads, CopyResponses, ClientIn
  <2>4. session.state \in {"Extended_Query_Active", "Awaiting_Ready", "Simple_Query_Active"}
    <3>1. CASE p = "flat"
      <4>1. session.state # "Ready"
        BY <3>1, BatchReading DEF BatchPhases
      <4> QED
        BY <1>1, <3>1, <4>1 DEF ClientIn, CopyIsOver
    <3>2. CASE p \in {"asked", "rows"}
      BY <1>1, <3>2 DEF ClientIn
    <3> QED
      BY <2>3, <3>1, <3>2
  <2>5. Kind \notin CopyResponses \union {"ReadyForQuery", "CopyDone", "Error"}
    BY DEF CopyResponses
  <2> QED
    BY <1>3, <2>1, <2>2, <2>4, <2>5, NotedKeeps
<1>5. CASE session.origin # "No_Copy"
  <2>1. session' = AfterCopy("Extended_Query_Active")
    BY <1>5 DEF ReceiveMessage, Becomes, CopyResponses
  <2>2. SessionInv'
    BY <1>1, <1>3, <1>5, <2>1, AfterCopyStep
  <2> QED
    BY <1>3, <1>5, <2>1, <2>2, CopyEndsKeeps
<1> QED
  BY <1>4, <1>5

LEMMA RawErrorKeeps ==
  ASSUME NEW p, NEW q, NEW x, Reading(p, q, x), ReceiveMessage(Kind), Kind = "Error"
  PROVE  WireInv'
<1>1. /\ session \in Sessions /\ SessionInv /\ BatchInv /\ ClientIn(p) /\ Leads(p, Kind, x)
      /\ session.state # "Closed" /\ session.origin \in Origins
  BY ReadingSession DEF Sessions
<1>2. raised' = "none"
  BY DEF ReceiveMessage, Becomes, CopyResponses
<1>3. NoDesynchronisation' /\ raised' \in Outcomes
  BY <1>2 DEF NoDesynchronisation, Outcomes
<1>4. CASE session.origin = "Simple_Copy"
  <2>1. session' = [session EXCEPT !.sendOpen = FALSE, !.recvOpen = FALSE,
                                   !.state = "Copy_Completion_Active"]
    BY <1>4 DEF ReceiveMessage, Becomes, CopyResponses
  <2>2. SessionInv'
    BY <1>1, <1>3, <1>4, <2>1, CopyGoesOn DEF States
  <2> QED
    BY <1>3, <1>4, <2>1, <2>2, CopyClosesKeeps
<1>5. CASE session.origin = "Extended_Copy"
  <2>1. session' = AfterCopy("Recovery_Required")
    BY <1>5 DEF ReceiveMessage, Becomes, CopyResponses
  <2>2. SessionInv'
    BY <1>1, <1>3, <1>5, <2>1, AfterCopyStep
  <2>3. "Recovery_Required" \in States /\ session.origin # "No_Copy"
    BY <1>5 DEF States
  <2>4. /\ KeepsBatch
        /\ \/ session.copySync /\ session'.state = "Awaiting_Ready"
                /\ session'.origin = session.origin /\ session'.copySync = session.copySync
                /\ session'.sendOpen = session.sendOpen /\ session'.recvOpen = session.recvOpen
           \/ ~session.copySync /\ CopyIsReset /\ session'.state = "Recovery_Required"
    BY <1>1, <1>5, <2>1, <2>3, AfterCopyFields
  <2>5. session'.sendOpen => session.sendOpen
    BY <2>4 DEF CopyIsReset
  <2> QED
    BY <1>3, <1>5, <2>2, <2>3, <2>4, <2>5, CopyFailedKeeps
<1>6. CASE /\ session.origin = "No_Copy" /\ session.state = "Extended_Query_Active"
           /\ session.pending = 0
  <2>1. session' = [session EXCEPT !.state = "Recovery_Required"]
    BY <1>6 DEF ReceiveMessage, Becomes, CopyResponses
  <2>2. /\ session' \in Sessions /\ session'.state = "Recovery_Required"
        /\ session'.origin = session.origin /\ session'.copySync = session.copySync
        /\ session'.sendOpen = session.sendOpen /\ session'.recvOpen = session.recvOpen
        /\ session'.bidir = session.bidir /\ session'.pipelined = session.pipelined
        /\ session'.pending = session.pending /\ session'.batchOpen = session.batchOpen
        /\ session'.bound = session.bound /\ session'.suspended = session.suspended
    BY <1>1, <2>1 DEF Sessions, States
  <2>3. NoCopy(session') /\ KeepsBatch
    BY <1>1, <1>6, <2>2, OutsideCopyFlags DEF NoCopy, KeepsBatch
  <2>4. ReadyIsClean'
    BY <2>2 DEF ReadyIsClean
  <2>5. SessionInv'
    BY <1>3, <2>2, <2>3, <2>4, OutsideCopy
  <2> QED
    BY <1>3, <1>6, <2>2, <2>3, <2>5, BatchFailedKeeps
<1>7. CASE /\ session.origin = "No_Copy"
           /\ ~(session.state = "Extended_Query_Active" /\ session.pending = 0)
  <2>1. session' = session
    BY <1>7 DEF ReceiveMessage, Becomes, CopyResponses
  <2>2. SessionInv'
    BY <1>1, <1>3, <2>1, SameSession
  <2>3. p \in {"flat", "asked"}
    BY <1>1, <1>7 DEF Leads, CopyResponses, ClientIn
  <2>4. \/ session.state = "Simple_Query_Active"
        \/ session.state \in {"Extended_Query_Active", "Awaiting_Ready"} /\ session.pending > 0
    <3>1. CASE p = "flat"
      <4>1. session.state # "Ready" /\ session.pending \in Nat
        BY <3>1, BatchReading DEF BatchPhases
      <4>2. session.state \in {"Extended_Query_Active", "Awaiting_Ready"}
        BY <1>1, <3>1, <4>1 DEF ClientIn, CopyIsOver
      <4> QED
        BY <1>1, <1>7, <4>1, <4>2 DEF BatchInv
    <3>2. CASE p = "asked"
      BY <1>1, <3>2 DEF ClientIn
    <3> QED
      BY <2>3, <3>1, <3>2
  <2>5. Kind \notin CopyResponses \union {"ReadyForQuery", "CopyDone"}
    BY DEF CopyResponses
  <2> QED
    BY <1>3, <2>1, <2>2, <2>4, <2>5, NotedKeeps
<1> QED
  BY <1>1, <1>4, <1>5, <1>6, <1>7 DEF Origins

LEMMA RawReadyKeeps ==
  ASSUME NEW p, NEW q, NEW x, Reading(p, q, x), ReceiveMessage(Kind), Kind = "ReadyForQuery"
  PROVE  WireInv'
<1>1. /\ session \in Sessions /\ SessionInv /\ ClientIn(p) /\ Leads(p, Kind, x)
      /\ session.state # "Closed"
  BY ReadingSession
<1>2. session' = CompleteSynchronization(session) /\ raised' = "none"
  BY DEF ReceiveMessage, Becomes, CopyResponses
<1>3. NoDesynchronisation' /\ raised' \in Outcomes
  BY <1>2 DEF NoDesynchronisation, Outcomes
<1>4. session.batchOpen => session.state \in {"Extended_Query_Active", "Awaiting_Ready"}
  <2>1. p \in {"flat", "failed", "over"}
    BY <1>1 DEF Leads, CopyResponses
  <2>2. CASE p = "over"
    BY <1>1, <2>2 DEF ClientIn, SessionInv, OriginFits, Alone
  <2>3. CASE p \in {"flat", "failed"}
    <3>1. session.state \notin {"Ready", "Recovery_Required"}
      BY <2>3, BatchReading DEF BatchPhases
    <3> QED
      BY <1>1, <2>3, <3>1 DEF ClientIn, CopyIsOver
  <2> QED
    BY <2>1, <2>2, <2>3
<1>5. SessionInv'
  BY <1>1, <1>2, <1>3, <1>4, CompleteSynchronizationStep
<1> QED
  BY <1>1, <1>2, <1>3, <1>5, SynchronizedKeeps

LEMMA RawKeeps ==
  ASSUME NEW p, NEW q, NEW x, Reading(p, q, x), ReceiveMessage(Kind)
  PROVE  WireInv'
<1>1. CASE Kind \in CopyResponses \union {"CopyDone", "CommandComplete", "Error", "ReadyForQuery"}
  BY <1>1, RawCopyKeeps, RawCopyDoneKeeps, RawCompleteKeeps, RawErrorKeeps, RawReadyKeeps
<1>2. CASE Kind \notin CopyResponses \union {"CopyDone", "CommandComplete", "Error", "ReadyForQuery"}
  <2>1. session' = session /\ raised' = "none"
    BY <1>2 DEF ReceiveMessage, Becomes
  <2>2. NoDesynchronisation' /\ raised' \in Outcomes
    BY <2>1 DEF NoDesynchronisation, Outcomes
  <2>3. SessionInv'
    BY <2>1, <2>2, SameSession, ReadingSession
  <2> QED
    BY <1>2, <2>1, <2>2, <2>3, NotedKeeps
<1> QED
  BY <1>1, <1>2

-----------------------------------------------------------------------------
(* Every step.                                                             *)

\* What the application and the backend may do where the invariants hold: they
\* pipeline, and mix the raw receive operation with the typed ones.
Disciplined == Liberties \subseteq {"pipeline", "receive_raw"}

\* What a disciplined application does not do.
LEMMA NoOtherLiberties ==
  ASSUME Disciplined
  PROVE  /\ "follow_copy" \notin Liberties /\ "sync_twice" \notin Liberties
         /\ "copy_fails_early" \notin Liberties /\ "read_after_close" \notin Liberties
BY DEF Disciplined

\* The session once InOpenBatch has opened its batch.
LEMMA OpenBatchIs ==
  ASSUME NEW s \in Sessions, s.state \in {"Ready", "Extended_Query_Active", "Awaiting_Ready"}
  PROVE  /\ InOpenBatch(s) \in Sessions /\ InOpenBatch(s).state = "Extended_Query_Active"
         /\ InOpenBatch(s).batchOpen /\ InOpenBatch(s).pending = s.pending
         /\ InOpenBatch(s).pipelined = s.pipelined
<1>1. InOpenBatch(s).batchOpen
  <2> DEFINE bound == s.bound /\ s.batchOpen
             suspended == s.suspended /\ s.batchOpen
             state == IF s.state \in {"Ready", "Awaiting_Ready"}
                      THEN "Extended_Query_Active" ELSE s.state
  <2>1. InOpenBatch(s) = [s EXCEPT !.batchOpen = TRUE, !.bound = bound,
                                   !.suspended = suspended, !.state = state]
    BY Zenon DEF InOpenBatch
  <2> HIDE DEF bound, suspended, state
  <2> QED
    BY <2>1 DEF Sessions
<1>2. InOpenBatch(s) \in Sessions /\ InOpenBatch(s).state = "Extended_Query_Active"
      /\ InOpenBatch(s).pending = s.pending /\ InOpenBatch(s).pipelined = s.pipelined
  BY InOpenBatchIs
<1> QED
  BY <1>1, <1>2

\* The states in which a batch may be extended.
LEMMA BatchStarts ==
  ASSUME SessionInv, MayExtend
  PROVE  /\ session \in Sessions /\ session.state # "Closed"
         /\ session.state \in {"Ready", "Extended_Query_Active", "Awaiting_Ready"}
BY DEF SessionInv, TypeOK, MayExtend

LEMMA WriteParseKeeps ==
  ASSUME WireInv, Disciplined, WriteParse PROVE WireInv'
<1>1. /\ SessionInv /\ SendParse /\ MayExtend /\ ~CopyInOnItsWay /\ Write("Parse", "no_rows")
      /\ toClient' = toClient /\ server' = server
  BY NoOtherLiberties DEF WireInv, WriteParse, MayFollow, SendParse
<1>2. session' = InOpenBatch(session) /\ raised' = "none"
  BY <1>1 DEF SendParse, Becomes
<1>3. "Parse" \in BatchTags /\ "no_rows" \in AllWorks
  BY DEF BatchTags, AllWorks
<1>4. SessionInv'
  BY <1>1, SendParseStep
<1> QED
  BY <1>1, <1>2, <1>3, <1>4, BatchStarts, OpenBatchIs, BatchWriteKeeps

LEMMA WriteBindKeeps ==
  ASSUME WireInv, Disciplined, WriteBind PROVE WireInv'
<1> DEFINE t == InOpenBatch(session)
<1>1. /\ SessionInv /\ BindPortal /\ MayExtend /\ ~CopyInOnItsWay /\ Write("Bind", "no_rows")
      /\ toClient' = toClient /\ server' = server
  BY NoOtherLiberties DEF WireInv, WriteBind, MayFollow, BindPortal
<1>2. session' = [t EXCEPT !.bound = TRUE, !.suspended = FALSE] /\ raised' = "none"
  BY <1>1 DEF BindPortal, Becomes
<1>3. "Bind" \in BatchTags /\ "no_rows" \in AllWorks
  BY DEF BatchTags, AllWorks
<1>4. SessionInv'
  BY <1>1, BindPortalStep
<1>5. /\ t \in Sessions /\ t.state = "Extended_Query_Active" /\ t.batchOpen
      /\ t.pending = session.pending /\ t.pipelined = session.pipelined
  BY <1>1, BatchStarts, OpenBatchIs
<1> HIDE DEF t
<1>6. /\ session'.state = "Extended_Query_Active" /\ session'.batchOpen
      /\ session'.pending = session.pending /\ session'.pipelined = session.pipelined
  BY <1>2, <1>5 DEF Sessions
<1> QED
  BY <1>1, <1>2, <1>3, <1>4, <1>6, BatchStarts, BatchWriteKeeps

LEMMA WriteDescribeKeeps ==
  ASSUME WireInv, Disciplined, WriteDescribe PROVE WireInv'
<1>1. PICK work \in PortalWorks :
        /\ SendParse /\ MayExtend /\ ~CopyInOnItsWay /\ Write("Describe", work)
        /\ toClient' = toClient /\ server' = server
  BY NoOtherLiberties DEF WriteDescribe, MayFollow, SendParse
<1>2. session' = InOpenBatch(session) /\ raised' = "none" /\ SessionInv
  BY <1>1 DEF SendParse, Becomes, WireInv
<1>3. "Describe" \in BatchTags /\ work \in AllWorks
  BY EnvironmentAssumption DEF BatchTags
<1>4. SessionInv'
  BY <1>1, <1>2, SendParseStep
<1> QED
  BY <1>1, <1>2, <1>3, <1>4, BatchStarts, OpenBatchIs, BatchWriteKeeps

LEMMA WriteExecuteKeeps ==
  ASSUME WireInv, Disciplined, WriteExecute PROVE WireInv'
<1>1. PICK work \in PortalWorks :
        /\ ExecutePortal \/ ResumePortal
        /\ ~CopyInOnItsWay /\ Write("Execute", work)
        /\ toClient' = toClient /\ server' = server
  BY NoOtherLiberties DEF WriteExecute, MayFollow
<1>2. SessionInv /\ session \in Sessions
  BY DEF WireInv, SessionInv, TypeOK
<1>3. "Execute" \in BatchTags /\ work \in AllWorks
  BY EnvironmentAssumption DEF BatchTags
<1>4. SessionInv' /\ raised' = "none" /\ MayExtend
  BY <1>1, <1>2, ExecutePortalStep, ResumePortalStep DEF ExecutePortal, ResumePortal,
     Becomes, MayExtend
<1>5. PICK s \in Sessions :
        /\ session' = InOpenBatch(s) /\ s.state = session.state
        /\ s.pending = session.pending /\ s.pipelined = session.pipelined
  <2>1. CASE ExecutePortal
    BY <1>2, <2>1 DEF ExecutePortal, Becomes
  <2>2. CASE ResumePortal
    <3> DEFINE s == [session EXCEPT !.suspended = FALSE]
    <3>1. session' = InOpenBatch(s)
      BY <2>2 DEF ResumePortal, Becomes
    <3>2. /\ s \in Sessions /\ s.state = session.state
          /\ s.pending = session.pending /\ s.pipelined = session.pipelined
      BY <1>2 DEF Sessions
    <3> QED
      BY <3>1, <3>2
  <2> QED
    BY <1>1, <2>1, <2>2
<1>6. /\ session'.state = "Extended_Query_Active" /\ session'.batchOpen
      /\ session'.pending = session.pending /\ session'.pipelined = session.pipelined
      /\ session.state # "Closed"
  BY <1>2, <1>4, <1>5, BatchStarts, OpenBatchIs
<1> QED
  BY <1>1, <1>3, <1>4, <1>6, BatchWriteKeeps

LEMMA OtherWritesKeep ==
  ASSUME WireInv, Disciplined,
         WriteFlush \/ WriteSync \/ WriteQuery \/ WriteCopyData \/ WriteCopyEnd \/ ChangeMode
  PROVE  WireInv'
<1>1. CASE WriteFlush
  <2>1. Flush /\ UNCHANGED wireVars /\ session.state # "Closed"
    BY <1>1 DEF WriteFlush, Flush, MayExtend
  <2> QED
    BY <2>1, FlushKeeps
<1>2. CASE WriteSync
  <2>1. /\ session.pipelined \/ session.pending = 0
        /\ Synchronize /\ Write("Sync", "no_rows") /\ toClient' = toClient /\ server' = server
        /\ session.state # "Closed"
    BY <1>2, NoOtherLiberties DEF WriteSync, Synchronize, MaySynchronize
  <2> QED
    BY <2>1, SyncKeeps
<1>3. CASE WriteQuery
  <2>1. PICK work \in QueryWorks :
          /\ SendQuery /\ Write("Query", work) /\ toClient' = toClient /\ server' = server
          /\ session.state # "Closed" /\ work \in AllWorks
    BY <1>3, EnvironmentAssumption DEF WriteQuery, SendQuery
  <2> QED
    BY <2>1, QueryKeeps
<1>4. CASE WriteCopyData
  <2>1. /\ SendCopyData /\ Write("CopyData", "no_rows") /\ toClient' = toClient
           /\ server' = server
        /\ session.state # "Closed"
    BY <1>4 DEF WriteCopyData, SendCopyData, CanSendCopy
  <2> QED
    BY <2>1, CopyDataKeeps
<1>5. CASE WriteCopyEnd
  <2>1. PICK tag \in EndTags :
          /\ EndCopyData /\ Write(tag, "no_rows") /\ toClient' = toClient /\ server' = server
          /\ session.state # "Closed"
    BY <1>5 DEF WriteCopyEnd, EndCopyData, CanSendCopy, EndTags
  <2> QED
    BY <2>1, CopyEndKeeps
<1>6. CASE ChangeMode
  <2>1. (EnterPipelineMode \/ ExitPipelineMode) /\ UNCHANGED wireVars
        /\ session.state # "Closed"
    BY <1>6 DEF ChangeMode, EnterPipelineMode, ExitPipelineMode
  <2> QED
    BY <2>1, ModeKeeps
<1> QED
  BY <1>1, <1>2, <1>3, <1>4, <1>5, <1>6

LEMMA ReadsKeep ==
  ASSUME WireInv, Disciplined, ReadTyped \/ ReadRaw PROVE WireInv'
<1>1. Reads /\ toServer' = toServer /\ server' = server
  BY DEF ReadTyped, ReadRaw, Reads
<1>2. session.state # "Closed"
  <2>1. CASE ReadTyped
    BY <2>1 DEF ReadTyped, ReceiveQueryEvent, ReceiveExtendedEvent, ReceiveCopyEvent,
       CopyStreams
  <2>2. CASE ReadRaw
    BY <2>2, NoOtherLiberties DEF ReadRaw
  <2> QED
    BY <2>1, <2>2
<1>3. PICK p, q, x \in Phases : Reading(p, q, x)
  BY <1>1, <1>2, ReadStarts
<1>4. CASE ReadRaw
  <2>1. ReceiveMessage(Kind)
    BY <1>4 DEF ReadRaw, Kind
  <2> QED
    BY <1>3, <2>1, RawKeeps
<1>5. CASE ReadTyped
  <2>1. \/ ReceiveQueryEvent(Kind, Head(toClient).shape)
        \/ /\ session.origin = "No_Copy" \/ CopyIsOver
           /\ ReceiveExtendedEvent(Kind, Head(toClient).shape)
        \/ /\ CopyIsOver => Kind = "ReadyForQuery"
           /\ ReceiveCopyEvent(Kind, Head(toClient).shape)
    BY <1>5 DEF ReadTyped, Kind
  <2> QED
    BY <1>3, <2>1, QueryEventKeeps, ExtendedEventKeeps, CopyEventKeeps
<1> QED
  BY <1>4, <1>5

LEMMA WireInitInv ==
  ASSUME WireInit PROVE WireInv
<1>1. /\ Init /\ toServer = <<>> /\ toClient = <<>> /\ server = "idle"
  BY DEF WireInit
<1>2. SessionInv
  BY <1>1, InitEstablishes
<1>3. /\ session.state = "Ready" /\ session.origin = "No_Copy" /\ session.pending = 0
      /\ ~session.sendOpen /\ ~session.recvOpen /\ ~session.copySync /\ ~session.pipelined
      /\ ~session.batchOpen /\ ~session.bound /\ ~session.suspended /\ raised = "none"
  BY <1>1 DEF Init, StartedSession
<1>4. WireTypes
  BY <1>1 DEF WireTypes, Modes
<1>5. /\ DOMAIN toServer = {} /\ DOMAIN toClient = {} /\ Len(toServer) = 0 /\ Len(toClient) = 0
  BY <1>1, EmptySeq
<1>6. \A K : ~Sends(K) /\ ~Brings(K)
  BY <1>5 DEF Sends, Brings
<1>7. Flow("flat", "flat") /\ "flat" \in Phases
  <2>1. Walk(toClient, "flat", "flat") /\ "flat" \in Phases
    BY <1>1, WalkNowhere DEF Phases, BatchPhases
  <2>2. ClientIn("flat") /\ ServerIn("flat") /\ CommandsFit("flat")
    BY <1>1, <1>3, <1>6 DEF ClientIn, ServerIn, CommandsFit
  <2> QED
    BY <2>1, <2>2 DEF Flow
<1>8. EndsInOrder /\ NothingFollows /\ CopyInIsOrdered
  BY <1>1, <1>3, <1>5, <1>6 DEF EndsInOrder, NothingFollows, CopyInIsOrdered
<1>9. Counted
  <2>1. ReadiesIn = {} /\ SyncsIn = {}
    BY <1>5 DEF ReadiesIn, SyncsIn
  <2>2. ReadiesToCome = 0
    BY <1>4, <2>1, ReadiesCount
  <2> QED
    BY <1>3, <1>6, <2>2 DEF Counted
<1>10. BatchInv /\ EndsBySync
  BY <1>1, <1>3, <1>5 DEF BatchInv, EndsBySync
<1>11. NoDesynchronisation
  BY <1>3 DEF NoDesynchronisation
<1> QED
  BY <1>2, <1>4, <1>7, <1>8, <1>9, <1>10, <1>11 DEF WireInv, ExchangeInv

LEMMA FailCopyInStepKeeps ==
  ASSUME WireInv, Disciplined, FailCopyIn PROVE WireInv'
BY FailCopyInKeeps, NoOtherLiberties DEF FailCopyIn

LEMMA WireStutterKeeps ==
  ASSUME WireInv, UNCHANGED vars PROVE WireInv'
<1>1. /\ session' = session /\ raised' = raised
      /\ toServer' = toServer /\ toClient' = toClient /\ server' = server
  BY DEF vars, clientVars, wireVars
<1>2. SessionInv'
  BY <1>1, SameSession DEF WireInv, SessionInv, TypeOK
<1>3. NoDesynchronisation' /\ WireTypes'
  BY <1>1 DEF WireInv, NoDesynchronisation, WireTypes
<1>4. ASSUME session.state # "Closed" PROVE ExchangeInv'
  <2>1. ExchangeInv
    BY <1>4 DEF WireInv
  <2>2. PICK p \in Phases, q \in Phases : Flow(p, q)
    BY <2>1 DEF ExchangeInv
  <2>3. Flow(p, q)'
    BY <1>1, <2>2 DEF Flow, ClientIn, ServerIn, CommandsFit, CopyIsOver, BothClosed, Sends,
       Brings
  <2>4. EndsInOrder' /\ NothingFollows'
    BY <1>1, <2>1 DEF ExchangeInv, EndsInOrder, NothingFollows, Sends, Brings
  <2>5. CopyInIsOrdered'
    BY <1>1, <2>1 DEF ExchangeInv, CopyInIsOrdered, SwallowedAt, Sends, Brings
  <2>6. ReadiesIn' = ReadiesIn /\ SyncsIn' = SyncsIn /\ ReadiesToCome' = ReadiesToCome
    BY <1>1 DEF ReadiesIn, SyncsIn, ReadiesToCome, SwallowedAt
  <2>7. Counted' /\ BatchInv'
    BY <1>1, <2>1, <2>6 DEF ExchangeInv, Counted, BatchInv, SimpleQueryRuns, Brings
  <2>8. EndsBySync'
    BY <1>1, <2>1, <2>6 DEF ExchangeInv, EndsBySync, Loose, SimpleQueryRuns, Brings
  <2> QED
    BY <2>2, <2>3, <2>4, <2>5, <2>7, <2>8 DEF ExchangeInv
<1> QED
  BY <1>1, <1>2, <1>3, <1>4 DEF WireInv

LEMMA WireNextKeeps ==
  ASSUME WireInv, Disciplined, [WireNext]_vars PROVE WireInv'
<1>1. CASE Client
  BY <1>1, WriteParseKeeps, WriteBindKeeps, WriteDescribeKeeps, WriteExecuteKeeps,
     OtherWritesKeep, TerminateKeeps, ReadsKeep DEF Client
<1>2. CASE Backend
  BY <1>2, ServeFailureKeeps, ServeDefinitionKeeps, ServeDescribeKeeps, ServeExecuteKeeps,
     ServeSyncKeeps, ServeNothingKeeps, ServeQueryKeeps, ServeCopyInKeeps,
     ServeSimpleCopyInKeeps, FailCopyInStepKeeps, StreamCopyBothKeeps, ServeCopyBothKeeps
     DEF Backend
<1>3. CASE WireFinished \/ UNCHANGED vars
  BY <1>3, WireStutterKeeps DEF WireFinished
<1> QED
  BY <1>1, <1>2, <1>3 DEF WireNext

\* The CopyInResponse that Counted speaks of is the one PendingIsToCome does.
LEMMA CopyInIsBrought ==
  ASSUME WireTypes, Brings({"CopyInResponse"})
  PROVE  CopyInOnItsWay
BY DEF Brings, CopyInOnItsWay

(***************************************************************************)
(* Whatever a disciplined application calls, and however the backend       *)
(* answers, the order and the number of what is in flight fit what the     *)
(* session believes.                                                       *)
(***************************************************************************)
THEOREM WireInvariant ==
  ASSUME Disciplined
  PROVE  WireSpec => []WireInv
<1>1. WireInit => WireInv
  BY WireInitInv
<1>2. WireInv /\ [WireNext]_vars => WireInv'
  BY WireNextKeeps
<1> QED
  BY <1>1, <1>2, PTL DEF WireSpec

\* The Pending_Syncs of a session are the ReadyForQuery messages still to come.
THEOREM PendingCounted ==
  ASSUME Disciplined
  PROVE  WireSpec => []PendingIsToCome
<1>1. WireInv => PendingIsToCome
  BY CopyInIsBrought DEF WireInv, ExchangeInv, Counted, PendingIsToCome
<1> QED
  BY <1>1, WireInvariant, PTL

\* A session that reports Ready is at rest, and so is the backend.
THEOREM ReadyQuiet ==
  ASSUME Disciplined
  PROVE  WireSpec => []ReadyMeansQuiet
<1>1. WireInv => ReadyMeansQuiet
  BY QuietWhenReady DEF ReadyMeansQuiet
<1> QED
  BY <1>1, WireInvariant, PTL

\* No correct backend makes a receive operation raise Protocol_Error, but for
\* COPY in a pipeline and a row description gone stale.
THEOREM NeverDesynchronised ==
  ASSUME Disciplined
  PROVE  WireSpec => []NoDesynchronisation
<1>1. WireInv => NoDesynchronisation
  BY DEF WireInv
<1> QED
  BY <1>1, WireInvariant, PTL

-----------------------------------------------------------------------------
(* What arrives for an earlier batch.                                      *)

\* While a ReadyForQuery is to come, a response is one to a simple query or
\* to a batch that was synchronized, or it opens a COPY.
LEMMA StillOwed ==
  ASSUME NEW p, NEW q, NEW x, Reading(p, q, x), ReadiesToCome > 0
  PROVE  /\ session.state # "Recovery_Required"
         /\ session.pending > 0 \/ SimpleQueryRuns \/ Kind \in CopyResponses
<1>1. /\ WireTypes /\ ExchangeInv /\ SessionInv /\ p \in Phases /\ Flow(p, q) /\ ClientIn(p)
  BY ReadingWires DEF Reading, Flow
<1>2. CASE p \notin BatchPhases
  <2>1. p \in QueryPhases
    BY <1>1, <1>2 DEF Phases
  <2> QED
    BY <1>1, <2>1 DEF ClientIn, QueryPhases, SimpleQueryRuns
<1>3. CASE p \in BatchPhases
  <2>1. ~SimpleQueryRuns /\ session.pending \in Nat /\ session.state # "Recovery_Required"
    BY <1>3, BatchReading
  <2>2. CASE ~Brings({"CopyInResponse"})
    BY <1>1, <2>1, <2>2 DEF ExchangeInv, Counted
  <2>3. CASE Brings({"CopyInResponse"})
    <3>1. q \in {"in", "reads"} /\ ~Sends(Tags \ {"Sync"})
      BY <1>1, <2>3, CopyInIsLast DEF Flow, ExchangeInv
    <3>2. server = "copy_in"
      BY <1>1, <1>3, <3>1 DEF Flow, ServerIn, BatchPhases
    <3>3. SyncsIn = {}
      <4>1. ~Sends({"CopyDone", "CopyFail"})
        BY <3>1 DEF Sends, Tags, CopyTags, BatchTags
      <4>2. \A i \in DOMAIN toServer : \A j \in 1 .. (i - 1) : j \in DOMAIN toServer
        BY <1>1, WireElements
      <4>3. \A i \in DOMAIN toServer : SwallowedAt(i)
        BY <3>2, <4>1, <4>2 DEF SwallowedAt, Sends
      <4> QED
        BY <4>3 DEF SyncsIn
    <3>4. /\ Cardinality(ReadiesIn) \in Nat /\ Cardinality(SyncsIn) = 0
          /\ ReadiesToCome = Cardinality(ReadiesIn) + Cardinality(SyncsIn)
      BY <1>1, <3>3, ReadiesCount
    <3> QED
      BY <1>1, <2>1, <2>3, <3>4 DEF ExchangeInv, Counted
  <2> QED
    BY <2>2, <2>3
<1> QED
  BY <1>2, <1>3

\* The ordering state stays, or the session closes.
Undisturbed ==
  \/ session'.state = "Closed"
  \/ /\ session'.bound = session.bound /\ session'.suspended = session.suspended
     /\ session'.state # "Recovery_Required"

\* What is owed when a response is read.
Owed(kind) ==
  /\ SessionInv /\ BatchInv /\ session.state \notin {"Recovery_Required", "Closed"}
  /\ session.pending > 0 \/ SimpleQueryRuns \/ kind \in CopyResponses
  /\ kind = "ReadyForQuery" => session.pending > 0 \/ SimpleQueryRuns

\* A session that a ReadyForQuery still to come belongs to.
LEMMA OwedSession ==
  ASSUME NEW kind, Owed(kind)
  PROVE  /\ session \in Sessions /\ session.pending \in Nat /\ SessionInv /\ BatchInv
         /\ session.state \notin {"Recovery_Required", "Closed"}
         /\ kind \notin CopyResponses => session.pending > 0 \/ SimpleQueryRuns
         /\ SimpleQueryRuns => Alone
BY DEF Owed, SessionInv, TypeOK, Sessions, OriginFits, SimpleQueryRuns

\* Nothing is disturbed when only the description changes.
LEMMA SameUndisturbed ==
  ASSUME NEW kind, Owed(kind),
         session' = session \/ \E d \in Descriptions : session' = Described(d)
  PROVE  Undisturbed
BY OwedSession, DescribedIs DEF Undisturbed

\* ... when a COPY is entered,
LEMMA EnteringUndisturbed ==
  ASSUME NEW kind \in CopyResponses, session \in Sessions,
         NEW origin \in Origins, NEW sync \in BOOLEAN, sync => session.pending > 0,
         session' = EnterCopy(session, kind, origin, sync)
  PROVE  Undisturbed
<1>1. /\ SameBatch(session, session')
      /\ kind = "CopyInResponse" => session'.state = "Copy_In_Active"
      /\ kind = "CopyOutResponse" => session'.state = "Copy_Out_Active"
      /\ kind = "CopyBothResponse" => session'.state = "Copy_Both_Active"
  BY EnterCopyIs
<1> QED
  BY <1>1 DEF SameBatch, Undisturbed, CopyResponses

\* ... when one of several Syncs is answered.
LEMMA SynchronizingUndisturbed ==
  ASSUME Owed("ReadyForQuery"), NEW s \in Sessions, session' = CompleteSynchronization(s),
         s.state = session.state, s.pending = session.pending, s.batchOpen = session.batchOpen,
         s.bound = session.bound, s.suspended = session.suspended
  PROVE  Undisturbed
<1> DEFINE open == s.batchOpen /\ s.pending > 0
<1>1. /\ session' \in Sessions
      /\ open => /\ session'.state = s.state
                 /\ session'.bound = s.bound /\ session'.suspended = s.suspended
      /\ ~open => /\ ~session'.bound /\ ~session'.suspended
                  /\ session'.state = IF session'.pending > 0 THEN "Awaiting_Ready" ELSE "Ready"
  BY CompleteSynchronizationIs
<1>2. /\ session \in Sessions /\ session.pending \in Nat /\ BatchInv
      /\ session.state \notin {"Recovery_Required", "Closed"}
      /\ session.pending > 0 \/ SimpleQueryRuns
      /\ SimpleQueryRuns => Alone
  BY OwedSession DEF CopyResponses
<1>3. CASE open
  BY <1>1, <1>2, <1>3 DEF Undisturbed
<1>4. CASE ~open
  <2>1. ~session.bound /\ ~session.suspended
    <3>1. CASE SimpleQueryRuns
      BY <1>2, <3>1 DEF Alone
    <3>2. CASE ~SimpleQueryRuns
      <4>1. session.pending > 0 /\ ~session.batchOpen
        BY <1>2, <1>4, <3>2 DEF Sessions
      <4> QED
        BY <1>2, <4>1 DEF BatchInv
    <3> QED
      BY <3>1, <3>2
  <2>2. session'.bound \in BOOLEAN /\ session'.suspended \in BOOLEAN
        /\ session.bound \in BOOLEAN
        /\ session.suspended \in BOOLEAN
    BY <1>1, <1>2 DEF Sessions
  <2>3. session'.state # "Recovery_Required"
    BY <1>1, <1>4
  <2> QED
    BY <1>1, <1>4, <2>1, <2>2, <2>3 DEF Undisturbed
<1> QED
  BY <1>3, <1>4

LEMMA QueryEventUndisturbed ==
  ASSUME NEW kind \in BackendKinds, NEW shape, HasShape(kind) => shape \in Columns,
         Owed(kind), ReceiveQueryEvent(kind, shape)
  PROVE  Undisturbed
<1>1. session \in Sessions /\ session.state = "Simple_Query_Active"
  BY OwedSession DEF ReceiveQueryEvent
<1>2. CASE session' = session \/ \E d \in Descriptions : session' = Described(d)
  BY <1>2, SameUndisturbed
<1>3. CASE session' = [Undescribed EXCEPT !.state = "Ready"]
  <2>1. Undescribed \in Sessions /\ Undescribed.bound = session.bound
        /\ Undescribed.suspended = session.suspended
    BY <1>1, DescribedIs, UndescribedIs
  <2> QED
    BY <1>3, <2>1 DEF Sessions, Undisturbed
<1>4. CASE kind \in CopyResponses /\ session' = EnterCopy(session, kind, "Simple_Copy", FALSE)
  <2>1. "Simple_Copy" \in Origins
    BY DEF Origins
  <2> QED
    BY <1>1, <1>4, <2>1, EnteringUndisturbed
<1> QED
  BY <1>2, <1>3, <1>4, UndescribedIs DEF ReceiveQueryEvent, Becomes, Raises, Descriptions,
     HasShape

LEMMA ExtendedEventUndisturbed ==
  ASSUME NEW kind \in BackendKinds, NEW shape, HasShape(kind) => shape \in Columns,
         Owed(kind), ReceiveExtendedEvent(kind, shape)
  PROVE  Undisturbed
<1> DEFINE sync == session.pending > 0
<1>1. /\ session \in Sessions /\ session.state \in {"Extended_Query_Active", "Awaiting_Ready"}
      /\ SessionInv
  BY OwedSession DEF ReceiveExtendedEvent
<1>2. kind \notin CopyResponses => sync
  <2>1. ~SimpleQueryRuns
    BY <1>1 DEF SimpleQueryRuns, SessionInv, OriginFits, CopyStates, CopyStreams
  <2> QED
    BY <2>1, OwedSession
<1>3. CASE kind \in CopyResponses
  <2>1. \/ session' = ClosedSession
        \/ session' = EnterCopy(session, kind, "Extended_Copy", sync)
    BY <1>3 DEF ReceiveExtendedEvent, Becomes, CopyResponses, Silent
  <2>2. "Extended_Copy" \in Origins /\ sync \in BOOLEAN
    BY DEF Origins
  <2>3. CASE session' = ClosedSession
    BY <2>3, ClosedSessionIs DEF Undisturbed
  <2>4. CASE session' = EnterCopy(session, kind, "Extended_Copy", sync)
    BY <1>1, <1>3, <2>2, <2>4, EnteringUndisturbed
  <2> QED
    BY <2>1, <2>3, <2>4
<1>4. CASE kind = "ReadyForQuery"
  <2>1. sync
    BY <1>2, <1>4 DEF CopyResponses
  <2>2. session' = CompleteSynchronization(session)
    BY <1>4, <2>1 DEF ReceiveExtendedEvent, Becomes, CopyResponses, Silent
  <2> QED
    BY <1>1, <1>4, <2>2, SynchronizingUndisturbed
<1>5. CASE kind \in {"CommandComplete", "EmptyQuery", "PortalSuspended"}
  <2>1. sync
    BY <1>2, <1>5 DEF CopyResponses
  <2>2. PICK s \in {session, Undescribed}, b \in BOOLEAN :
          session' = [s EXCEPT !.suspended = b] /\ (b <=> s.suspended)
    <3>1. CASE kind \in {"CommandComplete", "EmptyQuery"}
      <4>1. session' = [Undescribed EXCEPT !.suspended = @ /\ sync]
        BY <3>1 DEF ReceiveExtendedEvent, Becomes, CopyResponses, Silent
      <4>2. (Undescribed.suspended /\ sync) \in BOOLEAN
        OBVIOUS
      <4> QED
        BY <2>1, <4>1, <4>2
    <3>2. CASE kind = "PortalSuspended"
      <4>1. session' = [session EXCEPT !.suspended = @ \/ ~sync]
        BY <3>2 DEF ReceiveExtendedEvent, Becomes, CopyResponses, Silent
      <4>2. (session.suspended \/ ~sync) \in BOOLEAN
        OBVIOUS
      <4> QED
        BY <2>1, <4>1, <4>2
    <3> QED
      BY <1>5, <3>1, <3>2
  <2>3. /\ s \in Sessions /\ s.state = session.state
        /\ s.bound = session.bound /\ s.suspended = session.suspended
    BY <1>1, DescribedIs, UndescribedIs
  <2>4. /\ session'.state = s.state /\ session'.bound = s.bound /\ session'.suspended = b
        /\ s.suspended \in BOOLEAN
    BY <2>2, <2>3 DEF Sessions
  <2> QED
    BY <1>1, <2>2, <2>3, <2>4 DEF Undisturbed
<1>6. CASE kind \notin CopyResponses \union {"ReadyForQuery", "CommandComplete", "EmptyQuery", "PortalSuspended"}
  <2>1. sync
    BY <1>2, <1>6
  <2>2. session' = session \/ \E d \in Descriptions : session' = Described(d)
    <3>1. kind = "RowDescription" => shape \in Descriptions
      BY DEF HasShape, Descriptions
    <3>2. CASE kind = "RowDescription"
      <4>1. session' = Described(shape)
        BY <3>2 DEF ReceiveExtendedEvent, Becomes, CopyResponses, Silent
      <4> QED
        BY <3>1, <3>2, <4>1
    <3>3. CASE kind \in {"NoData", "Error"}
      <4>1. session' = Undescribed
        BY <2>1, <3>3 DEF ReceiveExtendedEvent, Becomes, CopyResponses, Silent
      <4> QED
        BY <4>1, UndescribedIs
    <3>4. CASE kind \notin {"RowDescription", "NoData", "Error"}
      BY <1>6, <3>4 DEF ReceiveExtendedEvent, Becomes, Raises
    <3> QED
      BY <3>2, <3>3, <3>4
  <2> QED
    BY <2>2, SameUndisturbed
<1> QED
  BY <1>3, <1>4, <1>5, <1>6

\* A COPY that is over, or that an error ends.
LEMMA AfterCopyUndisturbed ==
  ASSUME NEW kind, Owed(kind), kind \notin CopyResponses, session.origin # "No_Copy",
         NEW failed \in {"Extended_Query_Active", "Recovery_Required"},
         session' = AfterCopy(failed)
  PROVE  Undisturbed
<1>1. /\ session \in Sessions /\ BatchInv
      /\ session.pending > 0 \/ SimpleQueryRuns
      /\ session.origin \in {"Simple_Copy", "Extended_Copy"}
      /\ SessionInv
  BY OwedSession DEF Sessions, Origins
<1>2. session.origin = "Extended_Copy" => session.copySync
  <2>1. session.origin = "Extended_Copy" => ~SimpleQueryRuns
    BY <1>1 DEF SimpleQueryRuns, SessionInv, OriginFits, CopyStates, CopyStreams
  <2> QED
    BY <1>1, <2>1 DEF BatchInv, Sessions
<1>3. CASE session.origin = "Simple_Copy"
  <2> DEFINE s == [session EXCEPT !.state = "Simple_Query_Active"]
  <2>1. session' = ResetCopy(s)
    BY <1>3 DEF AfterCopy
  <2>2. /\ s \in Sessions /\ s.state = "Simple_Query_Active"
        /\ s.bound = session.bound /\ s.suspended = session.suspended
    BY <1>1 DEF Sessions, States
  <2> HIDE DEF s
  <2>3. SameBatch(s, session') /\ session'.state = s.state
    BY <2>1, <2>2, ResetCopyIs
  <2> QED
    BY <2>2, <2>3 DEF SameBatch, Undisturbed
<1>4. CASE session.origin = "Extended_Copy"
  <2>1. session' = [session EXCEPT !.state = "Awaiting_Ready"]
    BY <1>2, <1>4 DEF AfterCopy
  <2> QED
    BY <1>1, <2>1 DEF Sessions, Undisturbed
<1> QED
  BY <1>1, <1>3, <1>4

\* ... when only the directions of a COPY close.
LEMMA FlagsUndisturbed ==
  ASSUME NEW kind, Owed(kind), NEW state, state # "Recovery_Required",
         \/ session' = [session EXCEPT !.recvOpen = FALSE, !.state = state]
         \/ session' = [session EXCEPT !.sendOpen = FALSE, !.recvOpen = FALSE, !.state = state]
  PROVE  Undisturbed
BY OwedSession DEF Sessions, Undisturbed

LEMMA CopyEventUndisturbed ==
  ASSUME NEW kind \in BackendKinds, NEW shape, HasShape(kind) => shape \in Columns,
         Owed(kind), ReceiveCopyEvent(kind, shape)
  PROVE  Undisturbed
<1>1. /\ session \in Sessions /\ BatchInv /\ SessionInv
      /\ session.origin \in {"Simple_Copy", "Extended_Copy"}
      /\ SimpleQueryRuns => Alone
  BY OwedSession DEF ReceiveCopyEvent, Sessions, Origins
<1>2. CASE session' = session
  BY <1>2, SameUndisturbed
<1>3. CASE kind = "CopyDone" /\ session' = AfterCopyDone
  <2> DEFINE state == IF session.sendOpen THEN session.state ELSE "Copy_Completion_Active"
  <2>1. session' = [session EXCEPT !.recvOpen = FALSE, !.state = state]
    BY <1>1, <1>3 DEF AfterCopyDone, Sessions
  <2>2. state # "Recovery_Required"
    BY OwedSession
  <2> HIDE DEF state
  <2> QED
    BY <2>1, <2>2, FlagsUndisturbed
<1>4. CASE kind = "CommandComplete" /\ session' = AfterCopy("Extended_Query_Active")
  <2>1. kind \notin CopyResponses /\ session.origin # "No_Copy"
    BY <1>1, <1>4 DEF CopyResponses
  <2> QED
    BY <1>4, <2>1, AfterCopyUndisturbed
<1>5. CASE kind = "Error"
  <2>1. session.origin = "Simple_Copy" \/ session.copySync
    <3>1. session.origin = "Extended_Copy" => ~SimpleQueryRuns
      BY <1>1 DEF SimpleQueryRuns, SessionInv, OriginFits, CopyStates, CopyStreams
    <3>2. session.pending > 0 \/ SimpleQueryRuns
      BY <1>5, OwedSession DEF CopyResponses
    <3> QED
      BY <1>1, <3>1, <3>2 DEF BatchInv, Sessions
  <2>2. \E state \in {"Copy_Completion_Active", "Awaiting_Ready"} :
          session' = [session EXCEPT !.sendOpen = FALSE, !.recvOpen = FALSE, !.state = state]
    <3>1. CASE session.origin = "Simple_Copy"
      <4>1. session' = [session EXCEPT !.sendOpen = FALSE, !.recvOpen = FALSE,
                                       !.state = "Copy_Completion_Active"]
        BY <1>5, <3>1 DEF ReceiveCopyEvent, Becomes, WritableCopy
      <4> QED
        BY <4>1
    <3>2. CASE session.origin # "Simple_Copy" /\ session.copySync
      <4>1. session' = [session EXCEPT !.sendOpen = FALSE, !.recvOpen = FALSE,
                                       !.state = "Awaiting_Ready"]
        BY <1>5, <3>2 DEF ReceiveCopyEvent, Becomes, WritableCopy
      <4> QED
        BY <4>1
    <3> QED
      BY <2>1, <3>1, <3>2
  <2>3. PICK state \in {"Copy_Completion_Active", "Awaiting_Ready"} :
          session' = [session EXCEPT !.sendOpen = FALSE, !.recvOpen = FALSE, !.state = state]
    BY <2>2
  <2>4. state # "Recovery_Required"
    OBVIOUS
  <2> QED
    BY <2>3, <2>4, FlagsUndisturbed
<1>6. CASE kind = "ReadyForQuery" /\ session' = CompleteSynchronization(
                                                  [session EXCEPT !.batchOpen = FALSE])
  <2> DEFINE s == [session EXCEPT !.batchOpen = FALSE]
  <2>1. ~session.batchOpen
    <3>1. session.pending > 0 \/ SimpleQueryRuns
      BY <1>6, OwedSession DEF CopyResponses
    <3>2. SimpleQueryRuns => ~session.batchOpen
      BY <1>1 DEF Alone
    <3> QED
      BY <1>1, <3>1, <3>2, CopyAlone
  <2>2. /\ s \in Sessions /\ s.state = session.state /\ s.pending = session.pending
        /\ s.batchOpen = session.batchOpen
        /\ s.bound = session.bound /\ s.suspended = session.suspended
    BY <1>1, <2>1 DEF Sessions
  <2>3. session' = CompleteSynchronization(s)
    BY <1>6
  <2>4. Owed("ReadyForQuery")
    BY <1>6
  <2> HIDE DEF s
  <2> QED
    BY <2>2, <2>3, <2>4, SynchronizingUndisturbed
<1>7. CASE kind \in CopyResponses /\ session' = EnterCopy(session, kind, "Simple_Copy", FALSE)
  <2>1. "Simple_Copy" \in Origins
    BY DEF Origins
  <2> QED
    BY <1>1, <1>7, <2>1, EnteringUndisturbed
<1>8. CASE session' = ResetCopy([session EXCEPT !.state = "Simple_Query_Active", !.desc = shape])
           /\ kind = "RowDescription"
  <2> DEFINE s == [session EXCEPT !.state = "Simple_Query_Active", !.desc = shape]
  <2>1. /\ s \in Sessions /\ s.state = "Simple_Query_Active"
        /\ s.bound = session.bound /\ s.suspended = session.suspended
    BY <1>1, <1>8 DEF Sessions, States, Descriptions, HasShape
  <2>2. session' = ResetCopy(s)
    BY <1>8
  <2> HIDE DEF s
  <2>3. SameBatch(s, session') /\ session'.state = s.state
    BY <2>1, <2>2, ResetCopyIs
  <2> QED
    BY <2>1, <2>3 DEF SameBatch, Undisturbed
<1>9. \/ session' = session
      \/ kind = "CopyDone" /\ session' = AfterCopyDone
      \/ kind = "CommandComplete" /\ session' = AfterCopy("Extended_Query_Active")
      \/ kind = "Error"
      \/ kind = "ReadyForQuery" /\ session' = CompleteSynchronization(
                                                [session EXCEPT !.batchOpen = FALSE])
      \/ kind \in CopyResponses /\ session' = EnterCopy(session, kind, "Simple_Copy", FALSE)
      \/ session' = ResetCopy([session EXCEPT !.state = "Simple_Query_Active", !.desc = shape])
           /\ kind = "RowDescription"
  BY DEF ReceiveCopyEvent, Becomes, Raises, CopyResponses
<1> QED
  BY <1>2, <1>3, <1>4, <1>5, <1>6, <1>7, <1>8, <1>9

LEMMA RawUndisturbed ==
  ASSUME NEW kind \in BackendKinds, Owed(kind), ReceiveMessage(kind)
  PROVE  Undisturbed
<1>1. /\ session \in Sessions /\ BatchInv /\ SessionInv /\ session.pending \in Nat
      /\ session.origin \in Origins /\ session.state \notin {"Recovery_Required", "Closed"}
  BY OwedSession DEF Sessions
<1> DEFINE sync == session.pending > 0
<1>2. CASE session' = session
  BY <1>2, SameUndisturbed
<1>3. CASE session' = ClosedSession
  BY <1>3, ClosedSessionIs DEF Undisturbed
<1>4. CASE kind \in CopyResponses /\ session' # session /\ session' # ClosedSession
  <2>1. \/ session' = EnterCopy(session, kind, "Simple_Copy", FALSE)
        \/ session' = EnterCopy(session, kind, "Extended_Copy", sync)
    BY <1>4 DEF ReceiveMessage, Becomes, CopyResponses
  <2>2. "Simple_Copy" \in Origins /\ "Extended_Copy" \in Origins /\ sync \in BOOLEAN
    BY DEF Origins
  <2>3. CASE session' = EnterCopy(session, kind, "Simple_Copy", FALSE)
    BY <1>1, <1>4, <2>2, <2>3, EnteringUndisturbed
  <2>4. CASE session' = EnterCopy(session, kind, "Extended_Copy", sync)
    BY <1>1, <1>4, <2>2, <2>4, EnteringUndisturbed
  <2> QED
    BY <2>1, <2>3, <2>4
<1>5. CASE kind = "CopyDone" /\ session' # session
  <2> DEFINE state == IF session.sendOpen THEN session.state ELSE "Copy_Completion_Active"
  <2>1. session' = AfterCopyDone
    BY <1>5 DEF ReceiveMessage, Becomes, CopyResponses
  <2>2. session' = [session EXCEPT !.recvOpen = FALSE, !.state = state]
    BY <1>1, <2>1 DEF AfterCopyDone, Sessions
  <2>3. state # "Recovery_Required"
    BY <1>1
  <2> HIDE DEF state
  <2> QED
    BY <2>2, <2>3, FlagsUndisturbed
<1>6. CASE kind = "CommandComplete" /\ session' # session
  <2>1. session.origin # "No_Copy" /\ session' = AfterCopy("Extended_Query_Active")
    BY <1>6 DEF ReceiveMessage, Becomes, CopyResponses
  <2>2. kind \notin CopyResponses
    BY <1>6 DEF CopyResponses
  <2> QED
    BY <2>1, <2>2, AfterCopyUndisturbed
<1>7. CASE kind = "Error" /\ session' # session
  <2>1. kind \notin CopyResponses
    BY <1>7 DEF CopyResponses
  <2>2. CASE session.origin = "Simple_Copy"
    <3>1. session' = [session EXCEPT !.sendOpen = FALSE, !.recvOpen = FALSE,
                                     !.state = "Copy_Completion_Active"]
      BY <1>7, <2>2 DEF ReceiveMessage, Becomes, CopyResponses
    <3>2. "Copy_Completion_Active" # "Recovery_Required"
      OBVIOUS
    <3> QED
      BY <3>1, <3>2, FlagsUndisturbed
  <2>3. CASE session.origin = "Extended_Copy"
    <3>1. session' = AfterCopy("Recovery_Required")
      BY <1>7, <2>3 DEF ReceiveMessage, Becomes, CopyResponses
    <3> QED
      BY <2>1, <2>3, <3>1, AfterCopyUndisturbed
  <2>4. CASE session.origin = "No_Copy"
    <3>1. session.state = "Extended_Query_Active" /\ session.pending = 0
      BY <1>7, <2>4 DEF ReceiveMessage, Becomes, CopyResponses
    <3>2. ~SimpleQueryRuns
      BY <2>4, <3>1 DEF SimpleQueryRuns
    <3> QED
      BY <2>1, <3>1, <3>2, OwedSession
  <2> QED
    BY <1>1, <2>2, <2>3, <2>4 DEF Origins
<1>8. CASE kind = "ReadyForQuery"
  <2>1. session' = CompleteSynchronization(session)
    BY <1>8 DEF ReceiveMessage, Becomes, CopyResponses
  <2>2. Owed("ReadyForQuery")
    BY <1>8
  <2> QED
    BY <1>1, <2>1, <2>2, SynchronizingUndisturbed
<1>9. CASE kind \notin CopyResponses \union {"CopyDone", "CommandComplete", "Error", "ReadyForQuery"}
  BY <1>2, <1>9 DEF ReceiveMessage, Becomes
<1> QED
  BY <1>2, <1>3, <1>4, <1>5, <1>6, <1>7, <1>8, <1>9

LEMMA ReadsUndisturbed ==
  ASSUME WireInv, Disciplined, ReadTyped \/ ReadRaw, ReadiesToCome > 0
  PROVE  session.state # "Recovery_Required" /\ Undisturbed
<1>1. Reads /\ toServer' = toServer /\ server' = server
  BY DEF ReadTyped, ReadRaw, Reads
<1>2. session.state # "Closed"
  <2>1. CASE ReadTyped
    BY <2>1 DEF ReadTyped, ReceiveQueryEvent, ReceiveExtendedEvent, ReceiveCopyEvent,
       CopyStreams
  <2>2. CASE ReadRaw
    BY <2>2, NoOtherLiberties DEF ReadRaw
  <2> QED
    BY <2>1, <2>2
<1>3. PICK p, q, x \in Phases : Reading(p, q, x)
  BY <1>1, <1>2, ReadStarts
<1>4. /\ SessionInv /\ BatchInv /\ Kind \in BackendKinds
      /\ HasShape(Kind) => Head(toClient).shape \in Columns
  BY <1>3, ReadingSession
<1>5. /\ session.state # "Recovery_Required"
      /\ session.pending > 0 \/ SimpleQueryRuns \/ Kind \in CopyResponses
  BY <1>3, StillOwed
<1>6. Owed(Kind)
  BY <1>2, <1>4, <1>5 DEF Owed, CopyResponses
<1>7. CASE ReadRaw
  <2>1. ReceiveMessage(Kind)
    BY <1>7 DEF ReadRaw, Kind
  <2> QED
    BY <1>4, <1>5, <1>6, <2>1, RawUndisturbed
<1>8. CASE ReadTyped
  <2>1. \/ ReceiveQueryEvent(Kind, Head(toClient).shape)
        \/ ReceiveExtendedEvent(Kind, Head(toClient).shape)
        \/ ReceiveCopyEvent(Kind, Head(toClient).shape)
    BY <1>8 DEF ReadTyped, Kind
  <2> QED
    BY <1>4, <1>5, <1>6, <2>1, QueryEventUndisturbed, ExtendedEventUndisturbed,
       CopyEventUndisturbed
<1> QED
  BY <1>7, <1>8

\* Only a receive operation takes a response off the wire of an open session.
LEMMA OnlyReads ==
  ASSUME WireInv, WireNext, toClient # <<>>, toClient' = Tail(toClient),
         session'.state # "Closed"
  PROVE  ReadTyped \/ ReadRaw \/ session' = session
<1>1. Len(toClient') = Len(toClient) - 1 /\ Len(toClient) \in Nat
  BY ReadShift DEF WireInv, Reads
<1>2. toClient' # toClient
  <2>1. \A n \in Nat : n - 1 # n
    OBVIOUS
  <2>2. Len(toClient') # Len(toClient)
    BY <1>1, <2>1
  <2>3. ASSUME toClient' = toClient
        PROVE  Len(toClient') = Len(toClient)
    BY <2>3, Zenon
  <2> QED
    BY <2>2, <2>3
<1>3. CASE Backend
  BY <1>3 DEF Backend, ServeFailure, ServeDefinition, ServeDescribe, ServeExecute, ServeSync,
     ServeNothing, ServeQuery, ServeCopyIn, ServeSimpleCopyIn, FailCopyIn, StreamCopyBoth,
     ServeCopyBoth, ServeOne, Say, clientVars
<1>4. CASE WireFinished
  BY <1>4 DEF WireFinished, vars, clientVars
<1>5. CASE Client
  <2>1. ~(WriteParse \/ WriteBind \/ WriteDescribe \/ WriteExecute \/ WriteFlush \/ WriteSync)
    BY <1>2 DEF WriteParse, WriteBind, WriteDescribe, WriteExecute, WriteFlush, WriteSync,
       wireVars
  <2>2. ~(WriteQuery \/ WriteCopyData \/ WriteCopyEnd \/ ChangeMode)
    BY <1>2 DEF WriteQuery, WriteCopyData, WriteCopyEnd, ChangeMode, wireVars
  <2>3. ~WriteTerminate
    BY ClosedSessionIs DEF WriteTerminate, Terminate, Becomes
  <2> QED
    BY <1>5, <2>1, <2>2, <2>3 DEF Client
<1> QED
  BY <1>3, <1>4, <1>5 DEF WireNext

LEMMA StepsUndisturbed ==
  ASSUME WireInv, Disciplined, WireNext, toClient # <<>>, toClient' = Tail(toClient),
         session'.state # "Closed", ReadiesToCome > 0
  PROVE  Ordering(session') = Ordering(session)
<1>1. CASE session' = session
  BY <1>1
<1>2. CASE ReadTyped \/ ReadRaw
  <2>1. /\ session'.bound = session.bound /\ session'.suspended = session.suspended
        /\ session'.state # "Recovery_Required" /\ session.state # "Recovery_Required"
    BY <1>2, ReadsUndisturbed DEF Undisturbed
  <2>2. (session'.state = "Recovery_Required") = (session.state = "Recovery_Required")
    BY <2>1
  <2> QED
    BY <2>1, <2>2 DEF Ordering
<1> QED
  BY <1>1, <1>2, OnlyReads

\* A response that a ReadyForQuery still to come will follow disturbs no batch
\* that is still being written.
THEOREM LaterBatchSafe ==
  ASSUME Disciplined
  PROVE  WireSpec => LaterBatchUndisturbed
<1>1. WireInv /\ [WireNext]_vars =>
        [ /\ toClient # <<>> /\ toClient' = Tail(toClient)
          /\ session'.state # "Closed" /\ ReadiesToCome > 0
          => Ordering(session') = Ordering(session) ]_vars
  BY StepsUndisturbed
<1> QED
  BY <1>1, WireInvariant, PTL DEF WireSpec, LaterBatchUndisturbed

-----------------------------------------------------------------------------
(* The session on the wire is the session of ClientSession.                *)

LEMMA TakenTyped ==
  ASSUME WireTypes, Serves, server' \in Modes,
         toClient' = toClient \/ \E kinds \in Seq(BackendKinds) : Grown(kinds)
  PROVE  WireTypes'
BY ServeShift DEF WireTypes, Grown

\* Answers of one to four responses.
LEMMA AnswerTyped1 ==
  ASSUME WireTypes, Serves, server' \in Modes, NEW a \in BackendKinds, Answer(<<a>>),
         HasShape(a) => Command.work \in Columns
  PROVE  WireTypes'
<1>1. <<a>> \in Seq(BackendKinds) /\ \A i \in 1 .. Len(<<a>>) : <<a>>[i] = a
  OBVIOUS
<1>2. Grown(<<a>>)
  BY <1>1, AnswerGrows DEF Serves
<1> QED
  BY <1>1, <1>2, TakenTyped

LEMMA AnswerTyped2 ==
  ASSUME WireTypes, Serves, server' \in Modes, NEW a \in BackendKinds, NEW b \in BackendKinds,
         Answer(<<a, b>>), HasShape(a) \/ HasShape(b) => Command.work \in Columns
  PROVE  WireTypes'
<1>1. /\ <<a, b>> \in Seq(BackendKinds)
      /\ \A i \in 1 .. Len(<<a, b>>) : <<a, b>>[i] = a \/ <<a, b>>[i] = b
  OBVIOUS
<1>2. Grown(<<a, b>>)
  BY <1>1, AnswerGrows DEF Serves
<1> QED
  BY <1>1, <1>2, TakenTyped

LEMMA AnswerTyped3 ==
  ASSUME WireTypes, Serves, server' \in Modes, NEW a \in BackendKinds, NEW b \in BackendKinds,
         NEW c \in BackendKinds, Answer(<<a, b, c>>),
         ~HasShape(a) /\ ~HasShape(b) /\ ~HasShape(c)
  PROVE  WireTypes'
<1>1. /\ <<a, b, c>> \in Seq(BackendKinds)
      /\ \A i \in 1 .. Len(<<a, b, c>>) :
           <<a, b, c>>[i] = a \/ <<a, b, c>>[i] = b \/ <<a, b, c>>[i] = c
  OBVIOUS
<1>2. Grown(<<a, b, c>>)
  BY <1>1, AnswerGrows DEF Serves
<1> QED
  BY <1>1, <1>2, TakenTyped

LEMMA AnswerTyped4 ==
  ASSUME WireTypes, Serves, server' \in Modes, NEW a \in BackendKinds, NEW b \in BackendKinds,
         NEW c \in BackendKinds, NEW d \in BackendKinds, Answer(<<a, b, c, d>>),
         HasShape(a) \/ HasShape(b) \/ HasShape(c) \/ HasShape(d) => Command.work \in Columns
  PROVE  WireTypes'
<1>1. /\ <<a, b, c, d>> \in Seq(BackendKinds)
      /\ \A i \in 1 .. Len(<<a, b, c, d>>) :
           \/ <<a, b, c, d>>[i] = a \/ <<a, b, c, d>>[i] = b
           \/ <<a, b, c, d>>[i] = c \/ <<a, b, c, d>>[i] = d
  OBVIOUS
<1>2. Grown(<<a, b, c, d>>)
  BY <1>1, AnswerGrows DEF Serves
<1> QED
  BY <1>1, <1>2, TakenTyped

LEMMA KindsAre ==
  /\ { "RowDescription", "NoData", "DataRow", "CommandComplete", "EmptyQuery",
       "PortalSuspended", "CopyInResponse", "CopyOutResponse", "CopyBothResponse",
       "CopyData", "CopyDone", "Error", "ReadyForQuery" } \subseteq BackendKinds
  /\ \A kind \in { "NoData", "CommandComplete", "EmptyQuery", "PortalSuspended",
       "CopyInResponse", "CopyOutResponse", "CopyBothResponse", "CopyData", "CopyDone",
       "Error", "ReadyForQuery" } : ~HasShape(kind)
BY DEF BackendKinds, CopyResponses, HasShape

LEMMA BackendTyped ==
  ASSUME WireTypes, Backend
  PROVE  WireTypes'
<1>1. server \in Modes
  BY DEF WireTypes
<1>2. CASE FailCopyIn \/ StreamCopyBoth
  <2>1. \E kind \in {"Error", "CopyData", "CopyDone"}, mode \in Modes : Say(kind, mode)
    BY <1>1, <1>2 DEF FailCopyIn, StreamCopyBoth, Modes
  <2>2. PICK kind \in {"Error", "CopyData", "CopyDone"}, mode \in Modes : Say(kind, mode)
    BY <2>1
  <2>3. Grown(<<kind>>)
    BY <2>2, KindsAre, SayGrows
  <2> QED
    BY <2>2, <2>3 DEF WireTypes, Grown, Say
<1>3. CASE ServeDefinition \/ ServeNothing
  <2>1. Serves /\ server' \in Modes /\ toClient' = toClient
    BY <1>1, <1>3 DEF ServeDefinition, ServeNothing, ServeOne, Serves, Receives, Modes
  <2> QED
    BY <2>1, TakenTyped
<1>4. CASE ServeFailure \/ ServeSync
  <2>1. Serves /\ server' \in Modes /\ (Answer(<<"Error">>) \/ Answer(<<"ReadyForQuery">>))
    BY <1>4 DEF ServeFailure, ServeSync, ServeOne, Serves, Receives, Modes
  <2> QED
    BY <2>1, KindsAre, AnswerTyped1
<1>5. CASE ServeDescribe
  <2> DEFINE kind == IF Command.work \in Columns THEN "RowDescription" ELSE "NoData"
  <2>1. Serves /\ server' \in Modes /\ Answer(<<kind>>)
    BY <1>5 DEF ServeDescribe, ServeOne, Serves, Receives, Modes
  <2>2. kind \in BackendKinds /\ (HasShape(kind) => Command.work \in Columns)
    BY KindsAre
  <2> HIDE DEF kind
  <2> QED
    BY <2>1, <2>2, AnswerTyped1
<1>6. CASE ServeExecute
  <2>1. Serves /\ server' \in Modes
    BY <1>6 DEF ServeExecute, ServeOne, Serves, Receives, Modes
  <2>2. \/ Answer(<<"CommandComplete">>) \/ Answer(<<"EmptyQuery">>)
        \/ Answer(<<"CopyInResponse">>)
        \/ /\ Command.work \in Columns
           /\ \/ Answer(<<"DataRow", "CommandComplete">>)
              \/ Answer(<<"DataRow", "PortalSuspended">>) \/ Answer(<<"DataRow", "Error">>)
        \/ Answer(<<"CopyOutResponse", "CopyData", "CopyDone", "CommandComplete">>)
        \/ Answer(<<"CopyOutResponse", "CopyData", "Error">>)
    BY <1>6, Zenon DEF ServeExecute
  <2> QED
    BY <2>1, <2>2, KindsAre, AnswerTyped1, AnswerTyped2, AnswerTyped3, AnswerTyped4
<1>7. CASE ServeQuery
  <2>1. Serves /\ server' \in Modes
    BY <1>7 DEF ServeQuery, ServeOne, Serves, Receives, Modes
  <2>2. \/ Answer(<<"Error", "ReadyForQuery">>) \/ Answer(<<"CommandComplete", "ReadyForQuery">>)
        \/ /\ Command.work \in Columns
           /\ Answer(<<"RowDescription", "DataRow", "CommandComplete", "ReadyForQuery">>)
        \/ Answer(<<"CopyInResponse">>) \/ Answer(<<"CopyBothResponse">>)
        \/ Answer(<<"CopyOutResponse", "CopyDone", "CommandComplete", "ReadyForQuery">>)
        \/ Answer(<<"CopyOutResponse", "CopyData", "Error", "ReadyForQuery">>)
    BY <1>7, Zenon DEF ServeQuery
  <2> QED
    BY <2>1, <2>2, KindsAre, AnswerTyped1, AnswerTyped2, AnswerTyped4
<1>8. CASE ServeCopyIn \/ ServeSimpleCopyIn
  <2>1. Serves /\ server' \in Modes
    BY <1>1, <1>8 DEF ServeCopyIn, ServeSimpleCopyIn, ServeOne, Serves, Receives, Modes
  <2>2. \/ toClient' = toClient \/ Answer(<<"CommandComplete">>) \/ Answer(<<"Error">>)
        \/ Answer(<<"CommandComplete", "ReadyForQuery">>) \/ Answer(<<"Error", "ReadyForQuery">>)
    BY <1>8, Zenon DEF ServeCopyIn, ServeSimpleCopyIn
  <2> QED
    BY <2>1, <2>2, KindsAre, TakenTyped, AnswerTyped1, AnswerTyped2
<1>9. CASE ServeCopyBoth
  <2>1. Serves /\ server' \in Modes
    BY <1>1, <1>9 DEF ServeCopyBoth, ServeOne, Serves, Receives, Modes
  <2>2. \/ toClient' = toClient \/ Answer(<<"Error", "ReadyForQuery">>)
        \/ Answer(<<"CopyDone", "CopyData", "CommandComplete", "ReadyForQuery">>)
        \/ Answer(<<"CommandComplete", "ReadyForQuery">>)
    BY <1>9, Zenon DEF ServeCopyBoth
  <2> QED
    BY <2>1, <2>2, KindsAre, TakenTyped, AnswerTyped2, AnswerTyped4
<1> QED
  BY <1>2, <1>3, <1>4, <1>5, <1>6, <1>7, <1>8, <1>9 DEF Backend

LEMMA WrittenTyped ==
  ASSUME WireTypes, NEW tag \in Tags, NEW work \in AllWorks, Write(tag, work),
         toClient' = toClient, server' = server
  PROVE  WireTypes'
BY WriteGrows DEF WireTypes

LEMMA TagsAre ==
  /\ { "Parse", "Bind", "Describe", "Execute", "Sync", "Query", "CopyData", "CopyDone",
       "CopyFail" } \subseteq Tags
  /\ "no_rows" \in AllWorks /\ PortalWorks \subseteq AllWorks /\ QueryWorks \subseteq AllWorks
BY EnvironmentAssumption DEF Tags, BatchTags, CopyTags, AllWorks

LEMMA ClientTyped ==
  ASSUME WireTypes, Client
  PROVE  WireTypes'
<1>1. CASE WriteFlush \/ ChangeMode
  BY <1>1 DEF WriteFlush, ChangeMode, wireVars, WireTypes
<1>2. CASE WriteTerminate
  BY <1>2 DEF WriteTerminate, WireTypes
<1>3. CASE ReadTyped \/ ReadRaw
  <2>1. Reads /\ toServer' = toServer /\ server' = server
    BY <1>3 DEF ReadTyped, ReadRaw, Reads
  <2> QED
    BY <2>1, ReadShift DEF WireTypes
<1>4. CASE \/ WriteParse \/ WriteBind \/ WriteDescribe \/ WriteExecute
           \/ WriteSync \/ WriteQuery \/ WriteCopyData \/ WriteCopyEnd
  <2>1. \E tag \in Tags, work \in AllWorks :
          Write(tag, work) /\ toClient' = toClient /\ server' = server
    <3>1. CASE WriteDescribe
      BY <3>1, TagsAre DEF WriteDescribe
    <3>2. CASE WriteExecute
      BY <3>2, TagsAre DEF WriteExecute
    <3>3. CASE WriteQuery
      BY <3>3, TagsAre DEF WriteQuery
    <3>4. CASE WriteCopyEnd
      BY <3>4, TagsAre DEF WriteCopyEnd
    <3>5. CASE WriteParse \/ WriteBind \/ WriteSync \/ WriteCopyData
      BY <3>5, TagsAre DEF WriteParse, WriteBind, WriteSync, WriteCopyData
    <3> QED
      BY <1>4, <3>1, <3>2, <3>3, <3>4, <3>5
  <2> QED
    BY <2>1, WrittenTyped
<1> QED
  BY <1>1, <1>2, <1>3, <1>4 DEF Client

LEMMA WireTyped ==
  ASSUME WireTypes, [WireNext]_vars
  PROVE  WireTypes'
<1>1. CASE UNCHANGED vars
  BY <1>1 DEF vars, wireVars, WireTypes
<1>2. CASE WireFinished
  BY <1>2 DEF WireFinished, vars, wireVars, WireTypes
<1> QED
  BY <1>1, <1>2, ClientTyped, BackendTyped DEF WireNext

\* What has no shape is received alike with any.
LEMMA ShapeOfNone ==
  ASSUME NEW kind, ~HasShape(kind), NEW shape, NEW other
  PROVE  /\ ReceiveQueryEvent(kind, shape) => ReceiveQueryEvent(kind, other)
         /\ ReceiveExtendedEvent(kind, shape) => ReceiveExtendedEvent(kind, other)
         /\ ReceiveCopyEvent(kind, shape) => ReceiveCopyEvent(kind, other)
BY Zenon DEF HasShape, ReceiveQueryEvent, ReceiveExtendedEvent, ReceiveCopyEvent

LEMMA TypedReadIs ==
  ASSUME WireTypes, ReadTyped, Columns # {}
  PROVE  \E kind \in BackendKinds, shape \in Columns : Receive(kind, shape)
<1> DEFINE m == Head(toClient)
<1>1. m \in Responses
  BY ReadShift DEF ReadTyped, Reads
<1>2. m.kind \in BackendKinds /\ (HasShape(m.kind) => m.shape \in Columns)
  BY <1>1 DEF Responses
<1>3. \/ ReceiveQueryEvent(m.kind, m.shape) \/ ReceiveExtendedEvent(m.kind, m.shape)
      \/ ReceiveCopyEvent(m.kind, m.shape)
  BY Zenon DEF ReadTyped
<1> HIDE DEF m
<1>4. CASE HasShape(m.kind)
  BY <1>2, <1>3, <1>4 DEF Receive
<1>5. CASE ~HasShape(m.kind)
  <2>1. PICK shape \in Columns : TRUE
    OBVIOUS
  <2>2. Receive(m.kind, shape)
    BY <1>3, <1>5, ShapeOfNone DEF Receive
  <2> QED
    BY <1>2, <2>2
<1> QED
  BY <1>4, <1>5

\* The application reads with the typed receives only.
ReadsTyped == Liberties \intersect {"receive_raw", "read_after_close"} = {}

LEMMA WireStepIsSessionStep ==
  ASSUME WireTypes, ReadsTyped, Columns # {}, [WireNext]_vars
  PROVE  [Next]_clientVars
<1>1. CASE UNCHANGED vars
  BY <1>1 DEF vars
<1>2. CASE WireFinished
  BY <1>2 DEF WireFinished, vars
<1>3. CASE Backend
  BY <1>3 DEF Backend, ServeFailure, ServeDefinition, ServeDescribe, ServeExecute, ServeSync,
     ServeNothing, ServeQuery, ServeCopyIn, ServeSimpleCopyIn, FailCopyIn, StreamCopyBoth,
     ServeCopyBoth, ServeOne, Say
<1>4. CASE Client
  <2>1. ~ReadRaw
    BY DEF ReadRaw, ReadsTyped
  <2>2. CASE ReadTyped
    BY <2>2, TypedReadIs DEF Next
  <2>3. CASE \/ WriteParse \/ WriteBind \/ WriteDescribe \/ WriteExecute \/ WriteFlush
             \/ WriteSync \/ WriteQuery \/ WriteCopyData \/ WriteCopyEnd
             \/ WriteTerminate \/ ChangeMode
    <3>1. Send
      BY <2>3 DEF WriteParse, WriteBind, WriteDescribe, WriteExecute, WriteFlush,
         WriteSync, WriteQuery, WriteCopyData, WriteCopyEnd, WriteTerminate, ChangeMode, Send
    <3> QED
      BY <3>1 DEF Next
  <2> QED
    BY <1>4, <2>1, <2>2, <2>3 DEF Client
<1> QED
  BY <1>1, <1>2, <1>3, <1>4 DEF WireNext

(***************************************************************************)
(* The client of a wire implements the session of ClientSession, which     *)
(* takes any message at any time: whatever the application writes and      *)
(* however the backend answers, so long as responses are read with the     *)
(* typed receives (Receive_Message is no operation of that interface).     *)
(***************************************************************************)
THEOREM WireImplementsSession ==
  ASSUME ReadsTyped, Columns # {}
  PROVE  WireSpec => Spec
<1>1. WireInit => WireTypes
  BY WireInitInv DEF WireInv
<1>2. WireTypes /\ [WireNext]_vars => WireTypes'
  BY WireTyped
<1>3. WireTypes /\ [WireNext]_vars => [Next]_clientVars
  BY WireStepIsSessionStep
<1>4. WireInit => Init
  BY DEF WireInit
<1> QED
  BY <1>1, <1>2, <1>3, <1>4, PTL DEF WireSpec, Spec

\* So the session keeps its own invariants there, without the discipline that
\* the agreement with what is in flight takes.
THEOREM SessionSafeOnWire ==
  ASSUME ReadsTyped, Columns # {}
  PROVE  WireSpec => []SessionInv
BY WireImplementsSession, SessionInvariant, PTL
=============================================================================

-------------------------- MODULE TaskInboundProofs --------------------------
(* More about TaskManager, for all tasks, messages and bounds: what becomes *)
(* of inbound messages in its backlogs and queues, and whose                *)
(* acknowledgements they hold.                                              *)
EXTENDS TaskManagerProofs

-----------------------------------------------------------------------------
(* The inductive invariant *)

(* Messages of one kind get higher ids from the front of a sequence to its  *)
(* end, and from one sequence to the next.                                  *)
Rising(s, kind) ==
    \A i, j \in DOMAIN s :
        i < j /\ s[i].kind = kind /\ s[j].kind = kind => s[i].id < s[j].id

Before(r, s, kind) ==
    \A m \in Elements(r), n \in Elements(s) :
        m.kind = kind /\ n.kind = kind => m.id < n.id

(* Where a message passes on its way, latest first: what a task has put     *)
(* back was read before what it has not read yet.                           *)
Aligned(kind) ==
    /\ Rising(backlog, kind) /\ Rising(codecBacklog, kind) /\ Rising(down, kind)
    /\ Before(backlog, codecBacklog, kind) /\ Before(backlog, slot, kind)
    /\ Before(backlog, down, kind) /\ Before(codecBacklog, slot, kind)
    /\ Before(codecBacklog, down, kind) /\ Before(slot, down, kind)

(* Only a running task has a backlog of its own.  A reflected message never *)
(* gets into a backlog, as it bypasses whoever reads it; so there is none   *)
(* when one is taken.                                                       *)
LoopInv ==
    /\ loop # "run" => running.kind = "none" /\ running.phase = "none" /\ codecBacklog = <<>>
    /\ running.kind \in {"reflected", "drop"} => codecBacklog = <<>>
    /\ running.kind = "reflected" => backlog = <<>>
    /\ \A m \in Elements(codecBacklog) \union Elements(backlog) : m.kind # "reflected"
    /\ bypassed \subseteq Reflected

(* The acknowledgements in the backlog a task was given are older than its  *)
(* batch.  So it has read all of that backlog when it gets its own, and     *)
(* what it returns is in order: a task that is done has put nothing back,   *)
(* or left nothing.                                                         *)
OneBacklog == codecBacklog = <<>> \/ backlog = <<>>

ReturnInv ==
    /\ running.phase = "reflect" =>
           /\ \A m \in Elements(codecBacklog) : m.kind = "ack" => m.id < running.first
           /\ running.acked = EnvelopesOf(running) => OneBacklog
    /\ running.kind = "incoming" /\ running.phase = "ack" => OneBacklog
    /\ running.phase = "external" => backlog = <<>>

(* The chat server sends in the order of the ids. *)
SentInv ==
    /\ \A m \in InFlight : m.kind = "csp" => m \in sent
    /\ \A n \in sent, m \in unacked \ sent :
           n.kind = "csp" /\ m.kind = "csp" => n.id < m.id

(* If the mediator acknowledges once, every acknowledgement, and every      *)
(* frame still to be acknowledged, is one the running task has yet to read. *)
Current(n) ==
    /\ running.phase = "reflect"
    /\ running.first + running.acked <= n /\ n < running.first + running.written

OnceInv ==
    ~DuplicateAcks /\ ~netError =>
        /\ Aligned("ack") /\ Rising(up, "reflect")
        /\ running.phase = "reflect" => running.acked <= running.written
        /\ \A m \in InFlight : m.kind = "ack" => Current(m.id)
        /\ \A f \in Elements(up) : f.kind = "reflect" => Current(f.id)
        /\ \A m \in InFlight, f \in Elements(up) :
               m.kind = "ack" /\ f.kind = "reflect" => m.id < f.id

(* The message that the main loop is at. *)
AtHand(m) ==
    \/ running.kind = "incoming" /\ m = [kind |-> "csp", id |-> running.task]
    \/ running.kind = "reflected" /\ m = [kind |-> "reflected", id |-> running.task]

AckFrame(m) == IF m.kind = "csp" THEN "cspAck" ELSE "reflectedAck"

OnItsWay(m) == \E f \in Elements(up) : f.id = m.id /\ f.kind = AckFrame(m)

Somewhere(m) == m \in InFlight \/ m \in bypassed \/ AtHand(m) \/ OnItsWay(m)

NothingLost ==
    inner = "connected" /\ ~netError => \A m \in sent \intersect unacked : Somewhere(m)

InboundInv ==
    LoopInv /\ ReturnInv /\ SentInv /\ Aligned("csp") /\ OnceInv /\ NothingLost

-----------------------------------------------------------------------------
(* Order in sequences *)

(* What is left of a sequence after taking its head or dropping it. *)
Shrunk(s, t) == t = s \/ t = <<>> \/ (s # <<>> /\ t = Tail(s))

\* A queue stays in order when something later is appended,
LEMMA RisingAppend ==
    ASSUME NEW S, NEW s \in Seq(S), NEW x \in S, NEW kind, Rising(s, kind),
           \A m \in Elements(s) : m.kind = kind /\ x.kind = kind => m.id < x.id
    PROVE  Rising(Append(s, x), kind)
  <1> DEFINE t == Append(s, x)
  <1> SUFFICES ASSUME NEW i \in DOMAIN t, NEW j \in DOMAIN t, i < j,
                      t[i].kind = kind, t[j].kind = kind
               PROVE  t[i].id < t[j].id
    BY DEF Rising
  <1>1. DOMAIN t = 1..(Len(s) + 1) /\ Len(s) \in Nat /\ DOMAIN s = 1..Len(s)
    OBVIOUS
  <1>2. i \in DOMAIN s /\ t[i] = s[i]
    BY <1>1
  <1>3. CASE j = Len(s) + 1
    <2>1. t[j] = x
      BY <1>3
    <2>. QED
      BY <1>2, <2>1 DEF Elements
  <1>4. CASE j # Len(s) + 1
    <2>1. j \in DOMAIN s /\ t[j] = s[j]
      BY <1>1, <1>4
    <2>. QED
      BY <1>2, <2>1 DEF Rising
  <1>. QED
    BY <1>3, <1>4

\* when its first element is taken,
LEMMA RisingTail ==
    ASSUME NEW S, NEW s \in Seq(S), NEW kind, Rising(s, kind), s # <<>>
    PROVE  /\ Rising(Tail(s), kind)
           /\ \A n \in Elements(Tail(s)) :
                  Head(s).kind = kind /\ n.kind = kind => Head(s).id < n.id
  <1>1. \A i \in DOMAIN Tail(s) : i + 1 \in DOMAIN s /\ Tail(s)[i] = s[i + 1] /\ i \in Nat /\ i >= 1
    OBVIOUS
  <1>2. Head(s) = s[1] /\ 1 \in DOMAIN s
    OBVIOUS
  <1>3. \A i, j \in DOMAIN Tail(s) : i < j => i + 1 < j + 1
    BY <1>1
  <1>4. Rising(Tail(s), kind)
    BY <1>1, <1>3 DEF Rising
  <1>5. ASSUME NEW i \in DOMAIN Tail(s) PROVE 1 < i + 1
    BY <1>1
  <1>6. ASSUME NEW n \in Elements(Tail(s)), Head(s).kind = kind, n.kind = kind
        PROVE  Head(s).id < n.id
    <2>1. PICK i \in DOMAIN Tail(s) : n = Tail(s)[i]
      BY <1>6 DEF Elements
    <2>2. n = s[i + 1] /\ i + 1 \in DOMAIN s /\ 1 < i + 1
      BY <1>1, <1>5, <2>1
    <2>. QED
      BY <1>2, <1>6, <2>2 DEF Rising
  <1>. QED
    BY <1>4, <1>6

\* trivially when it holds at most one,
LEMMA RisingShort ==
    ASSUME NEW S, NEW s \in Seq(S), NEW kind, Len(s) <= 1
    PROVE  Rising(s, kind)
  <1>1. \A i, j \in DOMAIN s : ~ i < j
    OBVIOUS
  <1>. QED
    BY <1>1 DEF Rising

\* when what comes later is put behind it,
LEMMA RisingConcat ==
    ASSUME NEW S, NEW r \in Seq(S), NEW s \in Seq(S), NEW kind,
           Rising(r, kind), Rising(s, kind), Before(r, s, kind)
    PROVE  Rising(r \o s, kind)
  <1> DEFINE t == r \o s
  <1> SUFFICES ASSUME NEW i \in DOMAIN t, NEW j \in DOMAIN t, i < j,
                      t[i].kind = kind, t[j].kind = kind
               PROVE  t[i].id < t[j].id
    BY DEF Rising
  <1>1. /\ DOMAIN r = 1..Len(r) /\ DOMAIN s = 1..Len(s)
        /\ DOMAIN t = 1..(Len(r) + Len(s)) /\ Len(r) \in Nat /\ Len(s) \in Nat
    OBVIOUS
  <1>2. ASSUME NEW k \in DOMAIN t, k <= Len(r) PROVE k \in DOMAIN r /\ t[k] = r[k]
    BY <1>1, <1>2
  <1>3. ASSUME NEW k \in DOMAIN t, ~ k <= Len(r)
        PROVE  k - Len(r) \in DOMAIN s /\ t[k] = s[k - Len(r)]
    BY <1>1, <1>3
  <1>4. CASE j <= Len(r)
    <2>1. i <= Len(r)
      BY <1>1, <1>4
    <2>. QED
      BY <1>2, <1>4, <2>1 DEF Rising
  <1>5. CASE ~ j <= Len(r) /\ i <= Len(r)
    <2>1. t[i] \in Elements(r) /\ t[j] \in Elements(s)
      BY <1>2, <1>3, <1>5 DEF Elements
    <2>. QED
      BY <2>1 DEF Before
  <1>6. CASE ~ j <= Len(r) /\ ~ i <= Len(r)
    <2>1. i - Len(r) < j - Len(r)
      BY <1>1
    <2>2. /\ i - Len(r) \in DOMAIN s /\ t[i] = s[i - Len(r)]
          /\ j - Len(r) \in DOMAIN s /\ t[j] = s[j - Len(r)]
      BY <1>3, <1>6
    <2> HIDE DEF t
    <2>. QED
      BY <2>1, <2>2 DEF Rising
  <1>. QED
    BY <1>4, <1>5, <1>6

\* and when it is empty.
LEMMA RisingEmpty ==
    ASSUME NEW kind
    PROVE  Rising(<<>>, kind) /\ Elements(<<>>) = {}
  BY DEF Rising, Elements

\* A queue that keeps its contents, loses its head or is emptied stays in order.
LEMMA ShrunkFacts ==
    ASSUME NEW S, NEW s \in Seq(S), NEW t, Shrunk(s, t)
    PROVE  /\ t \in Seq(S) /\ Elements(t) \subseteq Elements(s)
           /\ \A kind : Rising(s, kind) => Rising(t, kind)
  <1>1. CASE t = s
    BY <1>1
  <1>2. CASE t = <<>>
    <2>1. t \in Seq(S)
      BY <1>2
    <2>. QED
      BY <1>2, <2>1, RisingEmpty
  <1>3. CASE s # <<>> /\ t = Tail(s)
    <2>1. t \in Seq(S)
      BY <1>3
    <2>. QED
      BY <1>3, <2>1, RisingTail, ElementsFacts
  <1>. QED
    BY <1>1, <1>2, <1>3 DEF Shrunk

(* What a codec reads first, and what is left then. *)
LEMMA ReadShrinks ==
    ASSUME TypeOK, Readable # <<>>
    PROVE  /\ Head(Readable) \in Messages
           /\ \/ /\ codecBacklog # <<>> /\ Head(Readable) = Head(codecBacklog)
                 /\ ConsumeRead => codecBacklog' = Tail(codecBacklog) /\ slot' = slot
              \/ /\ codecBacklog = <<>> /\ slot # <<>> /\ Head(Readable) = Head(slot)
                 /\ ConsumeRead => codecBacklog' = <<>> /\ slot' = <<>>
           /\ Head(Readable) \in Elements(codecBacklog) \union Elements(slot)
           /\ ConsumeRead => Shrunk(codecBacklog, codecBacklog') /\ Shrunk(slot, slot')
  <1>1. codecBacklog \in Seq(Messages) /\ slot \in Seq(Messages)
    BY DEF TypeOK, QueueType
  <1>2. Head(Readable) \in Messages
    BY TypeRead
  <1>3. CASE codecBacklog = <<>>
    <2>1. Readable = slot
      BY <1>1, <1>3 DEF Readable
    <2>2. ConsumeRead => codecBacklog' = <<>> /\ slot' = <<>>
      BY <1>3 DEF ConsumeRead
    <2>3. Head(slot) \in Elements(slot)
      BY <1>1, <2>1, ElementsFacts
    <2>. QED
      BY <1>2, <1>3, <2>1, <2>2, <2>3 DEF Shrunk
  <1>4. CASE codecBacklog # <<>>
    <2>1. Head(Readable) = Head(codecBacklog)
      BY <1>1, <1>4 DEF Readable
    <2>2. ConsumeRead => codecBacklog' = Tail(codecBacklog) /\ slot' = slot
      BY <1>4 DEF ConsumeRead
    <2>3. Head(codecBacklog) \in Elements(codecBacklog)
      BY <1>1, <1>4, ElementsFacts
    <2>. QED
      BY <1>2, <1>4, <2>1, <2>2, <2>3 DEF Shrunk
  <1>. QED
    BY <1>3, <1>4

-----------------------------------------------------------------------------
(* Where messages move *)

Drains ==
    /\ Shrunk(codecBacklog, codecBacklog') /\ Shrunk(backlog, backlog')
    /\ Shrunk(slot, slot') /\ Shrunk(down, down')

(* A run takes the backlog over. *)
Moves ==
    /\ codecBacklog = <<>> /\ backlog' = <<>> /\ Shrunk(backlog, codecBacklog')
    /\ Shrunk(slot, slot') /\ down' = down

(* A task gives it back. *)
GivesBack ==
    /\ OneBacklog /\ backlog' = Transferred /\ codecBacklog' = <<>>
    /\ UNCHANGED <<slot, down>>

(* A reading task puts a message into the backlog of the manager. *)
PutsBack ==
    /\ Readable # <<>> /\ ConsumeRead /\ backlog' = Append(backlog, Head(Readable))
    /\ down' = down

Movement == Drains \/ Moves \/ GivesBack \/ PutsBack \/ Deliver

\* The types of the queues on the way in.
LEMMA QueueTypes ==
    ASSUME TypeOK
    PROVE  /\ codecBacklog \in Seq(Messages) /\ backlog \in Seq(Messages)
           /\ slot \in Seq(Messages) /\ down \in Seq(Messages) /\ up \in Seq(Frames)
           /\ Len(slot) <= 1 /\ running \in Runs /\ rsn \in Nat
           /\ bypassed \subseteq InboundMsg /\ sent \subseteq InboundMsg
           /\ unacked \subseteq InboundMsg
  BY DEF TypeOK, QueueType, ServerType, LoopType, FaultType

\* One of the two backlogs is empty when a task gives back its own.
LEMMA GivesBackOne ==
    ASSUME TypeOK, GivesBack
    PROVE  \/ codecBacklog = <<>> /\ backlog' = backlog
           \/ backlog = <<>> /\ backlog' = codecBacklog
  <1>1. codecBacklog = <<>> => codecBacklog \o backlog = backlog
    BY QueueTypes
  <1>2. backlog = <<>> => codecBacklog \o backlog = codecBacklog
    BY QueueTypes
  <1>. QED
    BY <1>1, <1>2 DEF GivesBack, OneBacklog, Transferred

(* Moving brings no message in. *)
LEMMA MovementKeeps ==
    ASSUME TypeOK, Movement
    PROVE  InFlight' \subseteq InFlight
  <1> USE QueueTypes
  <1>e. Elements(<<>>) = {}
    BY RisingEmpty
  <1>1. CASE Drains
    BY <1>1, ShrunkFacts DEF Drains, InFlight
  <1>2. CASE Moves
    BY <1>2, <1>e, ShrunkFacts DEF Moves, InFlight
  <1>3. CASE GivesBack
    BY <1>3, <1>e, GivesBackOne DEF GivesBack, InFlight
  <1>4. CASE PutsBack
    BY <1>4, ReadKeeps DEF PutsBack
  <1>5. CASE Deliver
    <2>1. slot' = <<Head(down)>> /\ down' = Tail(down) /\ down # <<>>
          /\ UNCHANGED <<codecBacklog, backlog>>
      BY <1>5 DEF Deliver
    <2>2. Head(down) \in Elements(down) /\ Elements(Tail(down)) \subseteq Elements(down)
      BY <2>1, ElementsFacts
    <2>3. Elements(slot') = {Head(down)}
      BY <2>1, SeqFacts, ElementsFacts
    <2>. QED
      BY <2>1, <2>2, <2>3 DEF InFlight
  <1>. QED
    BY <1>1, <1>2, <1>3, <1>4, <1>5 DEF Movement

(* And it keeps the order of what there is. *)
LEMMA AlignedMoves ==
    ASSUME TypeOK, Movement, NEW kind, Aligned(kind)
    PROVE  Aligned(kind)'
  <1> USE QueueTypes
  <1>e. Elements(<<>>) = {} /\ Rising(<<>>, kind)
    BY RisingEmpty
  <1>a. /\ Rising(backlog, kind) /\ Rising(codecBacklog, kind) /\ Rising(down, kind)
        /\ Before(backlog, codecBacklog, kind) /\ Before(backlog, slot, kind)
        /\ Before(backlog, down, kind) /\ Before(codecBacklog, slot, kind)
        /\ Before(codecBacklog, down, kind) /\ Before(slot, down, kind)
    BY DEF Aligned
  <1>1. CASE Drains
    <2>1. /\ Elements(codecBacklog') \subseteq Elements(codecBacklog)
          /\ Elements(backlog') \subseteq Elements(backlog)
          /\ Elements(slot') \subseteq Elements(slot)
          /\ Elements(down') \subseteq Elements(down)
      BY <1>1, ShrunkFacts DEF Drains
    <2>2. Rising(backlog', kind) /\ Rising(codecBacklog', kind) /\ Rising(down', kind)
      BY <1>a, <1>1, ShrunkFacts DEF Drains
    <2>. QED
      BY <1>a, <2>1, <2>2 DEF Aligned, Before
  <1>2. CASE Moves
    <2>1. /\ Elements(codecBacklog') \subseteq Elements(backlog)
          /\ Elements(slot') \subseteq Elements(slot)
          /\ backlog' = <<>> /\ down' = down
      BY <1>2, ShrunkFacts DEF Moves
    <2>2. Rising(backlog', kind) /\ Rising(codecBacklog', kind) /\ Rising(down', kind)
      BY <1>a, <1>e, <1>2, ShrunkFacts DEF Moves
    <2>. QED
      BY <1>a, <1>e, <2>1, <2>2 DEF Aligned, Before
  <1>3. CASE GivesBack
    <2>1. codecBacklog' = <<>> /\ slot' = slot /\ down' = down
      BY <1>3 DEF GivesBack
    <2>2. CASE codecBacklog = <<>> /\ backlog' = backlog
      BY <1>a, <1>e, <2>1, <2>2 DEF Aligned, Before
    <2>3. CASE backlog = <<>> /\ backlog' = codecBacklog
      BY <1>a, <1>e, <2>1, <2>3 DEF Aligned, Before
    <2>. QED
      BY <1>3, <2>2, <2>3, GivesBackOne
  <1>4. CASE PutsBack
    <2> DEFINE m == Head(Readable)
    <2>1. Readable # <<>> /\ ConsumeRead /\ backlog' = Append(backlog, m) /\ down' = down
      BY <1>4 DEF PutsBack
    <2>2. m \in Messages /\ m \in Elements(codecBacklog) \union Elements(slot)
      BY <2>1, ReadShrinks
    <2> HIDE DEF m
    <2>3. Rising(backlog', kind)
      <3>1. \A n \in Elements(backlog) : n.kind = kind /\ m.kind = kind => n.id < m.id
        BY <1>a, <2>2 DEF Before
      <3>. QED
        BY <1>a, <2>1, <2>2, <3>1, RisingAppend
    <2>4. Elements(backlog') = Elements(backlog) \union {m}
      BY <2>1, <2>2, ElementsFacts
    <2>5. CASE codecBacklog # <<>> /\ m = Head(codecBacklog)
               /\ codecBacklog' = Tail(codecBacklog) /\ slot' = slot
      <3>1. /\ Rising(codecBacklog', kind)
            /\ \A n \in Elements(codecBacklog') : m.kind = kind /\ n.kind = kind => m.id < n.id
        BY <1>a, <2>5, RisingTail
      <3>2. Elements(codecBacklog') \subseteq Elements(codecBacklog) /\ m \in Elements(codecBacklog)
        BY <2>5, ElementsFacts
      <3>. QED
        BY <1>a, <2>1, <2>3, <2>4, <2>5, <3>1, <3>2 DEF Aligned, Before
    <2>6. CASE codecBacklog = <<>> /\ slot # <<>> /\ m = Head(slot)
               /\ codecBacklog' = <<>> /\ slot' = <<>>
      <3>1. m \in Elements(slot)
        BY <2>6, ElementsFacts
      <3>. QED
        BY <1>a, <1>e, <2>1, <2>3, <2>4, <2>6, <3>1 DEF Aligned, Before
    <2>. QED
      BY <2>1, <2>5, <2>6, ReadShrinks DEF m
  <1>5. CASE Deliver
    <2>1. slot' = <<Head(down)>> /\ down' = Tail(down) /\ down # <<>> /\ slot = <<>>
          /\ codecBacklog' = codecBacklog /\ backlog' = backlog
      BY <1>5 DEF Deliver
    <2>2. Head(down) \in Elements(down) /\ Elements(down') \subseteq Elements(down)
      BY <2>1, ElementsFacts
    <2>3. Elements(slot') = {Head(down)}
      BY <2>1, SeqFacts, ElementsFacts
    <2>4. /\ Rising(down', kind)
          /\ \A n \in Elements(down') :
                 Head(down).kind = kind /\ n.kind = kind => Head(down).id < n.id
      BY <1>a, <2>1, RisingTail
    <2>. QED
      BY <1>a, <2>1, <2>2, <2>3, <2>4 DEF Aligned, Before
  <1>. QED
    BY <1>1, <1>2, <1>3, <1>4, <1>5 DEF Movement

(* What the servers send is added at the end. *)
LEMMA AlignedSend ==
    ASSUME TypeOK, NEW kind, Aligned(kind), NEW x \in Messages, down' = Append(down, x),
           \A m \in InFlight : m.kind = kind /\ x.kind = kind => m.id < x.id,
           UNCHANGED <<codecBacklog, backlog, slot>>
    PROVE  Aligned(kind)' /\ InFlight' = InFlight \union {x}
  <1> USE QueueTypes
  <1>1. Elements(down') = Elements(down) \union {x}
    BY ElementsFacts
  <1>2. Rising(down', kind)
    <2>1. Rising(down, kind)
      BY DEF Aligned
    <2>2. \A m \in Elements(down) : m.kind = kind /\ x.kind = kind => m.id < x.id
      BY DEF InFlight
    <2>. QED
      BY <2>1, <2>2, RisingAppend
  <1>. QED
    BY <1>1, <1>2 DEF Aligned, Before, InFlight

(* Every step of the task manager moves messages, or the servers send some. *)
MessageStep == Movement \/ ServerReceive \/ \E m \in InboundMsg : ServerSend(m)

\* Queues that are left alone or emptied only drain.
LEMMA DrainsUnchanged ==
    /\ UNCHANGED <<codecBacklog, backlog, slot, down>> => Drains
    /\ codecBacklog' = <<>> /\ UNCHANGED <<backlog, slot, down>> => Drains
  BY DEF Drains, Shrunk

\* A returning task drains its backlog or gives it back.
LEMMA ReturnMoves ==
    ASSUME TaskReturns, ~backlogError => OneBacklog, UNCHANGED <<slot, down>>
    PROVE  Movement
  <1>1. CASE backlogError
    BY <1>1, DrainsUnchanged DEF TaskReturns, ExitLoop, Movement
  <1>2. CASE ~backlogError
    BY <1>2 DEF TaskReturns, GivesBack, Movement
  <1>. QED
    BY <1>1, <1>2

\* What any step does to the queues on the way in.
LEMMA MessageStepOk ==
    ASSUME TasksAssumption, BoundsAssumption, TypeOK, LoopInv, ReturnInv, [Next]_vars
    PROVE  MessageStep
  <1> USE DEF queueVars, serverVars, Movement
  <1>b. running \in Runs
    BY QueueTypes
  <1>0. CASE UNCHANGED vars
    BY <1>0, DrainsUnchanged DEF vars, MessageStep
  <1>1. ASSUME NEW t \in Tasks, ScheduleDisconnected(t) PROVE MessageStep
    BY <1>1, DrainsUnchanged DEF ScheduleDisconnected, MessageStep
  <1>2. ASSUME NEW t \in Tasks, ScheduleConnected(t) PROVE MessageStep
    BY <1>2, DrainsUnchanged DEF ScheduleConnected, MessageStep
  <1>3. CASE Connect
    BY <1>3 DEF Connect, Drains, Shrunk, MessageStep
  <1>4. CASE Disconnect
    BY <1>4 DEF Disconnect, Drains, Shrunk, MessageStep
  <1>5. CASE Abort
    BY <1>5 DEF Abort, Drains, Shrunk, MessageStep
  <1>6. CASE StartRun
    BY <1>6, DrainsUnchanged DEF StartRun, MessageStep
  <1>7. CASE NextInbound
    BY <1>7, DrainsUnchanged DEF NextInbound, MessageStep
  <1>8. CASE NextError
    BY <1>8, DrainsUnchanged DEF NextError, ExitLoop, MessageStep
  <1>9. CASE AssertNoTasksFails
    BY <1>9, DrainsUnchanged DEF AssertNoTasksFails, ExitLoop, MessageStep
  <1>10. CASE HandleInbound
    <2>1. loop = "inbound" /\ codecBacklog = <<>>
      BY <1>10 DEF HandleInbound, LoopInv
    <2>2. Shrunk(slot, slot') /\ down' = down
      BY <1>10 DEF HandleInbound, Shrunk
    <2>3. \/ Shrunk(backlog, codecBacklog') /\ backlog' = <<>>
          \/ codecBacklog' = codecBacklog /\ Shrunk(backlog, backlog')
      BY <1>10 DEF HandleInbound, Shrunk
    <2>. QED
      BY <2>1, <2>2, <2>3 DEF Moves, Drains, Shrunk, MessageStep
  <1>11. ASSUME NEW t \in Tasks, NextTask(t) PROVE MessageStep
    <2>1. codecBacklog = <<>>
      BY <1>11 DEF NextTask, LoopInv
    <2>. QED
      BY <1>11, <2>1 DEF NextTask, Moves, Shrunk, MessageStep
  <1>12. CASE ExternalDone
    BY <1>12, DrainsUnchanged DEF ExternalDone, MessageStep
  <1>13. CASE WriteReflect
    BY <1>13, DrainsUnchanged DEF WriteReflect, MessageStep
  <1>14. CASE ReadBypass
    <2>1. Readable # <<>> /\ ConsumeRead /\ UNCHANGED <<backlog, down>>
      BY <1>14 DEF ReadBypass
    <2>. QED
      BY <2>1, ReadShrinks DEF Drains, Shrunk, MessageStep
  <1>15. CASE ReadAccept
    <2>1. Readable # <<>> /\ ConsumeRead /\ UNCHANGED <<backlog, down>>
      BY <1>15 DEF ReadAccept
    <2>. QED
      BY <2>1, ReadShrinks DEF Drains, Shrunk, MessageStep
  <1>16. CASE ReadBacklog
    <2>1. /\ Readable # <<>> /\ ConsumeRead /\ down' = down
          /\ backlog' = backlog \/ backlog' = Append(backlog, Head(Readable))
      BY <1>16 DEF ReadBacklog, BacklogLast
    <2>. QED
      BY <2>1, ReadShrinks DEF Drains, PutsBack, Shrunk, MessageStep
  <1>17. CASE ReadMismatch
    BY <1>17, DrainsUnchanged DEF ReadMismatch, ExitLoop, MessageStep
  <1>18. CASE CodecError
    BY <1>18, DrainsUnchanged DEF CodecError, ExitLoop, MessageStep
  <1>19. CASE ReflectReturns
    <2>1. running.phase = "reflect" /\ running.acked = EnvelopesOf(running)
      BY <1>19 DEF ReflectReturns, BatchComplete
    <2>2. OneBacklog
      BY <2>1 DEF ReturnInv
    <2>3. CASE TaskReturns
      BY <1>19, <2>2, <2>3, ReturnMoves DEF ReflectReturns, MessageStep
    <2>4. CASE ~TaskReturns
      BY <1>19, <2>4, DrainsUnchanged DEF ReflectReturns, MessageStep
    <2>. QED
      BY <2>3, <2>4
  <1>20. CASE ProcessReflected
    BY <1>20, DrainsUnchanged DEF ProcessReflected, MessageStep
  <1>21. CASE AcknowledgeInbound
    <2>1. running.phase = "ack" /\ TaskReturns /\ UNCHANGED <<slot, down>>
      BY <1>21 DEF AcknowledgeInbound
    <2>2. running.kind \in {"incoming", "reflected"}
      BY <1>b, <2>1 DEF Runs, RunOf, NoTask
    <2>3. OneBacklog
      BY <2>1, <2>2 DEF ReturnInv, LoopInv, OneBacklog
    <2>. QED
      BY <2>1, <2>3, ReturnMoves DEF MessageStep
  <1>22. CASE DetectUnrecoverable
    <2>1. running.phase = "process"
      BY <1>22 DEF DetectUnrecoverable
    <2>2. running.kind = "reflected"
      BY <1>b, <2>1 DEF Runs, RunOf, NoTask
    <2>3. codecBacklog = <<>>
      BY <2>2 DEF LoopInv
    <2>. QED
      BY <1>22, <2>3 DEF DetectUnrecoverable, Moves, Shrunk, MessageStep
  <1>23. CASE WriteDrop
    BY <1>23, DrainsUnchanged DEF WriteDrop, MessageStep
  <1>24. CASE DropError
    BY <1>24, DrainsUnchanged DEF DropError, MessageStep
  <1>25. ASSUME NEW m \in InboundMsg, BypassDone(m) PROVE MessageStep
    BY <1>25, DrainsUnchanged DEF BypassDone, MessageStep
  <1>26. CASE Deliver
    BY <1>26 DEF MessageStep
  <1>27. CASE ServerReceive
    BY <1>27 DEF MessageStep
  <1>28. ASSUME NEW m \in InboundMsg, ServerSend(m) PROVE MessageStep
    BY <1>28 DEF MessageStep
  <1>29. CASE TaskThrows
    BY <1>29, DrainsUnchanged DEF TaskThrows, ExitLoop, MessageStep
  <1>. QED
    BY <1>0, <1>1, <1>2, <1>3, <1>4, <1>5, <1>6, <1>7, <1>8, <1>9, <1>10, <1>11,
       <1>12, <1>13, <1>14, <1>15, <1>16, <1>17, <1>18, <1>19, <1>20, <1>21, <1>22,
       <1>23, <1>24, <1>25, <1>26, <1>27, <1>28, <1>29
       DEF Next, Schedule, Loop, Codec, Network

-----------------------------------------------------------------------------
(* The main loop and the backlogs *)

\* An acknowledgement consists of its id.
LEMMA AckForm ==
    ASSUME NEW m \in Messages, m.kind = "ack"
    PROVE  m.id \in Nat /\ m = Ack(m.id)
  BY DEF Messages, InboundMsg, Csp, Reflected, DropAck, Ack

(* All acknowledgements that were ever sent are older than a new batch. *)
LEMMA AcksAreIssued ==
    ASSUME TypeOK, AcksInv, NEW m \in InFlight, m.kind = "ack"
    PROVE  m.id \in Nat /\ m.id < rsn
  <1>1. m \in Messages
    BY QueueTypes DEF InFlight, Elements
  <1>2. m.id \in Nat /\ m = Ack(m.id)
    BY <1>1, AckForm
  <1>. QED
    BY <1>2 DEF AcksInv

(* Backlogs that only shrink stay free of reflected messages. *)
LEMMA LoopShrinks ==
    ASSUME TypeOK, LoopInv, Shrunk(codecBacklog, codecBacklog'), Shrunk(backlog, backlog'),
           bypassed' \subseteq Reflected,
           \/ running'.kind = "none" /\ running'.phase = "none" /\ codecBacklog' = <<>>
           \/ /\ loop' = loop /\ running'.kind = running.kind
              /\ running'.phase = running.phase \/ loop = "run"
    PROVE  LoopInv'
  <1>1. /\ Elements(codecBacklog') \subseteq Elements(codecBacklog)
        /\ Elements(backlog') \subseteq Elements(backlog)
    BY QueueTypes, ShrunkFacts
  <1>2. /\ codecBacklog = <<>> => codecBacklog' = <<>>
        /\ backlog = <<>> => backlog' = <<>>
    BY DEF Shrunk
  <1>. QED
    BY <1>1, <1>2 DEF LoopInv

(* So they do when a run takes over the backlog. *)
LEMMA LoopMoves ==
    ASSUME TypeOK, LoopInv, Shrunk(backlog, codecBacklog'), backlog' = <<>>,
           bypassed' = bypassed, loop' = "run",
           running'.kind \in {"reflected", "drop"} => codecBacklog' = <<>>
    PROVE  LoopInv'
  <1>1. Elements(codecBacklog') \subseteq Elements(backlog)
    BY QueueTypes, ShrunkFacts
  <1>. QED
    BY <1>1, RisingEmpty DEF LoopInv

\* The two ends of a task keep what the main loop relies on,
LEMMA LoopReturns ==
    ASSUME TypeOK, LoopInv, TaskReturns, bypassed' = bypassed
    PROVE  LoopInv'
  <1>1. CASE backlogError
    BY <1>1, LoopShrinks DEF TaskReturns, ExitLoop, LoopInv, NoTask, Shrunk
  <1>2. CASE ~backlogError
    <2>1. /\ running'.kind = "none" /\ running'.phase = "none" /\ codecBacklog' = <<>>
          /\ backlog' = codecBacklog \o backlog /\ loop' = "next"
      BY <1>2 DEF TaskReturns, NoTask, Transferred
    <2>2. Elements(backlog') = Elements(codecBacklog) \union Elements(backlog)
      BY <2>1, QueueTypes, ElementsFacts
    <2>. QED
      BY <2>1, <2>2, RisingEmpty DEF LoopInv
  <1>. QED
    BY <1>1, <1>2

\* and so does any other step.
LEMMA LoopInvStep ==
    ASSUME TasksAssumption, BoundsAssumption, TypeOK, LoopInv, [Next]_vars
    PROVE  LoopInv'
  <1> USE DEF managerVars, loopVars, queueVars, faultVars, serverVars
  <1>b. running \in Runs /\ NoTask.kind = "none" /\ NoTask.phase = "none"
    BY QueueTypes DEF NoTask
  <1>c. bypassed \subseteq Reflected
    BY DEF LoopInv
  <1>d. \A s : Shrunk(s, s) /\ Shrunk(s, <<>>)
    BY DEF Shrunk
  <1>0. CASE UNCHANGED vars
    BY <1>0, <1>c, <1>d, LoopShrinks DEF vars
  <1>1. ASSUME NEW t \in Tasks, ScheduleDisconnected(t) PROVE LoopInv'
    BY <1>1, <1>c, <1>d, LoopShrinks DEF ScheduleDisconnected
  <1>2. ASSUME NEW t \in Tasks, ScheduleConnected(t) PROVE LoopInv'
    BY <1>2, <1>c, <1>d, LoopShrinks DEF ScheduleConnected
  <1>3. CASE Connect
    BY <1>3, <1>b, <1>c, <1>d, LoopShrinks DEF Connect
  <1>4. CASE Disconnect
    <2>1. bypassed' = {} /\ codecBacklog' = <<>> /\ backlog' = <<>> /\ running' = NoTask
      BY <1>4 DEF Disconnect
    <2>. QED
      BY <1>b, <1>d, <2>1, LoopShrinks
  <1>5. CASE Abort
    BY <1>5, <1>c, <1>d, LoopShrinks DEF Abort
  <1>6. CASE StartRun
    BY <1>6 DEF StartRun, LoopInv
  <1>7. CASE NextInbound
    BY <1>7 DEF NextInbound, LoopInv
  <1>8. CASE NextError
    BY <1>8, <1>b, <1>c, <1>d, LoopShrinks DEF NextError, ExitLoop
  <1>9. CASE AssertNoTasksFails
    BY <1>9, <1>b, <1>c, <1>d, LoopShrinks DEF AssertNoTasksFails, ExitLoop
  <1>10. CASE HandleInbound
    <2> DEFINE rest == IF backlog # <<>> THEN Tail(backlog) ELSE <<>>
    <2>1. loop = "inbound" /\ bypassed' = bypassed /\ codecBacklog = <<>> /\ backlog \o slot # <<>>
      BY <1>10 DEF HandleInbound, LoopInv
    <2>2. Shrunk(backlog, rest) /\ (backlog = <<>> => rest = <<>>)
      BY DEF Shrunk
    <2>3. CASE Inbound.kind = "csp"
      <3>1. /\ running' = IncomingTask(Inbound.id) /\ loop' = "run"
            /\ codecBacklog' = rest /\ backlog' = <<>>
        BY <1>10, <2>3 DEF HandleInbound
      <3>2. running'.kind = "incoming"
        BY <3>1 DEF IncomingTask, Reflecting
      <3> HIDE DEF rest
      <3>. QED
        BY <2>1, <2>2, <3>1, <3>2, LoopMoves
    <2>4. CASE Inbound.kind = "reflected"
      <3>1. codecBacklog' = rest /\ backlog' = <<>> /\ loop' = "run"
        BY <1>10, <2>4 DEF HandleInbound
      <3>2. backlog = <<>>
        <4> SUFFICES ASSUME backlog # <<>> PROVE FALSE
          OBVIOUS
        <4>1. Inbound = Head(backlog)
          BY QueueTypes DEF Inbound
        <4>2. Inbound \in Elements(backlog)
          BY <4>1, QueueTypes, ElementsFacts
        <4>. QED
          BY <2>4, <4>2 DEF LoopInv
      <3>3. rest = <<>>
        BY <2>2, <3>2
      <3> HIDE DEF rest
      <3>. QED
        BY <2>1, <2>2, <3>1, <3>3, LoopMoves
    <2>5. CASE Inbound.kind \in {"ack", "dropAck"}
      <3>1. backlog' = rest /\ loop' = "next" /\ UNCHANGED <<running, codecBacklog>>
        BY <1>10, <2>5 DEF HandleInbound
      <3> HIDE DEF rest
      <3>2. Elements(backlog') \subseteq Elements(backlog)
        BY <2>2, <3>1, QueueTypes, ShrunkFacts
      <3>. QED
        BY <2>1, <3>1, <3>2 DEF LoopInv
    <2>. QED
      BY <1>10, <2>3, <2>4, <2>5 DEF HandleInbound
  <1>11. ASSUME NEW t \in Tasks, NextTask(t) PROVE LoopInv'
    <2>1. codecBacklog' = backlog /\ backlog' = <<>> /\ loop' = "run" /\ bypassed' = bypassed
      BY <1>11 DEF NextTask
    <2>2. running'.kind = "active"
      BY <1>11 DEF NextTask, Reflecting
    <2>. QED
      BY <1>d, <2>1, <2>2, LoopMoves
  <1>12. CASE ExternalDone
    <2>1. running.kind = "active"
      BY <1>12, <1>b DEF ExternalDone, Runs, RunOf, NoTask
    <2>2. running'.kind = "active" /\ loop = "run" /\ UNCHANGED <<loop, codecBacklog, backlog, bypassed>>
      BY <1>12 DEF ExternalDone, Reflecting
    <2>. QED
      BY <1>c, <1>d, <2>1, <2>2, LoopShrinks
  <1>13. CASE WriteReflect
    <2>1. /\ running' = [running EXCEPT !.written = @ + 1] /\ loop = "run"
          /\ UNCHANGED <<loop, codecBacklog, backlog, bypassed>>
      BY <1>13 DEF WriteReflect
    <2>2. running'.kind = running.kind
      BY <1>b, <2>1 DEF Runs, RunOf, NoTask
    <2>. QED
      BY <1>c, <1>d, <2>1, <2>2, LoopShrinks
  <1>14. CASE ReadBypass
    <2> DEFINE m == Head(Readable)
    <2>1. /\ Readable # <<>> /\ m.kind = "reflected" /\ ConsumeRead
          /\ bypassed' = bypassed \union {m} /\ UNCHANGED <<loop, running, backlog>>
      BY <1>14 DEF ReadBypass
    <2>2. m \in Reflected
      <3>1. m \in Messages
        BY <2>1, ReadShrinks
      <3>. QED
        BY <2>1, <3>1 DEF Messages, InboundMsg, Csp, Reflected, DropAck
    <2>. QED
      BY <1>c, <1>d, <2>1, <2>2, ReadShrinks, LoopShrinks
  <1>15. CASE ReadAccept
    <2>1. Readable # <<>> /\ ConsumeRead /\ UNCHANGED <<backlog, bypassed>> /\ loop = "run"
      BY <1>15 DEF ReadAccept, Reading
    <2>2. CASE running' = [running EXCEPT !.acked = @ + 1] /\ loop' = loop
      <3>1. running'.kind = running.kind
        BY <1>b, <2>2 DEF Runs, RunOf, NoTask
      <3>. QED
        BY <1>c, <1>d, <2>1, <2>2, <3>1, ReadShrinks, LoopShrinks
    <2>3. CASE loop' = "exited" /\ running' = NoTask /\ running.phase = "dropAck"
               /\ Head(Readable) = DropAck
      <3>1. Shrunk(codecBacklog, codecBacklog')
        BY <2>1, ReadShrinks
      <3>2. codecBacklog = <<>>
        BY <1>b, <2>3 DEF LoopInv, Runs, RunOf, NoTask
      <3>3. codecBacklog' = <<>>
        BY <3>1, <3>2 DEF Shrunk
      <3>. QED
        BY <1>b, <1>c, <1>d, <2>1, <2>3, <3>1, <3>3, LoopShrinks
    <2>. QED
      BY <1>15, <2>2, <2>3 DEF ReadAccept
  <1>16. CASE ReadBacklog
    <2> DEFINE m == Head(Readable)
    <2>1. /\ Readable # <<>> /\ ConsumeRead /\ UNCHANGED <<running, loop, bypassed>>
          /\ loop = "run" /\ running.phase \in {"reflect", "dropAck"}
      BY <1>16 DEF ReadBacklog, Reading
    <2>2. running.kind \notin {"reflected", "none"}
      BY <1>b, <2>1 DEF Runs, RunOf, NoTask
    <2>3. Shrunk(codecBacklog, codecBacklog') /\ m \in Messages
      BY <2>1, ReadShrinks
    <2>4. CASE backlog' = backlog
      BY <1>c, <1>d, <2>1, <2>3, <2>4, LoopShrinks
    <2>5. CASE backlog' = Append(backlog, m) /\ m.kind # "reflected"
      <3>1. Elements(backlog') = Elements(backlog) \union {m}
        BY <2>3, <2>5, QueueTypes, ElementsFacts
      <3>2. Elements(codecBacklog') \subseteq Elements(codecBacklog)
        BY <2>3, QueueTypes, ShrunkFacts
      <3>3. codecBacklog = <<>> => codecBacklog' = <<>>
        BY <2>3 DEF Shrunk
      <3> HIDE DEF m
      <3>. QED
        BY <2>1, <2>2, <2>5, <3>1, <3>2, <3>3 DEF LoopInv
    <2>6. backlog' = backlog \/ (backlog' = Append(backlog, m) /\ m.kind # "reflected")
      BY <1>16 DEF ReadBacklog, BacklogLast
    <2>. QED
      BY <2>4, <2>5, <2>6
  <1>17. CASE ReadMismatch
    BY <1>17, <1>b, <1>c, <1>d, LoopShrinks DEF ReadMismatch, ExitLoop
  <1>18. CASE CodecError
    BY <1>18, <1>b, <1>c, <1>d, LoopShrinks DEF CodecError, ExitLoop
  <1>19. CASE ReflectReturns
    <2>1. CASE running.kind = "active" /\ TaskReturns
      BY <1>19, <2>1, LoopReturns DEF ReflectReturns
    <2>2. CASE running.kind = "incoming" /\ running' = [running EXCEPT !.phase = "ack"]
               /\ UNCHANGED <<loop, codecBacklog, backlog>>
      <3>1. running'.kind = running.kind
        BY <1>b, <2>2 DEF Runs, RunOf, NoTask
      <3>2. loop = "run" /\ bypassed' = bypassed
        BY <1>19 DEF ReflectReturns
      <3>. QED
        BY <1>c, <1>d, <2>2, <3>1, <3>2, LoopShrinks
    <2>. QED
      BY <1>19, <2>1, <2>2 DEF ReflectReturns
  <1>20. CASE ProcessReflected
    <2>1. running' = [running EXCEPT !.phase = "ack"] /\ loop = "run"
          /\ UNCHANGED <<loop, codecBacklog, backlog, bypassed>>
      BY <1>20 DEF ProcessReflected
    <2>2. running'.kind = running.kind
      BY <1>b, <2>1 DEF Runs, RunOf, NoTask
    <2>. QED
      BY <1>c, <1>d, <2>1, <2>2, LoopShrinks
  <1>21. CASE AcknowledgeInbound
    BY <1>21, LoopReturns DEF AcknowledgeInbound
  <1>22. CASE DetectUnrecoverable
    <2>1. running.phase = "process" /\ loop = "run"
      BY <1>22 DEF DetectUnrecoverable
    <2>2. running.kind = "reflected"
      BY <1>b, <2>1 DEF Runs, RunOf, NoTask
    <2>3. backlog = <<>>
      BY <2>2 DEF LoopInv
    <2>4. codecBacklog' = backlog /\ backlog' = <<>> /\ UNCHANGED <<bypassed, loop>>
      BY <1>22 DEF DetectUnrecoverable
    <2>. QED
      BY <1>d, <2>1, <2>3, <2>4, LoopMoves
  <1>23. CASE WriteDrop
    <2>1. running' = [running EXCEPT !.phase = "dropAck"] /\ loop = "run"
          /\ UNCHANGED <<loop, codecBacklog, backlog, bypassed>>
      BY <1>23 DEF WriteDrop
    <2>2. running'.kind = running.kind
      BY <1>b, <2>1 DEF Runs, RunOf, NoTask
    <2>. QED
      BY <1>c, <1>d, <2>1, <2>2, LoopShrinks
  <1>24. CASE DropError
    BY <1>24, <1>b, <1>c, <1>d, LoopShrinks DEF DropError
  <1>25. ASSUME NEW m \in InboundMsg, BypassDone(m) PROVE LoopInv'
    <2>1. bypassed' \subseteq Reflected
      BY <1>25, <1>c DEF BypassDone
    <2>. QED
      BY <1>25, <1>d, <2>1, LoopShrinks DEF BypassDone
  <1>26. CASE Deliver
    BY <1>26, <1>c, <1>d, LoopShrinks DEF Deliver
  <1>27. CASE ServerReceive
    BY <1>27, <1>c, <1>d, LoopShrinks DEF ServerReceive
  <1>28. ASSUME NEW m \in InboundMsg, ServerSend(m) PROVE LoopInv'
    BY <1>28, <1>c, <1>d, LoopShrinks DEF ServerSend
  <1>29. CASE TaskThrows
    BY <1>29, <1>b, <1>c, <1>d, LoopShrinks DEF TaskThrows, ExitLoop
  <1>. QED
    BY <1>0, <1>1, <1>2, <1>3, <1>4, <1>5, <1>6, <1>7, <1>8, <1>9, <1>10, <1>11,
       <1>12, <1>13, <1>14, <1>15, <1>16, <1>17, <1>18, <1>19, <1>20, <1>21, <1>22,
       <1>23, <1>24, <1>25, <1>26, <1>27, <1>28, <1>29
       DEF Next, Schedule, Loop, Codec, Network

(* What a task returns is in one piece. *)
LEMMA ReturnUnchanged ==
    ASSUME TypeOK, ReturnInv, running' = running,
           Shrunk(codecBacklog, codecBacklog'), Shrunk(backlog, backlog')
    PROVE  ReturnInv'
  <1>1. Elements(codecBacklog') \subseteq Elements(codecBacklog)
    BY QueueTypes, ShrunkFacts
  <1>2. /\ OneBacklog => OneBacklog'
        /\ backlog = <<>> => backlog' = <<>>
    BY DEF Shrunk, OneBacklog
  <1>. QED
    BY <1>1, <1>2 DEF ReturnInv, EnvelopesOf

\* There is nothing to show while no batch is being reflected.
LEMMA ReturnIdle ==
    ASSUME running'.phase # "reflect", ~(running'.kind = "incoming" /\ running'.phase = "ack"),
           running'.phase = "external" => backlog' = <<>>
    PROVE  ReturnInv'
  BY DEF ReturnInv

(* A new run has written nothing, and read nothing of its backlog. *)
LEMMA ReturnNewBatch ==
    ASSUME TypeOK, AcksInv, Elements(codecBacklog') \subseteq InFlight,
           running'.phase = "reflect", running'.first = rsn,
           running'.acked = EnvelopesOf(running') => backlog' = <<>>
    PROVE  ReturnInv'
  BY AcksAreIssued DEF ReturnInv, OneBacklog

\* A task that is to give back its backlog found none in the manager.
LEMMA ReturnInvStep ==
    ASSUME TasksAssumption, BoundsAssumption, TypeOK, AcksInv, LoopInv, ReturnInv, [Next]_vars
    PROVE  ReturnInv'
  <1> USE DEF managerVars, loopVars, queueVars, faultVars, serverVars
  <1>b. running \in Runs /\ NoTask.kind = "none" /\ NoTask.phase = "none"
    BY QueueTypes DEF NoTask
  <1>d. \A s : Shrunk(s, s) /\ Shrunk(s, <<>>)
    BY DEF Shrunk
  <1>0. CASE UNCHANGED vars
    BY <1>0, <1>d, ReturnUnchanged DEF vars
  <1>1. ASSUME NEW t \in Tasks, ScheduleDisconnected(t) PROVE ReturnInv'
    BY <1>1, <1>d, ReturnUnchanged DEF ScheduleDisconnected
  <1>2. ASSUME NEW t \in Tasks, ScheduleConnected(t) PROVE ReturnInv'
    BY <1>2, <1>d, ReturnUnchanged DEF ScheduleConnected
  <1>3. CASE Connect
    BY <1>3, <1>b, ReturnIdle DEF Connect
  <1>4. CASE Disconnect
    BY <1>4, <1>b, ReturnIdle DEF Disconnect
  <1>5. CASE Abort
    BY <1>5, <1>d, ReturnUnchanged DEF Abort
  <1>6. CASE StartRun
    BY <1>6, <1>d, ReturnUnchanged DEF StartRun
  <1>7. CASE NextInbound
    BY <1>7, <1>d, ReturnUnchanged DEF NextInbound
  <1>8. CASE NextError
    BY <1>8, <1>b, ReturnIdle DEF NextError, ExitLoop
  <1>9. CASE AssertNoTasksFails
    BY <1>9, <1>b, ReturnIdle DEF AssertNoTasksFails, ExitLoop
  <1>10. CASE HandleInbound
    <2> DEFINE rest == IF backlog # <<>> THEN Tail(backlog) ELSE <<>>
    <2>1. Shrunk(backlog, rest)
      BY DEF Shrunk
    <2>2. Elements(rest) \subseteq InFlight
      BY <2>1, QueueTypes, ShrunkFacts DEF InFlight
    <2>3. CASE Inbound.kind = "csp"
      <3>1. running' = IncomingTask(Inbound.id) /\ codecBacklog' = rest /\ backlog' = <<>>
        BY <1>10, <2>3 DEF HandleInbound
      <3>2. running'.phase = "reflect" /\ running'.first = rsn
        BY <3>1 DEF IncomingTask, Reflecting
      <3> HIDE DEF rest
      <3>. QED
        BY <2>2, <3>1, <3>2, ReturnNewBatch
    <2>4. CASE Inbound.kind = "reflected"
      BY <1>10, <2>4, ReturnIdle DEF HandleInbound, Reflecting
    <2>5. CASE Inbound.kind \in {"ack", "dropAck"}
      <3>1. backlog' = rest /\ UNCHANGED <<running, codecBacklog>>
        BY <1>10, <2>5 DEF HandleInbound
      <3> HIDE DEF rest
      <3>. QED
        BY <1>d, <2>1, <3>1, ReturnUnchanged
    <2>. QED
      BY <1>10, <2>3, <2>4, <2>5 DEF HandleInbound
  <1>11. ASSUME NEW t \in Tasks, NextTask(t) PROVE ReturnInv'
    <2>1. codecBacklog' = backlog /\ backlog' = <<>>
      BY <1>11 DEF NextTask
    <2>2. CASE t \in External
      BY <1>11, <2>1, <2>2, ReturnIdle DEF NextTask, Reflecting
    <2>3. CASE t \notin External
      <3>1. running'.phase = "reflect" /\ running'.first = rsn
        BY <1>11, <2>3 DEF NextTask, Reflecting
      <3>2. Elements(codecBacklog') \subseteq InFlight
        BY <2>1 DEF InFlight
      <3>. QED
        BY <2>1, <3>1, <3>2, ReturnNewBatch
    <2>. QED
      BY <2>2, <2>3
  <1>12. CASE ExternalDone
    <2>1. running.kind = "active" /\ running.task \in Tasks
      BY <1>12, <1>b DEF ExternalDone, Runs, RunOf, NoTask
    <2>2. running' = Reflecting("active", running.task, rsn) /\ UNCHANGED <<codecBacklog, backlog>>
      BY <1>12 DEF ExternalDone
    <2>3. /\ running'.phase = "reflect" /\ running'.first = rsn /\ running'.acked = 0
          /\ EnvelopesOf(running') = Envelopes[running.task]
      BY <2>2 DEF Reflecting, EnvelopesOf
    <2>4. Elements(codecBacklog') \subseteq InFlight
      BY <2>2 DEF InFlight
    <2>5. running'.acked = EnvelopesOf(running') => backlog' = <<>>
      BY <1>12, <2>2 DEF ExternalDone, ReturnInv
    <2>. QED
      BY <2>3, <2>4, <2>5, ReturnNewBatch
  <1>13. CASE WriteReflect
    <2>1. /\ running' = [running EXCEPT !.written = @ + 1] /\ running.phase = "reflect"
          /\ UNCHANGED <<codecBacklog, backlog>>
      BY <1>13 DEF WriteReflect
    <2>2. /\ running'.kind = running.kind /\ running'.task = running.task
          /\ running'.acked = running.acked /\ running'.first = running.first
          /\ running'.phase = "reflect"
      BY <1>b, <2>1 DEF Runs, RunOf, NoTask
    <2>. QED
      BY <2>1, <2>2 DEF ReturnInv, EnvelopesOf, OneBacklog
  <1>14. CASE ReadBypass
    <2>1. Readable # <<>> /\ ConsumeRead /\ UNCHANGED <<running, backlog>>
      BY <1>14 DEF ReadBypass
    <2>. QED
      BY <1>d, <2>1, ReadShrinks, ReturnUnchanged
  <1>15. CASE ReadAccept
    <2> DEFINE m == Head(Readable)
    <2>1. Readable # <<>> /\ ConsumeRead /\ backlog' = backlog
      BY <1>15 DEF ReadAccept
    <2>2. CASE running.phase = "reflect" /\ IsExpected(m)
               /\ running' = [running EXCEPT !.acked = @ + 1]
      <3>1. m \in Elements(codecBacklog) \union Elements(slot) /\ Shrunk(codecBacklog, codecBacklog')
        BY <2>1, ReadShrinks
      <3>2. running.first \in Nat /\ running.acked \in Nat
        BY <1>b, RunSteps
      <3>3. m.kind = "ack" /\ m.id = running.first + running.acked
        BY <2>2 DEF IsExpected, Ack
      <3>4. ~ m.id < running.first
        BY <3>2, <3>3
      <3>5. codecBacklog = <<>>
        <4> SUFFICES ASSUME codecBacklog # <<>> PROVE FALSE
          OBVIOUS
        <4>1. m = Head(codecBacklog)
          BY <2>1, ReadShrinks
        <4>2. m \in Elements(codecBacklog)
          BY <4>1, QueueTypes, ElementsFacts
        <4> HIDE DEF m
        <4>. QED
          BY <2>2, <3>3, <3>4, <4>2 DEF ReturnInv
      <3>6. codecBacklog' = <<>>
        BY <3>1, <3>5 DEF Shrunk
      <3>7. running'.phase = "reflect"
        BY <1>b, <2>2 DEF Runs, RunOf, NoTask
      <3>. QED
        BY <3>6, <3>7, RisingEmpty DEF ReturnInv, OneBacklog
    <2>3. CASE running' = NoTask
      BY <1>b, <2>3, ReturnIdle
    <2>. QED
      BY <1>15, <2>2, <2>3 DEF ReadAccept
  <1>16. CASE ReadBacklog
    <2>1. Readable # <<>> /\ ConsumeRead /\ running' = running /\ Reading
      BY <1>16 DEF ReadBacklog
    <2>2. Elements(codecBacklog') \subseteq Elements(codecBacklog)
      BY <2>1, ReadShrinks, QueueTypes, ShrunkFacts
    <2>3. EnvelopesOf(running) \in Nat /\ running.acked \in Nat
      BY <1>b, EnvelopeCount, RunSteps
    <2>4. running.phase = "reflect" => running.acked # EnvelopesOf(running)
      BY <2>1, <2>3 DEF Reading
    <2>5. running.phase \in {"reflect", "dropAck"}
      BY <2>1 DEF Reading
    <2>. QED
      BY <2>1, <2>2, <2>4, <2>5 DEF ReturnInv, EnvelopesOf
  <1>17. CASE ReadMismatch
    BY <1>17, <1>b, ReturnIdle DEF ReadMismatch, ExitLoop
  <1>18. CASE CodecError
    BY <1>18, <1>b, ReturnIdle DEF CodecError, ExitLoop
  <1>19. CASE ReflectReturns
    <2>1. running.phase = "reflect" /\ running.acked = EnvelopesOf(running)
      BY <1>19 DEF ReflectReturns, BatchComplete
    <2>2. CASE TaskReturns
      BY <1>b, <2>2, ReturnIdle DEF TaskReturns, ExitLoop
    <2>3. CASE running.kind = "incoming" /\ running' = [running EXCEPT !.phase = "ack"]
               /\ UNCHANGED <<codecBacklog, backlog>>
      <3>1. running'.phase = "ack"
        BY <1>b, <2>3 DEF Runs, RunOf, NoTask
      <3>. QED
        BY <2>1, <2>3, <3>1 DEF ReturnInv, OneBacklog
    <2>. QED
      BY <1>19, <2>2, <2>3 DEF ReflectReturns
  <1>20. CASE ProcessReflected
    <2>1. running' = [running EXCEPT !.phase = "ack"] /\ running.phase = "process"
      BY <1>20 DEF ProcessReflected
    <2>2. running'.kind = "reflected" /\ running'.phase = "ack"
      BY <1>b, <2>1 DEF Runs, RunOf, NoTask
    <2>. QED
      BY <2>2, ReturnIdle
  <1>21. CASE AcknowledgeInbound
    BY <1>21, <1>b, ReturnIdle DEF AcknowledgeInbound, TaskReturns, ExitLoop
  <1>22. CASE DetectUnrecoverable
    BY <1>22, ReturnIdle DEF DetectUnrecoverable, NoTask
  <1>23. CASE WriteDrop
    <2>1. running' = [running EXCEPT !.phase = "dropAck"]
      BY <1>23 DEF WriteDrop
    <2>2. running'.phase = "dropAck"
      BY <1>b, <2>1 DEF Runs, RunOf, NoTask
    <2>. QED
      BY <2>2, ReturnIdle
  <1>24. CASE DropError
    BY <1>24, <1>b, ReturnIdle DEF DropError
  <1>25. ASSUME NEW m \in InboundMsg, BypassDone(m) PROVE ReturnInv'
    BY <1>25, <1>d, ReturnUnchanged DEF BypassDone
  <1>26. CASE Deliver
    BY <1>26, <1>d, ReturnUnchanged DEF Deliver
  <1>27. CASE ServerReceive
    BY <1>27, <1>d, ReturnUnchanged DEF ServerReceive
  <1>28. ASSUME NEW m \in InboundMsg, ServerSend(m) PROVE ReturnInv'
    BY <1>28, <1>d, ReturnUnchanged DEF ServerSend
  <1>29. CASE TaskThrows
    BY <1>29, <1>b, ReturnIdle DEF TaskThrows, ExitLoop
  <1>. QED
    BY <1>0, <1>1, <1>2, <1>3, <1>4, <1>5, <1>6, <1>7, <1>8, <1>9, <1>10, <1>11,
       <1>12, <1>13, <1>14, <1>15, <1>16, <1>17, <1>18, <1>19, <1>20, <1>21, <1>22,
       <1>23, <1>24, <1>25, <1>26, <1>27, <1>28, <1>29
       DEF Next, Schedule, Loop, Codec, Network

-----------------------------------------------------------------------------
(* Chat messages are in order *)

(* What a server answers is added at the end. *)
LEMMA AnswerFacts ==
    ASSUME TypeOK, ServerReceive
    PROVE  /\ UNCHANGED <<codecBacklog, backlog, slot>>
           /\ up # <<>> /\ up' = Tail(up) /\ Head(up) \in Frames
           /\ Head(up).kind = "reflect" =>
                  \/ down' = Append(down, Ack(Head(up).id))
                  \/ DuplicateAcks /\ down' = Append(Append(down, Ack(Head(up).id)), Ack(Head(up).id))
           /\ Head(up).kind = "drop" => down' = Append(down, DropAck)
           /\ Head(up).kind \notin {"reflect", "drop"} => down' = down
           /\ Head(up).kind \in {"reflect", "drop", "cspAck", "reflectedAck"}
  <1> USE QueueTypes
  <1>1. Head(up) \in Frames
    BY SeqFacts DEF ServerReceive
  <1>2. Head(up).kind \in {"reflect", "drop", "cspAck", "reflectedAck"}
    BY <1>1 DEF Frames
  <1>3. \A x \in Messages : down \o <<x, x>> = Append(Append(down, x), x)
    OBVIOUS
  <1>4. Ack(Head(up).id) \in Messages
    BY <1>1, FrameShapes, MessageShapes
  <1>5. Head(up).kind = "reflect" =>
                  \/ down' = Append(down, Ack(Head(up).id))
                  \/ DuplicateAcks /\ down' = Append(Append(down, Ack(Head(up).id)), Ack(Head(up).id))
    BY <1>3, <1>4 DEF ServerReceive
  <1>. QED
    BY <1>1, <1>2, <1>5 DEF ServerReceive, queueVars

\* The answers of the mediator are no chat messages.
LEMMA AlignedAnswer ==
    ASSUME TypeOK, ServerReceive, Aligned("csp")
    PROVE  /\ Aligned("csp")'
           /\ \A m \in InFlight' : m \in InFlight \/ m.kind \in {"ack", "dropAck"}
  <1> USE QueueTypes
  <1>1. UNCHANGED <<codecBacklog, backlog, slot>>
    BY AnswerFacts
  <1>2. ASSUME NEW d \in Seq(Messages), NEW x \in Messages, x.kind \in {"ack", "dropAck"},
               Rising(d, "csp")
        PROVE  /\ Append(d, x) \in Seq(Messages) /\ Rising(Append(d, x), "csp")
               /\ \A m \in Elements(Append(d, x)) : m \in Elements(d) \/ m.kind \in {"ack", "dropAck"}
    <2>1. Rising(Append(d, x), "csp")
      BY <1>2, RisingAppend
    <2>. QED
      BY <1>2, <2>1, SeqFacts, ElementsFacts
  <1>3. Rising(down, "csp")
    BY DEF Aligned
  <1>4. /\ Rising(down', "csp")
        /\ \A m \in Elements(down') : m \in Elements(down) \/ m.kind \in {"ack", "dropAck"}
    <2>1. CASE Head(up).kind = "reflect"
      <3> DEFINE a == Ack(Head(up).id)
      <3>1. a \in Messages /\ a.kind \in {"ack", "dropAck"}
        BY AnswerFacts, FrameShapes, MessageShapes DEF Ack
      <3>2. down' = Append(down, a) \/ down' = Append(Append(down, a), a)
        BY <2>1, AnswerFacts
      <3> HIDE DEF a
      <3>3. CASE down' = Append(down, a)
        BY <1>2, <1>3, <3>1, <3>3
      <3>4. CASE down' = Append(Append(down, a), a)
        <4>1. PICK d : d = Append(down, a)
          OBVIOUS
        <4>2. /\ d \in Seq(Messages) /\ Rising(d, "csp")
              /\ \A m \in Elements(d) : m \in Elements(down) \/ m.kind \in {"ack", "dropAck"}
          BY <1>2, <1>3, <3>1, <4>1
        <4>3. down' = Append(d, a)
          BY <3>4, <4>1
        <4>. QED
          BY <1>2, <3>1, <4>2, <4>3
      <3>. QED
        BY <3>2, <3>3, <3>4
    <2>2. CASE Head(up).kind = "drop"
      <3>1. DropAck \in Messages /\ DropAck.kind \in {"ack", "dropAck"}
        BY MessageShapes DEF DropAck
      <3>. QED
        BY <1>2, <1>3, <2>2, <3>1, AnswerFacts
    <2>3. CASE Head(up).kind \notin {"reflect", "drop"}
      BY <1>3, <2>3, AnswerFacts
    <2>. QED
      BY <2>1, <2>2, <2>3
  <1>. QED
    BY <1>1, <1>4 DEF Aligned, Before, InFlight

(* The chat server sends each message once per connection. *)
SentStep ==
    \/ sent' = sent /\ unacked' \subseteq unacked /\ ~\E m \in InboundMsg : ServerSend(m)
    \/ sent' = {} /\ InFlight' = {}
    \/ \E m \in InboundMsg : ServerSend(m)

\* What any step does to the messages a server has sent.
LEMMA SentStepOk ==
    ASSUME [Next]_vars
    PROVE  SentStep
  <1> USE DEF serverVars, SentStep
  <1>e. Elements(<<>>) = {}
    BY RisingEmpty
  <1>0. CASE UNCHANGED vars
    BY <1>0 DEF vars
  <1>1. ASSUME NEW t \in Tasks, Schedule(t) PROVE SentStep
    BY <1>1 DEF Schedule, ScheduleDisconnected, ScheduleConnected
  <1>2. CASE Connect
    BY <1>2, <1>e DEF Connect, InFlight
  <1>3. CASE Disconnect
    BY <1>3, <1>e DEF Disconnect, InFlight
  <1>4. CASE Abort
    BY <1>4 DEF Abort
  <1>5. CASE Loop
    <2>1. UNCHANGED <<sent, unacked>>
      BY <1>5 DEF Loop, StartRun, NextInbound, NextError, AssertNoTasksFails, HandleInbound, NextTask
    <2>. QED
      BY <2>1
  <1>6. CASE Codec
    <2>1. UNCHANGED <<sent, unacked>>
      BY <1>6 DEF Codec, ExternalDone, WriteReflect, ReadBypass, ReadAccept, ReadBacklog,
              ReadMismatch, CodecError, ReflectReturns, ProcessReflected, AcknowledgeInbound,
              DetectUnrecoverable, WriteDrop, DropError, BypassDone
    <2>. QED
      BY <2>1
  <1>7. CASE Deliver
    BY <1>7 DEF Deliver
  <1>8. CASE ServerReceive
    <2>1. sent' = sent /\ unacked' \subseteq unacked
      BY <1>8 DEF ServerReceive
    <2>. QED
      BY <2>1
  <1>9. CASE TaskThrows
    BY <1>9 DEF TaskThrows
  <1>. QED
    BY <1>0, <1>1, <1>2, <1>3, <1>4, <1>5, <1>6, <1>7, <1>8, <1>9 DEF Next, Network

\* Chat messages stay in order wherever they wait.
LEMMA InOrderStep ==
    ASSUME TasksAssumption, BoundsAssumption, TypeOK, LoopInv, ReturnInv, SentInv,
           Aligned("csp"), [Next]_vars
    PROVE  SentInv' /\ Aligned("csp")'
  <1>1. ASSUME NEW m \in InboundMsg, ServerSend(m)
        PROVE  SentInv' /\ Aligned("csp")'
    <2>1. /\ m \in unacked \ sent /\ down' = Append(down, m) /\ sent' = sent \union {m}
          /\ \A n \in unacked \ sent : n.kind = m.kind => m.id <= n.id
          /\ UNCHANGED <<codecBacklog, backlog, slot, unacked>>
      BY <1>1 DEF ServerSend, queueVars
    <2>2. m \in Messages
      BY MessageShapes
    <2>3. \A n \in InFlight : n.kind = "csp" /\ m.kind = "csp" => n.id < m.id
      BY <2>1 DEF SentInv
    <2>4. Aligned("csp")' /\ InFlight' = InFlight \union {m}
      BY <2>1, <2>2, <2>3, AlignedSend
    <2>5. ASSUME NEW n \in unacked' \ sent', m.kind = "csp", n.kind = "csp"
          PROVE  m.id < n.id
      <3>1. n \in InboundMsg /\ n # m /\ m.id <= n.id
        BY <2>1, <2>5, QueueTypes
      <3>2. m.id \in Nat /\ n.id \in Nat /\ m.id # n.id
        BY <2>5, <3>1, BoundsAssumption DEF InboundMsg, Csp, Reflected, BoundsAssumption
      <3>. QED
        BY <3>1, <3>2
    <2>. QED
      BY <2>1, <2>4, <2>5 DEF SentInv
  <1>2. CASE ~\E m \in InboundMsg : ServerSend(m)
    <2>1. Movement \/ ServerReceive
      BY <1>2, MessageStepOk DEF MessageStep
    <2>2. Aligned("csp")' /\ \A m \in InFlight' : m.kind = "csp" => m \in InFlight
      BY <2>1, AlignedMoves, MovementKeeps, AlignedAnswer
    <2>3. CASE sent' = sent /\ unacked' \subseteq unacked
      BY <2>2, <2>3 DEF SentInv
    <2>4. CASE sent' = {} /\ InFlight' = {}
      BY <2>2, <2>4 DEF SentInv
    <2>. QED
      BY <1>2, <2>2, <2>3, <2>4, SentStepOk DEF SentStep
  <1>. QED
    BY <1>1, <1>2

-----------------------------------------------------------------------------
(* No message gets lost *)

(* All that is on this side of the connection. *)
LEMMA LineHolds ==
    ASSUME TypeOK
    PROVE  Elements(codecBacklog \o backlog \o slot \o down) = InFlight
  <1> USE QueueTypes
  <1>1. PICK r : r = codecBacklog \o backlog
    OBVIOUS
  <1>2. r \in Seq(Messages) /\ Elements(r) = Elements(codecBacklog) \union Elements(backlog)
    BY <1>1, SeqFacts, ElementsFacts
  <1>3. PICK s : s = r \o slot
    OBVIOUS
  <1>4. s \in Seq(Messages) /\ Elements(s) = Elements(r) \union Elements(slot)
    BY <1>2, <1>3, SeqFacts, ElementsFacts
  <1>5. Elements(s \o down) = Elements(s) \union Elements(down)
    BY <1>4, ElementsFacts
  <1>. QED
    BY <1>1, <1>2, <1>3, <1>4, <1>5 DEF InFlight

\* Nothing lost, in terms of the property that is checked.
LEMMA LostNowhere ==
    ASSUME TypeOK
    PROVE  NothingLost => NoInboundLost
  BY LineHolds DEF NothingLost, NoInboundLost, Somewhere, AtHand, OnItsWay, AckFrame

\* The elements of a queue are its head and those behind it.
LEMMA ElementsSplit ==
    ASSUME NEW S, NEW s \in Seq(S), s # <<>>
    PROVE  /\ Elements(s) = {Head(s)} \union Elements(Tail(s))
           /\ Len(s) <= 1 => Elements(s) = {Head(s)}
  <1>1. /\ \A i \in DOMAIN s : i = 1 \/ (i - 1 \in DOMAIN Tail(s) /\ s[i] = Tail(s)[i - 1])
        /\ Head(s) = s[1] /\ 1 \in DOMAIN s
        /\ Len(s) <= 1 => \A i \in DOMAIN s : i = 1
    OBVIOUS
  <1>2. Elements(s) \subseteq {Head(s)} \union Elements(Tail(s))
    <2> SUFFICES ASSUME NEW i \in DOMAIN s PROVE s[i] \in {Head(s)} \union Elements(Tail(s))
      BY DEF Elements
    <2>. QED
      BY <1>1 DEF Elements
  <1>3. Head(s) \in Elements(s) /\ Elements(Tail(s)) \subseteq Elements(s)
    BY ElementsFacts
  <1>4. Len(s) <= 1 => Elements(s) = {Head(s)}
    BY <1>1 DEF Elements
  <1>. QED
    BY <1>2, <1>3, <1>4

(* Reading takes one message. *)
LEMMA ReadTakesOne ==
    ASSUME TypeOK, Readable # <<>>, ConsumeRead
    PROVE  Elements(codecBacklog) \union Elements(slot)
             \subseteq Elements(codecBacklog') \union Elements(slot') \union {Head(Readable)}
  <1> USE QueueTypes
  <1>1. CASE codecBacklog # <<>> /\ Head(Readable) = Head(codecBacklog)
             /\ codecBacklog' = Tail(codecBacklog) /\ slot' = slot
    BY <1>1, ElementsSplit
  <1>2. CASE codecBacklog = <<>> /\ slot # <<>> /\ Head(Readable) = Head(slot)
             /\ codecBacklog' = <<>> /\ slot' = <<>>
    <2>1. Elements(slot) = {Head(slot)}
      BY <1>2, ElementsSplit
    <2>. QED
      BY <1>2, <2>1, RisingEmpty
  <1>. QED
    BY <1>1, <1>2, ReadShrinks

(* Messages stay where they are unless they are moved on. *)
LEMMA StaysSomewhere ==
    ASSUME NEW m, Somewhere(m),
           m \in InFlight => m \in InFlight' \/ Somewhere(m)',
           m \in bypassed => m \in bypassed' \/ Somewhere(m)',
           \/ running'.kind = running.kind /\ running'.task = running.task
           \/ running.kind \notin {"incoming", "reflected"}
           \/ AtHand(m) => Somewhere(m)',
           Elements(up) \subseteq Elements(up')
    PROVE  Somewhere(m)'
  BY DEF Somewhere, AtHand, OnItsWay, AckFrame

(* The main loop and the codec lose nothing, as long as the connection works. *)
LEMMA LoopLosesNothing ==
    ASSUME TasksAssumption, BoundsAssumption, TypeOK, LoopInv, Loop, ~netError,
           ~netError', NEW m \in InboundMsg, Somewhere(m)
    PROVE  Somewhere(m)'
  <1> USE QueueTypes DEF managerVars, loopVars, queueVars, faultVars, serverVars
  <1>e. Elements(<<>>) = {}
    BY RisingEmpty
  <1>1. CASE StartRun
    BY <1>1, StaysSomewhere DEF StartRun, InFlight
  <1>2. CASE NextInbound
    BY <1>2, StaysSomewhere DEF NextInbound, InFlight
  <1>3. CASE NextError
    BY <1>3 DEF NextError
  <1>4. CASE AssertNoTasksFails
    BY <1>4 DEF AssertNoTasksFails, ExitLoop
  <1>5. CASE HandleInbound
    <2> DEFINE rest == IF backlog # <<>> THEN Tail(backlog) ELSE <<>>
    <2>1. /\ loop = "inbound" /\ backlog \o slot # <<>> /\ UNCHANGED <<down, up, bypassed>>
          /\ slot' = IF backlog # <<>> THEN slot ELSE <<>>
      BY <1>5 DEF HandleInbound
    <2>2. codecBacklog = <<>> /\ running.kind = "none"
      BY <2>1 DEF LoopInv
    <2>3. Elements(backlog) \union Elements(slot)
            \subseteq {Inbound} \union Elements(rest) \union Elements(slot')
      <3>1. CASE backlog # <<>>
        <4>1. Inbound = Head(backlog)
          BY <3>1 DEF Inbound
        <4>2. Elements(backlog) = {Head(backlog)} \union Elements(Tail(backlog))
          BY <3>1, ElementsSplit
        <4>. QED
          BY <2>1, <3>1, <4>1, <4>2
      <3>2. CASE backlog = <<>>
        <4>1. Inbound = Head(slot) /\ slot # <<>>
          BY <2>1, <3>2 DEF Inbound
        <4>2. Elements(slot) = {Head(slot)}
          BY <4>1, ElementsSplit
        <4>. QED
          BY <1>e, <3>2, <4>1, <4>2
      <3>. QED
        BY <3>1, <3>2
    <2>4. Inbound.kind = "csp" => running' = IncomingTask(Inbound.id)
      BY <1>5 DEF HandleInbound
    <2>5. Inbound.kind = "reflected" =>
              running' = [Reflecting("reflected", Inbound.id, 0) EXCEPT !.phase = "process"]
      BY <1>5 DEF HandleInbound
    <2>6. \/ codecBacklog' = rest
          \/ codecBacklog' = codecBacklog /\ backlog' = rest
      BY <1>5 DEF HandleInbound
    <2> HIDE DEF rest
    <2>7. CASE m = Inbound
      <3>1. CASE m.kind = "csp"
        <4>1. m = [kind |-> "csp", id |-> m.id]
          BY <3>1 DEF InboundMsg, Csp, Reflected
        <4>2. running'.kind = "incoming" /\ running'.task = m.id
          BY <2>4, <2>7, <3>1 DEF IncomingTask, Reflecting
        <4>. QED
          BY <4>1, <4>2 DEF Somewhere, AtHand
      <3>2. CASE m.kind # "csp"
        <4>1. m.kind = "reflected" /\ m = [kind |-> "reflected", id |-> m.id]
          BY <3>2 DEF InboundMsg, Csp, Reflected
        <4>2. running'.kind = "reflected" /\ running'.task = m.id
          BY <2>5, <2>7, <4>1 DEF Reflecting
        <4>. QED
          BY <4>1, <4>2 DEF Somewhere, AtHand
      <3>. QED
        BY <3>1, <3>2
    <2>8. CASE m # Inbound
      <3>1. m \in InFlight => m \in InFlight'
        BY <1>e, <2>1, <2>2, <2>3, <2>6, <2>8 DEF InFlight
      <3>. QED
        BY <2>1, <2>2, <3>1, StaysSomewhere
    <2>. QED
      BY <2>7, <2>8
  <1>6. ASSUME NEW t \in Tasks, NextTask(t) PROVE Somewhere(m)'
    <2>1. codecBacklog = <<>> /\ running.kind = "none"
      BY <1>6 DEF NextTask, LoopInv
    <2>2. codecBacklog' = backlog /\ UNCHANGED <<slot, down, up, bypassed>>
      BY <1>6 DEF NextTask
    <2>3. m \in InFlight => m \in InFlight'
      BY <1>e, <2>1, <2>2 DEF InFlight
    <2>. QED
      BY <2>1, <2>2, <2>3, StaysSomewhere
  <1>. QED
    BY <1>1, <1>2, <1>3, <1>4, <1>5, <1>6 DEF Loop

(* Nor does a task that returns. *)
LEMMA ReturnLosesNothing ==
    ASSUME TypeOK, TaskReturns, ~netError', UNCHANGED <<slot, down>>
    PROVE  InFlight' = InFlight
  <1> USE QueueTypes
  <1>1. codecBacklog' = <<>> /\ backlog' = codecBacklog \o backlog
    BY DEF TaskReturns, ExitLoop, Transferred
  <1>2. Elements(backlog') = Elements(codecBacklog) \union Elements(backlog)
    BY <1>1, ElementsFacts
  <1>. QED
    BY <1>1, <1>2, RisingEmpty DEF InFlight

\* What the codec moves is still somewhere,
LEMMA CodecLosesNothing ==
    ASSUME TasksAssumption, BoundsAssumption, TypeOK, LoopInv, Codec, ~netError,
           ~netError', NEW m \in InboundMsg, Somewhere(m)
    PROVE  Somewhere(m)'
  <1> USE QueueTypes DEF managerVars, loopVars, queueVars, faultVars, serverVars
  <1>e. Elements(<<>>) = {}
    BY RisingEmpty
  <1>k. running \in Runs
    OBVIOUS
  <1>1. CASE ExternalDone
    <2>1. running.kind = "active" /\ UNCHANGED <<codecBacklog, backlog, slot, down, up, bypassed>>
      BY <1>1, RunSteps DEF ExternalDone
    <2>. QED
      BY <2>1, StaysSomewhere DEF InFlight
  <1>2. CASE WriteReflect
    <2> DEFINE f == Frame("reflect", running.first + running.written,
                          Envelope(running, running.written + 1))
    <2>1. /\ running' = [running EXCEPT !.written = @ + 1] /\ up' = Append(up, f)
          /\ running.phase = "reflect" /\ UNCHANGED <<codecBacklog, backlog, slot, down, bypassed>>
      BY <1>2 DEF WriteReflect
    <2>2. running'.kind = running.kind /\ running'.task = running.task
      BY <2>1 DEF Runs, RunOf, NoTask
    <2>3. running.first \in Nat /\ running.written \in Nat
      BY RunSteps
    <2>4. f \in Frames
      <3>1. running.first + running.written \in Nat /\ running.written + 1 \in Nat
        BY <2>3
      <3>2. Envelope(running, running.written + 1) \in EnvelopeIds
        BY <2>1, <3>1, EnvelopeShapes
      <3>. QED
        BY <3>1, <3>2, FrameShapes
    <2> HIDE DEF f
    <2>5. Elements(up') = Elements(up) \union {f}
      BY <2>1, <2>4, ElementsFacts
    <2>. QED
      BY <2>1, <2>2, <2>5, StaysSomewhere DEF InFlight
  <1>3. CASE ReadBypass
    <2>1. /\ Readable # <<>> /\ ConsumeRead /\ bypassed' = bypassed \union {Head(Readable)}
          /\ UNCHANGED <<backlog, down, up, running>>
      BY <1>3 DEF ReadBypass
    <2>2. m \in InFlight => m \in InFlight' \/ m \in bypassed'
      BY <2>1, ReadTakesOne DEF InFlight
    <2>. QED
      BY <2>1, <2>2, StaysSomewhere DEF Somewhere
  <1>4. CASE ReadAccept
    <2> DEFINE h == Head(Readable)
    <2>1. /\ Readable # <<>> /\ ConsumeRead /\ UNCHANGED <<backlog, down, up, bypassed>>
          /\ running' = [running EXCEPT !.acked = @ + 1] /\ IsExpected(h)
      BY <1>4 DEF ReadAccept
    <2>2. running'.kind = running.kind /\ running'.task = running.task
      BY <2>1 DEF Runs, RunOf, NoTask
    <2>3. h # m
      BY <2>1 DEF IsExpected, Ack, InboundMsg, Csp, Reflected
    <2>4. m \in InFlight => m \in InFlight'
      BY <2>1, <2>3, ReadTakesOne DEF InFlight
    <2>. QED
      BY <2>1, <2>2, <2>4, StaysSomewhere
  <1>5. CASE ReadBacklog
    <2> DEFINE h == Head(Readable)
    <2>1. /\ Readable # <<>> /\ ConsumeRead /\ UNCHANGED <<down, up, bypassed, running>>
          /\ backlog' = Append(backlog, h) \/ (backlog' = backlog /\ h.kind = "ack")
      BY <1>5 DEF ReadBacklog, BacklogLast
    <2>2. h \in Messages
      BY <2>1, ReadShrinks
    <2>3. CASE backlog' = Append(backlog, h)
      <3>1. Elements(backlog') = Elements(backlog) \union {h}
        BY <2>2, <2>3, ElementsFacts
      <3>2. m \in InFlight => m \in InFlight'
        BY <2>1, <3>1, ReadTakesOne DEF InFlight
      <3>. QED
        BY <2>1, <3>2, StaysSomewhere
    <2>4. CASE backlog' = backlog /\ h.kind = "ack"
      <3>1. h # m
        BY <2>4 DEF InboundMsg, Csp, Reflected
      <3>2. m \in InFlight => m \in InFlight'
        BY <2>1, <2>4, <3>1, ReadTakesOne DEF InFlight
      <3>. QED
        BY <2>1, <3>2, StaysSomewhere
    <2>. QED
      BY <2>1, <2>3, <2>4
  <1>6. CASE ReadMismatch
    BY <1>6 DEF ReadMismatch, ExitLoop
  <1>7. CASE CodecError
    BY <1>7 DEF CodecError
  <1>8. CASE ReflectReturns
    <2>1. CASE running.kind = "active" /\ TaskReturns
      <3>1. UNCHANGED <<slot, down, up, bypassed>>
        BY <1>8 DEF ReflectReturns
      <3>2. InFlight' = InFlight
        BY <2>1, <3>1, ReturnLosesNothing
      <3>. QED
        BY <2>1, <3>1, <3>2, StaysSomewhere
    <2>2. CASE running.kind = "incoming" /\ running' = [running EXCEPT !.phase = "ack"]
               /\ UNCHANGED <<codecBacklog, backlog>>
      <3>1. UNCHANGED <<slot, down, up, bypassed>>
        BY <1>8 DEF ReflectReturns
      <3>2. running'.kind = running.kind /\ running'.task = running.task
        BY <2>2 DEF Runs, RunOf, NoTask
      <3>. QED
        BY <2>2, <3>1, <3>2, StaysSomewhere DEF InFlight
    <2>. QED
      BY <1>8, <2>1, <2>2 DEF ReflectReturns
  <1>9. CASE ProcessReflected
    <2>1. running' = [running EXCEPT !.phase = "ack"]
          /\ UNCHANGED <<codecBacklog, backlog, slot, down, up, bypassed>>
      BY <1>9 DEF ProcessReflected
    <2>2. running'.kind = running.kind /\ running'.task = running.task
      BY <2>1 DEF Runs, RunOf, NoTask
    <2>. QED
      BY <2>1, <2>2, StaysSomewhere DEF InFlight
  <1>10. CASE AcknowledgeInbound
    <2> DEFINE f == Frame(IF running.kind = "incoming" THEN "cspAck" ELSE "reflectedAck",
                          running.task, NoEnvelope)
    <2>1. TaskReturns /\ UNCHANGED <<slot, down, bypassed>> /\ up' = Append(up, f)
          /\ running.phase = "ack"
      BY <1>10 DEF AcknowledgeInbound
    <2>2. f \in Frames
      <3>1. running.task \in Nat
        BY <2>1, BoundsAssumption DEF Runs, RunOf, NoTask, BoundsAssumption
      <3>. QED
        BY <3>1, FrameShapes
    <2>3. f.id = running.task
          /\ f.kind = (IF running.kind = "incoming" THEN "cspAck" ELSE "reflectedAck")
      BY DEF Frame
    <2> HIDE DEF f
    <2>4. Elements(up') = Elements(up) \union {f}
      BY <2>1, <2>2, ElementsFacts
    <2>5. InFlight' = InFlight
      BY <2>1, ReturnLosesNothing
    <2>6. AtHand(m) => OnItsWay(m)'
      <3> SUFFICES ASSUME AtHand(m) PROVE f.id = m.id /\ f.kind = AckFrame(m)
        BY <2>4 DEF OnItsWay, AckFrame
      <3>. QED
        BY <2>3 DEF AtHand, AckFrame
    <2>. QED
      BY <2>1, <2>4, <2>5, <2>6, StaysSomewhere DEF Somewhere
  <1>11. CASE DetectUnrecoverable
    <2> DEFINE f == Frame("reflectedAck", running.task, NoEnvelope)
    <2>1. /\ running.phase = "process" /\ up' = Append(up, f)
          /\ codecBacklog' = backlog /\ UNCHANGED <<slot, down, bypassed>>
      BY <1>11 DEF DetectUnrecoverable
    <2>2. running.kind = "reflected" /\ running.task \in Nat
      BY <2>1, BoundsAssumption DEF Runs, RunOf, NoTask, BoundsAssumption
    <2>3. f \in Frames /\ f.id = running.task /\ f.kind = "reflectedAck"
      BY <2>2, FrameShapes DEF Frame
    <2> HIDE DEF f
    <2>4. Elements(up') = Elements(up) \union {f}
      BY <2>1, <2>3, ElementsFacts
    <2>5. codecBacklog = <<>>
      BY <2>2 DEF LoopInv
    <2>6. m \in InFlight => m \in InFlight'
      BY <1>e, <2>1, <2>5 DEF InFlight
    <2>7. AtHand(m) => OnItsWay(m)'
      <3> SUFFICES ASSUME AtHand(m) PROVE f.id = m.id /\ f.kind = AckFrame(m)
        BY <2>4 DEF OnItsWay, AckFrame
      <3>. QED
        BY <2>2, <2>3 DEF AtHand, AckFrame
    <2>. QED
      BY <2>1, <2>4, <2>6, <2>7, StaysSomewhere DEF Somewhere
  <1>12. CASE WriteDrop
    <2> DEFINE f == Frame("drop", 0, NoEnvelope)
    <2>1. /\ up' = Append(up, f) /\ running' = [running EXCEPT !.phase = "dropAck"]
          /\ UNCHANGED <<codecBacklog, backlog, slot, down, bypassed>>
      BY <1>12 DEF WriteDrop
    <2>2. running'.kind = running.kind /\ running'.task = running.task
      BY <2>1 DEF Runs, RunOf, NoTask
    <2>3. f \in Frames
      BY FrameShapes
    <2> HIDE DEF f
    <2>4. Elements(up') = Elements(up) \union {f}
      BY <2>1, <2>3, ElementsFacts
    <2>. QED
      BY <2>1, <2>2, <2>4, StaysSomewhere DEF InFlight
  <1>13. CASE DropError
    BY <1>13 DEF DropError
  <1>14. ASSUME NEW b \in InboundMsg, BypassDone(b) PROVE Somewhere(m)'
    <2> DEFINE f == Frame("reflectedAck", b.id, NoEnvelope)
    <2>1. /\ b \in bypassed /\ bypassed' = bypassed \ {b} /\ up' = Append(up, f)
          /\ UNCHANGED <<codecBacklog, backlog, slot, down, running>>
      BY <1>14 DEF BypassDone
    <2>2. b.kind = "reflected" /\ b.id \in Nat
      BY <2>1, BoundsAssumption DEF LoopInv, Reflected, BoundsAssumption
    <2>3. f \in Frames /\ f.id = b.id /\ f.kind = "reflectedAck"
      BY <2>2, FrameShapes DEF Frame
    <2> HIDE DEF f
    <2>4. Elements(up') = Elements(up) \union {f}
      BY <2>1, <2>3, ElementsFacts
    <2>5. m = b => OnItsWay(m)'
      BY <2>2, <2>3, <2>4 DEF OnItsWay, AckFrame
    <2>. QED
      BY <2>1, <2>4, <2>5, StaysSomewhere DEF Somewhere, InFlight
  <1>. QED
    BY <1>1, <1>2, <1>3, <1>4, <1>5, <1>6, <1>7, <1>8, <1>9, <1>10, <1>11, <1>12,
       <1>13, <1>14 DEF Codec

\* and so is what the connection and the servers move.
LEMMA NetworkLosesNothing ==
    ASSUME TypeOK, Network, NEW m \in InboundMsg, Somewhere(m), m \in unacked'
    PROVE  Somewhere(m)'
  <1> USE QueueTypes DEF loopVars, queueVars, faultVars, serverVars
  <1>e. Elements(<<>>) = {}
    BY RisingEmpty
  <1>1. CASE Deliver
    <2>1. /\ down # <<>> /\ slot = <<>> /\ slot' = <<Head(down)>> /\ down' = Tail(down)
          /\ UNCHANGED <<codecBacklog, backlog, up, bypassed, running>>
      BY <1>1 DEF Deliver
    <2>2. Elements(down) = {Head(down)} \union Elements(down') /\ Elements(slot') = {Head(down)}
      BY <2>1, ElementsSplit, SeqFacts, ElementsFacts
    <2>3. m \in InFlight => m \in InFlight'
      BY <1>e, <2>1, <2>2 DEF InFlight
    <2>. QED
      BY <2>1, <2>3, StaysSomewhere
  <1>2. CASE ServerReceive
    <2>1. up # <<>> /\ up' = Tail(up) /\ UNCHANGED <<codecBacklog, backlog, slot>>
      BY <1>2, AnswerFacts
    <2>2. UNCHANGED <<bypassed, running>>
      BY <1>2 DEF ServerReceive
    <2>3. Elements(up) = {Head(up)} \union Elements(up')
      BY <2>1, ElementsSplit
    <2>4. Elements(down) \subseteq Elements(down')
      <3>1. \A x \in Messages : Append(down, x) \in Seq(Messages)
                 /\ Elements(Append(down, x)) = Elements(down) \union {x}
        BY SeqFacts, ElementsFacts
      <3>2. \A x \in Messages : Elements(Append(Append(down, x), x)) = Elements(Append(down, x)) \union {x}
        <4> SUFFICES ASSUME NEW x \in Messages
                     PROVE  Elements(Append(Append(down, x), x)) = Elements(Append(down, x)) \union {x}
          OBVIOUS
        <4>1. PICK d : d = Append(down, x)
          OBVIOUS
        <4>2. d \in Seq(Messages)
          BY <3>1, <4>1
        <4>3. Elements(Append(d, x)) = Elements(d) \union {x}
          BY <4>2, ElementsFacts
        <4>. QED
          BY <4>1, <4>3
      <3>3. DropAck \in Messages /\ Ack(Head(up).id) \in Messages
        BY <1>2, AnswerFacts, FrameShapes, MessageShapes
      <3>. QED
        BY <1>2, <3>1, <3>2, <3>3, AnswerFacts
    <2>5. m \in InFlight => m \in InFlight'
      BY <2>1, <2>4 DEF InFlight
    <2>6. ~(Head(up).id = m.id /\ Head(up).kind = AckFrame(m))
      <3> SUFFICES ASSUME Head(up).id = m.id, Head(up).kind = AckFrame(m) PROVE FALSE
        OBVIOUS
      <3>1. m = [kind |-> IF Head(up).kind = "cspAck" THEN "csp" ELSE "reflected", id |-> Head(up).id]
        BY DEF AckFrame, InboundMsg, Csp, Reflected
      <3>2. Head(up).kind \in {"cspAck", "reflectedAck"}
        BY DEF AckFrame
      <3>. QED
        BY <1>2, <3>1, <3>2 DEF ServerReceive
    <2>7. OnItsWay(m) => OnItsWay(m)'
      BY <2>3, <2>6 DEF OnItsWay, AckFrame
    <2>. QED
      BY <2>2, <2>5, <2>7 DEF Somewhere, AtHand
  <1>3. ASSUME NEW n \in InboundMsg, ServerSend(n) PROVE Somewhere(m)'
    <2>1. down' = Append(down, n) /\ UNCHANGED <<codecBacklog, backlog, slot, up, bypassed, running>>
      BY <1>3 DEF ServerSend
    <2>2. Elements(down') = Elements(down) \union {n}
      BY <2>1, MessageShapes, ElementsFacts
    <2>. QED
      BY <2>1, <2>2, StaysSomewhere DEF InFlight
  <1>. QED
    BY <1>1, <1>2, <1>3 DEF Network

(* Only Connect makes a connection. *)
LEMMA ConnectionMade ==
    ASSUME [Next]_vars, ~Connect
    PROVE  /\ ~netError' => ~netError
           /\ inner' = "connected" => inner = "connected"
  <1> USE DEF managerVars, queueVars
  <1>0. CASE UNCHANGED vars
    BY <1>0 DEF vars
  <1>1. ASSUME NEW t \in Tasks, Schedule(t) PROVE UNCHANGED <<inner, netError>>
    BY <1>1 DEF Schedule, ScheduleDisconnected, ScheduleConnected
  <1>2. CASE Disconnect \/ Abort \/ TaskThrows
    BY <1>2 DEF Disconnect, Abort, TaskThrows, ExitLoop
  <1>3. CASE Loop
    <2>1. inner' = inner /\ (netError' = netError \/ netError')
      BY <1>3 DEF Loop, StartRun, NextInbound, NextError, AssertNoTasksFails, HandleInbound,
             NextTask, ExitLoop
    <2>. QED
      BY <2>1
  <1>4. CASE Codec
    <2>1. inner' = inner /\ (netError' = netError \/ netError')
      BY <1>4 DEF Codec, ExternalDone, WriteReflect, ReadBypass, ReadAccept, ReadBacklog,
              ReadMismatch, CodecError, ReflectReturns, ProcessReflected, AcknowledgeInbound,
              DetectUnrecoverable, WriteDrop, DropError, BypassDone, TaskReturns, ExitLoop
    <2>. QED
      BY <2>1
  <1>5. CASE Network
    BY <1>5 DEF Network, Deliver, ServerReceive, ServerSend
  <1>. QED
    BY <1>0, <1>1, <1>2, <1>3, <1>4, <1>5 DEF Next

\* No step loses a message.
LEMMA NothingLostStep ==
    ASSUME TasksAssumption, BoundsAssumption, TypeOK, LoopInv, NothingLost, [Next]_vars
    PROVE  NothingLost'
  <1> SUFFICES ASSUME inner' = "connected", ~netError', NEW m \in sent', m \in unacked'
               PROVE  Somewhere(m)'
    BY DEF NothingLost
  <1> USE QueueTypes DEF managerVars, loopVars, queueVars, faultVars, serverVars
  <1>1. ~Connect
    BY DEF Connect
  <1>2. inner = "connected" /\ ~netError
    BY <1>1, ConnectionMade
  <1>3. ASSUME m \in sent, m \in unacked
        PROVE  Somewhere(m)'
    <2>1. Somewhere(m) /\ m \in InboundMsg
      BY <1>2, <1>3 DEF NothingLost
    <2>2. CASE UNCHANGED vars
      BY <2>1, <2>2 DEF vars, Somewhere, AtHand, OnItsWay, AckFrame, InFlight
    <2>3. ASSUME NEW t \in Tasks, Schedule(t) PROVE Somewhere(m)'
      BY <2>1, <2>3 DEF Schedule, ScheduleDisconnected, ScheduleConnected,
             Somewhere, AtHand, OnItsWay, AckFrame, InFlight
    <2>4. CASE Disconnect \/ Abort \/ TaskThrows
      BY <2>4 DEF Disconnect, Abort, TaskThrows, ExitLoop
    <2>5. CASE Loop
      BY <1>2, <2>1, <2>5, LoopLosesNothing
    <2>6. CASE Codec
      BY <1>2, <2>1, <2>6, CodecLosesNothing
    <2>7. CASE Network
      BY <2>1, <2>7, NetworkLosesNothing
    <2>. QED
      BY <1>1, <2>2, <2>3, <2>4, <2>5, <2>6, <2>7 DEF Next
  <1>4. ASSUME NEW n \in InboundMsg, ServerSend(n) PROVE Somewhere(m)'
    <2>1. down' = Append(down, n) /\ sent' = sent \union {n} /\ unacked' = unacked
      BY <1>4 DEF ServerSend
    <2>2. Elements(down') = Elements(down) \union {n}
      BY <2>1, MessageShapes, ElementsFacts
    <2>3. m = n => Somewhere(m)'
      BY <2>2 DEF Somewhere, InFlight
    <2>. QED
      BY <1>3, <2>1, <2>3
  <1>5. CASE sent' = sent /\ unacked' \subseteq unacked
    BY <1>3, <1>5
  <1>. QED
    BY <1>4, <1>5, SentStepOk DEF SentStep

-----------------------------------------------------------------------------
(* Acknowledgements are read by whom they are for *)

(* What is current stays so until its acknowledgement is accepted. *)
LEMMA CurrentKept ==
    ASSUME TypeOK, LoopInv, [Next]_vars, ~Connect, ~ReadAccept, ~netError',
           NEW n \in Nat, Current(n)
    PROVE  Current(n)'
  <1> USE DEF managerVars, loopVars, queueVars, faultVars, serverVars
  <1>b. running \in Runs /\ running.phase = "reflect"
    BY QueueTypes DEF Current
  <1>c. loop = "run"
    BY <1>b DEF LoopInv
  <1>d. running' = running => Current(n)'
    BY DEF Current
  <1>1. CASE UNCHANGED vars
    BY <1>1, <1>d DEF vars
  <1>2. ASSUME NEW t \in Tasks, Schedule(t) PROVE Current(n)'
    BY <1>2, <1>d DEF Schedule, ScheduleDisconnected, ScheduleConnected
  <1>3. CASE Disconnect \/ Abort \/ TaskThrows
    BY <1>3, <1>b, <1>c DEF Disconnect, Abort, TaskThrows, ExitLoop
  <1>4. CASE Loop
    BY <1>4, <1>c DEF Loop, StartRun, NextInbound, NextError, AssertNoTasksFails, HandleInbound,
           NextTask
  <1>5. CASE Network
    BY <1>5, <1>d DEF Network, Deliver, ServerReceive, ServerSend
  <1>6. CASE WriteReflect
    <2>1. running' = [running EXCEPT !.written = @ + 1]
      BY <1>6 DEF WriteReflect
    <2>2. /\ running'.phase = "reflect" /\ running'.first = running.first
          /\ running'.acked = running.acked /\ running'.written = running.written + 1
      BY <1>b, <2>1 DEF Runs, RunOf, NoTask
    <2>3. running.first \in Nat /\ running.written \in Nat
      BY <1>b, RunSteps
    <2>4. n < running.first + running.written => n < running.first + (running.written + 1)
      BY <2>3
    <2>. QED
      BY <2>2, <2>4 DEF Current
  <1>7. CASE ReflectReturns
    <2>1. running.acked = running.written
      BY <1>7 DEF ReflectReturns, BatchComplete
    <2>2. running.first \in Nat /\ running.written \in Nat
      BY <1>b, RunSteps
    <2>3. ~(running.first + running.written <= n /\ n < running.first + running.written)
      BY <2>2
    <2>. QED
      BY <2>1, <2>3 DEF Current
  <1>8. CASE ExternalDone \/ ProcessReflected \/ AcknowledgeInbound \/ DetectUnrecoverable \/ WriteDrop
    BY <1>8, <1>b DEF ExternalDone, ProcessReflected, AcknowledgeInbound, DetectUnrecoverable, WriteDrop
  <1>9. CASE ReadBypass \/ ReadBacklog
    BY <1>9, <1>d DEF ReadBypass, ReadBacklog
  <1>10. CASE ReadMismatch \/ CodecError \/ DropError
    BY <1>10 DEF ReadMismatch, CodecError, DropError, ExitLoop
  <1>11. ASSUME NEW m \in InboundMsg, BypassDone(m) PROVE Current(n)'
    BY <1>11, <1>d DEF BypassDone
  <1>. QED
    BY <1>1, <1>2, <1>3, <1>4, <1>5, <1>6, <1>7, <1>8, <1>9, <1>10, <1>11 DEF Next, Codec

(* The acknowledgement that is accepted is the only one of its envelope. *)
LEMMA AcceptedOnce ==
    ASSUME TypeOK, Aligned("ack"), Readable # <<>>, ConsumeRead, IsExpected(Head(Readable)),
           UNCHANGED <<backlog, down>>
    PROVE  \A m \in InFlight' : m.kind = "ack" => m.id # running.first + running.acked
  <1> USE QueueTypes
  <1> DEFINE h == Head(Readable)
  <1>1. h.kind = "ack" /\ h.id = running.first + running.acked
    BY DEF IsExpected, Ack
  <1>2. h \in Messages /\ h \in Elements(codecBacklog) \union Elements(slot)
    BY ReadShrinks
  <1>3. h.id \in Nat
    BY <1>1, <1>2, AckForm
  <1>4. \A m \in InFlight' : m \in InFlight
    <2>1. Movement
      BY ReadShrinks DEF Movement, Drains, Shrunk
    <2>. QED
      BY <2>1, MovementKeeps
  <1>5. \A m \in InFlight' : m.kind = "ack" => m.id \in Nat
    <2>1. \A m \in InFlight : m \in Messages
      BY DEF InFlight, Elements
    <2>. QED
      BY <1>4, <2>1, AckForm
  <1>6. \A m \in Elements(backlog') : m.kind = "ack" => m.id < h.id
    BY <1>1, <1>2 DEF Aligned, Before
  <1>7. \A m \in Elements(down') : m.kind = "ack" => h.id < m.id
    BY <1>1, <1>2 DEF Aligned, Before
  <1>8. \A m \in Elements(codecBacklog') \union Elements(slot') : m.kind = "ack" => h.id < m.id
    <2>1. CASE codecBacklog # <<>> /\ h = Head(codecBacklog)
               /\ codecBacklog' = Tail(codecBacklog) /\ slot' = slot
      <3>1. \A m \in Elements(codecBacklog') : h.kind = "ack" /\ m.kind = "ack" => h.id < m.id
        BY <2>1, RisingTail DEF Aligned
      <3>2. h \in Elements(codecBacklog)
        BY <2>1, ElementsFacts
      <3> HIDE DEF h
      <3>. QED
        BY <1>1, <2>1, <3>1, <3>2 DEF Aligned, Before
    <2>2. CASE codecBacklog' = <<>> /\ slot' = <<>>
      BY <2>2, RisingEmpty
    <2>. QED
      BY <2>1, <2>2, ReadShrinks
  <1> HIDE DEF h
  <1>. QED
    BY <1>1, <1>3, <1>5, <1>6, <1>7, <1>8 DEF InFlight

(* What becomes of the frames to be reflected. *)
UpStep ==
    \/ Shrunk(up, up')
    \/ \E f \in Frames : f.kind # "reflect" /\ up' = Append(up, f)
    \/ WriteReflect

\* What any step does to the frames on the way out.
LEMMA UpStepOk ==
    ASSUME TasksAssumption, BoundsAssumption, TypeOK, LoopInv, [Next]_vars
    PROVE  UpStep
  <1> USE DEF serverVars, UpStep, Shrunk
  <1>b. running \in Runs /\ up \in Seq(Frames)
    BY QueueTypes
  <1>f. ASSUME NEW k \in {"cspAck", "reflectedAck", "drop"}, NEW n \in Nat,
               up' = Append(up, Frame(k, n, NoEnvelope))
        PROVE  UpStep
    <2>1. Frame(k, n, NoEnvelope) \in Frames /\ Frame(k, n, NoEnvelope).kind # "reflect"
      BY FrameShapes DEF Frame
    <2>. QED
      BY <1>f, <2>1
  <1>1. CASE UNCHANGED vars
    BY <1>1 DEF vars
  <1>2. ASSUME NEW t \in Tasks, Schedule(t) PROVE UpStep
    BY <1>2 DEF Schedule, ScheduleDisconnected, ScheduleConnected
  <1>3. CASE Connect \/ Disconnect \/ Abort \/ TaskThrows
    BY <1>3 DEF Connect, Disconnect, Abort, TaskThrows
  <1>4. CASE Loop
    BY <1>4 DEF Loop, StartRun, NextInbound, NextError, AssertNoTasksFails, HandleInbound,
           NextTask
  <1>5. CASE Network
    <2>1. ServerReceive => up' = Tail(up) /\ up # <<>>
      BY DEF ServerReceive
    <2>. QED
      BY <1>5, <2>1 DEF Network, Deliver, ServerSend
  <1>6. CASE AcknowledgeInbound
    <2>1. running.task \in Nat
      BY <1>6, <1>b, BoundsAssumption DEF AcknowledgeInbound, Runs, RunOf, NoTask, BoundsAssumption
    <2>. QED
      BY <1>6, <1>f, <2>1 DEF AcknowledgeInbound
  <1>7. CASE DetectUnrecoverable
    <2>1. running.task \in Nat
      BY <1>7, <1>b, BoundsAssumption DEF DetectUnrecoverable, Runs, RunOf, NoTask, BoundsAssumption
    <2>. QED
      BY <1>7, <1>f, <2>1 DEF DetectUnrecoverable
  <1>8. CASE WriteDrop
    BY <1>8, <1>f DEF WriteDrop
  <1>9. ASSUME NEW m \in InboundMsg, BypassDone(m) PROVE UpStep
    <2>1. m.id \in Nat
      BY <1>9, BoundsAssumption DEF InboundMsg, Csp, Reflected, BoundsAssumption
    <2>. QED
      BY <1>9, <1>f, <2>1 DEF BypassDone
  <1>10. CASE Codec /\ ~AcknowledgeInbound /\ ~DetectUnrecoverable /\ ~WriteDrop /\ ~WriteReflect
              /\ ~\E m \in InboundMsg : BypassDone(m)
    <2>1. up' = up
      BY <1>10 DEF Codec, ExternalDone, ReadBypass, ReadAccept, ReadBacklog, faultVars,
              ReadMismatch, CodecError, ReflectReturns, ProcessReflected, DropError
    <2>. QED
      BY <2>1
  <1>. QED
    BY <1>1, <1>2, <1>3, <1>4, <1>5, <1>6, <1>7, <1>8, <1>9, <1>10 DEF Next

\* Each acknowledgement comes once: a new connection,
LEMMA OnceConnect ==
    ASSUME Connect
    PROVE  OnceInv'
  <1>1. /\ codecBacklog' = <<>> /\ backlog' = <<>> /\ slot' = <<>> /\ down' = <<>> /\ up' = <<>>
        /\ running'.phase = "none"
    BY DEF Connect, NoTask
  <1>2. Elements(<<>>) = {} /\ Rising(<<>>, "ack") /\ Rising(<<>>, "reflect")
    BY RisingEmpty
  <1>. QED
    BY <1>1, <1>2 DEF OnceInv, Aligned, Before, InFlight

(* The parts of OnceInv, while the connection works. *)
LEMMA OnceParts ==
    ASSUME TypeOK, OnceInv, ~DuplicateAcks, ~netError
    PROVE  /\ Aligned("ack") /\ Rising(up, "reflect")
           /\ running.phase = "reflect" => running.acked <= running.written
           /\ \A m \in InFlight : m.kind = "ack" => m.id \in Nat /\ Current(m.id)
           /\ \A f \in Elements(up) : f.kind = "reflect" => f.id \in Nat /\ Current(f.id)
           /\ \A m \in InFlight, f \in Elements(up) :
                  m.kind = "ack" /\ f.kind = "reflect" => m.id < f.id
           /\ running.first \in Nat /\ running.written \in Nat /\ running.acked \in Nat
  <1> USE QueueTypes
  <1>1. \A m \in InFlight : m \in Messages
    BY DEF InFlight, Elements
  <1>2. \A f \in Elements(up) : f.id \in Nat
    <2>1. \A f \in Elements(up) : f \in Frames
      BY DEF Elements
    <2>. QED
      BY <2>1, FrameShapes
  <1>3. \A m \in InFlight : m.kind = "ack" => m.id \in Nat
    BY <1>1, AckForm
  <1>4. running.first \in Nat /\ running.written \in Nat /\ running.acked \in Nat
    BY RunSteps
  <1>. QED
    BY <1>2, <1>3, <1>4 DEF OnceInv

\* a frame read by a server,
LEMMA OnceReceive ==
    ASSUME TypeOK, OnceInv, ~DuplicateAcks, ~netError, ServerReceive
    PROVE  OnceInv'
  <1> USE QueueTypes
  <1> DEFINE f == Head(up)
             a == Ack(f.id)
  <1>0. /\ UNCHANGED <<codecBacklog, backlog, slot>> /\ up # <<>> /\ up' = Tail(up) /\ f \in Frames
        /\ f.kind = "reflect" => down' = Append(down, a)
        /\ f.kind = "drop" => down' = Append(down, DropAck)
        /\ f.kind \notin {"reflect", "drop"} => down' = down
    BY AnswerFacts
  <1>1. running' = running
    BY DEF ServerReceive, loopVars
  <1>2. \A n : Current(n)' <=> Current(n)
    BY <1>1 DEF Current
  <1>3. a \in Messages /\ DropAck \in Messages /\ a.kind = "ack" /\ a.id = f.id /\ DropAck.kind # "ack"
    BY <1>0, FrameShapes, MessageShapes DEF Ack, DropAck
  <1>4. /\ f \in Elements(up) /\ Elements(up') \subseteq Elements(up)
        /\ Rising(up', "reflect")
        /\ \A g \in Elements(up') : f.kind = "reflect" /\ g.kind = "reflect" => f.id < g.id
    BY <1>0, OnceParts, RisingTail, ElementsFacts
  <1> HIDE DEF a, f
  <1>5. CASE f.kind = "reflect"
    <2>1. \A m \in InFlight : m.kind = "ack" /\ a.kind = "ack" => m.id < a.id
      BY <1>3, <1>4, <1>5, OnceParts
    <2>2. Aligned("ack")' /\ InFlight' = InFlight \union {a}
      BY <1>0, <1>3, <1>5, <2>1, OnceParts, AlignedSend
    <2>. QED
      BY <1>1, <1>2, <1>3, <1>4, <1>5, <2>2, OnceParts DEF OnceInv
  <1>6. CASE f.kind = "drop"
    <2>1. Aligned("ack")' /\ InFlight' = InFlight \union {DropAck}
      BY <1>0, <1>3, <1>6, OnceParts, AlignedSend
    <2>. QED
      BY <1>1, <1>2, <1>3, <1>4, <2>1, OnceParts DEF OnceInv
  <1>7. CASE f.kind \notin {"reflect", "drop"}
    <2>1. Aligned("ack")' /\ InFlight' = InFlight
      BY <1>0, <1>7, OnceParts DEF Aligned, InFlight
    <2>. QED
      BY <1>1, <1>2, <1>4, <2>1, OnceParts DEF OnceInv
  <1>. QED
    BY <1>5, <1>6, <1>7

\* a message sent by a server,
LEMMA OnceSend ==
    ASSUME TypeOK, OnceInv, ~DuplicateAcks, ~netError, NEW m \in InboundMsg, ServerSend(m)
    PROVE  OnceInv'
  <1>1. down' = Append(down, m) /\ UNCHANGED <<codecBacklog, backlog, slot, up, running>>
    BY DEF ServerSend, queueVars, loopVars
  <1>2. m \in Messages /\ m.kind # "ack"
    BY MessageShapes DEF InboundMsg, Csp, Reflected
  <1>3. Aligned("ack")' /\ InFlight' = InFlight \union {m}
    BY <1>1, <1>2, OnceParts, AlignedSend
  <1>4. \A n : Current(n)' <=> Current(n)
    BY <1>1 DEF Current
  <1>. QED
    BY <1>1, <1>2, <1>3, <1>4, OnceParts DEF OnceInv

\* a message that moves on the way in,
LEMMA OnceMove ==
    ASSUME TasksAssumption, BoundsAssumption, TypeOK, LoopInv, OnceInv, ~DuplicateAcks,
           ~netError, ~netError', ~Connect, [Next]_vars, Movement, ~WriteReflect
    PROVE  OnceInv'
  <1> USE QueueTypes
  <1>1. Aligned("ack")' /\ InFlight' \subseteq InFlight
    BY OnceParts, AlignedMoves, MovementKeeps
  <1>2. /\ Rising(up', "reflect")
        /\ \A f \in Elements(up') : f.kind = "reflect" => f \in Elements(up)
    <2>1. CASE Shrunk(up, up')
      BY <2>1, OnceParts, ShrunkFacts
    <2>2. ASSUME NEW f \in Frames, f.kind # "reflect", up' = Append(up, f)
          PROVE  /\ Rising(up', "reflect")
                 /\ \A g \in Elements(up') : g.kind = "reflect" => g \in Elements(up)
      BY <2>2, OnceParts, RisingAppend, ElementsFacts
    <2>. QED
      BY <2>1, <2>2, UpStepOk DEF UpStep
  <1>3. running'.phase = "reflect" => running'.acked <= running'.written
    <2>1. CASE running' = running \/ running'.phase # "reflect"
      BY <2>1, OnceParts
    <2>2. CASE NewBatch
      BY <2>2 DEF NewBatch
    <2>3. CASE AckRead
      <3>1. running.first + running.acked < running.first + running.written
        BY <2>3, OnceParts DEF AckRead, Ack, Current
      <3>2. running'.acked = running.acked + 1 /\ running'.written = running.written
        BY <2>3 DEF AckRead, Runs, RunOf, NoTask
      <3>. QED
        BY <3>1, <3>2, OnceParts
    <2>. QED
      BY <2>1, <2>2, <2>3, RunningStepOk DEF RunningStep
  <1>4. CASE ReadAccept
    <2> DEFINE h == Head(Readable)
               e == running.first + running.acked
    <2>1. /\ Readable # <<>> /\ ConsumeRead /\ UNCHANGED <<backlog, down, up>>
          /\ IsExpected(h) /\ running' = [running EXCEPT !.acked = @ + 1] /\ running.phase = "reflect"
      BY <1>4 DEF ReadAccept, serverVars
    <2>2. /\ running'.phase = "reflect" /\ running'.first = running.first
          /\ running'.written = running.written /\ running'.acked = running.acked + 1
      BY <2>1 DEF Runs, RunOf, NoTask
    <2>3. ASSUME NEW n \in Nat, Current(n), n # e PROVE Current(n)'
      <3>1. running.first \in Nat /\ running.acked \in Nat /\ running.written \in Nat
        BY OnceParts
      <3>2. /\ running.first + running.acked <= n /\ n < running.first + running.written
            /\ n # running.first + running.acked
        BY <2>3 DEF Current
      <3>3. \A a, b, c \in Nat : a + b <= c /\ c # a + b => a + (b + 1) <= c
        OBVIOUS
      <3>4. running.first + (running.acked + 1) <= n
        BY <2>3, <3>1, <3>2, <3>3
      <3>. QED
        BY <2>2, <3>2, <3>4 DEF Current
    <2>4. \A m \in InFlight' : m.kind = "ack" => m.id # e
      BY <2>1, OnceParts, AcceptedOnce
    <2>5. h.kind = "ack" /\ h.id = e /\ h \in InFlight /\ e \in Nat
      <3>1. h \in InFlight
        BY <2>1, ReadShrinks DEF InFlight
      <3>. QED
        BY <2>1, <3>1, OnceParts DEF IsExpected, Ack
    <2> HIDE DEF h, e
    <2>6. \A f \in Elements(up) : f.kind = "reflect" => f.id # e
      <3> SUFFICES ASSUME NEW f \in Elements(up), f.kind = "reflect" PROVE f.id # e
        OBVIOUS
      <3>1. e < f.id /\ f.id \in Nat
        BY <2>5, OnceParts
      <3>. QED
        BY <2>5, <3>1
    <2>. QED
      BY <1>1, <1>2, <1>3, <2>3, <2>4, <2>6, OnceParts DEF OnceInv
  <1>5. CASE ~ReadAccept
    <2>1. \A n \in Nat : Current(n) => Current(n)'
      BY <1>5, CurrentKept
    <2>. QED
      BY <1>1, <1>2, <1>3, <2>1, OnceParts DEF OnceInv
  <1>. QED
    BY <1>4, <1>5

\* a reflect frame written by a task,
LEMMA OnceWrite ==
    ASSUME TasksAssumption, BoundsAssumption, TypeOK, LoopInv, OnceInv, ~DuplicateAcks,
           ~netError, ~netError', WriteReflect
    PROVE  OnceInv'
  <1> USE QueueTypes
  <1>0. PICK n : n = running.first + running.written
    OBVIOUS
  <1> DEFINE f == Frame("reflect", n, Envelope(running, running.written + 1))
  <1>1. /\ running' = [running EXCEPT !.written = @ + 1] /\ running.phase = "reflect"
        /\ up' = Append(up, f) /\ UNCHANGED <<codecBacklog, backlog, slot, down>>
    BY <1>0 DEF WriteReflect, queueVars
  <1>2. /\ running'.phase = "reflect" /\ running'.first = running.first
        /\ running'.acked = running.acked /\ running'.written = running.written + 1
    BY <1>1 DEF Runs, RunOf, NoTask
  <1>a. /\ running.first \in Nat /\ running.acked \in Nat /\ running.written \in Nat
        /\ running.acked <= running.written
    BY <1>1, OnceParts
  <1>3. n \in Nat /\ running.written + 1 \in Nat
    BY <1>0, <1>a
  <1>4. f \in Frames /\ f.kind = "reflect" /\ f.id = n
    <2>1. Envelope(running, running.written + 1) \in EnvelopeIds
      BY <1>1, <1>3, EnvelopeShapes
    <2>. QED
      BY <1>3, <2>1, FrameShapes DEF Frame
  <1>5. \A k \in Nat : Current(k) => Current(k)' /\ k < n
    <2> SUFFICES ASSUME NEW k \in Nat, Current(k) PROVE Current(k)' /\ k < n
      OBVIOUS
    <2>1. running.first + running.acked <= k /\ k < running.first + running.written
      BY DEF Current
    <2>2. k < running.first + (running.written + 1)
      BY <2>1, OnceParts
    <2>. QED
      BY <1>0, <1>2, <2>1, <2>2 DEF Current
  <1>6. Current(n)'
    <2>1. running.first + running.acked <= n /\ n < running.first + (running.written + 1)
      BY <1>0, <1>a
    <2>. QED
      BY <1>2, <2>1 DEF Current
  <1> HIDE DEF f
  <1>7. Elements(up') = Elements(up) \union {f}
    BY <1>1, <1>4, ElementsFacts
  <1>8. Rising(up', "reflect")
    <2>1. \A g \in Elements(up) : g.kind = "reflect" /\ f.kind = "reflect" => g.id < f.id
      BY <1>4, <1>5, OnceParts
    <2>. QED
      BY <1>1, <1>4, <2>1, OnceParts, RisingAppend
  <1>9. Aligned("ack")' /\ InFlight' = InFlight
    BY <1>1, OnceParts DEF Aligned, InFlight
  <1>10. running'.acked <= running'.written
    BY <1>2, <1>a
  <1>11. \A m \in InFlight' : m.kind = "ack" => Current(m.id)'
    BY <1>5, <1>9, OnceParts
  <1>12. \A g \in Elements(up') : g.kind = "reflect" => Current(g.id)'
    BY <1>4, <1>5, <1>6, <1>7, OnceParts
  <1>13. \A m \in InFlight', g \in Elements(up') :
             m.kind = "ack" /\ g.kind = "reflect" => m.id < g.id
    BY <1>4, <1>5, <1>7, <1>9, OnceParts
  <1>. QED
    BY <1>8, <1>9, <1>10, <1>11, <1>12, <1>13 DEF OnceInv

\* any step.
LEMMA OnceInvStep ==
    ASSUME TasksAssumption, BoundsAssumption, TypeOK, LoopInv, ReturnInv, OnceInv, [Next]_vars
    PROVE  OnceInv'
  <1>1. CASE Connect
    BY <1>1, OnceConnect
  <1>2. CASE DuplicateAcks \/ netError'
    BY <1>2 DEF OnceInv
  <1>3. CASE ~Connect /\ ~DuplicateAcks /\ ~netError'
    <2>1. ~netError
      BY <1>3, ConnectionMade
    <2>2. CASE WriteReflect
      BY <1>3, <2>1, <2>2, OnceWrite
    <2>3. CASE Movement /\ ~WriteReflect
      BY <1>3, <2>1, <2>3, OnceMove
    <2>4. CASE ServerReceive
      BY <1>3, <2>1, <2>4, OnceReceive
    <2>5. ASSUME NEW m \in InboundMsg, ServerSend(m) PROVE OnceInv'
      BY <1>3, <2>1, <2>5, OnceSend
    <2>. QED
      BY <2>2, <2>3, <2>4, <2>5, MessageStepOk DEF MessageStep
  <1>. QED
    BY <1>1, <1>2, <1>3

-----------------------------------------------------------------------------
(* Theorems *)

\* The invariant holds initially,
LEMMA InboundInit ==
    ASSUME TasksAssumption, BoundsAssumption, Init
    PROVE  InboundInv
  <1>1. Elements(<<>>) = {} /\ \A kind : Rising(<<>>, kind)
    BY RisingEmpty
  <1>2. /\ codecBacklog = <<>> /\ backlog = <<>> /\ slot = <<>> /\ down = <<>> /\ up = <<>>
        /\ running = NoTask /\ bypassed = {} /\ sent = {} /\ inner = "disconnected"
    BY DEF Init
  <1>3. LoopInv /\ ReturnInv
    BY <1>1, <1>2 DEF LoopInv, ReturnInv, NoTask
  <1>4. InFlight = {} /\ Elements(up) = {}
    BY <1>1, <1>2 DEF InFlight
  <1>5. Aligned("csp") /\ Aligned("ack")
    BY <1>1, <1>2 DEF Aligned, Before
  <1>6. SentInv /\ NothingLost
    BY <1>2, <1>4 DEF SentInv, NothingLost
  <1>7. OnceInv
    <2>1. running.phase # "reflect"
      BY <1>2 DEF NoTask
    <2>. QED
      BY <1>1, <1>2, <1>4, <1>5, <2>1 DEF OnceInv
  <1>. QED
    BY <1>3, <1>5, <1>6, <1>7 DEF InboundInv

\* and every step keeps it.
LEMMA InboundStep ==
    ASSUME TasksAssumption, BoundsAssumption, IndInv, InboundInv, [Next]_vars
    PROVE  InboundInv'
  <1>1. TypeOK /\ AcksInv
    BY DEF IndInv
  <1>2. LoopInv' /\ ReturnInv'
    BY <1>1, LoopInvStep, ReturnInvStep DEF InboundInv
  <1>3. SentInv' /\ Aligned("csp")'
    BY <1>1, InOrderStep DEF InboundInv
  <1>4. OnceInv' /\ NothingLost'
    BY <1>1, OnceInvStep, NothingLostStep DEF InboundInv
  <1>. QED
    BY <1>2, <1>3, <1>4 DEF InboundInv

(* What the main loop, its backlogs and the queues hold is in order and     *)
(* complete, in every behaviour of the task manager.                        *)
THEOREM InboundInvariance == Spec => []InboundInv
  <1>1. Init => InboundInv
    BY InboundInit, TasksAssumption, BoundsAssumption
  <1>2. IndInv /\ InboundInv /\ [Next]_vars => InboundInv'
    BY InboundStep, TasksAssumption, BoundsAssumption
  <1>. QED
    BY <1>1, <1>2, Invariance, PTL DEF Spec

(* Moving the backlog of the manager to a codec and back, bypassing and     *)
(* throwing away never loses a message of the servers that they hold to be  *)
(* sent: for any number of tasks, messages, reconnections and errors.       *)
THEOREM NoInboundLostAlways == Spec => []NoInboundLost
  <1>1. IndInv /\ InboundInv => NoInboundLost
    BY LostNowhere DEF IndInv, InboundInv
  <1>. QED
    BY <1>1, Invariance, InboundInvariance, PTL

(* The main loop takes chat messages in the order in which the server sent  *)
(* them: what prepend puts in front of the backlog was read before what is  *)
(* in it.                                                                   *)
THEOREM CspInOrderAlways == Spec => []CspInOrder
  <1>1. ASSUME IndInv, InboundInv PROVE CspInOrder
    <2> USE QueueTypes DEF IndInv
    <2>1. Rising(backlog, "csp") /\ Rising(down, "csp") /\ Before(backlog, slot, "csp")
          /\ Before(backlog, down, "csp") /\ Before(slot, down, "csp")
      BY <1>1 DEF InboundInv, Aligned
    <2>2. PICK r : r = backlog \o slot
      OBVIOUS
    <2>3. r \in Seq(Messages) /\ Elements(r) = Elements(backlog) \union Elements(slot)
      BY <1>1, <2>2, SeqFacts, ElementsFacts
    <2>4. Rising(slot, "csp")
      BY <1>1, RisingShort
    <2>5. Rising(r, "csp")
      BY <1>1, <2>1, <2>2, <2>4, RisingConcat
    <2>6. Before(r, down, "csp")
      BY <2>1, <2>3 DEF Before
    <2>7. Rising(r \o down, "csp")
      BY <1>1, <2>1, <2>3, <2>5, <2>6, RisingConcat
    <2>. QED
      BY <2>2, <2>7 DEF CspInOrder, Rising
  <1>. QED
    BY <1>1, Invariance, InboundInvariance, PTL

(* With a mediator that acknowledges every envelope once, no task ever      *)
(* reads an acknowledgement of another task: when the batch of a task is    *)
(* complete, nothing of it is left on the connection.                       *)
THEOREM AcksOfRunningTaskAlways == Spec => [](~DuplicateAcks => AcksOfRunningTask)
  <1>1. ASSUME IndInv, InboundInv, ~DuplicateAcks PROVE AcksOfRunningTask
    <2>1. TypeOK /\ OnceInv
      BY <1>1 DEF IndInv, InboundInv
    <2>2. Elements(codecBacklog \o backlog \o slot \o down) = InFlight
      BY <2>1, LineHolds
    <2> SUFFICES ASSUME NEW m \in InFlight, m.kind = "ack", ~netError
                 PROVE  /\ running.phase = "reflect"
                        /\ m.id \in running.first + running.acked
                                        .. running.first + running.written - 1
      BY <2>2 DEF AcksOfRunningTask
    <2>3. /\ Current(m.id) /\ m.id \in Nat
          /\ running.first \in Nat /\ running.written \in Nat /\ running.acked \in Nat
      BY <1>1, <2>1, OnceParts
    <2>. QED
      BY <2>3 DEF Current
  <1>2. IndInv /\ InboundInv => (~DuplicateAcks => AcksOfRunningTask)
    BY <1>1
  <1>. QED
    BY <1>2, Invariance, InboundInvariance, PTL
=============================================================================

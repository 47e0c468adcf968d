------------------------- MODULE ContactSyncProofs --------------------------
(* Proofs about ContactSync, for any devices, updates and owners, and any   *)
(* number of lost connections.                                              *)
EXTENDS ContactSync, SequenceTheorems, TLAPS

-----------------------------------------------------------------------------
(* The inductive invariant *)

Has(s, kinds) == \E m \in ToSet(s) : m.kind \in kinds

(* A message of one kind comes before one of another (or the same) kind.    *)
Follows(s, first, second) ==
    \E p, q \in DOMAIN s : p < q /\ s[p].kind \in first /\ s[q].kind \in second

Asks == {"begin", "reflect", "commit"}
AnswersToAsks == {"ack", "rejected", "reflectAck", "commitAck"}

(* Entries of the log that the others have made, those that d knows of, and *)
(* those among them it has not marked as processed.                         *)
Others(d) == {j \in DOMAIN log : Owner[log[j].update] # d}
Got(d) == applied[d] \union downloads[d] \union orphans[d] \union missed[d]
Unmarked(d) == Others(d) \ nonces[d]

(* Without a connection nothing runs, and nothing is under way.             *)
Offline(d) ==
    ~connected[d] =>
        /\ running[d] = None /\ phase[d] = "idle"
        /\ codec[d] = <<>> /\ backlog[d] = <<>> /\ up[d] = <<>> /\ down[d] = <<>>
        /\ acking[d] = {} /\ downloads[d] = {}

(* The lock: an update is in line once, from its request until its end, and *)
(* the one that holds the lock is first.  A sync task is queued for it as   *)
(* long as it holds the lock, and never for another one.                    *)
InLine(u) ==
    /\ status[u] \in {"queued", "held"} <=> u \in ToSet(lock[Owner[u]])
    /\ status[u] = "held" => Head(lock[Owner[u]]) = u
    /\ u \in Local /\ status[u] = "held" => tasks[Owner[u]] = <<u>>

Line(d) ==
    /\ \A u \in ToSet(lock[d]) : Owner[u] = d
    /\ \A p, q \in DOMAIN lock[d] : lock[d][p] = lock[d][q] => p = q
    /\ tasks[d] # <<>> =>
          \E u \in Local : Owner[u] = d /\ status[u] = "held" /\ tasks[d] = <<u>>

(* What runs is an update of the device, which holds the lock of the        *)
(* contact while its transaction is under way.                              *)
Runs(d) ==
    /\ running[d] \in Updates =>
          /\ Owner[running[d]] = d
          /\ IF phase[d] = "idle"
             THEN running[d] \in Remote /\ status[running[d]] \in {"new", "queued"}
             ELSE status[running[d]] = "held"
    /\ phase[d] # "idle" => running[d] \in Updates
    /\ \A u \in Remote :
          Owner[u] = d /\ status[u] \in {"queued", "held"} => running[d] = u

(* The backlogs hold nothing but ends of transactions, and a task that has  *)
(* got an answer has read its own.                                          *)
Backlog(d) ==
    /\ \A m \in ToSet(codec[d]) \union ToSet(backlog[d]) : m.kind = "ended"
    /\ phase[d] \notin {"idle", "begin"} => codec[d] = <<>>

(* The phases of a transaction: what was asked and not answered yet, and    *)
(* what the mediator has staged.                                            *)
Dialog(d) ==
    /\ phase[d] \in {"idle", "waiting"} => holder # d
    /\ phase[d] \in {"open", "upload"} => holder = d /\ staged = <<>>
    /\ phase[d] = "execute" => holder = d
    /\ \A m \in ToSet(up[d]) :
          /\ m.kind = "begin" => phase[d] = "begin" /\ holder # d
          /\ m.kind = "reflect" => /\ phase[d] = "execute" /\ holder = d
                                   /\ staged = <<>> /\ m.of = running[d]
          /\ m.kind = "commit" =>
                /\ phase[d] \in {"commit", "skip"} /\ holder = d
                /\ staged = IF phase[d] = "commit" THEN <<running[d]>> ELSE <<>>
    /\ \A m \in ToSet(down[d]) :
          /\ m.kind = "ack" => phase[d] = "begin" /\ holder = d /\ staged = <<>>
          /\ m.kind = "rejected" => phase[d] = "begin" /\ holder # d
          /\ m.kind = "reflectAck" => /\ phase[d] = "execute" /\ holder = d
                                      /\ staged = <<running[d]>>
          /\ m.kind = "commitAck" => phase[d] \in {"commit", "skip"} /\ holder # d
          /\ m.kind = "commitAck" /\ phase[d] = "commit" =>
                m.of \in DOMAIN log /\ Owner[log[m.of].update] = d
    /\ Has(up[d], Asks) => ~Has(down[d], AnswersToAsks)
    /\ ~Follows(up[d], Asks, Asks)
    /\ ~Follows(down[d], AnswersToAsks, AnswersToAsks)

(* No entry is lost: what d does not know of is in its mailbox and, with a  *)
(* connection, on its way; only pictures are still being downloaded, or the *)
(* download has failed.                                                     *)
Entries(d) ==
    /\ applied[d] \subseteq DOMAIN log
    /\ \A j \in downloads[d] \union orphans[d] \union missed[d] :
          j \in Others(d) /\ log[j].update \in Slow
    /\ ToSet(mailbox[d]) \subseteq Others(d)
    /\ nonces[d] \subseteq Others(d) \intersect Got(d)
    /\ \A a \in acking[d] : a[1] \in Others(d) \intersect Got(d)
    /\ \A m \in ToSet(up[d]) : m.kind = "ack" => m.of \in Others(d) \intersect Got(d)
    /\ \A m \in ToSet(down[d]) : m.kind = "reflected" => m.of \in Others(d)
    /\ \A j \in Others(d) \ Got(d) :
          /\ j \in ToSet(mailbox[d])
          /\ connected[d] => Reflected(j) \in ToSet(down[d])

(* Everything reflected so far has been read when a transaction begins; up  *)
(* to its commit, the device is inside.                                     *)
Inside(d) == phase[d] \in {"open", "upload", "execute"} \/ (phase[d] = "commit" /\ holder = d)

ReadAll(d) ==
    /\ ~Follows(down[d], {"ack"}, {"reflected"})
    /\ Inside(d) => ~Has(down[d], {"reflected"})

(* An update that is not stale has seen what its contact has, and the one   *)
(* in the transaction has seen whatever is in the log, but for pictures.    *)
Noted(u) == status[u] = "held" /\ u \notin stale => seenAtStart[u] = applied[Owner[u]]

Covered(d) ==
    phase[d] \in {"upload", "execute", "commit"} /\ holder = d =>
        \A j \in Others(d) : log[j].update \notin Slow => j \in seenAtStart[running[d]]

IndInv ==
    /\ TypeOK
    /\ holder = None => staged = <<>>
    /\ \A u \in Updates : InLine(u) /\ Noted(u)
    /\ \A d \in Devices : /\ Offline(d) /\ Line(d) /\ Runs(d) /\ Backlog(d)
                          /\ Dialog(d) /\ Entries(d) /\ ReadAll(d) /\ Covered(d)
    /\ NothingMissedSinceLock

-----------------------------------------------------------------------------
(* Sequences *)

(* The elements of a line. *)
LEMMA Elements ==
    ASSUME NEW S, NEW s \in Seq(S)
    PROVE  /\ ToSet(s) \subseteq S
           /\ ToSet(<<>>) = {} /\ (s # <<>> <=> ToSet(s) # {})
           /\ \A i \in DOMAIN s : s[i] \in ToSet(s)
  BY DEF ToSet

(* One element more. *)
LEMMA AppendFacts ==
    ASSUME NEW S, NEW s \in Seq(S), NEW e \in S
    PROVE  /\ Append(s, e) \in Seq(S) /\ Append(s, e) # <<>>
           /\ ToSet(Append(s, e)) = ToSet(s) \union {e}
  <1>1. /\ DOMAIN Append(s, e) = 1 .. Len(s) + 1 /\ DOMAIN s = 1 .. Len(s)
        /\ Append(s, e)[Len(s) + 1] = e /\ Len(s) \in Nat
    OBVIOUS
  <1>2. \A i \in 1 .. Len(s) : Append(s, e)[i] = s[i]
    OBVIOUS
  <1>3. 1 .. Len(s) + 1 = 1 .. Len(s) \union {Len(s) + 1}
    BY <1>1
  <1>. QED
    BY <1>1, <1>2, <1>3 DEF ToSet

(* One element less, the first. *)
LEMMA TailFacts ==
    ASSUME NEW S, NEW s \in Seq(S), s # <<>>
    PROVE  /\ Tail(s) \in Seq(S) /\ Head(s) \in S
           /\ ToSet(s) = {Head(s)} \union ToSet(Tail(s))
  <1>1. /\ Len(s) \in Nat \ {0} /\ DOMAIN s = 1 .. Len(s) /\ Head(s) = s[1]
        /\ Tail(s) \in Seq(S) /\ DOMAIN Tail(s) = 1 .. Len(s) - 1
    OBVIOUS
  <1>2. \A i \in 1 .. Len(s) - 1 : Tail(s)[i] = s[i + 1]
    OBVIOUS
  <1>3. \A i \in DOMAIN s : i = 1 \/ (i - 1 \in DOMAIN Tail(s) /\ Tail(s)[i - 1] = s[i])
    BY <1>1, <1>2
  <1>4. \A i \in DOMAIN Tail(s) : i + 1 \in DOMAIN s /\ Tail(s)[i] = s[i + 1]
    BY <1>1, <1>2
  <1>5. 1 \in DOMAIN s
    BY <1>1
  <1>6. ToSet(s) \subseteq {Head(s)} \union ToSet(Tail(s))
    BY <1>1, <1>3 DEF ToSet
  <1>7. {Head(s)} \union ToSet(Tail(s)) \subseteq ToSet(s)
    BY <1>1, <1>4, <1>5 DEF ToSet
  <1>. QED
    BY <1>1, <1>5, <1>6, <1>7

(* A message more follows the ones before; a message less, and the first of *)
(* those that are left had followed it.                                     *)
LEMMA AppendFollows ==
    ASSUME NEW S, NEW s \in Seq(S), NEW e \in S, NEW K, NEW L,
           Follows(Append(s, e), K, L)
    PROVE  Follows(s, K, L) \/ (Has(s, K) /\ e.kind \in L)
  <1>1. PICK p, q \in DOMAIN Append(s, e) :
           p < q /\ Append(s, e)[p].kind \in K /\ Append(s, e)[q].kind \in L
    BY DEF Follows
  <1>2. /\ DOMAIN Append(s, e) = 1 .. Len(s) + 1 /\ DOMAIN s = 1 .. Len(s)
        /\ Append(s, e)[Len(s) + 1] = e /\ Len(s) \in Nat
    OBVIOUS
  <1>3. \A i \in 1 .. Len(s) : Append(s, e)[i] = s[i]
    OBVIOUS
  <1>4. p \in DOMAIN s /\ Append(s, e)[p] = s[p]
    BY <1>1, <1>2, <1>3
  <1>5. q = Len(s) + 1 \/ (q \in DOMAIN s /\ Append(s, e)[q] = s[q])
    BY <1>1, <1>2, <1>3
  <1>. QED
    BY <1>1, <1>2, <1>4, <1>5 DEF Follows, Has, ToSet

(* What follows in the rest followed before; so does what is left of a kind. *)
LEMMA TailFollows ==
    ASSUME NEW S, NEW s \in Seq(S), s # <<>>, NEW K, NEW L
    PROVE  /\ Follows(Tail(s), K, L) => Follows(s, K, L)
           /\ Head(s).kind \in K /\ Has(Tail(s), L) => Follows(s, K, L)
  <1>1. /\ Len(s) \in Nat \ {0} /\ DOMAIN s = 1 .. Len(s) /\ Head(s) = s[1]
        /\ DOMAIN Tail(s) = 1 .. Len(s) - 1
    OBVIOUS
  <1>2. \A i \in 1 .. Len(s) - 1 : Tail(s)[i] = s[i + 1]
    OBVIOUS
  <1>3. \A i \in DOMAIN Tail(s) : i + 1 \in DOMAIN s /\ Tail(s)[i] = s[i + 1] /\ 1 < i + 1
    BY <1>1, <1>2
  <1>4. \A p, q \in DOMAIN Tail(s) : p < q => p + 1 < q + 1
    BY <1>1
  <1>5. 1 \in DOMAIN s
    BY <1>1
  <1>6. Follows(Tail(s), K, L) => Follows(s, K, L)
    BY <1>3, <1>4 DEF Follows
  <1>7. Head(s).kind \in K /\ Has(Tail(s), L) => Follows(s, K, L)
    BY <1>1, <1>3, <1>5 DEF Follows, Has, ToSet
  <1>. QED
    BY <1>6, <1>7

(* What is left of a line without one of its elements: the others, in order. *)
LEMMA WithoutFacts ==
    ASSUME NEW S, NEW s \in Seq(S), NEW e
    PROVE  /\ Without(s, e) \in Seq(S)
           /\ ToSet(s) \ {e} \subseteq ToSet(Without(s, e))
           /\ ToSet(Without(s, e)) \subseteq ToSet(s)
           /\ \A p, q \in DOMAIN Without(s, e) : p < q =>
                 \E i, j \in DOMAIN s :
                    i < j /\ Without(s, e)[p] = s[i] /\ Without(s, e)[q] = s[j]
           /\ (\A p, q \in DOMAIN s : s[p] = s[q] => p = q) =>
                 /\ ToSet(Without(s, e)) = ToSet(s) \ {e}
                 /\ \A p, q \in DOMAIN Without(s, e) :
                       Without(s, e)[p] = Without(s, e)[q] => p = q
           /\ s # <<>> /\ Head(s) # e => Without(s, e) # <<>> /\ Head(Without(s, e)) = Head(s)
           /\ e \notin ToSet(s) => Without(s, e) = s
  <1>1. CASE e \notin ToSet(s)
    BY <1>1 DEF Without, ToSet
  <1>2. CASE e \in ToSet(s)
    <2>. DEFINE r == Without(s, e)
    <2>1. PICK i \in DOMAIN s : s[i] = e /\ r = RemoveAt(s, i)
      BY <1>2 DEF Without, ToSet
    <2>2. Len(s) \in Nat /\ DOMAIN s = 1 .. Len(s) /\ i \in 1 .. Len(s)
      OBVIOUS
    <2>3. r = SubSeq(s, 1, i - 1) \o SubSeq(s, i + 1, Len(s))
      BY <2>1 DEF RemoveAt
    <2>. HIDE DEF r
    <2>4. /\ SubSeq(s, 1, i - 1) \in Seq(S) /\ Len(SubSeq(s, 1, i - 1)) = i - 1
          /\ \A k \in 1 .. i - 1 : SubSeq(s, 1, i - 1)[k] = s[k]
      <3>1. 1 \in Int /\ i - 1 \in Int /\ \A k \in 1 .. i - 1 : s[k] \in S
        BY <2>2
      <3>2. /\ SubSeq(s, 1, i - 1) \in Seq(S)
            /\ Len(SubSeq(s, 1, i - 1)) = IF 1 <= i - 1 THEN (i - 1) - 1 + 1 ELSE 0
            /\ \A k \in 1 .. (i - 1) - 1 + 1 : SubSeq(s, 1, i - 1)[k] = s[1 + k - 1]
        BY <3>1, SubSeqProperties
      <3>. QED
        BY <2>2, <3>2
    <2>5. /\ SubSeq(s, i + 1, Len(s)) \in Seq(S) /\ Len(SubSeq(s, i + 1, Len(s))) = Len(s) - i
          /\ \A k \in 1 .. Len(s) - i : SubSeq(s, i + 1, Len(s))[k] = s[i + k]
      <3>1. i + 1 \in Int /\ Len(s) \in Int /\ \A k \in i + 1 .. Len(s) : s[k] \in S
        BY <2>2
      <3>2. /\ SubSeq(s, i + 1, Len(s)) \in Seq(S)
            /\ Len(SubSeq(s, i + 1, Len(s))) = IF i + 1 <= Len(s) THEN Len(s) - (i + 1) + 1 ELSE 0
            /\ \A k \in 1 .. Len(s) - (i + 1) + 1 :
                  SubSeq(s, i + 1, Len(s))[k] = s[(i + 1) + k - 1]
        BY <3>1, SubSeqProperties
      <3>. QED
        BY <2>2, <3>2
    <2>. DEFINE before == SubSeq(s, 1, i - 1)
                after == SubSeq(s, i + 1, Len(s))
    <2>. HIDE DEF before, after
    <2>6. r \in Seq(S) /\ Len(r) = Len(s) - 1 /\ DOMAIN r = 1 .. Len(s) - 1
      <3>1. r \in Seq(S) /\ Len(r) = Len(before) + Len(after)
        BY <2>3, <2>4, <2>5, ConcatProperties DEF before, after
      <3>2. Len(r) = Len(s) - 1
        BY <2>2, <2>4, <2>5, <3>1 DEF before, after
      <3>. QED
        BY <3>1, <3>2
    <2>7. \A k \in DOMAIN r : r[k] = s[IF k < i THEN k ELSE k + 1]
      <3>1. \A k \in 1 .. Len(before) + Len(after) :
               r[k] = IF k <= Len(before) THEN before[k] ELSE after[k - Len(before)]
        BY <2>3, <2>4, <2>5, ConcatProperties DEF before, after
      <3>2. /\ Len(before) = i - 1 /\ Len(after) = Len(s) - i
            /\ \A k \in 1 .. i - 1 : before[k] = s[k]
            /\ \A k \in 1 .. Len(s) - i : after[k] = s[i + k]
        BY <2>4, <2>5 DEF before, after
      <3>3. SUFFICES ASSUME NEW k \in 1 .. Len(s) - 1
                     PROVE  r[k] = s[IF k < i THEN k ELSE k + 1]
        BY <2>6
      <3>4. CASE k < i
        BY <2>2, <3>1, <3>2, <3>4
      <3>5. CASE k >= i
        <4>1. k \in 1 .. Len(before) + Len(after) /\ ~(k <= Len(before))
              /\ k - (i - 1) \in 1 .. Len(s) - i
          BY <2>2, <3>2, <3>5
        <4>2. i + (k - (i - 1)) = k + 1
          BY <2>2
        <4>3. r[k] = after[k - (i - 1)]
          BY <3>1, <3>2, <4>1
        <4>. QED
          BY <3>2, <3>5, <4>1, <4>2, <4>3
      <3>. QED
        BY <2>2, <3>4, <3>5
    <2>8. \A k \in DOMAIN r : /\ (IF k < i THEN k ELSE k + 1) \in DOMAIN s
                              /\ (IF k < i THEN k ELSE k + 1) # i
      BY <2>2, <2>6
    <2>9. \A k \in DOMAIN s \ {i} : IF k < i THEN k \in DOMAIN r /\ r[k] = s[k]
                                    ELSE k - 1 \in DOMAIN r /\ r[k - 1] = s[k]
      <3>1. SUFFICES ASSUME NEW k \in 1 .. Len(s), k # i
                     PROVE  IF k < i THEN k \in DOMAIN r /\ r[k] = s[k]
                            ELSE k - 1 \in DOMAIN r /\ r[k - 1] = s[k]
        BY <2>2
      <3>2. CASE k < i
        BY <2>2, <2>6, <2>7, <3>2
      <3>3. CASE k > i
        <4>1. k - 1 \in DOMAIN r /\ ~(k - 1 < i) /\ (k - 1) + 1 = k /\ ~(k < i)
          BY <2>2, <2>6, <3>3
        <4>. QED
          BY <2>7, <4>1
      <3>. QED
        BY <2>2, <3>1, <3>2, <3>3
    <2>10. ToSet(r) \subseteq ToSet(s)
      BY <2>7, <2>8 DEF ToSet
    <2>11. ToSet(s) \ {e} \subseteq ToSet(r)
      BY <2>1, <2>9 DEF ToSet
    <2>12. \A p, q \in DOMAIN r : p < q =>
              \E k, l \in DOMAIN s : k < l /\ r[p] = s[k] /\ r[q] = s[l]
      <3>1. SUFFICES ASSUME NEW p \in DOMAIN r, NEW q \in DOMAIN r, p < q
                     PROVE  \E k, l \in DOMAIN s : k < l /\ r[p] = s[k] /\ r[q] = s[l]
        OBVIOUS
      <3>2. (IF p < i THEN p ELSE p + 1) < (IF q < i THEN q ELSE q + 1)
        BY <2>2, <2>6, <3>1
      <3>. QED
        BY <2>7, <2>8, <3>2
    <2>13. ASSUME \A p, q \in DOMAIN s : s[p] = s[q] => p = q
           PROVE  ToSet(r) = ToSet(s) \ {e} /\ \A p, q \in DOMAIN r : r[p] = r[q] => p = q
      <3>1. \A k \in DOMAIN r : r[k] # e
        BY <2>1, <2>7, <2>8, <2>13
      <3>2. ToSet(r) = ToSet(s) \ {e}
        BY <2>10, <2>11, <3>1 DEF ToSet
      <3>3. ASSUME NEW p \in DOMAIN r, NEW q \in DOMAIN r, r[p] = r[q]
            PROVE  p = q
        <4>1. (IF p < i THEN p ELSE p + 1) = (IF q < i THEN q ELSE q + 1)
          BY <2>7, <2>8, <2>13, <3>3
        <4>. QED
          BY <2>2, <2>6, <4>1
      <3>. QED
        BY <3>2, <3>3
    <2>14. Head(s) # e => r # <<>> /\ Head(r) = Head(s)
      <3>1. SUFFICES ASSUME Head(s) # e
                     PROVE  r # <<>> /\ Head(r) = Head(s)
        OBVIOUS
      <3>2. i > 1 /\ 1 \in DOMAIN r /\ r[1] = s[1]
        BY <2>1, <2>2, <2>6, <2>7, <3>1
      <3>. QED
        BY <2>6, <3>2
    <2>. QED
      BY <1>2, <2>6, <2>10, <2>11, <2>12, <2>14, <2>13 DEF r
  <1>. QED
    BY <1>1, <1>2

-----------------------------------------------------------------------------
(* Types *)

UpdateType ==
    /\ status \in [Updates -> {"new", "queued", "held", "done", "failed"}]
    /\ stale \subseteq Updates /\ seenAtStart \in [Updates -> SUBSET Nat]

LineType == lock \in [Devices -> Seq(Updates)] /\ tasks \in [Devices -> Seq(Local)]

LinkType ==
    /\ running \in [Devices -> Updates \union {None, "reflected"}]
    /\ phase \in [Devices -> {"idle", "begin", "waiting", "open", "upload",
                             "execute", "commit", "skip"}]
    /\ connected \in [Devices -> BOOLEAN] /\ losses \in Nat
    /\ holder \in Devices \union {None} /\ staged \in Seq(Updates)

MessageType ==
    /\ codec \in [Devices -> Seq(Answers)] /\ backlog \in [Devices -> Seq(Answers)]
    /\ up \in [Devices -> Seq(Requests)] /\ down \in [Devices -> Seq(Answers)]

ContactType ==
    /\ applied \in [Devices -> SUBSET Nat] /\ value \in [Devices -> Nat]
    /\ downloads \in [Devices -> SUBSET Nat] /\ orphans \in [Devices -> SUBSET Nat]
    /\ acking \in [Devices -> SUBSET (Nat \X BOOLEAN)] /\ nonces \in [Devices -> SUBSET Nat]
    /\ missed \in [Devices -> SUBSET Nat]

LogType ==
    /\ log \in Seq([update : Updates, seen : SUBSET Nat])
    /\ mailbox \in [Devices -> Seq(Nat)]

(* The types, in the parts that steps are checked by. *)
LEMMA TypeParts ==
    /\ TypeOK <=> UpdateType /\ LineType /\ LinkType /\ MessageType /\ ContactType /\ LogType
    /\ TypeOK' <=> UpdateType' /\ LineType' /\ LinkType' /\ MessageType' /\ ContactType' /\ LogType'
  BY DEF TypeOK, UpdateType, LineType, LinkType, MessageType, ContactType, LogType

(* The parts of the inductive invariant, for one device or update. *)
LEMMA Parts ==
    ASSUME IndInv
    PROVE  /\ UpdateType /\ LineType /\ LinkType /\ MessageType /\ ContactType /\ LogType
           /\ \A u \in Updates : InLine(u) /\ Noted(u)
           /\ \A d \in Devices : /\ Offline(d) /\ Line(d) /\ Runs(d) /\ Backlog(d)
                                 /\ Dialog(d) /\ Entries(d) /\ ReadAll(d) /\ Covered(d)
  BY TypeParts DEF IndInv

(* Every update belongs to a device. *)
LEMMA OwnerType ==
    ASSUME ContactSyncAssumption
    PROVE  /\ \A u \in Updates : Owner[u] \in Devices
           /\ \A u \in Local : u \in Updates /\ u \notin Remote
           /\ \A u \in Remote : u \in Updates
           /\ None \notin Updates /\ "reflected" \notin Updates /\ None \notin Devices
           /\ None # "reflected"
  BY DEF ContactSyncAssumption, Local

(* The messages that are sent have their type. *)
LEMMA MessageTypes ==
    /\ \A n \in Nat : /\ Msg("begin", n) \in Requests /\ Msg("commit", n) \in Requests
                      /\ Msg("ack", n) \in Requests
                      /\ Msg("ack", n) \in Answers /\ Msg("rejected", n) \in Answers
                      /\ Msg("ended", n) \in Answers /\ Msg("reflectAck", n) \in Answers
                      /\ Msg("commitAck", n) \in Answers /\ Msg("reflected", n) \in Answers
    /\ \A u \in Updates : Msg("reflect", u) \in Requests
    /\ \A m \in Answers : m.of \in Nat
    /\ \A m \in Requests : m.kind = "reflect" => m.of \in Updates
    /\ \A m \in Requests : m.kind # "reflect" => m.of \in Nat
  BY DEF Msg, Requests, Answers

(* The message a task reads is the first one of its backlog or, if that is  *)
(* empty, of those that have arrived.                                       *)
LEMMA ReadFacts ==
    ASSUME MessageType, NEW d \in Devices, Reading(d)
    PROVE  /\ Message(d) \in Answers
           /\ \/ codec[d] # <<>> /\ Message(d) = Head(codec[d])
              \/ codec[d] = <<>> /\ down[d] # <<>> /\ Message(d) = Head(down[d])
  <1>1. codec[d] \in Seq(Answers) /\ down[d] \in Seq(Answers)
    BY DEF MessageType
  <1>2. codec[d] = <<>> => down[d] # <<>>
    BY <1>1 DEF Reading
  <1>. QED
    BY <1>1, <1>2 DEF Message, FromBacklog

(* The updates and what was noted for them. *)
LEMMA UpdateTypeStep ==
    ASSUME ContactSyncAssumption, IndInv, [Next]_vars
    PROVE  UpdateType'
  <1>0. UpdateType /\ LineType /\ LinkType /\ MessageType /\ ContactType /\ LogType
    BY Parts
  <1>1. ASSUME NEW u \in Updates, RequestLocal(u)
        PROVE  UpdateType'
    BY <1>0, OwnerType, <1>1
    DEF RequestLocal, updateVars, reflectedVars, contactVars, taskVars,
        linkVars, mediatorVars, UpdateType, ContactType
  <1>2. ASSUME NEW u \in Updates, StartIncoming(u)
        PROVE  UpdateType'
    BY <1>0, OwnerType, <1>2
    DEF StartIncoming, Run, updateVars, reflectedVars, contactVars, taskVars,
        linkVars, mediatorVars, UpdateType, ContactType
  <1>3. ASSUME NEW u \in Updates, UpdateFromRemote(u)
        PROVE  UpdateType'
    BY <1>0, OwnerType, <1>3
    DEF UpdateFromRemote, updateVars, reflectedVars, contactVars, taskVars,
        linkVars, mediatorVars, UpdateType, ContactType
  <1>4. ASSUME NEW u \in Updates, HoldLocal(u)
        PROVE  UpdateType'
    BY <1>0, OwnerType, <1>4
    DEF HoldLocal, Served, NoteVersion, updateVars, reflectedVars, contactVars,
        taskVars, linkVars, mediatorVars, UpdateType, ContactType
  <1>5. ASSUME NEW u \in Updates, AbortLocal(u)
        PROVE  UpdateType'
    BY <1>0, OwnerType, <1>5
    DEF AbortLocal, Served, updateVars, reflectedVars, contactVars, taskVars,
        linkVars, mediatorVars, UpdateType, ContactType
  <1>6. ASSUME NEW u \in Updates, HoldRemote(u)
        PROVE  UpdateType'
    BY <1>0, OwnerType, <1>6
    DEF HoldRemote, Served, NoteVersion, Phase, Write, updateVars,
        reflectedVars, contactVars, taskVars, linkVars, mediatorVars,
        UpdateType, ContactType
  <1>7. ASSUME NEW d \in Devices, StartTask(d)
        PROVE  UpdateType'
    BY <1>0, OwnerType, <1>7
    DEF StartTask, Run, Phase, Write, updateVars, reflectedVars, contactVars,
        taskVars, linkVars, mediatorVars, UpdateType, ContactType
  <1>8. ASSUME NEW d \in Devices, ReadAck(d)
        PROVE  UpdateType'
    BY <1>0, OwnerType, <1>8
    DEF ReadAck, Phase, Consume, updateVars, reflectedVars, contactVars,
        taskVars, linkVars, mediatorVars, UpdateType, ContactType
  <1>9. ASSUME NEW d \in Devices, OpenTransaction(d)
        PROVE  UpdateType'
    BY <1>0, OwnerType, <1>9
    DEF OpenTransaction, Execute, Phase, Write, Skip, CloseConnection, updateVars,
        reflectedVars, contactVars, taskVars, linkVars, mediatorVars,
        UpdateType, ContactType
  <1>10. ASSUME NEW d \in Devices, ReadRejected(d)
        PROVE  UpdateType'
    BY <1>0, OwnerType, <1>10
    DEF ReadRejected, Phase, Consume, updateVars, reflectedVars, contactVars,
        taskVars, linkVars, mediatorVars, UpdateType, ContactType
  <1>11. ASSUME NEW d \in Devices, ReadEnded(d)
        PROVE  UpdateType'
    BY <1>0, OwnerType, <1>11
    DEF ReadEnded, Consume, Retry, Phase, Write, Conflict, Finish, Returned,
        CloseConnection, updateVars, reflectedVars, contactVars, taskVars,
        linkVars, mediatorVars, UpdateType, ContactType
  <1>12. ASSUME NEW d \in Devices, ReadReflectAck(d)
        PROVE  UpdateType'
    BY <1>0, OwnerType, <1>12
    DEF ReadReflectAck, Consume, Phase, Write, updateVars, reflectedVars,
        contactVars, taskVars, linkVars, mediatorVars, UpdateType, ContactType
  <1>13. ASSUME NEW d \in Devices, ReadCommitAck(d)
        PROVE  UpdateType'
    BY <1>0, OwnerType, <1>13
    DEF ReadCommitAck, Set, Finish, Returned, Phase, updateVars, reflectedVars,
        contactVars, taskVars, linkVars, mediatorVars, UpdateType, ContactType
  <1>14. ASSUME NEW d \in Devices, ReadSkipAck(d)
        PROVE  UpdateType'
    BY <1>0, OwnerType, <1>14
    DEF ReadSkipAck, Conflict, Finish, Returned, Phase, CloseConnection,
        updateVars, reflectedVars, contactVars, taskVars, linkVars,
        mediatorVars, UpdateType, ContactType
  <1>15. ASSUME NEW d \in Devices, ReadOther(d)
        PROVE  UpdateType'
    BY <1>0, OwnerType, <1>15
    DEF ReadOther, Consume, updateVars, reflectedVars, contactVars, taskVars,
        linkVars, mediatorVars, UpdateType, ContactType
  <1>16. ASSUME NEW d \in Devices, ReadReflected(d)
        PROVE  UpdateType'
    BY <1>0, OwnerType, <1>16
    DEF ReadReflected, Consume, Apply, Set, updateVars, reflectedVars,
        contactVars, taskVars, linkVars, mediatorVars, UpdateType, ContactType
  <1>17. ASSUME NEW d \in Devices, RunReflected(d)
        PROVE  UpdateType'
    BY <1>0, OwnerType, <1>17
    DEF RunReflected, Run, Apply, Set, updateVars, reflectedVars, contactVars,
        taskVars, linkVars, mediatorVars, UpdateType, ContactType
  <1>18. ASSUME NEW d \in Devices, Ignore(d)
        PROVE  UpdateType'
    BY <1>0, OwnerType, <1>18
    DEF Ignore, updateVars, reflectedVars, contactVars, taskVars, linkVars,
        mediatorVars, UpdateType, ContactType
  <1>19. ASSUME NEW d \in Devices, NEW entry \in downloads[d] \union orphans[d], FinishDownload(d, entry)
        PROVE  UpdateType'
    BY <1>0, OwnerType, <1>19
    DEF FinishDownload, Applied, Missed, Set, updateVars, reflectedVars, contactVars, taskVars,
        linkVars, mediatorVars, UpdateType, ContactType
  <1>20. ASSUME NEW d \in Devices, NEW a \in acking[d], Acknowledge(d, a[1], a[2])
        PROVE  UpdateType'
    BY <1>0, OwnerType, <1>20
    DEF Acknowledge, Write, Returned, updateVars, reflectedVars, contactVars,
        taskVars, linkVars, mediatorVars, UpdateType, ContactType
  <1>21. ASSUME NEW d \in Devices, Receive(d)
        PROVE  UpdateType'
    BY <1>0, OwnerType, <1>21
    DEF Receive, Begin, Stage, Answer, Commit, updateVars, reflectedVars,
        contactVars, taskVars, linkVars, mediatorVars, UpdateType, ContactType
  <1>22. ASSUME NEW d \in Devices, LoseConnection(d)
        PROVE  UpdateType'
    BY <1>0, OwnerType, <1>22
    DEF LoseConnection, CloseConnection, updateVars, reflectedVars, contactVars,
        taskVars, linkVars, mediatorVars, UpdateType, ContactType
  <1>23. ASSUME NEW d \in Devices, Reconnect(d)
        PROVE  UpdateType'
    BY <1>0, OwnerType, <1>23
    DEF Reconnect, updateVars, reflectedVars, contactVars, taskVars, linkVars,
        mediatorVars, UpdateType, ContactType
  <1>24. CASE UNCHANGED vars
    BY <1>0, OwnerType, <1>24
    DEF vars, updateVars, reflectedVars, contactVars, taskVars, linkVars,
        mediatorVars, UpdateType, ContactType
  <1>25. ASSUME NEW d \in Devices, EndUpload(d)
        PROVE  UpdateType'
    BY <1>0, OwnerType, <1>25
    DEF EndUpload, Execute, Phase, Write, CloseConnection, updateVars,
        reflectedVars, contactVars, taskVars, linkVars, mediatorVars,
        UpdateType, ContactType
  <1>. QED
    BY <1>1, <1>2, <1>3, <1>4, <1>5, <1>6, <1>7, <1>8, <1>9, <1>10, <1>11,
       <1>12, <1>13, <1>14, <1>15, <1>16, <1>17, <1>18, <1>19, <1>20, <1>21,
       <1>22, <1>23, <1>24, <1>25
    DEF Next, Controller, Transaction, Reflection, Blobs

(* Whatever holds the lock is the first in line. *)
LEMMA TransactionFacts ==
    ASSUME ContactSyncAssumption, IndInv, NEW d \in Devices, phase[d] # "idle"
    PROVE  /\ running[d] \in Updates /\ Owner[running[d]] = d /\ status[running[d]] = "held"
           /\ lock[d] # <<>> /\ Head(lock[d]) = running[d] /\ running[d] \in ToSet(lock[d])
           /\ running[d] \in Local => tasks[d] = <<running[d]>>
           /\ running[d] \in Remote => tasks[d] = <<>>
           /\ connected[d]
  <1>1. running[d] \in Updates /\ Owner[running[d]] = d /\ status[running[d]] = "held"
    BY Parts DEF Runs
  <1>2. InLine(running[d]) /\ Line(d) /\ Offline(d) /\ LineType
    BY <1>1, Parts
  <1>3. running[d] \in ToSet(lock[d]) /\ Head(lock[d]) = running[d]
    BY <1>1, <1>2 DEF InLine
  <1>4. lock[d] # <<>>
    BY <1>2, <1>3, Elements DEF LineType
  <1>5. running[d] \in Remote => tasks[d] = <<>>
    <2>1. ASSUME NEW u \in Local, Owner[u] = d, status[u] = "held"
          PROVE  running[d] = u
      BY <1>3, <2>1, Parts, OwnerType DEF InLine
    <2>. QED
      BY <1>2, <2>1, OwnerType DEF Line
  <1>. QED
    BY <1>1, <1>2, <1>3, <1>4, <1>5 DEF InLine, Offline

(* An update that is served is first in the line of its device. *)
LEMMA ServedFacts ==
    ASSUME ContactSyncAssumption, IndInv, NEW u \in Updates, Served(u)
    PROVE  /\ Owner[u] \in Devices /\ status[u] = "queued"
           /\ lock[Owner[u]] # <<>> /\ Head(lock[Owner[u]]) = u /\ u \in ToSet(lock[Owner[u]])
  <1>1. Owner[u] \in Devices /\ u \in ToSet(lock[Owner[u]])
    BY OwnerType, Parts DEF Served, InLine
  <1>. QED
    BY <1>1, Parts, Elements DEF Served, LineType

(* What is left after the connection of d is closed. *)
LEMMA CloseFacts ==
    ASSUME ContactSyncAssumption, IndInv, NEW d \in Devices, CloseConnection(d)
    PROVE  /\ ~connected'[d] /\ running'[d] = None /\ phase'[d] = "idle"
           /\ codec'[d] = <<>> /\ backlog'[d] = <<>> /\ up'[d] = <<>> /\ down'[d] = <<>>
           /\ acking'[d] = {} /\ downloads'[d] = {}
           /\ orphans'[d] = orphans[d] \union downloads[d]
           /\ \A e \in Devices \ {d} :
                 /\ connected'[e] = connected[e] /\ running'[e] = running[e]
                 /\ phase'[e] = phase[e] /\ codec'[e] = codec[e] /\ backlog'[e] = backlog[e]
                 /\ up'[e] = up[e] /\ acking'[e] = acking[e]
                 /\ downloads'[e] = downloads[e] /\ orphans'[e] = orphans[e]
                 /\ lock'[e] = lock[e]
                 /\ down'[e] = down[e] \/ (connected[e] /\ down'[e] = Append(down[e], Bare("ended")))
           /\ holder' = IF holder = d THEN None ELSE holder
           /\ staged' = IF holder = d THEN <<>> ELSE staged
           /\ lock'[d] = IF running[d] \in Remote THEN Without(lock[d], running[d]) ELSE lock[d]
           /\ \A v \in Updates :
                 status'[v] = IF v = running[d] /\ v \in Remote THEN "new" ELSE status[v]
  <1>1. LineType /\ LinkType /\ MessageType /\ ContactType
    BY Parts
  <1>2. down' = [e \in Devices |-> IF e = d THEN <<>>
                                   ELSE IF holder = d /\ connected[e]
                                   THEN Append(down[e], Bare("ended")) ELSE down[e]]
    BY <1>1 DEF CloseConnection, MessageType
  <1>. QED
    BY <1>1, <1>2 DEF CloseConnection, Phase, LineType, LinkType, MessageType, ContactType

(* Closing a connection keeps the type of the lines. *)
LEMMA CloseLineType ==
    ASSUME ContactSyncAssumption, IndInv, NEW d \in Devices, CloseConnection(d)
    PROVE  lock' \in [Devices -> Seq(Updates)]
  <1>1. LineType /\ Line(d)
    BY Parts
  <1>2. Without(lock[d], running[d]) \in Seq(Updates)
    BY <1>1, WithoutFacts DEF LineType, Line
  <1>. QED
    BY <1>1, <1>2 DEF CloseConnection, LineType

(* Closing a connection keeps the type of the messages. *)
LEMMA CloseMessageType ==
    ASSUME ContactSyncAssumption, IndInv, NEW d \in Devices, CloseConnection(d)
    PROVE  MessageType'
  <1>1. MessageType
    BY Parts
  <1>2. \A e \in Devices : Append(down[e], Bare("ended")) \in Seq(Answers)
    BY <1>1, MessageTypes, AppendFacts DEF MessageType, Bare
  <1>3. down' \in [Devices -> Seq(Answers)]
    <2>1. down' = [e \in Devices |-> down'[e]]
      BY <1>1 DEF CloseConnection, MessageType
    <2>2. \A e \in Devices : down'[e] \in Seq(Answers)
      <3>1. /\ down'[d] = <<>>
            /\ \A e \in Devices \ {d} :
                  down'[e] = down[e] \/ down'[e] = Append(down[e], Bare("ended"))
        BY CloseFacts
      <3>2. ASSUME NEW e \in Devices
            PROVE  down'[e] \in Seq(Answers)
        <4>1. CASE e = d
          BY <3>1, <4>1, EmptySeq
        <4>2. CASE e # d
          <5>1. down[e] \in Seq(Answers)
            BY <1>1 DEF MessageType
          <5>. QED
            BY <1>2, <3>1, <4>2, <5>1
        <4>. QED
          BY <4>1, <4>2
      <3>. QED
        BY <3>2
    <2>. QED
      BY <2>1, <2>2
  <1>. QED
    BY <1>1, <1>3 DEF CloseConnection, MessageType

(* The end of an update keeps the type of the lines. *)
LEMMA FinishLineType ==
    ASSUME ContactSyncAssumption, IndInv, NEW d \in Devices, NEW result,
           Finish(d, result), phase[d] # "idle"
    PROVE  LineType'
  <1>1. LineType
    BY Parts
  <1>2. Tail(lock[d]) \in Seq(Updates)
    BY <1>1, TransactionFacts, TailFacts DEF LineType
  <1>3. running[d] \in Local => Tail(tasks[d]) \in Seq(Local)
    <2>1. running[d] \in Local => tasks[d] # <<>>
      <3>1. running[d] \in Local => tasks[d] = <<running[d]>>
        BY TransactionFacts
      <3>. QED
        BY <3>1
    <2>2. tasks[d] \in Seq(Local)
      BY <1>1 DEF LineType
    <2>. QED
      BY <2>1, <2>2, TailFacts
  <1>. QED
    BY <1>1, <1>2, <1>3 DEF Finish, LineType

(* A failed precondition keeps the type of the lines. *)
LEMMA ConflictLineType ==
    ASSUME ContactSyncAssumption, IndInv, NEW d \in Devices, Conflict(d), phase[d] # "idle"
    PROVE  LineType'
  <1>1. CASE Finish(d, "failed")
    BY <1>1, FinishLineType
  <1>2. CASE CloseConnection(d) /\ UNCHANGED tasks
    BY <1>2, Parts, CloseLineType DEF LineType
  <1>. QED
    BY <1>1, <1>2 DEF Conflict

(* The lines of the lock and of the task queue. *)
LEMMA LineTypeStep ==
    ASSUME ContactSyncAssumption, IndInv, [Next]_vars
    PROVE  LineType'
  <1>0. UpdateType /\ LineType /\ LinkType /\ MessageType /\ ContactType /\ LogType
    BY Parts
  <1>1. ASSUME NEW u \in Updates, RequestLocal(u)
        PROVE  LineType'
    <2>1. Append(lock[Owner[u]], u) \in Seq(Updates)
      BY <1>0, OwnerType, AppendFacts DEF LineType
    <2>. QED
      BY <1>0, <1>1, <2>1 DEF RequestLocal, taskVars, LineType
  <1>2. ASSUME NEW u \in Updates, StartIncoming(u)
        PROVE  LineType'
    BY <1>0, OwnerType, <1>2
    DEF StartIncoming, Run, updateVars, reflectedVars, contactVars, taskVars,
        linkVars, mediatorVars, LineType
  <1>3. ASSUME NEW u \in Updates, UpdateFromRemote(u)
        PROVE  LineType'
    <2>1. Append(lock[Owner[u]], u) \in Seq(Updates)
      BY <1>0, OwnerType, AppendFacts DEF LineType
    <2>. QED
      BY <1>0, <1>3, <2>1 DEF UpdateFromRemote, taskVars, LineType
  <1>4. ASSUME NEW u \in Updates, HoldLocal(u)
        PROVE  LineType'
    <2>1. Append(tasks[Owner[u]], u) \in Seq(Local)
      BY <1>0, <1>4, OwnerType, AppendFacts DEF HoldLocal, LineType
    <2>. QED
      BY <1>0, <1>4, <2>1 DEF HoldLocal, contactVars, LineType
  <1>5. ASSUME NEW u \in Updates, AbortLocal(u)
        PROVE  LineType'
    <2>1. Tail(lock[Owner[u]]) \in Seq(Updates)
      BY <1>0, <1>5, ServedFacts, TailFacts DEF AbortLocal, LineType
    <2>. QED
      BY <1>0, <1>5, <2>1 DEF AbortLocal, taskVars, LineType
  <1>6. ASSUME NEW u \in Updates, HoldRemote(u)
        PROVE  LineType'
    BY <1>0, OwnerType, <1>6
    DEF HoldRemote, Served, NoteVersion, Phase, Write, updateVars,
        reflectedVars, contactVars, taskVars, linkVars, mediatorVars, LineType
  <1>7. ASSUME NEW d \in Devices, StartTask(d)
        PROVE  LineType'
    BY <1>0, OwnerType, <1>7
    DEF StartTask, Run, Phase, Write, updateVars, reflectedVars, contactVars,
        taskVars, linkVars, mediatorVars, LineType
  <1>8. ASSUME NEW d \in Devices, ReadAck(d)
        PROVE  LineType'
    BY <1>0, OwnerType, <1>8
    DEF ReadAck, Phase, Consume, updateVars, reflectedVars, contactVars,
        taskVars, linkVars, mediatorVars, LineType
  <1>9. ASSUME NEW d \in Devices, OpenTransaction(d)
        PROVE  LineType'
    <2>1. UNCHANGED tasks /\ (UNCHANGED lock \/ CloseConnection(d))
      BY <1>9 DEF OpenTransaction
    <2>. QED
      BY <1>0, <2>1, CloseLineType DEF LineType
  <1>10. ASSUME NEW d \in Devices, ReadRejected(d)
        PROVE  LineType'
    BY <1>0, OwnerType, <1>10
    DEF ReadRejected, Phase, Consume, updateVars, reflectedVars, contactVars,
        taskVars, linkVars, mediatorVars, LineType
  <1>11. ASSUME NEW d \in Devices, ReadEnded(d)
        PROVE  LineType'
    <2>1. phase[d] # "idle" /\ (UNCHANGED <<lock, tasks>> \/ Conflict(d))
      BY <1>11 DEF ReadEnded
    <2>. QED
      BY <1>0, <2>1, ConflictLineType DEF LineType
  <1>12. ASSUME NEW d \in Devices, ReadReflectAck(d)
        PROVE  LineType'
    BY <1>0, OwnerType, <1>12
    DEF ReadReflectAck, Consume, Phase, Write, updateVars, reflectedVars,
        contactVars, taskVars, linkVars, mediatorVars, LineType
  <1>13. ASSUME NEW d \in Devices, ReadCommitAck(d)
        PROVE  LineType'
    <2>1. Finish(d, "done") /\ phase[d] # "idle"
      BY <1>13 DEF ReadCommitAck
    <2>. QED
      BY <2>1, FinishLineType
  <1>14. ASSUME NEW d \in Devices, ReadSkipAck(d)
        PROVE  LineType'
    <2>1. Conflict(d) /\ phase[d] # "idle"
      BY <1>14 DEF ReadSkipAck
    <2>. QED
      BY <2>1, ConflictLineType
  <1>15. ASSUME NEW d \in Devices, ReadOther(d)
        PROVE  LineType'
    BY <1>0, OwnerType, <1>15
    DEF ReadOther, Consume, updateVars, reflectedVars, contactVars, taskVars,
        linkVars, mediatorVars, LineType
  <1>16. ASSUME NEW d \in Devices, ReadReflected(d)
        PROVE  LineType'
    BY <1>0, OwnerType, <1>16
    DEF ReadReflected, Consume, Apply, Set, updateVars, reflectedVars,
        contactVars, taskVars, linkVars, mediatorVars, LineType
  <1>17. ASSUME NEW d \in Devices, RunReflected(d)
        PROVE  LineType'
    BY <1>0, OwnerType, <1>17
    DEF RunReflected, Run, Apply, Set, updateVars, reflectedVars, contactVars,
        taskVars, linkVars, mediatorVars, LineType
  <1>18. ASSUME NEW d \in Devices, Ignore(d)
        PROVE  LineType'
    BY <1>0, OwnerType, <1>18
    DEF Ignore, updateVars, reflectedVars, contactVars, taskVars, linkVars,
        mediatorVars, LineType
  <1>19. ASSUME NEW d \in Devices, NEW entry \in downloads[d] \union orphans[d], FinishDownload(d, entry)
        PROVE  LineType'
    BY <1>0, OwnerType, <1>19
    DEF FinishDownload, Applied, Missed, Set, updateVars, reflectedVars, contactVars, taskVars,
        linkVars, mediatorVars, LineType
  <1>20. ASSUME NEW d \in Devices, NEW a \in acking[d], Acknowledge(d, a[1], a[2])
        PROVE  LineType'
    BY <1>0, OwnerType, <1>20
    DEF Acknowledge, Write, Returned, updateVars, reflectedVars, contactVars,
        taskVars, linkVars, mediatorVars, LineType
  <1>21. ASSUME NEW d \in Devices, Receive(d)
        PROVE  LineType'
    BY <1>0, OwnerType, <1>21
    DEF Receive, Begin, Stage, Answer, Commit, updateVars, reflectedVars,
        contactVars, taskVars, linkVars, mediatorVars, LineType
  <1>22. ASSUME NEW d \in Devices, LoseConnection(d)
        PROVE  LineType'
    <2>1. UNCHANGED tasks /\ CloseConnection(d)
      BY <1>22 DEF LoseConnection
    <2>. QED
      BY <1>0, <2>1, CloseLineType DEF LineType
  <1>23. ASSUME NEW d \in Devices, Reconnect(d)
        PROVE  LineType'
    <2>1. tasks[d] # <<>> => lock[d] # <<>>
      <3>1. ASSUME NEW v \in Local, Owner[v] = d, status[v] = "held"
            PROVE  lock[d] # <<>>
        BY <1>0, <3>1, Parts, OwnerType, Elements DEF InLine, LineType
      <3>. QED
        BY <3>1, Parts DEF Line
    <2>2. tasks[d] # <<>> => Tail(lock[d]) \in Seq(Updates)
      BY <1>0, <2>1, TailFacts DEF LineType
    <2>. QED
      BY <1>0, <1>23, <2>2 DEF Reconnect, LineType
  <1>24. CASE UNCHANGED vars
    BY <1>0, OwnerType, <1>24
    DEF vars, updateVars, reflectedVars, contactVars, taskVars, linkVars,
        mediatorVars, LineType
  <1>25. ASSUME NEW d \in Devices, EndUpload(d)
        PROVE  LineType'
    <2>1. UNCHANGED tasks /\ (UNCHANGED lock \/ CloseConnection(d))
      BY <1>25 DEF EndUpload
    <2>. QED
      BY <1>0, <2>1, CloseLineType DEF LineType
  <1>. QED
    BY <1>1, <1>2, <1>3, <1>4, <1>5, <1>6, <1>7, <1>8, <1>9, <1>10, <1>11,
       <1>12, <1>13, <1>14, <1>15, <1>16, <1>17, <1>18, <1>19, <1>20, <1>21,
       <1>22, <1>23, <1>24, <1>25
    DEF Next, Controller, Transaction, Reflection, Blobs

(* Closing a connection keeps the type of what runs. *)
LEMMA CloseLinkType ==
    ASSUME ContactSyncAssumption, IndInv, NEW d \in Devices, CloseConnection(d)
    PROVE  /\ running' \in [Devices -> Updates \union {None, "reflected"}]
           /\ phase' \in [Devices -> {"idle", "begin", "waiting", "open", "upload",
                             "execute", "commit", "skip"}]
           /\ connected' \in [Devices -> BOOLEAN]
           /\ holder' \in Devices \union {None} /\ staged' \in Seq(Updates)
  <1>1. LinkType
    BY Parts
  <1>2. holder' \in Devices \union {None} /\ staged' \in Seq(Updates)
    <2>1. /\ holder' = IF holder = d THEN None ELSE holder
          /\ staged' = IF holder = d THEN <<>> ELSE staged
      BY CloseFacts
    <2>. QED
      BY <1>1, <2>1 DEF LinkType
  <1>. QED
    BY <1>1, <1>2 DEF CloseConnection, LinkType, Phase

(* The end of an update keeps the type of what runs. *)
LEMMA FinishLinkType ==
    ASSUME LinkType, NEW d \in Devices, NEW result, Finish(d, result),
           UNCHANGED <<connected, losses, holder, staged>>
    PROVE  LinkType'
  BY DEF LinkType, Finish, Phase, Returned

(* A failed precondition keeps the type of what runs. *)
LEMMA ConflictLinkType ==
    ASSUME ContactSyncAssumption, IndInv, NEW d \in Devices, Conflict(d), losses' = losses
    PROVE  LinkType'
  <1>1. LinkType
    BY Parts
  <1>2. CASE Finish(d, "failed") /\ UNCHANGED <<connected, holder, staged>>
    BY <1>1, <1>2, FinishLinkType
  <1>3. CASE CloseConnection(d)
    BY <1>1, <1>3, CloseLinkType DEF LinkType
  <1>. QED
    BY <1>2, <1>3 DEF Conflict

(* What runs, and who holds the lock of the device group. *)
LEMMA LinkTypeStep ==
    ASSUME ContactSyncAssumption, IndInv, [Next]_vars
    PROVE  LinkType'
  <1>0. UpdateType /\ LineType /\ LinkType /\ MessageType /\ ContactType /\ LogType
    BY Parts
  <1>1. ASSUME NEW u \in Updates, RequestLocal(u)
        PROVE  LinkType'
    BY <1>0, OwnerType, <1>1
    DEF RequestLocal, updateVars, reflectedVars, contactVars, taskVars,
        linkVars, mediatorVars, LinkType
  <1>2. ASSUME NEW u \in Updates, StartIncoming(u)
        PROVE  LinkType'
    BY <1>0, OwnerType, <1>2
    DEF StartIncoming, Run, updateVars, reflectedVars, contactVars, taskVars,
        linkVars, mediatorVars, LinkType
  <1>3. ASSUME NEW u \in Updates, UpdateFromRemote(u)
        PROVE  LinkType'
    BY <1>0, OwnerType, <1>3
    DEF UpdateFromRemote, updateVars, reflectedVars, contactVars, taskVars,
        linkVars, mediatorVars, LinkType
  <1>4. ASSUME NEW u \in Updates, HoldLocal(u)
        PROVE  LinkType'
    BY <1>0, OwnerType, <1>4
    DEF HoldLocal, Served, NoteVersion, updateVars, reflectedVars, contactVars,
        taskVars, linkVars, mediatorVars, LinkType
  <1>5. ASSUME NEW u \in Updates, AbortLocal(u)
        PROVE  LinkType'
    BY <1>0, OwnerType, <1>5
    DEF AbortLocal, Served, updateVars, reflectedVars, contactVars, taskVars,
        linkVars, mediatorVars, LinkType
  <1>6. ASSUME NEW u \in Updates, HoldRemote(u)
        PROVE  LinkType'
    BY <1>0, OwnerType, <1>6
    DEF HoldRemote, Served, NoteVersion, Phase, Write, updateVars,
        reflectedVars, contactVars, taskVars, linkVars, mediatorVars, LinkType
  <1>7. ASSUME NEW d \in Devices, StartTask(d)
        PROVE  LinkType'
    <2>1. Head(tasks[d]) \in Updates
      BY <1>0, <1>7, TailFacts, OwnerType DEF StartTask, LineType
    <2>. QED
      BY <1>0, <2>1, <1>7 DEF StartTask, Run, Phase, linkVars, mediatorVars, LinkType
  <1>8. ASSUME NEW d \in Devices, ReadAck(d)
        PROVE  LinkType'
    BY <1>0, OwnerType, <1>8
    DEF ReadAck, Phase, Consume, updateVars, reflectedVars, contactVars,
        taskVars, linkVars, mediatorVars, LinkType
  <1>9. ASSUME NEW d \in Devices, OpenTransaction(d)
        PROVE  LinkType'
    <2>1. CASE CloseConnection(d)
      BY <1>0, <2>1, <1>9, CloseLinkType DEF OpenTransaction, LinkType
    <2>2. CASE ~CloseConnection(d)
      BY <1>0, <2>2, <1>9 DEF OpenTransaction, LinkType, Phase, Skip, Execute
    <2>. QED
      BY <2>1, <2>2
  <1>10. ASSUME NEW d \in Devices, ReadRejected(d)
        PROVE  LinkType'
    BY <1>0, OwnerType, <1>10
    DEF ReadRejected, Phase, Consume, updateVars, reflectedVars, contactVars,
        taskVars, linkVars, mediatorVars, LinkType
  <1>11. ASSUME NEW d \in Devices, ReadEnded(d)
        PROVE  LinkType'
    <2>1. CASE Conflict(d)
      BY <1>0, <2>1, <1>11, ConflictLinkType DEF ReadEnded
    <2>2. CASE ~Conflict(d)
      BY <1>0, <2>2, <1>11 DEF ReadEnded, Retry, Phase, LinkType
    <2>. QED
      BY <2>1, <2>2
  <1>12. ASSUME NEW d \in Devices, ReadReflectAck(d)
        PROVE  LinkType'
    BY <1>0, OwnerType, <1>12
    DEF ReadReflectAck, Consume, Phase, Write, updateVars, reflectedVars,
        contactVars, taskVars, linkVars, mediatorVars, LinkType
  <1>13. ASSUME NEW d \in Devices, ReadCommitAck(d)
        PROVE  LinkType'
    BY <1>0, OwnerType, <1>13
    DEF ReadCommitAck, Set, Finish, Returned, Phase, updateVars, reflectedVars,
        contactVars, taskVars, linkVars, mediatorVars, LinkType
  <1>14. ASSUME NEW d \in Devices, ReadSkipAck(d)
        PROVE  LinkType'
    <2>1. Conflict(d) /\ losses' = losses
      BY <1>14 DEF ReadSkipAck
    <2>. QED
      BY <2>1, ConflictLinkType
  <1>15. ASSUME NEW d \in Devices, ReadOther(d)
        PROVE  LinkType'
    BY <1>0, OwnerType, <1>15
    DEF ReadOther, Consume, updateVars, reflectedVars, contactVars, taskVars,
        linkVars, mediatorVars, LinkType
  <1>16. ASSUME NEW d \in Devices, ReadReflected(d)
        PROVE  LinkType'
    BY <1>0, OwnerType, <1>16
    DEF ReadReflected, Consume, Apply, Set, updateVars, reflectedVars,
        contactVars, taskVars, linkVars, mediatorVars, LinkType
  <1>17. ASSUME NEW d \in Devices, RunReflected(d)
        PROVE  LinkType'
    BY <1>0, OwnerType, <1>17
    DEF RunReflected, Run, Apply, Set, updateVars, reflectedVars, contactVars,
        taskVars, linkVars, mediatorVars, LinkType
  <1>18. ASSUME NEW d \in Devices, Ignore(d)
        PROVE  LinkType'
    BY <1>0, OwnerType, <1>18
    DEF Ignore, updateVars, reflectedVars, contactVars, taskVars, linkVars,
        mediatorVars, LinkType
  <1>19. ASSUME NEW d \in Devices, NEW entry \in downloads[d] \union orphans[d], FinishDownload(d, entry)
        PROVE  LinkType'
    BY <1>0, OwnerType, <1>19
    DEF FinishDownload, Applied, Missed, Set, updateVars, reflectedVars, contactVars, taskVars,
        linkVars, mediatorVars, LinkType
  <1>20. ASSUME NEW d \in Devices, NEW a \in acking[d], Acknowledge(d, a[1], a[2])
        PROVE  LinkType'
    BY <1>0, OwnerType, <1>20
    DEF Acknowledge, Write, Returned, updateVars, reflectedVars, contactVars,
        taskVars, linkVars, mediatorVars, LinkType
  <1>21. ASSUME NEW d \in Devices, Receive(d)
        PROVE  LinkType'
    <2>1. up[d] # <<>> /\ UNCHANGED <<running, phase, connected, losses>>
      BY <1>21 DEF Receive, taskVars, linkVars
    <2>2. Head(up[d]) \in Requests
      BY <1>0, <2>1, TailFacts DEF MessageType
    <2>3. Head(up[d]).kind = "reflect" => Append(staged, Head(up[d]).of) \in Seq(Updates)
      BY <1>0, <2>2, MessageTypes, AppendFacts DEF LinkType
    <2>4. holder' \in Devices \union {None} /\ staged' \in Seq(Updates)
      <3>1. CASE Begin(d)
        BY <1>0, <3>1 DEF Begin, LinkType
      <3>2. CASE Head(up[d]).kind = "reflect" /\ Stage(d, Head(up[d]).of)
        BY <1>0, <2>3, <3>2 DEF Stage, LinkType
      <3>3. CASE Commit(d)
        BY <1>0, <3>3 DEF Commit, LinkType
      <3>4. CASE UNCHANGED <<holder, staged>>
        BY <1>0, <3>4 DEF LinkType
      <3>. QED
        BY <1>21, <3>1, <3>2, <3>3, <3>4 DEF Receive
    <2>. QED
      BY <1>0, <2>1, <2>4 DEF LinkType
  <1>22. ASSUME NEW d \in Devices, LoseConnection(d)
        PROVE  LinkType'
    <2>1. CloseConnection(d) /\ losses' = losses + 1
      BY <1>22 DEF LoseConnection
    <2>. QED
      BY <1>0, <2>1, CloseLinkType DEF LinkType
  <1>23. ASSUME NEW d \in Devices, Reconnect(d)
        PROVE  LinkType'
    BY <1>0, OwnerType, <1>23
    DEF Reconnect, updateVars, reflectedVars, contactVars, taskVars, linkVars,
        mediatorVars, LinkType
  <1>24. CASE UNCHANGED vars
    BY <1>0, OwnerType, <1>24
    DEF vars, updateVars, reflectedVars, contactVars, taskVars, linkVars,
        mediatorVars, LinkType
  <1>25. ASSUME NEW d \in Devices, EndUpload(d)
        PROVE  LinkType'
    <2>1. CASE CloseConnection(d)
      BY <1>0, <2>1, <1>25, CloseLinkType DEF EndUpload, LinkType
    <2>2. CASE ~CloseConnection(d)
      BY <1>0, <2>2, <1>25 DEF EndUpload, LinkType, Phase, Execute
    <2>. QED
      BY <2>1, <2>2
  <1>. QED
    BY <1>1, <1>2, <1>3, <1>4, <1>5, <1>6, <1>7, <1>8, <1>9, <1>10, <1>11,
       <1>12, <1>13, <1>14, <1>15, <1>16, <1>17, <1>18, <1>19, <1>20, <1>21,
       <1>22, <1>23, <1>24, <1>25
    DEF Next, Controller, Transaction, Reflection, Blobs

UpType == up \in [Devices -> Seq(Requests)]
DownType == down \in [Devices -> Seq(Answers)]
BacklogType == codec \in [Devices -> Seq(Answers)] /\ backlog \in [Devices -> Seq(Answers)]

(* The type of the messages, in its parts. *)
LEMMA MessageParts ==
    /\ MessageType <=> UpType /\ DownType /\ BacklogType
    /\ MessageType' <=> UpType' /\ DownType' /\ BacklogType'
  BY DEF MessageType, UpType, DownType, BacklogType

(* A request keeps the type of the requests. *)
LEMMA WriteType ==
    ASSUME UpType, NEW d \in Devices, NEW m \in Requests, Write(d, m)
    PROVE  UpType'
  <1>1. Append(up[d], m) \in Seq(Requests)
    BY AppendFacts DEF UpType
  <1>. QED
    BY <1>1 DEF Write, UpType

(* An answer keeps the type of the answers. *)
LEMMA AnswerType ==
    ASSUME DownType, NEW d \in Devices, NEW m \in Answers, Answer(d, m)
    PROVE  DownType'
  <1>1. Append(down[d], m) \in Seq(Answers)
    BY AppendFacts DEF DownType
  <1>. QED
    BY <1>1 DEF Answer, DownType

(* Taking an answer keeps their type. *)
LEMMA TakeType ==
    ASSUME DownType, NEW d \in Devices, down[d] # <<>>, down' = [down EXCEPT ![d] = Tail(@)]
    PROVE  DownType'
  <1>1. Tail(down[d]) \in Seq(Answers)
    BY TailFacts DEF DownType
  <1>. QED
    BY <1>1 DEF DownType

(* What is read comes from the backlog of the task, or is the next answer. *)
LEMMA ConsumeFacts ==
    ASSUME MessageType, NEW d \in Devices, Reading(d), Consume(d)
    PROVE  \/ /\ codec[d] # <<>> /\ Message(d) = Head(codec[d])
              /\ codec' = [codec EXCEPT ![d] = Tail(@)] /\ down' = down
           \/ /\ codec[d] = <<>> /\ down[d] # <<>> /\ Message(d) = Head(down[d])
              /\ down' = [down EXCEPT ![d] = Tail(@)] /\ codec' = codec
  BY ReadFacts DEF Consume, FromBacklog

(* Reading keeps the type of the answers. *)
LEMMA ConsumeType ==
    ASSUME MessageType, NEW d \in Devices, Reading(d), Consume(d)
    PROVE  DownType' /\ codec' \in [Devices -> Seq(Answers)]
  <1>1. DownType /\ codec \in [Devices -> Seq(Answers)]
    BY MessageParts DEF BacklogType
  <1>2. CASE codec[d] # <<>> /\ codec' = [codec EXCEPT ![d] = Tail(@)] /\ down' = down
    <2>1. Tail(codec[d]) \in Seq(Answers)
      BY <1>1, <1>2, TailFacts
    <2>. QED
      BY <1>1, <1>2, <2>1 DEF DownType
  <1>3. CASE down[d] # <<>> /\ down' = [down EXCEPT ![d] = Tail(@)] /\ codec' = codec
    BY <1>1, <1>3, TakeType
  <1>. QED
    BY <1>2, <1>3, ConsumeFacts

(* Running a task keeps the type of the backlogs. *)
LEMMA RunType ==
    ASSUME BacklogType, NEW d \in Devices, NEW task, Run(d, task)
    PROVE  BacklogType'
  BY EmptySeq DEF BacklogType, Run

(* So does its return. *)
LEMMA ReturnedType ==
    ASSUME BacklogType, NEW d \in Devices, Returned(d)
    PROVE  BacklogType'
  <1>1. codec[d] \o backlog[d] \in Seq(Answers)
    BY ConcatProperties DEF BacklogType
  <1>. QED
    BY <1>1, EmptySeq DEF BacklogType, Returned

(* A failed precondition keeps the type of the messages. *)
LEMMA ConflictMessageType ==
    ASSUME ContactSyncAssumption, IndInv, NEW d \in Devices, Conflict(d),
           running[d] \in Local => DownType' /\ UNCHANGED up
    PROVE  MessageType'
  <1>1. MessageType
    BY Parts
  <1>2. CASE running[d] \in Local
    <2>1. Returned(d) /\ UNCHANGED up
      BY <1>2 DEF Conflict, Finish
    <2>. QED
      BY <1>1, <1>2, <2>1, ReturnedType, MessageParts DEF UpType
  <1>3. CASE running[d] \notin Local
    BY <1>3, CloseMessageType DEF Conflict
  <1>. QED
    BY <1>2, <1>3

(* What is reflected and told to the others after a commit. *)
LEMMA CommitDown ==
    ASSUME LinkType, MessageType, LogType, NEW d \in Devices, Commit(d)
    PROVE  /\ \A e \in Devices \ {d} :
                 \/ down'[e] = down[e] /\ ~connected[e]
                 \/ connected[e] /\ staged = <<>> /\ down'[e] = Append(down[e], Bare("ended"))
                 \/ /\ connected[e] /\ staged # <<>>
                    /\ down'[e] = Append(Append(down[e], Reflected(Len(log) + 1)), Bare("ended"))
           /\ down'[d] = Append(down[d], Msg("commitAck", Len(log) + Len(staged)))
           /\ \A e \in Devices : mailbox'[e] = IF e = d \/ staged = <<>> THEN mailbox[e]
                                               ELSE Append(mailbox[e], Len(log) + 1)
           /\ down' = [e \in Devices |-> down'[e]] /\ mailbox' = [e \in Devices |-> mailbox'[e]]
  <1>. DEFINE entry == Len(log) + 1
              entries == IF staged = <<>> THEN <<>> ELSE <<entry>>
              news == [i \in DOMAIN entries |-> Reflected(entries[i])] \o <<Bare("ended")>>
  <1>1. entry \in Nat /\ Reflected(entry) \in Answers /\ Bare("ended") \in Answers
    BY MessageTypes DEF LogType, Reflected, Bare
  <1>2. \A e \in Devices : down[e] \in Seq(Answers) /\ mailbox[e] \in Seq(Nat)
    BY DEF MessageType, LogType
  <1>3. /\ mailbox' = [e \in Devices |-> IF e = d THEN mailbox[e] ELSE mailbox[e] \o entries]
        /\ down' = [e \in Devices |->
                     IF e = d THEN Append(down[e], Msg("commitAck", Len(log) + Len(staged)))
                     ELSE IF connected[e] THEN down[e] \o news
                     ELSE down[e]]
    BY DEF Commit
  <1>4. CASE staged = <<>>
    <2>1. entries = <<>> /\ news = <<>> \o <<Bare("ended")>>
      BY <1>4
    <2>2. news = <<Bare("ended")>>
      BY <1>1, <2>1, ConcatEmptySeq
    <2>. HIDE DEF entries, news
    <2>3. \A e \in Devices : /\ down[e] \o news = Append(down[e], Bare("ended"))
                             /\ mailbox[e] \o entries = mailbox[e]
      BY <1>1, <1>2, <2>1, <2>2, AppendIsConcat, ConcatEmptySeq
    <2>. QED
      BY <1>3, <1>4, <2>3
  <1>5. CASE staged # <<>>
    <2>1. entries = <<entry>> /\ news = <<Reflected(entry)>> \o <<Bare("ended")>>
      BY <1>5
    <2>. HIDE DEF entries, news
    <2>2. \A e \in Devices : mailbox[e] \o entries = Append(mailbox[e], entry)
      BY <1>1, <1>2, <2>1, AppendIsConcat
    <2>3. ASSUME NEW e \in Devices
          PROVE  down[e] \o news = Append(Append(down[e], Reflected(entry)), Bare("ended"))
      <3>. DEFINE r == Reflected(entry)
                  b == Bare("ended")
      <3>1. r \in Answers /\ b \in Answers /\ down[e] \in Seq(Answers)
        BY <1>1, <1>2
      <3>. HIDE DEF r, b
      <3>2. down[e] \o (<<r>> \o <<b>>) = Append(Append(down[e], r), b)
        BY <3>1
      <3>. QED
        BY <2>1, <3>2 DEF r, b
    <2>. HIDE DEF entry
    <2>. QED
      BY <1>3, <1>5, <2>2, <2>3 DEF entry
  <1>. QED
    BY <1>4, <1>5

(* The backlogs and the connections. *)
LEMMA MessageTypeStep ==
    ASSUME ContactSyncAssumption, IndInv, [Next]_vars
    PROVE  MessageType'
  <1>0. UpdateType /\ LineType /\ LinkType /\ MessageType /\ ContactType /\ LogType
    BY Parts
  <1>1. ASSUME NEW u \in Updates, RequestLocal(u)
        PROVE  MessageType'
    <2>1. UNCHANGED <<codec, backlog, up, down>>
      BY <1>1 DEF RequestLocal, taskVars
    <2>. QED
      BY <1>0, <2>1 DEF MessageType
  <1>2. ASSUME NEW u \in Updates, StartIncoming(u)
        PROVE  MessageType'
    <2>1. Run(Owner[u], u) /\ UNCHANGED <<up, down>> /\ Owner[u] \in Devices
      BY <1>2, OwnerType DEF StartIncoming
    <2>. QED
      BY <1>0, <2>1, RunType, MessageParts DEF UpType, DownType
  <1>3. ASSUME NEW u \in Updates, UpdateFromRemote(u)
        PROVE  MessageType'
    <2>1. UNCHANGED <<codec, backlog, up, down>>
      BY <1>3 DEF UpdateFromRemote, taskVars
    <2>. QED
      BY <1>0, <2>1 DEF MessageType
  <1>4. ASSUME NEW u \in Updates, HoldLocal(u)
        PROVE  MessageType'
    <2>1. UNCHANGED <<codec, backlog, up, down>>
      BY <1>4 DEF HoldLocal, taskVars
    <2>. QED
      BY <1>0, <2>1 DEF MessageType
  <1>5. ASSUME NEW u \in Updates, AbortLocal(u)
        PROVE  MessageType'
    <2>1. UNCHANGED <<codec, backlog, up, down>>
      BY <1>5 DEF AbortLocal, taskVars
    <2>. QED
      BY <1>0, <2>1 DEF MessageType
  <1>6. ASSUME NEW u \in Updates, HoldRemote(u)
        PROVE  MessageType'
    <2>1. /\ Write(Owner[u], Msg("begin", 0)) /\ UNCHANGED <<codec, backlog, down>>
          /\ Owner[u] \in Devices
      BY <1>6, OwnerType DEF HoldRemote, Bare
    <2>. QED
      BY <1>0, <2>1, WriteType, MessageTypes, MessageParts DEF BacklogType, DownType
  <1>7. ASSUME NEW d \in Devices, StartTask(d)
        PROVE  MessageType'
    <2>1. Write(d, Msg("begin", 0)) /\ Run(d, Head(tasks[d])) /\ UNCHANGED down
      BY <1>7 DEF StartTask, Bare
    <2>. QED
      BY <1>0, <2>1, WriteType, RunType, MessageTypes, MessageParts DEF DownType
  <1>8. ASSUME NEW d \in Devices, ReadAck(d)
        PROVE  MessageType'
    <2>1. Reading(d) /\ Consume(d) /\ UNCHANGED <<backlog, up>>
      BY <1>8 DEF ReadAck
    <2>. QED
      BY <1>0, <2>1, ConsumeType, MessageParts DEF BacklogType, UpType
  <1>9. ASSUME NEW d \in Devices, OpenTransaction(d)
        PROVE  MessageType'
    <2>1. CASE CloseConnection(d)
      BY <2>1, CloseMessageType
    <2>2. CASE ~CloseConnection(d)
      <3>1. phase[d] # "idle" /\ UNCHANGED <<codec, backlog, down>>
        BY <2>2, <1>9 DEF OpenTransaction
      <3>2. \/ Write(d, Msg("reflect", running[d]))
            \/ Write(d, Msg("commit", 0))
            \/ UNCHANGED up
        BY <2>2, <1>9 DEF OpenTransaction, Execute, Skip, Bare
      <3>3. running[d] \in Updates
        BY <3>1, TransactionFacts
      <3>4. CASE UNCHANGED up
        BY <1>0, <3>1, <3>4 DEF MessageType
      <3>. QED
        BY <1>0, <3>1, <3>2, <3>3, <3>4, WriteType, MessageTypes, MessageParts DEF BacklogType, DownType
    <2>. QED
      BY <2>1, <2>2
  <1>10. ASSUME NEW d \in Devices, ReadRejected(d)
        PROVE  MessageType'
    <2>1. Reading(d) /\ Consume(d) /\ UNCHANGED <<backlog, up>>
      BY <1>10 DEF ReadRejected
    <2>. QED
      BY <1>0, <2>1, ConsumeType, MessageParts DEF BacklogType, UpType
  <1>11. ASSUME NEW d \in Devices, ReadEnded(d)
        PROVE  MessageType'
    <2>1. phase[d] = "waiting" /\ Reading(d)
      BY <1>11 DEF ReadEnded
    <2>2. codec[d] = <<>> /\ down[d] # <<>>
      BY <1>0, <2>1, Parts, ReadFacts DEF Backlog
    <2>3. CASE Conflict(d)
      <3>1. running[d] \in Local => UNCHANGED up
        BY <2>3 DEF Conflict
      <3>2. running[d] \in Local => down' = [down EXCEPT ![d] = Tail(@)]
        BY <2>2, <1>11 DEF ReadEnded, Consume, FromBacklog
      <3>. QED
        BY <1>0, <2>2, <2>3, <3>1, <3>2, TakeType, MessageParts, ConflictMessageType
    <2>4. CASE ~Conflict(d)
      <3>1. Consume(d) /\ Write(d, Msg("begin", 0)) /\ UNCHANGED backlog
        BY <2>4, <1>11 DEF ReadEnded, Retry, Bare
      <3>. QED
        BY <1>0, <2>1, <3>1, ConsumeType, WriteType, MessageTypes, MessageParts DEF BacklogType
    <2>. QED
      BY <2>3, <2>4
  <1>12. ASSUME NEW d \in Devices, ReadReflectAck(d)
        PROVE  MessageType'
    <2>1. Reading(d) /\ Consume(d) /\ Write(d, Msg("commit", 0)) /\ UNCHANGED backlog
      BY <1>12 DEF ReadReflectAck, Bare
    <2>. QED
      BY <1>0, <2>1, ConsumeType, WriteType, MessageTypes, MessageParts DEF BacklogType
  <1>13. ASSUME NEW d \in Devices, ReadCommitAck(d)
        PROVE  MessageType'
    <2>1. /\ phase[d] = "commit" /\ Reading(d) /\ Returned(d)
          /\ down' = [down EXCEPT ![d] = Tail(@)] /\ UNCHANGED up
      BY <1>13 DEF ReadCommitAck, Finish
    <2>2. codec[d] = <<>> /\ down[d] # <<>>
      BY <1>0, <2>1, Parts, ReadFacts DEF Backlog
    <2>. QED
      BY <1>0, <2>1, <2>2, TakeType, ReturnedType, MessageParts DEF UpType
  <1>14. ASSUME NEW d \in Devices, ReadSkipAck(d)
        PROVE  MessageType'
    <2>1. phase[d] = "skip" /\ Reading(d) /\ Conflict(d)
          /\ (running[d] \in Local => down' = [down EXCEPT ![d] = Tail(@)])
      BY <1>14 DEF ReadSkipAck
    <2>2. codec[d] = <<>> /\ down[d] # <<>>
      BY <1>0, <2>1, Parts, ReadFacts DEF Backlog
    <2>3. running[d] \in Local => UNCHANGED up
      BY <2>1 DEF Conflict
    <2>. QED
      BY <1>0, <2>1, <2>2, <2>3, TakeType, MessageParts, ConflictMessageType
  <1>15. ASSUME NEW d \in Devices, ReadOther(d)
        PROVE  MessageType'
    <2>1. /\ Reading(d) /\ Consume(d) /\ UNCHANGED up
          /\ backlog' = [backlog EXCEPT ![d] = Append(@, Message(d))]
      BY <1>15 DEF ReadOther
    <2>2. Append(backlog[d], Message(d)) \in Seq(Answers)
      BY <1>0, <2>1, ReadFacts, AppendFacts DEF MessageType
    <2>. QED
      BY <1>0, <2>1, <2>2, ConsumeType, MessageParts DEF BacklogType, UpType
  <1>16. ASSUME NEW d \in Devices, ReadReflected(d)
        PROVE  MessageType'
    <2>1. Reading(d) /\ Consume(d) /\ UNCHANGED <<backlog, up>>
      BY <1>16 DEF ReadReflected
    <2>. QED
      BY <1>0, <2>1, ConsumeType, MessageParts DEF BacklogType, UpType
  <1>17. ASSUME NEW d \in Devices, RunReflected(d)
        PROVE  MessageType'
    <2>1. /\ Run(d, "reflected") /\ UNCHANGED up /\ down[d] # <<>>
          /\ down' = [down EXCEPT ![d] = Tail(@)]
      BY <1>17 DEF RunReflected
    <2>. QED
      BY <1>0, <2>1, RunType, TakeType, MessageParts DEF UpType
  <1>18. ASSUME NEW d \in Devices, Ignore(d)
        PROVE  MessageType'
    <2>1. UNCHANGED <<up, codec>> /\ backlog[d] \o down[d] # <<>>
      BY <1>18 DEF Ignore
    <2>2. CASE backlog[d] # <<>>
      <3>1. backlog' = [backlog EXCEPT ![d] = Tail(@)] /\ UNCHANGED down
        BY <2>2, <1>18 DEF Ignore
      <3>2. Tail(backlog[d]) \in Seq(Answers)
        BY <1>0, <2>2, TailFacts DEF MessageType
      <3>. QED
        BY <1>0, <2>1, <3>1, <3>2 DEF MessageType
    <2>3. CASE backlog[d] = <<>>
      <3>1. down' = [down EXCEPT ![d] = Tail(@)] /\ UNCHANGED backlog
        BY <2>3, <1>18 DEF Ignore
      <3>2. down[d] # <<>>
        BY <1>0, <2>1, <2>3 DEF MessageType
      <3>. QED
        BY <1>0, <2>1, <3>1, <3>2, TakeType, MessageParts DEF UpType, BacklogType
    <2>. QED
      BY <2>2, <2>3
  <1>19. ASSUME NEW d \in Devices, NEW entry \in downloads[d] \union orphans[d], FinishDownload(d, entry)
        PROVE  MessageType'
    <2>1. UNCHANGED <<codec, backlog, up, down>>
      BY <1>19 DEF FinishDownload, taskVars
    <2>. QED
      BY <1>0, <2>1 DEF MessageType
  <1>20. ASSUME NEW d \in Devices, NEW a \in acking[d], Acknowledge(d, a[1], a[2])
        PROVE  MessageType'
    <2>1. /\ Write(d, Msg("ack", a[1])) /\ UNCHANGED down
          /\ Returned(d) \/ UNCHANGED <<codec, backlog>>
      BY <1>20 DEF Acknowledge
    <2>2. a[1] \in Nat
      BY <1>0 DEF ContactType
    <2>. QED
      BY <1>0, <2>1, <2>2, WriteType, ReturnedType, MessageTypes, MessageParts
      DEF BacklogType, DownType
  <1>21. ASSUME NEW d \in Devices, Receive(d)
        PROVE  MessageType'
    <2>1. /\ up[d] # <<>> /\ up' = [up EXCEPT ![d] = Tail(@)]
          /\ UNCHANGED <<codec, backlog>>
      BY <1>21 DEF Receive, taskVars
    <2>2. Tail(up[d]) \in Seq(Requests)
      BY <1>0, <2>1, TailFacts DEF MessageType
    <2>3. DownType'
      <3>1. CASE Begin(d)
        BY <1>0, <3>1, AnswerType, MessageTypes, MessageParts DEF Begin, Bare
      <3>2. CASE Stage(d, Head(up[d]).of)
        BY <1>0, <3>2, AnswerType, MessageTypes, MessageParts DEF Stage, Bare
      <3>3. CASE Commit(d)
        <4>1. Len(log) + 1 \in Nat /\ Len(log) + Len(staged) \in Nat
          BY <1>0 DEF LogType, LinkType
        <4>2. /\ Reflected(Len(log) + 1) \in Answers /\ Bare("ended") \in Answers
              /\ Msg("commitAck", Len(log) + Len(staged)) \in Answers
          BY <4>1, MessageTypes DEF Reflected, Bare
        <4>3. \A e \in Devices :
                 /\ down[e] \in Seq(Answers)
                 /\ Append(down[e], Bare("ended")) \in Seq(Answers)
                 /\ Append(down[e], Reflected(Len(log) + 1)) \in Seq(Answers)
                 /\ Append(down[e], Msg("commitAck", Len(log) + Len(staged))) \in Seq(Answers)
          BY <1>0, <4>2, AppendFacts DEF MessageType
        <4>4. \A e \in Devices :
                 Append(Append(down[e], Reflected(Len(log) + 1)), Bare("ended")) \in Seq(Answers)
          BY <4>2, <4>3, AppendFacts
        <4>5. \A e \in Devices : down'[e] \in Seq(Answers)
          <5>1. /\ \A e \in Devices \ {d} :
                     \/ down'[e] = down[e]
                     \/ down'[e] = Append(down[e], Bare("ended"))
                     \/ down'[e] = Append(Append(down[e], Reflected(Len(log) + 1)), Bare("ended"))
                /\ down'[d] = Append(down[d], Msg("commitAck", Len(log) + Len(staged)))
            BY <1>0, <3>3, CommitDown
          <5>. QED
            BY <4>3, <4>4, <5>1
        <4>6. down' = [e \in Devices |-> down'[e]]
          BY <1>0, <3>3, CommitDown
        <4>. QED
          BY <4>5, <4>6 DEF DownType
      <3>4. CASE UNCHANGED down
        BY <1>0, <3>4, MessageParts DEF DownType
      <3>. QED
        BY <1>21, <3>1, <3>2, <3>3, <3>4 DEF Receive
    <2>. QED
      BY <1>0, <2>1, <2>2, <2>3, MessageParts DEF UpType, BacklogType
  <1>22. ASSUME NEW d \in Devices, LoseConnection(d)
        PROVE  MessageType'
    <2>1. CloseConnection(d)
      BY <1>22 DEF LoseConnection
    <2>. QED
      BY <2>1, CloseMessageType
  <1>23. ASSUME NEW d \in Devices, Reconnect(d)
        PROVE  MessageType'
    <2>1. \A i \in DOMAIN mailbox[d] : Reflected(mailbox[d][i]) \in Answers
      BY <1>0, MessageTypes DEF LogType, Reflected
    <2>2. [i \in DOMAIN mailbox[d] |-> Reflected(mailbox[d][i])] \in Seq(Answers)
      <3>1. Len(mailbox[d]) \in Nat /\ DOMAIN mailbox[d] = 1 .. Len(mailbox[d])
        BY <1>0 DEF LogType
      <3>. QED
        BY <2>1, <3>1
    <2>. QED
      BY <1>0, <1>23, <2>2 DEF Reconnect, MessageType
  <1>24. CASE UNCHANGED vars
    BY <1>0, <1>24
    DEF vars, updateVars, reflectedVars, contactVars, taskVars, linkVars,
        mediatorVars, MessageType
  <1>25. ASSUME NEW d \in Devices, EndUpload(d)
        PROVE  MessageType'
    <2>1. CASE CloseConnection(d)
      BY <2>1, CloseMessageType
    <2>2. CASE ~CloseConnection(d)
      <3>1. /\ phase[d] # "idle" /\ UNCHANGED <<codec, backlog, down>>
            /\ Write(d, Msg("reflect", running[d]))
        BY <2>2, <1>25 DEF EndUpload, Execute
      <3>2. running[d] \in Updates
        BY <3>1, TransactionFacts
      <3>. QED
        BY <1>0, <3>1, <3>2, WriteType, MessageTypes, MessageParts DEF BacklogType, DownType
    <2>. QED
      BY <2>1, <2>2
  <1>. QED
    BY <1>1, <1>2, <1>3, <1>4, <1>5, <1>6, <1>7, <1>8, <1>9, <1>10, <1>11,
       <1>12, <1>13, <1>14, <1>15, <1>16, <1>17, <1>18, <1>19, <1>20, <1>21,
       <1>22, <1>23, <1>24, <1>25
    DEF Next, Controller, Transaction, Reflection, Blobs

(* Closing a connection keeps the type of the contact. *)
LEMMA CloseContactType ==
    ASSUME ContactType, NEW d \in Devices, CloseConnection(d), UNCHANGED <<applied, value, nonces, missed>>
    PROVE  ContactType'
  BY DEF CloseConnection, ContactType

(* A failed precondition keeps the type of the contact. *)
LEMMA ConflictContactType ==
    ASSUME ContactType, NEW d \in Devices, Conflict(d), UNCHANGED <<applied, value, nonces, missed>>
    PROVE  ContactType'
  <1>1. CASE CloseConnection(d)
    BY <1>1, CloseContactType
  <1>2. CASE UNCHANGED <<downloads, orphans, acking>>
    BY <1>2 DEF ContactType
  <1>. QED
    BY <1>1, <1>2 DEF Conflict

(* A reflected entry keeps the type of the contact. *)
LEMMA ApplyType ==
    ASSUME ContactType, NEW d \in Devices, NEW entry \in Nat, Apply(d, entry),
           UNCHANGED <<orphans, nonces, missed>>
    PROVE  ContactType'
  <1>1. <<entry, TRUE>> \in Nat \X BOOLEAN /\ <<entry, FALSE>> \in Nat \X BOOLEAN
    OBVIOUS
  <1>2. CASE /\ UNCHANGED <<applied, value, downloads>>
             /\ acking' = [acking EXCEPT ![d] = @ \union {<<entry, FALSE>>}]
    BY <1>1, <1>2 DEF ContactType
  <1>3. CASE /\ UNCHANGED <<applied, value, acking>>
             /\ downloads' = [downloads EXCEPT ![d] = @ \union {entry}]
    BY <1>3 DEF ContactType
  <1>4. CASE /\ Set(d, entry) /\ UNCHANGED downloads
             /\ acking' = [acking EXCEPT ![d] = @ \union {<<entry, TRUE>>}]
    BY <1>1, <1>4 DEF Set, ContactType
  <1>. QED
    BY <1>2, <1>3, <1>4 DEF Apply

(* What a commit adds to the log. *)
LEMMA CommitLog ==
    ASSUME LinkType, UpdateType, LogType, NEW d \in Devices, NEW u \in Updates,
           Commit(d), staged = <<u>>
    PROVE  log' = Append(log, [update |-> u, seen |-> seenAtStart[u]])
  <1>. DEFINE new == [update |-> u, seen |-> seenAtStart[u]]
  <1>1. new \in [update : Updates, seen : SUBSET Nat]
    BY DEF UpdateType
  <1>2. log' = log \o <<new>>
    <2>1. log' = log \o [i \in DOMAIN <<u>> |-> [update |-> <<u>>[i], seen |-> seenAtStart[<<u>>[i]]]]
      BY DEF Commit
    <2>2. DOMAIN <<u>> = {1} /\ <<u>>[1] = u
      OBVIOUS
    <2>3. [i \in DOMAIN <<u>> |-> [update |-> <<u>>[i], seen |-> seenAtStart[<<u>>[i]]]] = [i \in {1} |-> new]
      BY <2>2
    <2>4. [i \in {1} |-> new] = <<new>>
      <3>. HIDE DEF new
      <3>1. <<new>> = [i \in 1 .. 1 |-> new] /\ 1 .. 1 = {1}
        OBVIOUS
      <3>. QED
        BY <3>1
    <2>. QED
      BY <2>1, <2>3, <2>4
  <1>. HIDE DEF new
  <1>3. log' = Append(log, new)
    BY <1>1, <1>2, AppendIsConcat DEF LogType
  <1>. QED
    BY <1>3 DEF new

(* The transaction of d is what a commit of d commits. *)
LEMMA CommitFacts ==
    ASSUME ContactSyncAssumption, IndInv, NEW d \in Devices,
           up[d] # <<>>, Head(up[d]).kind = "commit", Commit(d), UNCHANGED seenAtStart
    PROVE  /\ phase[d] \in {"commit", "skip"} /\ holder = d /\ running[d] \in Updates
           /\ Owner[running[d]] = d /\ status[running[d]] = "held"
           /\ phase[d] = "skip" => staged = <<>> /\ log' = log
           /\ phase[d] = "commit" =>
                 /\ staged = <<running[d]>>
                 /\ log' = Append(log, [update |-> running[d], seen |-> seenAtStart[running[d]]])
                 /\ [update |-> running[d], seen |-> seenAtStart[running[d]]]
                       \in [update : Updates, seen : SUBSET Nat]
  <1>1. LinkType /\ UpdateType /\ LogType /\ MessageType /\ Dialog(d)
    BY Parts
  <1>2. Head(up[d]) \in ToSet(up[d])
    BY <1>1, TailFacts DEF MessageType
  <1>3. /\ phase[d] \in {"commit", "skip"} /\ holder = d
        /\ staged = IF phase[d] = "commit" THEN <<running[d]>> ELSE <<>>
    BY <1>1, <1>2 DEF Dialog
  <1>4. running[d] \in Updates /\ Owner[running[d]] = d /\ status[running[d]] = "held"
    BY <1>3, TransactionFacts
  <1>5. phase[d] = "skip" => log' = log
    <2>1. staged = <<>> => log' = log \o <<>>
      BY DEF Commit
    <2>. QED
      BY <1>1, <1>3, <2>1, ConcatEmptySeq DEF LogType
  <1>. QED
    BY <1>1, <1>3, <1>4, <1>5, CommitLog DEF UpdateType

(* The contact, and what of it is being processed. *)
LEMMA ContactTypeStep ==
    ASSUME ContactSyncAssumption, IndInv, [Next]_vars
    PROVE  ContactType'
  <1>0. UpdateType /\ LineType /\ LinkType /\ MessageType /\ ContactType /\ LogType
    BY Parts
  <1>1. ASSUME NEW u \in Updates, RequestLocal(u)
        PROVE  ContactType'
    BY <1>0, <1>1
    DEF RequestLocal, reflectedVars, ContactType
  <1>2. ASSUME NEW u \in Updates, StartIncoming(u)
        PROVE  ContactType'
    BY <1>0, <1>2
    DEF StartIncoming, contactVars, reflectedVars, ContactType
  <1>3. ASSUME NEW u \in Updates, UpdateFromRemote(u)
        PROVE  ContactType'
    BY <1>0, <1>3
    DEF UpdateFromRemote, reflectedVars, ContactType
  <1>4. ASSUME NEW u \in Updates, HoldLocal(u)
        PROVE  ContactType'
    BY <1>0, <1>4
    DEF HoldLocal, contactVars, reflectedVars, ContactType
  <1>5. ASSUME NEW u \in Updates, AbortLocal(u)
        PROVE  ContactType'
    BY <1>0, <1>5
    DEF AbortLocal, reflectedVars, ContactType
  <1>6. ASSUME NEW u \in Updates, HoldRemote(u)
        PROVE  ContactType'
    BY <1>0, <1>6
    DEF HoldRemote, contactVars, reflectedVars, ContactType
  <1>7. ASSUME NEW d \in Devices, StartTask(d)
        PROVE  ContactType'
    BY <1>0, <1>7
    DEF StartTask, contactVars, reflectedVars, ContactType
  <1>8. ASSUME NEW d \in Devices, ReadAck(d)
        PROVE  ContactType'
    BY <1>0, <1>8
    DEF ReadAck, contactVars, reflectedVars, ContactType
  <1>9. ASSUME NEW d \in Devices, OpenTransaction(d)
        PROVE  ContactType'
    <2>1. CASE CloseConnection(d)
      BY <1>0, <2>1, <1>9, CloseContactType DEF OpenTransaction
    <2>2. CASE ~CloseConnection(d)
      BY <1>0, <2>2, <1>9 DEF OpenTransaction, ContactType
    <2>. QED
      BY <2>1, <2>2
  <1>10. ASSUME NEW d \in Devices, ReadRejected(d)
        PROVE  ContactType'
    BY <1>0, <1>10
    DEF ReadRejected, contactVars, reflectedVars, ContactType
  <1>11. ASSUME NEW d \in Devices, ReadEnded(d)
        PROVE  ContactType'
    <2>1. CASE Conflict(d)
      BY <1>0, <2>1, <1>11, ConflictContactType DEF ReadEnded
    <2>2. CASE ~Conflict(d)
      BY <1>0, <2>2, <1>11 DEF ReadEnded, ContactType
    <2>. QED
      BY <2>1, <2>2
  <1>12. ASSUME NEW d \in Devices, ReadReflectAck(d)
        PROVE  ContactType'
    BY <1>0, <1>12
    DEF ReadReflectAck, contactVars, reflectedVars, ContactType
  <1>13. ASSUME NEW d \in Devices, ReadCommitAck(d)
        PROVE  ContactType'
    <2>1. Message(d).of \in Nat
      BY <1>0, <1>13, ReadFacts, MessageTypes DEF ReadCommitAck
    <2>. QED
      BY <1>0, <1>13, <2>1 DEF ReadCommitAck, Set, reflectedVars, ContactType
  <1>14. ASSUME NEW d \in Devices, ReadSkipAck(d)
        PROVE  ContactType'
    BY <1>0, <1>14, ConflictContactType DEF ReadSkipAck
  <1>15. ASSUME NEW d \in Devices, ReadOther(d)
        PROVE  ContactType'
    BY <1>0, <1>15
    DEF ReadOther, contactVars, reflectedVars, ContactType
  <1>16. ASSUME NEW d \in Devices, ReadReflected(d)
        PROVE  ContactType'
    <2>1. Message(d).of \in Nat
      BY <1>0, <1>16, ReadFacts, MessageTypes DEF ReadReflected
    <2>. QED
      BY <1>0, <1>16, <2>1, ApplyType DEF ReadReflected
  <1>17. ASSUME NEW d \in Devices, RunReflected(d)
        PROVE  ContactType'
    <2>1. Head(down[d]).of \in Nat
      BY <1>0, <1>17, TailFacts, MessageTypes DEF RunReflected, MessageType
    <2>. QED
      BY <1>0, <1>17, <2>1, ApplyType DEF RunReflected
  <1>18. ASSUME NEW d \in Devices, Ignore(d)
        PROVE  ContactType'
    BY <1>0, <1>18
    DEF Ignore, contactVars, reflectedVars, ContactType
  <1>19. ASSUME NEW d \in Devices, NEW entry \in downloads[d] \union orphans[d], FinishDownload(d, entry)
        PROVE  ContactType'
    <2>1. entry \in Nat /\ <<entry, TRUE>> \in Nat \X BOOLEAN
      BY <1>0 DEF ContactType
    <2>2. /\ downloads' \in [Devices -> SUBSET Nat] /\ orphans' \in [Devices -> SUBSET Nat]
          /\ acking' \in [Devices -> SUBSET (Nat \X BOOLEAN)] /\ UNCHANGED nonces
      BY <1>0, <1>19, <2>1 DEF FinishDownload, ContactType
    <2>3. CASE Applied(d, entry)
      BY <1>0, <2>1, <2>2, <2>3 DEF Applied, Set, ContactType
    <2>4. CASE Missed(d, entry)
      BY <1>0, <2>1, <2>2, <2>4 DEF Missed, ContactType
    <2>. QED
      BY <1>19, <2>3, <2>4 DEF FinishDownload
  <1>20. ASSUME NEW d \in Devices, NEW a \in acking[d], Acknowledge(d, a[1], a[2])
        PROVE  ContactType'
    <2>1. a[1] \in Nat
      BY <1>0 DEF ContactType
    <2>. QED
      BY <1>0, <1>20, <2>1 DEF Acknowledge, ContactType
  <1>21. ASSUME NEW d \in Devices, Receive(d)
        PROVE  ContactType'
    BY <1>0, <1>21
    DEF Receive, contactVars, reflectedVars, ContactType
  <1>22. ASSUME NEW d \in Devices, LoseConnection(d)
        PROVE  ContactType'
    BY <1>0, <1>22, CloseContactType DEF LoseConnection
  <1>23. ASSUME NEW d \in Devices, Reconnect(d)
        PROVE  ContactType'
    BY <1>0, <1>23
    DEF Reconnect, reflectedVars, ContactType
  <1>24. CASE UNCHANGED vars
    BY <1>0, <1>24 DEF vars, contactVars, reflectedVars, ContactType
  <1>25. ASSUME NEW d \in Devices, EndUpload(d)
        PROVE  ContactType'
    <2>1. CASE CloseConnection(d)
      BY <1>0, <2>1, <1>25, CloseContactType DEF EndUpload
    <2>2. CASE ~CloseConnection(d)
      BY <1>0, <2>2, <1>25 DEF EndUpload, ContactType
    <2>. QED
      BY <2>1, <2>2
  <1>. QED
    BY <1>1, <1>2, <1>3, <1>4, <1>5, <1>6, <1>7, <1>8, <1>9, <1>10, <1>11,
       <1>12, <1>13, <1>14, <1>15, <1>16, <1>17, <1>18, <1>19, <1>20, <1>21,
       <1>22, <1>23, <1>24, <1>25
    DEF Next, Controller, Transaction, Reflection, Blobs

(* The log and the mailboxes. *)
LEMMA LogTypeStep ==
    ASSUME ContactSyncAssumption, IndInv, [Next]_vars
    PROVE  LogType'
  <1>0. UpdateType /\ LineType /\ LinkType /\ MessageType /\ ContactType /\ LogType
    BY Parts
  <1>1. ASSUME NEW u \in Updates, RequestLocal(u)
        PROVE  LogType'
    BY <1>0, <1>1 DEF RequestLocal, mediatorVars, LogType
  <1>2. ASSUME NEW u \in Updates, StartIncoming(u)
        PROVE  LogType'
    BY <1>0, <1>2 DEF StartIncoming, mediatorVars, LogType
  <1>3. ASSUME NEW u \in Updates, UpdateFromRemote(u)
        PROVE  LogType'
    BY <1>0, <1>3 DEF UpdateFromRemote, mediatorVars, LogType
  <1>4. ASSUME NEW u \in Updates, HoldLocal(u)
        PROVE  LogType'
    BY <1>0, <1>4 DEF HoldLocal, mediatorVars, LogType
  <1>5. ASSUME NEW u \in Updates, AbortLocal(u)
        PROVE  LogType'
    BY <1>0, <1>5 DEF AbortLocal, mediatorVars, LogType
  <1>6. ASSUME NEW u \in Updates, HoldRemote(u)
        PROVE  LogType'
    BY <1>0, <1>6 DEF HoldRemote, mediatorVars, LogType
  <1>7. ASSUME NEW d \in Devices, StartTask(d)
        PROVE  LogType'
    BY <1>0, <1>7 DEF StartTask, mediatorVars, LogType
  <1>8. ASSUME NEW d \in Devices, ReadAck(d)
        PROVE  LogType'
    BY <1>0, <1>8 DEF ReadAck, mediatorVars, LogType
  <1>9. ASSUME NEW d \in Devices, OpenTransaction(d)
        PROVE  LogType'
    BY <1>0, <1>9 DEF OpenTransaction, mediatorVars, LogType
  <1>10. ASSUME NEW d \in Devices, ReadRejected(d)
        PROVE  LogType'
    BY <1>0, <1>10 DEF ReadRejected, mediatorVars, LogType
  <1>11. ASSUME NEW d \in Devices, ReadEnded(d)
        PROVE  LogType'
    BY <1>0, <1>11 DEF ReadEnded, mediatorVars, LogType
  <1>12. ASSUME NEW d \in Devices, ReadReflectAck(d)
        PROVE  LogType'
    BY <1>0, <1>12 DEF ReadReflectAck, mediatorVars, LogType
  <1>13. ASSUME NEW d \in Devices, ReadCommitAck(d)
        PROVE  LogType'
    BY <1>0, <1>13 DEF ReadCommitAck, mediatorVars, LogType
  <1>14. ASSUME NEW d \in Devices, ReadSkipAck(d)
        PROVE  LogType'
    BY <1>0, <1>14 DEF ReadSkipAck, mediatorVars, LogType
  <1>15. ASSUME NEW d \in Devices, ReadOther(d)
        PROVE  LogType'
    BY <1>0, <1>15 DEF ReadOther, mediatorVars, LogType
  <1>16. ASSUME NEW d \in Devices, ReadReflected(d)
        PROVE  LogType'
    BY <1>0, <1>16 DEF ReadReflected, mediatorVars, LogType
  <1>17. ASSUME NEW d \in Devices, RunReflected(d)
        PROVE  LogType'
    BY <1>0, <1>17 DEF RunReflected, mediatorVars, LogType
  <1>18. ASSUME NEW d \in Devices, Ignore(d)
        PROVE  LogType'
    BY <1>0, <1>18 DEF Ignore, mediatorVars, LogType
  <1>19. ASSUME NEW d \in Devices, NEW entry \in downloads[d] \union orphans[d], FinishDownload(d, entry)
        PROVE  LogType'
    BY <1>0, <1>19 DEF FinishDownload, mediatorVars, LogType
  <1>20. ASSUME NEW d \in Devices, NEW a \in acking[d], Acknowledge(d, a[1], a[2])
        PROVE  LogType'
    BY <1>0, <1>20 DEF Acknowledge, mediatorVars, LogType
  <1>21. ASSUME NEW d \in Devices, Receive(d)
        PROVE  LogType'
    <2>1. CASE UNCHANGED <<log, mailbox>>
      BY <1>0, <2>1 DEF LogType
    <2>2. CASE Head(up[d]).kind = "commit" /\ Commit(d)
      <3>1. up[d] # <<>> /\ UNCHANGED seenAtStart
        BY <1>21 DEF Receive, updateVars
      <3>2. log' \in Seq([update : Updates, seen : SUBSET Nat])
        <4>1. CASE log' = log
          BY <1>0, <4>1 DEF LogType
        <4>2. CASE log' # log
          <5>1. /\ log' = Append(log, [update |-> running[d], seen |-> seenAtStart[running[d]]])
                /\ [update |-> running[d], seen |-> seenAtStart[running[d]]]
                      \in [update : Updates, seen : SUBSET Nat]
            BY <2>2, <3>1, <4>2, CommitFacts
          <5>. QED
            BY <1>0, <5>1, AppendFacts DEF LogType
        <4>. QED
          BY <4>1, <4>2
      <3>3. Len(log) + 1 \in Nat
        BY <1>0 DEF LogType
      <3>4. \A e \in Devices : mailbox[e] \in Seq(Nat)
                                 /\ Append(mailbox[e], Len(log) + 1) \in Seq(Nat)
        BY <1>0, <3>3, AppendFacts DEF LogType
      <3>5. /\ \A e \in Devices : mailbox'[e] = mailbox[e]
                                    \/ mailbox'[e] = Append(mailbox[e], Len(log) + 1)
            /\ mailbox' = [e \in Devices |-> mailbox'[e]]
        BY <1>0, <2>2, CommitDown
      <3>6. \A e \in Devices : mailbox'[e] \in Seq(Nat)
        BY <3>4, <3>5
      <3>. QED
        BY <3>2, <3>5, <3>6 DEF LogType
    <2>3. CASE mailbox' = [mailbox EXCEPT ![d] = Without(@, Head(up[d]).of)] /\ UNCHANGED log
      BY <1>0, <2>3, WithoutFacts DEF LogType
    <2>. QED
      BY <1>21, <2>1, <2>2, <2>3 DEF Receive, Begin, Stage
  <1>22. ASSUME NEW d \in Devices, LoseConnection(d)
        PROVE  LogType'
    BY <1>0, <1>22 DEF LoseConnection, mediatorVars, LogType
  <1>23. ASSUME NEW d \in Devices, Reconnect(d)
        PROVE  LogType'
    BY <1>0, <1>23 DEF Reconnect, mediatorVars, LogType
  <1>24. CASE UNCHANGED vars
    BY <1>0, <1>24 DEF vars, mediatorVars, LogType
  <1>25. ASSUME NEW d \in Devices, EndUpload(d)
        PROVE  LogType'
    BY <1>0, <1>25 DEF EndUpload, mediatorVars, LogType
  <1>. QED
    BY <1>1, <1>2, <1>3, <1>4, <1>5, <1>6, <1>7, <1>8, <1>9, <1>10, <1>11,
       <1>12, <1>13, <1>14, <1>15, <1>16, <1>17, <1>18, <1>19, <1>20, <1>21,
       <1>22, <1>23, <1>24, <1>25
    DEF Next, Controller, Transaction, Reflection, Blobs

-----------------------------------------------------------------------------
(* The steps of a device, and what they leave alone *)

UpdateStep(u) ==
    \/ RequestLocal(u) \/ StartIncoming(u) \/ UpdateFromRemote(u) \/ HoldLocal(u)
    \/ AbortLocal(u) \/ HoldRemote(u)

DeviceStep(d) ==
    \/ \E u \in Updates : Owner[u] = d /\ UpdateStep(u)
    \/ Transaction(d) \/ Reflection(d) \/ Blobs(d) \/ Receive(d)
    \/ LoseConnection(d) \/ Reconnect(d)

(* Every step is one of a device. *)
LEMMA EveryStep ==
    ASSUME ContactSyncAssumption, Next
    PROVE  \E d \in Devices : DeviceStep(d)
  BY OwnerType DEF Next, Controller, DeviceStep, UpdateStep

(* What a device and its updates have to themselves. *)
Same(e) ==
    /\ running'[e] = running[e] /\ phase'[e] = phase[e] /\ connected'[e] = connected[e]
    /\ codec'[e] = codec[e] /\ backlog'[e] = backlog[e] /\ up'[e] = up[e]
    /\ lock'[e] = lock[e] /\ tasks'[e] = tasks[e]

SameContact(e) ==
    /\ applied'[e] = applied[e] /\ value'[e] = value[e] /\ downloads'[e] = downloads[e]
    /\ orphans'[e] = orphans[e] /\ acking'[e] = acking[e] /\ nonces'[e] = nonces[e]
    /\ missed'[e] = missed[e]

SameUpdates(e) ==
    \A u \in Updates : Owner[u] = e =>
        /\ status'[u] = status[u] /\ seenAtStart'[u] = seenAtStart[u]
        /\ u \in stale' <=> u \in stale

(* The mediator reflects a commit of d to another device e, and tells it    *)
(* that the transaction has ended; or only that.                            *)
Reflects(d, e) ==
    /\ holder = d /\ staged # <<>>
    /\ \E new \in [update : Updates, seen : SUBSET Nat] :
          Owner[new.update] = d /\ log' = Append(log, new)
    /\ mailbox'[e] = Append(mailbox[e], Len(log) + 1)
    /\ down'[e] = IF connected[e]
                  THEN Append(Append(down[e], Reflected(Len(log) + 1)), Bare("ended"))
                  ELSE down[e]

Ends(e) ==
    /\ log' = log /\ mailbox'[e] = mailbox[e]
    /\ \/ down'[e] = down[e]
       \/ connected[e] /\ down'[e] = Append(down[e], Bare("ended"))

Elsewhere(d, e) ==
    /\ Same(e) /\ SameContact(e) /\ SameUpdates(e)
    /\ holder' = e <=> holder = e
    /\ holder = e => UNCHANGED <<staged, log>>
    /\ Reflects(d, e) \/ Ends(e)

(* Closing the connection of d does nothing else to the others. *)
LEMMA CloseElsewhere ==
    ASSUME ContactSyncAssumption, IndInv, NEW d \in Devices, NEW e \in Devices \ {d},
           CloseConnection(d),
           UNCHANGED <<stale, seenAtStart, applied, value, nonces, missed, tasks, log, mailbox>>
    PROVE  Elsewhere(d, e)
  <1>1. /\ connected'[e] = connected[e] /\ running'[e] = running[e]
        /\ phase'[e] = phase[e] /\ codec'[e] = codec[e] /\ backlog'[e] = backlog[e]
        /\ up'[e] = up[e] /\ acking'[e] = acking[e]
        /\ downloads'[e] = downloads[e] /\ orphans'[e] = orphans[e]
        /\ lock'[e] = lock[e]
        /\ down'[e] = down[e] \/ (connected[e] /\ down'[e] = Append(down[e], Bare("ended")))
    BY CloseFacts
  <1>2. /\ holder' = IF holder = d THEN None ELSE holder
        /\ staged' = IF holder = d THEN <<>> ELSE staged
    BY CloseFacts
  <1>3. \A v \in Updates : status'[v] = IF v = running[d] /\ v \in Remote THEN "new" ELSE status[v]
    BY CloseFacts
  <1>4. Runs(d) /\ e # None
    BY Parts DEF ContactSyncAssumption
  <1>5. \A v \in Updates : Owner[v] = e => status'[v] = status[v]
    BY <1>3, <1>4 DEF Runs
  <1>6. Ends(e)
    BY <1>1 DEF Ends
  <1>7. holder' = e <=> holder = e
    BY <1>2, <1>4
  <1>. QED
    BY <1>1, <1>2, <1>5, <1>6, <1>7 DEF Elsewhere, Same, SameContact, SameUpdates

(* The end of an update changes nothing elsewhere. *)
LEMMA FinishElsewhere ==
    ASSUME UpdateType, LineType, LinkType, MessageType,
           NEW d \in Devices, NEW e \in Devices \ {d}, NEW result, Finish(d, result),
           running[d] \in Updates => Owner[running[d]] = d, UNCHANGED <<connected, up, seenAtStart>>,
           \A u \in Updates : Owner[u] = e => (u \in stale' <=> u \in stale)
    PROVE  Same(e) /\ SameUpdates(e)
  BY DEF Finish, Returned, Phase, Same, SameUpdates, UpdateType, LineType, LinkType, MessageType

(* A failed precondition may close the connection; elsewhere, that is all. *)
LEMMA ConflictElsewhere ==
    ASSUME ContactSyncAssumption, IndInv, NEW d \in Devices, NEW e \in Devices \ {d},
           Conflict(d), running[d] \in Local => down' = [down EXCEPT ![d] = Tail(@)],
           UNCHANGED <<stale, seenAtStart, applied, value, nonces, missed, log, mailbox>>
    PROVE  Elsewhere(d, e)
  <1>1. CASE running[d] \in Local
    <2>1. /\ Finish(d, "failed") /\ down' = [down EXCEPT ![d] = Tail(@)]
          /\ UNCHANGED <<downloads, orphans, acking, connected, up, holder, staged>>
      BY <1>1 DEF Conflict
    <2>2. Same(e) /\ SameUpdates(e)
      BY <2>1, Parts, FinishElsewhere DEF Runs
    <2>3. Ends(e)
      BY <2>1 DEF Ends
    <2>. QED
      BY <2>1, <2>2, <2>3 DEF Elsewhere, SameContact
  <1>2. CASE running[d] \notin Local
    BY <1>2, CloseElsewhere DEF Conflict
  <1>. QED
    BY <1>1, <1>2

(* Consuming a message, or writing one, is between d and the mediator. *)
LEMMA MessagesElsewhere ==
    ASSUME MessageType, NEW d \in Devices, NEW e \in Devices \ {d}
    PROVE  /\ Consume(d) => codec'[e] = codec[e] /\ down'[e] = down[e]
           /\ \A m : Write(d, m) => up'[e] = up[e]
           /\ \A m : Answer(d, m) => down'[e] = down[e]
           /\ \A task : Run(d, task) => codec'[e] = codec[e] /\ backlog'[e] = backlog[e]
           /\ Returned(d) => codec'[e] = codec[e] /\ backlog'[e] = backlog[e]
  BY DEF MessageType, Consume, Write, Answer, Run, Returned

(* Setting a contact changes nothing elsewhere. *)
LEMMA SetElsewhere ==
    ASSUME ContactType, NEW d \in Devices, NEW e \in Devices \ {d}, NEW entry, Set(d, entry)
    PROVE  /\ applied'[e] = applied[e] /\ value'[e] = value[e]
           /\ \A u \in Updates : Owner[u] = e => (u \in stale' <=> u \in stale)
  BY DEF ContactType, Set

(* Nor does applying a reflected entry. *)
LEMMA ApplyElsewhere ==
    ASSUME ContactType, NEW d \in Devices, NEW e \in Devices \ {d}, NEW entry, Apply(d, entry),
           UNCHANGED <<status, seenAtStart, orphans, nonces, missed>>
    PROVE  SameContact(e) /\ SameUpdates(e)
  <1>1. /\ acking'[e] = acking[e] /\ downloads'[e] = downloads[e]
        /\ applied'[e] = applied[e] /\ value'[e] = value[e]
        /\ \A u \in Updates : Owner[u] = e => (u \in stale' <=> u \in stale)
    BY SetElsewhere DEF Apply, ContactType
  <1>. QED
    BY <1>1 DEF SameContact, SameUpdates

(* A step of d is no step of another device. *)
LEMMA OtherDevices ==
    ASSUME ContactSyncAssumption, IndInv,
           NEW d \in Devices, NEW e \in Devices \ {d}, DeviceStep(d)
    PROVE  Elsewhere(d, e)
  <1>0. UpdateType /\ LineType /\ LinkType /\ MessageType /\ ContactType /\ LogType
    BY Parts
  <1>1. ASSUME NEW u \in Updates, Owner[u] = d, RequestLocal(u)
        PROVE  Elsewhere(d, e)
    BY <1>0, <1>1
    DEF RequestLocal, updateVars, reflectedVars, contactVars, taskVars,
        linkVars, mediatorVars, Elsewhere, Same, SameContact, SameUpdates, Ends,
        UpdateType, LineType, LinkType, MessageType, ContactType
  <1>2. ASSUME NEW u \in Updates, Owner[u] = d, StartIncoming(u)
        PROVE  Elsewhere(d, e)
    BY <1>0, <1>2
    DEF StartIncoming, Run, updateVars, reflectedVars, contactVars, taskVars,
        linkVars, mediatorVars, Elsewhere, Same, SameContact, SameUpdates, Ends,
        UpdateType, LineType, LinkType, MessageType, ContactType
  <1>3. ASSUME NEW u \in Updates, Owner[u] = d, UpdateFromRemote(u)
        PROVE  Elsewhere(d, e)
    BY <1>0, <1>3
    DEF UpdateFromRemote, updateVars, reflectedVars, contactVars, taskVars,
        linkVars, mediatorVars, Elsewhere, Same, SameContact, SameUpdates, Ends,
        UpdateType, LineType, LinkType, MessageType, ContactType
  <1>4. ASSUME NEW u \in Updates, Owner[u] = d, HoldLocal(u)
        PROVE  Elsewhere(d, e)
    BY <1>0, <1>4
    DEF HoldLocal, Served, NoteVersion, updateVars, reflectedVars, contactVars,
        taskVars, linkVars, mediatorVars, Elsewhere, Same, SameContact,
        SameUpdates, Ends, UpdateType, LineType, LinkType, MessageType,
        ContactType
  <1>5. ASSUME NEW u \in Updates, Owner[u] = d, AbortLocal(u)
        PROVE  Elsewhere(d, e)
    BY <1>0, <1>5
    DEF AbortLocal, Served, updateVars, reflectedVars, contactVars, taskVars,
        linkVars, mediatorVars, Elsewhere, Same, SameContact, SameUpdates, Ends,
        UpdateType, LineType, LinkType, MessageType, ContactType
  <1>6. ASSUME NEW u \in Updates, Owner[u] = d, HoldRemote(u)
        PROVE  Elsewhere(d, e)
    BY <1>0, <1>6
    DEF HoldRemote, Served, NoteVersion, Phase, Write, updateVars,
        reflectedVars, contactVars, taskVars, linkVars, mediatorVars, Elsewhere,
        Same, SameContact, SameUpdates, Ends, UpdateType, LineType, LinkType,
        MessageType, ContactType
  <1>7. CASE StartTask(d)
    BY <1>0, <1>7
    DEF StartTask, Run, Phase, Write, updateVars, reflectedVars, contactVars,
        taskVars, linkVars, mediatorVars, Elsewhere, Same, SameContact,
        SameUpdates, Ends, UpdateType, LineType, LinkType, MessageType,
        ContactType
  <1>8. CASE ReadAck(d)
    BY <1>0, <1>8
    DEF ReadAck, Phase, Consume, updateVars, reflectedVars, contactVars,
        taskVars, linkVars, mediatorVars, Elsewhere, Same, SameContact,
        SameUpdates, Ends, UpdateType, LineType, LinkType, MessageType,
        ContactType
  <1>9. CASE OpenTransaction(d)
    <2>1. CASE CloseConnection(d)
      BY <2>1, <1>9, CloseElsewhere DEF OpenTransaction
    <2>2. CASE ~CloseConnection(d)
      BY <1>0, <2>2, <1>9 DEF OpenTransaction, Execute, Phase, Write, Skip,
         Elsewhere, Same, SameContact, SameUpdates, Ends, LinkType, MessageType
    <2>. QED
      BY <2>1, <2>2
  <1>10. CASE ReadRejected(d)
    BY <1>0, <1>10
    DEF ReadRejected, Phase, Consume, updateVars, reflectedVars, contactVars,
        taskVars, linkVars, mediatorVars, Elsewhere, Same, SameContact,
        SameUpdates, Ends, UpdateType, LineType, LinkType, MessageType,
        ContactType
  <1>11. CASE ReadEnded(d)
    <2>1. CASE ~Precondition(d)
      BY <2>1, <1>11, ConflictElsewhere DEF ReadEnded
    <2>2. CASE Precondition(d)
      BY <1>0, <2>2, <1>11, MessagesElsewhere DEF ReadEnded, Phase, Retry,
         Elsewhere, Same, SameContact, SameUpdates, Ends, LinkType
    <2>. QED
      BY <2>1, <2>2
  <1>12. CASE ReadReflectAck(d)
    BY <1>0, <1>12
    DEF ReadReflectAck, Consume, Phase, Write, updateVars, reflectedVars,
        contactVars, taskVars, linkVars, mediatorVars, Elsewhere, Same,
        SameContact, SameUpdates, Ends, UpdateType, LineType, LinkType,
        MessageType, ContactType
  <1>13. CASE ReadCommitAck(d)
    <2>1. /\ Set(d, Message(d).of) /\ Finish(d, "done") /\ down' = [down EXCEPT ![d] = Tail(@)]
          /\ UNCHANGED <<seenAtStart, reflectedVars, linkVars, mediatorVars, up>>
      BY <1>13 DEF ReadCommitAck
    <2>2. Same(e) /\ SameUpdates(e)
      BY <1>0, <2>1, Parts, SetElsewhere, FinishElsewhere DEF Runs, linkVars
    <2>3. SameContact(e)
      BY <1>0, <2>1, SetElsewhere DEF SameContact, reflectedVars
    <2>4. Ends(e)
      BY <1>0, <2>1 DEF Ends, MessageType, mediatorVars
    <2>. QED
      BY <2>1, <2>2, <2>3, <2>4 DEF Elsewhere, mediatorVars
  <1>14. CASE ReadSkipAck(d)
    BY <1>14, ConflictElsewhere DEF ReadSkipAck
  <1>15. CASE ReadOther(d)
    BY <1>0, <1>15
    DEF ReadOther, Consume, updateVars, reflectedVars, contactVars, taskVars,
        linkVars, mediatorVars, Elsewhere, Same, SameContact, SameUpdates, Ends,
        UpdateType, LineType, LinkType, MessageType, ContactType
  <1>16. CASE ReadReflected(d)
    <2>1. /\ Consume(d) /\ Apply(d, Message(d).of)
          /\ UNCHANGED <<status, seenAtStart, lock, orphans, nonces, missed, tasks, running, phase,
                         backlog, linkVars, mediatorVars, up>>
      BY <1>16 DEF ReadReflected
    <2>2. SameContact(e) /\ SameUpdates(e)
      BY <1>0, <2>1, ApplyElsewhere
    <2>3. Same(e) /\ Ends(e)
      BY <1>0, <2>1, MessagesElsewhere DEF Same, Ends, linkVars, mediatorVars
    <2>. QED
      BY <2>1, <2>2, <2>3 DEF Elsewhere, mediatorVars
  <1>17. CASE RunReflected(d)
    <2>1. /\ Run(d, "reflected") /\ Apply(d, Head(down[d]).of)
          /\ down' = [down EXCEPT ![d] = Tail(@)]
          /\ UNCHANGED <<status, seenAtStart, lock, orphans, nonces, missed, tasks, phase,
                         linkVars, mediatorVars, up>>
      BY <1>17 DEF RunReflected
    <2>2. SameContact(e) /\ SameUpdates(e)
      BY <1>0, <2>1, ApplyElsewhere
    <2>3. Same(e) /\ Ends(e)
      BY <1>0, <2>1, MessagesElsewhere DEF Same, Ends, Run, LinkType, MessageType, linkVars, mediatorVars
    <2>. QED
      BY <2>1, <2>2, <2>3 DEF Elsewhere, mediatorVars
  <1>18. CASE Ignore(d)
    BY <1>0, <1>18
    DEF Ignore, updateVars, reflectedVars, contactVars, taskVars, linkVars,
        mediatorVars, Elsewhere, Same, SameContact, SameUpdates, Ends,
        UpdateType, LineType, LinkType, MessageType, ContactType
  <1>19. ASSUME NEW entry \in downloads[d] \union orphans[d], FinishDownload(d, entry)
        PROVE  Elsewhere(d, e)
    <2>1. /\ UNCHANGED <<status, seenAtStart, lock, nonces, taskVars, linkVars, mediatorVars, up, down>>
          /\ downloads'[e] = downloads[e] /\ orphans'[e] = orphans[e] /\ acking'[e] = acking[e]
      BY <1>0, <1>19 DEF FinishDownload, ContactType
    <2>2. /\ applied'[e] = applied[e] /\ value'[e] = value[e] /\ missed'[e] = missed[e]
          /\ \A u \in Updates : Owner[u] = e => (u \in stale' <=> u \in stale)
      <3>1. CASE Applied(d, entry)
        BY <1>0, <3>1 DEF Applied, Set, ContactType, UpdateType
      <3>2. CASE Missed(d, entry)
        BY <1>0, <3>2 DEF Missed, ContactType
      <3>. QED
        BY <1>19, <3>1, <3>2 DEF FinishDownload
    <2>3. Same(e) /\ Ends(e)
      BY <2>1 DEF Same, Ends, taskVars, linkVars, mediatorVars
    <2>4. SameContact(e) /\ SameUpdates(e)
      BY <2>1, <2>2 DEF SameContact, SameUpdates
    <2>. QED
      BY <2>1, <2>3, <2>4 DEF Elsewhere, mediatorVars
  <1>20. ASSUME NEW a \in acking[d], Acknowledge(d, a[1], a[2])
        PROVE  Elsewhere(d, e)
    BY <1>0, <1>20
    DEF Acknowledge, Write, Returned, updateVars, reflectedVars, contactVars,
        taskVars, linkVars, mediatorVars, Elsewhere, Same, SameContact,
        SameUpdates, Ends, UpdateType, LineType, LinkType, MessageType,
        ContactType
  <1>21. CASE Receive(d)
    <2>1. /\ up[d] # <<>> /\ up' = [up EXCEPT ![d] = Tail(@)]
          /\ UNCHANGED <<updateVars, contactVars, taskVars, linkVars>>
      BY <1>21 DEF Receive
    <2>2. Same(e) /\ SameContact(e) /\ SameUpdates(e)
      BY <1>0, <2>1 DEF Same, SameContact, SameUpdates, updateVars, contactVars, reflectedVars,
         taskVars, linkVars, MessageType
    <2>3. e # None
      BY DEF ContactSyncAssumption
    <2>4. Dialog(d) /\ Head(up[d]) \in ToSet(up[d])
      BY <1>0, <2>1, Parts, TailFacts DEF MessageType
    <2>5. CASE Begin(d)
      BY <1>0, <2>2, <2>3, <2>5, MessagesElsewhere DEF Begin, Elsewhere, Ends
    <2>6. CASE Head(up[d]).kind = "reflect" /\ Stage(d, Head(up[d]).of)
      BY <1>0, <2>2, <2>4, <2>6, MessagesElsewhere DEF Stage, Elsewhere, Ends, Dialog
    <2>7. CASE Head(up[d]).kind = "commit" /\ Commit(d)
      <3>1. UNCHANGED seenAtStart
        BY <2>1 DEF updateVars
      <3>2. holder = d /\ holder' = None
        BY <2>1, <2>7, <3>1, CommitFacts DEF Commit
      <3>3. CASE phase[d] = "skip"
        <4>1. staged = <<>> /\ log' = log
          BY <2>1, <2>7, <3>1, <3>3, CommitFacts
        <4>2. Ends(e)
          BY <1>0, <2>7, <4>1, CommitDown DEF Ends
        <4>. QED
          BY <2>2, <2>3, <3>2, <4>1, <4>2 DEF Elsewhere
      <3>4. CASE phase[d] = "commit"
        <4>. DEFINE new == [update |-> running[d], seen |-> seenAtStart[running[d]]]
        <4>1. /\ staged = <<running[d]>> /\ Owner[running[d]] = d
              /\ log' = Append(log, new) /\ new \in [update : Updates, seen : SUBSET Nat]
          BY <2>1, <2>7, <3>1, <3>4, CommitFacts
        <4>2. new.update = running[d]
          OBVIOUS
        <4>. HIDE DEF new
        <4>3. staged # <<>>
          BY <4>1
        <4>4. /\ mailbox'[e] = Append(mailbox[e], Len(log) + 1)
              /\ down'[e] = IF connected[e]
                            THEN Append(Append(down[e], Reflected(Len(log) + 1)), Bare("ended"))
                            ELSE down[e]
          BY <1>0, <2>7, <4>3, CommitDown
        <4>5. Reflects(d, e)
          BY <3>2, <4>1, <4>2, <4>3, <4>4 DEF Reflects
        <4>. QED
          BY <2>2, <2>3, <3>2, <4>5 DEF Elsewhere
      <3>. QED
        BY <2>1, <2>7, <3>1, <3>3, <3>4, CommitFacts
    <2>8. CASE /\ mailbox' = [mailbox EXCEPT ![d] = Without(@, Head(up[d]).of)]
               /\ UNCHANGED <<holder, staged, log, down>>
      BY <1>0, <2>2, <2>8 DEF Elsewhere, Ends, LogType
    <2>. QED
      BY <1>21, <2>5, <2>6, <2>7, <2>8 DEF Receive
  <1>22. CASE LoseConnection(d)
    BY <1>22, CloseElsewhere DEF LoseConnection
  <1>23. CASE Reconnect(d)
    <2>1. Line(d)
      BY Parts
    <2>2. \A v \in Updates : Owner[v] = e => \A i \in DOMAIN tasks[d] : tasks[d][i] # v
      BY <2>1 DEF Line
    <2>. QED
      BY <1>0, <2>2, <1>23 DEF Reconnect, Elsewhere, Same, SameContact, SameUpdates, Ends, UpdateType,
         LineType, LinkType, MessageType, reflectedVars, mediatorVars
  <1>25. CASE EndUpload(d)
    <2>1. CASE CloseConnection(d)
      BY <2>1, <1>25, CloseElsewhere DEF EndUpload
    <2>2. CASE ~CloseConnection(d)
      BY <1>0, <2>2, <1>25 DEF EndUpload, Execute, Phase, Write,
         Elsewhere, Same, SameContact, SameUpdates, Ends, LinkType, MessageType
    <2>. QED
      BY <2>1, <2>2
  <1>. QED
    BY <1>1, <1>2, <1>3, <1>4, <1>5, <1>6, <1>7, <1>8, <1>9, <1>10, <1>11,
       <1>12, <1>13, <1>14, <1>15, <1>16, <1>17, <1>18, <1>19, <1>20, <1>21,
       <1>22, <1>23, <1>25
    DEF DeviceStep, UpdateStep, Transaction, Reflection, Blobs

-----------------------------------------------------------------------------
(* Connections, backlogs and the lock *)

(* The outcomes of a failed precondition. *)
LEMMA ConflictFacts ==
    ASSUME ContactSyncAssumption, IndInv, NEW d \in Devices, phase[d] \in {"waiting", "skip"},
           Reading(d), Conflict(d),
           running[d] \in Local => down' = [down EXCEPT ![d] = Tail(@)]
    PROVE  /\ codec[d] = <<>> /\ down[d] # <<>> /\ connected[d]
           /\ \/ CloseConnection(d) /\ running[d] \in Remote /\ UNCHANGED tasks
              \/ /\ Finish(d, "failed") /\ running[d] \in Local
                 /\ down' = [down EXCEPT ![d] = Tail(@)]
                 /\ UNCHANGED <<downloads, orphans, acking, connected, up, holder, staged>>
  <1>1. MessageType /\ Backlog(d)
    BY Parts
  <1>2. codec[d] = <<>> /\ down[d] # <<>>
    BY <1>1, ReadFacts DEF Backlog
  <1>3. running[d] \in Updates /\ connected[d]
    BY TransactionFacts
  <1>. QED
    BY <1>2, <1>3 DEF Conflict, Local

(* What it does that the other transaction has ended. *)
LEMMA EndedFacts ==
    ASSUME ContactSyncAssumption, IndInv, NEW d \in Devices, ReadEnded(d)
    PROVE  /\ phase[d] = "waiting" /\ codec[d] = <<>> /\ down[d] # <<>> /\ connected[d]
           /\ Head(down[d]) = Bare("ended")
           /\ UNCHANGED <<stale, seenAtStart, applied, value, nonces, missed, losses, log, mailbox>>
           /\ \/ /\ Precondition(d) /\ down' = [down EXCEPT ![d] = Tail(@)] /\ codec' = codec
                 /\ Phase(d, "begin") /\ Write(d, Bare("begin"))
                 /\ UNCHANGED <<status, lock, downloads, orphans, acking, tasks, running,
                                backlog, connected, holder, staged>>
              \/ CloseConnection(d) /\ running[d] \in Remote /\ UNCHANGED tasks
              \/ /\ Finish(d, "failed") /\ running[d] \in Local
                 /\ down' = [down EXCEPT ![d] = Tail(@)]
                 /\ UNCHANGED <<downloads, orphans, acking, connected, up, holder, staged>>
  <1>1. /\ phase[d] = "waiting" /\ Reading(d) /\ Message(d) = Bare("ended")
        /\ UNCHANGED <<stale, seenAtStart, applied, value, nonces, missed, losses, log, mailbox>>
    BY DEF ReadEnded
  <1>2. codec[d] = <<>> /\ down[d] # <<>> /\ Head(down[d]) = Bare("ended")
    BY <1>1, Parts, ReadFacts DEF Backlog
  <1>3. connected[d]
    BY <1>1, TransactionFacts
  <1>4. CASE Precondition(d)
    BY <1>1, <1>2, <1>3, <1>4 DEF ReadEnded, Retry, Consume, FromBacklog
  <1>5. CASE ~Precondition(d)
    <2>1. Conflict(d) /\ (running[d] \in Local => down' = [down EXCEPT ![d] = Tail(@)])
      BY <1>5 DEF ReadEnded
    <2>. QED
      BY <1>1, <1>2, <1>3, <2>1, ConflictFacts
  <1>. QED
    BY <1>4, <1>5

(* What it does that the empty transaction is committed. *)
LEMMA SkipAckFacts ==
    ASSUME ContactSyncAssumption, IndInv, NEW d \in Devices, ReadSkipAck(d)
    PROVE  /\ phase[d] = "skip" /\ codec[d] = <<>> /\ down[d] # <<>> /\ connected[d]
           /\ Head(down[d]).kind = "commitAck"
           /\ UNCHANGED <<stale, seenAtStart, applied, value, nonces, missed, losses, log, mailbox>>
           /\ \/ CloseConnection(d) /\ running[d] \in Remote /\ UNCHANGED tasks
              \/ /\ Finish(d, "failed") /\ running[d] \in Local
                 /\ down' = [down EXCEPT ![d] = Tail(@)]
                 /\ UNCHANGED <<downloads, orphans, acking, connected, up, holder, staged>>
  <1>1. /\ phase[d] = "skip" /\ Reading(d) /\ Message(d).kind = "commitAck"
        /\ Conflict(d) /\ (running[d] \in Local => down' = [down EXCEPT ![d] = Tail(@)])
        /\ UNCHANGED <<stale, seenAtStart, applied, value, nonces, missed, losses, log, mailbox>>
    BY DEF ReadSkipAck
  <1>2. Head(down[d]).kind = "commitAck"
    BY <1>1, Parts, ReadFacts DEF Backlog
  <1>. QED
    BY <1>1, <1>2, ConflictFacts

(* What it does that the update is committed. *)
LEMMA CommitAckFacts ==
    ASSUME ContactSyncAssumption, IndInv, NEW d \in Devices, ReadCommitAck(d)
    PROVE  /\ phase[d] = "commit" /\ codec[d] = <<>> /\ down[d] # <<>> /\ connected[d]
           /\ Head(down[d]).kind = "commitAck" /\ Message(d) = Head(down[d])
           /\ down' = [down EXCEPT ![d] = Tail(@)]
           /\ Finish(d, "done") /\ Set(d, Head(down[d]).of)
           /\ UNCHANGED <<seenAtStart, downloads, orphans, acking, nonces, missed, connected, losses,
                          holder, staged, log, mailbox, up>>
  <1>1. phase[d] = "commit" /\ Reading(d)
    BY DEF ReadCommitAck
  <1>2. codec[d] = <<>> /\ down[d] # <<>> /\ Message(d) = Head(down[d])
    BY <1>1, Parts, ReadFacts DEF Backlog
  <1>3. connected[d]
    BY <1>1, TransactionFacts
  <1>. QED
    BY <1>1, <1>2, <1>3 DEF ReadCommitAck, reflectedVars, linkVars, mediatorVars

(* An open transaction executes, or is skipped. *)
LEMMA OpenFacts ==
    ASSUME ContactSyncAssumption, IndInv, NEW d \in Devices, OpenTransaction(d)
    PROVE  /\ phase[d] = "open" /\ codec[d] = <<>> /\ connected[d]
           /\ \/ /\ Precondition(d)
                 /\ \/ Phase(d, "execute") /\ Write(d, Msg("reflect", running[d]))
                    \/ Phase(d, "upload") /\ UNCHANGED up
              \/ Phase(d, "skip") /\ Write(d, Bare("commit"))
           /\ UNCHANGED <<updateVars, contactVars, tasks, running, codec, backlog, linkVars,
                          mediatorVars, down>>
  <1>1. phase[d] = "open" /\ codec[d] = <<>>
    BY Parts DEF OpenTransaction, Backlog
  <1>2. connected[d]
    BY <1>1, TransactionFacts
  <1>. QED
    BY <1>1, <1>2 DEF OpenTransaction, Execute, Skip, updateVars, contactVars, reflectedVars, linkVars, mediatorVars

(* An upload ends with the update being reflected, or the connection.       *)
LEMMA UploadFacts ==
    ASSUME ContactSyncAssumption, IndInv, NEW d \in Devices, EndUpload(d)
    PROVE  /\ phase[d] = "upload" /\ connected[d]
           /\ \/ /\ Phase(d, "execute") /\ Write(d, Msg("reflect", running[d]))
                 /\ UNCHANGED <<updateVars, contactVars, tasks, running, codec, backlog, linkVars,
                                mediatorVars, down>>
              \/ /\ CloseConnection(d)
                 /\ UNCHANGED <<stale, seenAtStart, applied, value, nonces, missed, tasks, losses,
                                log, mailbox>>
  <1>1. phase[d] = "upload"
    BY DEF EndUpload
  <1>2. connected[d]
    BY <1>1, TransactionFacts
  <1>. QED
    BY <1>1, <1>2 DEF EndUpload, Execute, updateVars, contactVars, reflectedVars, linkVars, mediatorVars

(* An answer is not in the backlog. *)
LEMMA AnswerFacts ==
    ASSUME ContactSyncAssumption, IndInv, NEW d \in Devices, Reading(d), Message(d).kind # "ended"
    PROVE  /\ codec[d] = <<>> /\ down[d] # <<>> /\ Message(d) = Head(down[d])
           /\ Consume(d) => down' = [down EXCEPT ![d] = Tail(@)] /\ codec' = codec
           /\ Message(d) \in ToSet(down[d])
  <1>1. MessageType /\ Backlog(d)
    BY Parts
  <1>2. codec[d] # <<>> => Head(codec[d]) \in ToSet(codec[d])
    BY <1>1, TailFacts DEF MessageType
  <1>3. codec[d] # <<>> => Head(codec[d]).kind = "ended"
    BY <1>1, <1>2 DEF Backlog, Bare, Msg
  <1>4. codec[d] = <<>> /\ down[d] # <<>> /\ Message(d) = Head(down[d])
    BY <1>1, <1>3, ReadFacts
  <1>5. Head(down[d]) \in ToSet(down[d])
    BY <1>1, <1>4, TailFacts DEF MessageType
  <1>. QED
    BY <1>4, <1>5 DEF Consume, FromBacklog

(* What the mediator does with the next request. *)
LEMMA ReceiveFacts ==
    ASSUME ContactSyncAssumption, IndInv, NEW d \in Devices, Receive(d)
    PROVE  /\ up[d] # <<>> /\ up' = [up EXCEPT ![d] = Tail(@)] /\ connected[d]
           /\ Head(up[d]) \in ToSet(up[d]) /\ Head(up[d]) \in Requests
           /\ ToSet(up'[d]) \subseteq ToSet(up[d])
           /\ UNCHANGED <<status, stale, seenAtStart, lock, applied, value, downloads, orphans,
                          acking, nonces, missed, tasks, running, phase, codec, backlog, connected, losses>>
           /\ \/ Head(up[d]).kind = "begin" /\ Begin(d)
              \/ Head(up[d]).kind = "reflect" /\ Stage(d, Head(up[d]).of)
              \/ Head(up[d]).kind = "commit" /\ Commit(d)
              \/ /\ Head(up[d]).kind = "ack"
                 /\ mailbox' = [mailbox EXCEPT ![d] = Without(@, Head(up[d]).of)]
                 /\ UNCHANGED <<holder, staged, log, down>>
  <1>1. MessageType /\ Offline(d)
    BY Parts
  <1>2. up[d] # <<>> /\ up' = [up EXCEPT ![d] = Tail(@)]
    BY DEF Receive
  <1>3. /\ Head(up[d]) \in ToSet(up[d]) /\ Head(up[d]) \in Requests
        /\ ToSet(Tail(up[d])) \subseteq ToSet(up[d])
    BY <1>1, <1>2, TailFacts DEF MessageType
  <1>4. ToSet(up'[d]) \subseteq ToSet(up[d])
    BY <1>1, <1>2, <1>3 DEF MessageType
  <1>. QED
    BY <1>1, <1>2, <1>3, <1>4 DEF Receive, Offline, updateVars, contactVars, reflectedVars, taskVars, linkVars

(* The task of a chat message gets the lock while it runs. *)
LEMMA RemoteServed ==
    ASSUME ContactSyncAssumption, IndInv, NEW u \in Updates, HoldRemote(u)
    PROVE  /\ running[Owner[u]] = u /\ phase[Owner[u]] = "idle" /\ connected[Owner[u]]
           /\ status[u] = "queued" /\ u \in Remote /\ Owner[u] \in Devices
           /\ lock[Owner[u]] # <<>> /\ Head(lock[Owner[u]]) = u
  <1>1. /\ Owner[u] \in Devices /\ status[u] = "queued" /\ u \in Remote
        /\ lock[Owner[u]] # <<>> /\ Head(lock[Owner[u]]) = u
    BY ServedFacts DEF HoldRemote
  <1>2. Runs(Owner[u]) /\ Offline(Owner[u]) /\ u # None
    BY <1>1, Parts DEF ContactSyncAssumption
  <1>. QED
    BY <1>1, <1>2 DEF Runs, Offline

(* Without a connection nothing is under way. *)
LEMMA OfflineStep ==
    ASSUME ContactSyncAssumption, IndInv, NEW d \in Devices, DeviceStep(d)
    PROVE  Offline(d)'
  <1>0. UpdateType /\ LineType /\ LinkType /\ MessageType /\ ContactType /\ LogType
    BY Parts
  <1>. Offline(d) /\ Line(d) /\ Runs(d) /\ Backlog(d)
    BY Parts
  <1>1. ASSUME NEW u \in Updates, Owner[u] = d, RequestLocal(u)
        PROVE  Offline(d)'
    BY <1>0, <1>1 DEF RequestLocal, taskVars, linkVars, reflectedVars, Offline
  <1>2. ASSUME NEW u \in Updates, Owner[u] = d, StartIncoming(u)
        PROVE  Offline(d)'
    BY <1>0, <1>2 DEF StartIncoming, linkVars, Offline
  <1>3. ASSUME NEW u \in Updates, Owner[u] = d, UpdateFromRemote(u)
        PROVE  Offline(d)'
    BY <1>0, <1>3, OwnerType DEF UpdateFromRemote, linkVars, Offline
  <1>4. ASSUME NEW u \in Updates, Owner[u] = d, HoldLocal(u)
        PROVE  Offline(d)'
    BY <1>0, <1>4 DEF HoldLocal, linkVars, Offline
  <1>5. ASSUME NEW u \in Updates, Owner[u] = d, AbortLocal(u)
        PROVE  Offline(d)'
    BY <1>0, <1>5 DEF AbortLocal, taskVars, linkVars, reflectedVars, Offline
  <1>6. ASSUME NEW u \in Updates, Owner[u] = d, HoldRemote(u)
        PROVE  Offline(d)'
    BY <1>6, RemoteServed DEF HoldRemote, linkVars, Offline
  <1>7. CASE StartTask(d)
    BY <1>0, <1>7 DEF StartTask, Idle, linkVars, Offline
  <1>8. CASE ReadAck(d)
    <2>1. connected'[d]
      BY <1>0, <1>8 DEF ReadAck, Reading, linkVars, Offline
    <2>. QED
      BY <2>1 DEF Offline
  <1>9. CASE OpenTransaction(d)
    BY <1>9, OpenFacts DEF linkVars, Offline
  <1>10. CASE ReadRejected(d)
    <2>1. connected'[d]
      BY <1>0, <1>10 DEF ReadRejected, Reading, linkVars, Offline
    <2>. QED
      BY <2>1 DEF Offline
  <1>11. CASE ReadEnded(d)
    <2>1. CASE CloseConnection(d)
      BY <2>1, CloseFacts DEF Offline
    <2>2. CASE UNCHANGED connected
      BY <1>11, <2>2, EndedFacts DEF Offline
    <2>. QED
      BY <1>11, <2>1, <2>2, EndedFacts
  <1>12. CASE ReadReflectAck(d)
    <2>1. connected'[d]
      BY <1>0, <1>12 DEF ReadReflectAck, Reading, linkVars, Offline
    <2>. QED
      BY <2>1 DEF Offline
  <1>13. CASE ReadCommitAck(d)
    BY <1>13, CommitAckFacts DEF Offline
  <1>14. CASE ReadSkipAck(d)
    <2>1. CASE CloseConnection(d)
      BY <2>1, CloseFacts DEF Offline
    <2>2. CASE UNCHANGED connected
      BY <1>14, <2>2, SkipAckFacts DEF Offline
    <2>. QED
      BY <1>14, <2>1, <2>2, SkipAckFacts
  <1>15. CASE ReadOther(d)
    <2>1. connected'[d]
      BY <1>0, <1>15 DEF ReadOther, Reading, linkVars, Offline
    <2>. QED
      BY <2>1 DEF Offline
  <1>16. CASE ReadReflected(d)
    <2>1. connected'[d]
      BY <1>0, <1>16 DEF ReadReflected, Reading, linkVars, Offline
    <2>. QED
      BY <2>1 DEF Offline
  <1>17. CASE RunReflected(d)
    BY <1>0, <1>17 DEF RunReflected, Idle, linkVars, Offline
  <1>18. CASE Ignore(d)
    BY <1>0, <1>18 DEF Ignore, Idle, linkVars, Offline
  <1>19. ASSUME NEW entry \in downloads[d] \union orphans[d], FinishDownload(d, entry)
        PROVE  Offline(d)'
    BY <1>0, <1>19 DEF FinishDownload, taskVars, linkVars, ContactType, Offline
  <1>20. ASSUME NEW a \in acking[d], Acknowledge(d, a[1], a[2])
        PROVE  Offline(d)'
    BY <1>0, <1>20 DEF Acknowledge, linkVars, Offline
  <1>21. CASE Receive(d)
    BY <1>21, ReceiveFacts DEF Offline
  <1>22. CASE LoseConnection(d)
    BY <1>22, CloseFacts DEF LoseConnection, Offline
  <1>23. CASE Reconnect(d)
    BY <1>0, <1>23 DEF Reconnect, LinkType, Offline
  <1>25. CASE EndUpload(d)
    <2>1. CASE CloseConnection(d)
      BY <2>1, CloseFacts DEF Offline
    <2>2. CASE ~CloseConnection(d)
      BY <1>25, <2>2, UploadFacts DEF linkVars, Offline
    <2>. QED
      BY <2>1, <2>2
  <1>. QED
    BY <1>1, <1>2, <1>3, <1>4, <1>5, <1>6, <1>7, <1>8, <1>9, <1>10, <1>11,
       <1>12, <1>13, <1>14, <1>15, <1>16, <1>17, <1>18, <1>19, <1>20, <1>21,
       <1>22, <1>23, <1>25
    DEF DeviceStep, UpdateStep, Transaction, Reflection, Blobs

(* Two lines, one after the other. *)
LEMMA ConcatElements ==
    ASSUME NEW S, NEW s \in Seq(S), NEW t \in Seq(S)
    PROVE  ToSet(s \o t) = ToSet(s) \union ToSet(t)
  <1>1. /\ Len(s) \in Nat /\ Len(t) \in Nat /\ DOMAIN s = 1 .. Len(s) /\ DOMAIN t = 1 .. Len(t)
        /\ DOMAIN (s \o t) = 1 .. Len(s) + Len(t)
    OBVIOUS
  <1>2. \A i \in 1 .. Len(s) + Len(t) : (s \o t)[i] = IF i <= Len(s) THEN s[i] ELSE t[i - Len(s)]
    OBVIOUS
  <1>3. \A i \in DOMAIN s : i \in DOMAIN (s \o t) /\ (s \o t)[i] = s[i]
    BY <1>1, <1>2
  <1>4. \A i \in DOMAIN t : i + Len(s) \in DOMAIN (s \o t) /\ (s \o t)[i + Len(s)] = t[i]
    BY <1>1, <1>2
  <1>5. \A i \in DOMAIN (s \o t) : \/ i \in DOMAIN s /\ (s \o t)[i] = s[i]
                                   \/ i - Len(s) \in DOMAIN t /\ (s \o t)[i] = t[i - Len(s)]
    BY <1>1, <1>2
  <1>6. ToSet(s \o t) \subseteq ToSet(s) \union ToSet(t)
    BY <1>5 DEF ToSet
  <1>7. ToSet(s) \subseteq ToSet(s \o t)
    BY <1>3 DEF ToSet
  <1>8. ToSet(t) \subseteq ToSet(s \o t)
    BY <1>4 DEF ToSet
  <1>. QED
    BY <1>6, <1>7, <1>8

(* A line in which everybody is once, after one has come or gone. *)
LEMMA LineAppend ==
    ASSUME NEW S, NEW s \in Seq(S), NEW e \in S, e \notin ToSet(s),
           \A p, q \in DOMAIN s : s[p] = s[q] => p = q
    PROVE  /\ \A p, q \in DOMAIN Append(s, e) : Append(s, e)[p] = Append(s, e)[q] => p = q
           /\ s # <<>> => Head(Append(s, e)) = Head(s)
  <1>1. /\ DOMAIN Append(s, e) = 1 .. Len(s) + 1 /\ DOMAIN s = 1 .. Len(s)
        /\ Append(s, e)[Len(s) + 1] = e /\ Len(s) \in Nat
    OBVIOUS
  <1>2. \A i \in 1 .. Len(s) : Append(s, e)[i] = s[i]
    OBVIOUS
  <1>3. \A i \in 1 .. Len(s) : s[i] # e
    BY <1>1 DEF ToSet
  <1>4. \A p, q \in DOMAIN Append(s, e) : Append(s, e)[p] = Append(s, e)[q] => p = q
    BY <1>1, <1>2, <1>3
  <1>5. s # <<>> => Head(Append(s, e)) = Head(s)
    OBVIOUS
  <1>. QED
    BY <1>4, <1>5

(* The line behind the first one. *)
LEMMA LineTail ==
    ASSUME NEW S, NEW s \in Seq(S), s # <<>>,
           \A p, q \in DOMAIN s : s[p] = s[q] => p = q
    PROVE  /\ ToSet(Tail(s)) = ToSet(s) \ {Head(s)}
           /\ \A p, q \in DOMAIN Tail(s) : Tail(s)[p] = Tail(s)[q] => p = q
  <1>1. /\ Len(s) \in Nat \ {0} /\ DOMAIN s = 1 .. Len(s) /\ Head(s) = s[1]
        /\ DOMAIN Tail(s) = 1 .. Len(s) - 1
    OBVIOUS
  <1>2. \A i \in 1 .. Len(s) - 1 : Tail(s)[i] = s[i + 1]
    OBVIOUS
  <1>3. \A p, q \in DOMAIN Tail(s) : Tail(s)[p] = Tail(s)[q] => p = q
    <2>1. SUFFICES ASSUME NEW p \in 1 .. Len(s) - 1, NEW q \in 1 .. Len(s) - 1,
                          Tail(s)[p] = Tail(s)[q]
                   PROVE  p = q
      BY <1>1
    <2>2. s[p + 1] = s[q + 1] /\ p + 1 \in DOMAIN s /\ q + 1 \in DOMAIN s
      BY <1>1, <1>2, <2>1
    <2>. QED
      BY <2>2
  <1>4. Head(s) \notin ToSet(Tail(s))
    <2>1. SUFFICES ASSUME NEW i \in 1 .. Len(s) - 1, Tail(s)[i] = s[1]
                   PROVE  FALSE
      BY <1>1 DEF ToSet
    <2>2. s[i + 1] = s[1] /\ i + 1 \in DOMAIN s /\ 1 \in DOMAIN s /\ i + 1 # 1
      BY <1>1, <1>2, <2>1
    <2>. QED
      BY <2>2
  <1>. QED
    BY <1>3, <1>4, TailFacts

(* A task returns its backlog: ends of transactions only. *)
LEMMA ReturnedBacklog ==
    ASSUME MessageType, NEW d \in Devices, Returned(d),
           \A m \in ToSet(codec[d]) \union ToSet(backlog[d]) : m.kind = "ended"
    PROVE  /\ \A m \in ToSet(codec'[d]) \union ToSet(backlog'[d]) : m.kind = "ended"
           /\ codec'[d] = <<>>
  <1>1. /\ codec'[d] = <<>> /\ backlog'[d] = codec[d] \o backlog[d]
        /\ codec[d] \in Seq(Answers) /\ backlog[d] \in Seq(Answers)
    BY DEF Returned, MessageType
  <1>. QED
    BY <1>1, ConcatElements, Elements, EmptySeq

(* A task gets the backlog: ends of transactions only. *)
LEMMA RunBacklog ==
    ASSUME MessageType, NEW d \in Devices, NEW task, Run(d, task), Backlog(d)
    PROVE  \A m \in ToSet(codec'[d]) \union ToSet(backlog'[d]) : m.kind = "ended"
  <1>1. codec'[d] = backlog[d] /\ backlog'[d] = <<>>
    BY DEF Run, MessageType
  <1>. QED
    BY <1>1, Elements, EmptySeq DEF Backlog

(* What a step leaves alone. *)
LEMMA BacklogFrame ==
    ASSUME NEW d \in Devices, Backlog(d), codec'[d] = codec[d], backlog'[d] = backlog[d],
           phase'[d] \notin {"idle", "begin"} => phase[d] \notin {"idle", "begin"} \/ codec[d] = <<>>
    PROVE  Backlog(d)'
  BY DEF Backlog

(* Closing a connection leaves no backlog. *)
LEMMA CloseBacklog ==
    ASSUME ContactSyncAssumption, IndInv, NEW d \in Devices, CloseConnection(d)
    PROVE  Backlog(d)'
  <1>1. codec'[d] = <<>> /\ backlog'[d] = <<>>
    BY CloseFacts
  <1>. QED
    BY <1>1, Elements, EmptySeq DEF Backlog

(* The end of an update returns the backlog. *)
LEMMA FinishBacklog ==
    ASSUME ContactSyncAssumption, IndInv, NEW d \in Devices, NEW result, Finish(d, result)
    PROVE  Backlog(d)'
  <1>1. MessageType /\ Backlog(d)
    BY Parts
  <1>2. Returned(d)
    BY DEF Finish
  <1>. QED
    BY <1>1, <1>2, ReturnedBacklog DEF Backlog

(* What is put off is read before the transaction opens. *)
LEMMA BacklogStep ==
    ASSUME ContactSyncAssumption, IndInv, NEW d \in Devices, DeviceStep(d)
    PROVE  Backlog(d)'
  <1>0. UpdateType /\ LineType /\ LinkType /\ MessageType /\ ContactType /\ LogType
    BY Parts
  <1>. Offline(d) /\ Line(d) /\ Runs(d) /\ Backlog(d)
    BY Parts
  <1>1. ASSUME NEW u \in Updates, Owner[u] = d, RequestLocal(u)
        PROVE  Backlog(d)'
    BY <1>1, BacklogFrame DEF RequestLocal, taskVars
  <1>2. ASSUME NEW u \in Updates, Owner[u] = d, StartIncoming(u)
        PROVE  Backlog(d)'
    <2>1. Run(d, u)
      BY <1>2 DEF StartIncoming
    <2>2. phase'[d] \in {"idle", "begin"}
      BY <1>0, <1>2, OwnerType DEF StartIncoming, Idle, Phase, LinkType, Runs
    <2>. QED
      BY <1>0, <2>1, <2>2, RunBacklog DEF Backlog
  <1>3. ASSUME NEW u \in Updates, Owner[u] = d, UpdateFromRemote(u)
        PROVE  Backlog(d)'
    BY <1>3, BacklogFrame DEF UpdateFromRemote, taskVars
  <1>4. ASSUME NEW u \in Updates, Owner[u] = d, HoldLocal(u)
        PROVE  Backlog(d)'
    BY <1>4, BacklogFrame DEF HoldLocal, taskVars
  <1>5. ASSUME NEW u \in Updates, Owner[u] = d, AbortLocal(u)
        PROVE  Backlog(d)'
    BY <1>5, BacklogFrame DEF AbortLocal, taskVars
  <1>6. ASSUME NEW u \in Updates, Owner[u] = d, HoldRemote(u)
        PROVE  Backlog(d)'
    <2>1. UNCHANGED <<codec, backlog>> /\ phase'[d] = "begin"
      BY <1>0, <1>6 DEF HoldRemote, Phase, LinkType
    <2>. QED
      BY <2>1, BacklogFrame
  <1>7. CASE StartTask(d)
    <2>1. Run(d, Head(tasks[d]))
      BY <1>7 DEF StartTask
    <2>2. phase'[d] \in {"idle", "begin"}
      BY <1>0, <1>7, OwnerType DEF StartTask, Idle, Phase, LinkType, Runs
    <2>. QED
      BY <1>0, <2>1, <2>2, RunBacklog DEF Backlog
  <1>8. CASE ReadAck(d)
    <2>1. Reading(d) /\ Message(d).kind # "ended" /\ Consume(d) /\ backlog' = backlog
      BY <1>8 DEF ReadAck, Bare, Msg, taskVars
    <2>2. codec[d] = <<>> /\ codec' = codec
      BY <2>1, AnswerFacts
    <2>. QED
      BY <2>1, <2>2, BacklogFrame
  <1>9. CASE OpenTransaction(d)
    BY <1>9, OpenFacts, BacklogFrame
  <1>10. CASE ReadRejected(d)
    <2>1. Reading(d) /\ Message(d).kind # "ended" /\ Consume(d) /\ backlog' = backlog
      BY <1>10 DEF ReadRejected, Bare, Msg, taskVars
    <2>2. codec[d] = <<>> /\ codec' = codec
      BY <2>1, AnswerFacts
    <2>. QED
      BY <2>1, <2>2, BacklogFrame
  <1>11. CASE ReadEnded(d)
    <2>1. CASE CloseConnection(d)
      BY <2>1, CloseBacklog
    <2>2. CASE Finish(d, "failed")
      BY <2>2, FinishBacklog
    <2>3. CASE codec' = codec /\ Phase(d, "begin") /\ UNCHANGED backlog
      BY <1>11, <2>3, EndedFacts, BacklogFrame
    <2>. QED
      BY <1>11, <2>1, <2>2, <2>3, EndedFacts
  <1>12. CASE ReadReflectAck(d)
    <2>1. Reading(d) /\ Message(d).kind # "ended" /\ Consume(d) /\ backlog' = backlog
      BY <1>12 DEF ReadReflectAck, Bare, Msg, taskVars
    <2>2. codec[d] = <<>> /\ codec' = codec
      BY <2>1, AnswerFacts
    <2>. QED
      BY <2>1, <2>2, BacklogFrame
  <1>13. CASE ReadCommitAck(d)
    BY <1>13, CommitAckFacts, FinishBacklog
  <1>14. CASE ReadSkipAck(d)
    <2>1. CASE CloseConnection(d)
      BY <2>1, CloseBacklog
    <2>2. CASE Finish(d, "failed")
      BY <2>2, FinishBacklog
    <2>. QED
      BY <1>14, <2>1, <2>2, SkipAckFacts
  <1>15. CASE ReadOther(d)
    <2>1. /\ Reading(d) /\ Message(d).kind = "ended" /\ Consume(d) /\ UNCHANGED phase
          /\ backlog' = [backlog EXCEPT ![d] = Append(@, Message(d))]
      BY <1>15 DEF ReadOther
    <2>2. Message(d) \in Answers
      BY <1>0, <2>1, ReadFacts
    <2>3. backlog'[d] = Append(backlog[d], Message(d)) /\ backlog[d] \in Seq(Answers)
          /\ codec[d] \in Seq(Answers)
      BY <1>0, <2>1 DEF MessageType
    <2>4. \A m \in ToSet(backlog'[d]) : m.kind = "ended"
      BY <2>1, <2>2, <2>3, AppendFacts DEF Backlog
    <2>5. codec'[d] = codec[d] \/ (codec[d] # <<>> /\ codec'[d] = Tail(codec[d]))
      BY <1>0, <2>1 DEF Consume, FromBacklog, MessageType
    <2>6. \A m \in ToSet(codec'[d]) : m \in ToSet(codec[d])
      BY <2>3, <2>5, TailFacts
    <2>. QED
      BY <2>1, <2>4, <2>5, <2>6 DEF Backlog
  <1>16. CASE ReadReflected(d)
    <2>1. Reading(d) /\ Message(d).kind # "ended" /\ Consume(d) /\ backlog' = backlog
      BY <1>16 DEF ReadReflected
    <2>2. codec[d] = <<>> /\ codec' = codec
      BY <2>1, AnswerFacts
    <2>. QED
      BY <2>1, <2>2, BacklogFrame
  <1>17. CASE RunReflected(d)
    <2>1. Run(d, "reflected")
      BY <1>17 DEF RunReflected
    <2>2. phase'[d] \in {"idle", "begin"}
      BY <1>0, <1>17, OwnerType DEF RunReflected, Idle, Phase, LinkType, Runs
    <2>. QED
      BY <1>0, <2>1, <2>2, RunBacklog DEF Backlog
  <1>18. CASE Ignore(d)
    <2>1. /\ UNCHANGED <<phase, codec>>
          /\ backlog'[d] = backlog[d] \/ (backlog[d] # <<>> /\ backlog'[d] = Tail(backlog[d]))
      BY <1>0, <1>18 DEF Ignore, MessageType
    <2>2. \A m \in ToSet(backlog'[d]) : m \in ToSet(backlog[d])
      BY <1>0, <2>1, TailFacts DEF MessageType
    <2>. QED
      BY <2>1, <2>2 DEF Backlog
  <1>19. ASSUME NEW entry \in downloads[d] \union orphans[d], FinishDownload(d, entry)
        PROVE  Backlog(d)'
    BY <1>19, BacklogFrame DEF FinishDownload, taskVars
  <1>20. ASSUME NEW a \in acking[d], Acknowledge(d, a[1], a[2])
        PROVE  Backlog(d)'
    <2>1. /\ UNCHANGED phase
          /\ \/ Returned(d)
             \/ UNCHANGED <<codec, backlog>>
      BY <1>20 DEF Acknowledge
    <2>2. CASE Returned(d)
      BY <1>0, <2>1, <2>2, ReturnedBacklog DEF Backlog
    <2>. QED
      BY <2>1, <2>2, BacklogFrame
  <1>21. CASE Receive(d)
    BY <1>21, ReceiveFacts, BacklogFrame
  <1>22. CASE LoseConnection(d)
    BY <1>22, CloseBacklog DEF LoseConnection
  <1>23. CASE Reconnect(d)
    BY <1>23, BacklogFrame DEF Reconnect
  <1>25. CASE EndUpload(d)
    <2>1. CASE CloseConnection(d)
      BY <2>1, CloseBacklog
    <2>2. CASE ~CloseConnection(d)
      BY <1>0, <1>25, <2>2, UploadFacts, BacklogFrame
    <2>. QED
      BY <2>1, <2>2
  <1>. QED
    BY <1>1, <1>2, <1>3, <1>4, <1>5, <1>6, <1>7, <1>8, <1>9, <1>10, <1>11,
       <1>12, <1>13, <1>14, <1>15, <1>16, <1>17, <1>18, <1>19, <1>20, <1>21,
       <1>22, <1>23, <1>25
    DEF DeviceStep, UpdateStep, Transaction, Reflection, Blobs

(* The update that runs, after a step that only ends or only moves on. *)
LEMMA FinishRuns ==
    ASSUME ContactSyncAssumption, IndInv, NEW d \in Devices, Finish(d, "done") \/ Finish(d, "failed"),
           phase[d] # "idle"
    PROVE  Runs(d)'
  <1>1. /\ UpdateType /\ LinkType /\ Runs(d)
        /\ running[d] \in Updates
    BY Parts, TransactionFacts
  <1>2. /\ running'[d] = None /\ phase'[d] = "idle"
        /\ \A u \in Updates : u # running[d] => status'[u] = status[u]
        /\ status'[running[d]] \in {"done", "failed"}
    BY <1>1 DEF Finish, Returned, Phase, UpdateType, LinkType
  <1>. QED
    BY <1>1, <1>2, OwnerType DEF Runs

(* Nothing runs without a connection. *)
LEMMA CloseRuns ==
    ASSUME ContactSyncAssumption, IndInv, NEW d \in Devices, CloseConnection(d)
    PROVE  Runs(d)'
  <1>1. /\ running'[d] = None /\ phase'[d] = "idle"
        /\ \A v \in Updates : status'[v] = IF v = running[d] /\ v \in Remote THEN "new" ELSE status[v]
    BY CloseFacts
  <1>. QED
    BY <1>1, Parts, OwnerType DEF Runs

(* What runs goes on in its transaction. *)
LEMMA RunsFrame ==
    ASSUME NEW d \in Devices, Runs(d), running'[d] = running[d],
           phase'[d] = phase[d] \/ (phase[d] # "idle" /\ phase'[d] # "idle"),
           UNCHANGED status
    PROVE  Runs(d)'
  BY DEF Runs

(* What runs holds the lock of the contact, or has not asked for it yet. *)
LEMMA RunsStep ==
    ASSUME ContactSyncAssumption, IndInv, NEW d \in Devices, DeviceStep(d)
    PROVE  Runs(d)'
  <1>0. UpdateType /\ LineType /\ LinkType /\ MessageType /\ ContactType /\ LogType
    BY Parts
  <1>. Offline(d) /\ Line(d) /\ Runs(d) /\ Backlog(d)
    BY Parts
  <1>1. ASSUME NEW u \in Updates, Owner[u] = d, RequestLocal(u)
        PROVE  Runs(d)'
    <2>1. /\ UNCHANGED <<running, phase>> /\ status[u] \in {"new", "queued"}
          /\ u \in Local
          /\ \A v \in Updates : status'[v] = IF v = u THEN "queued" ELSE status[v]
      BY <1>0, <1>1 DEF RequestLocal, Served, UpdateType, taskVars
    <2>. QED
      BY <2>1, OwnerType DEF Runs
  <1>2. ASSUME NEW u \in Updates, Owner[u] = d, StartIncoming(u)
        PROVE  Runs(d)'
    <2>1. /\ u \in Remote /\ status[u] = "new" /\ running[d] = None /\ running'[d] = u
          /\ UNCHANGED <<status, phase>>
      BY <1>0, <1>2 DEF StartIncoming, Run, LinkType, updateVars
    <2>. QED
      BY <1>2, <2>1, OwnerType DEF Runs
  <1>3. ASSUME NEW u \in Updates, Owner[u] = d, UpdateFromRemote(u)
        PROVE  Runs(d)'
    <2>1. /\ UNCHANGED <<running, phase>> /\ status[u] \in {"new", "queued"}
          /\ u \in Remote /\ status[u] = "new" /\ running[d] = u
          /\ \A v \in Updates : status'[v] = IF v = u THEN "queued" ELSE status[v]
      BY <1>0, <1>3 DEF UpdateFromRemote, UpdateType, taskVars
    <2>. QED
      BY <2>1, OwnerType DEF Runs
  <1>4. ASSUME NEW u \in Updates, Owner[u] = d, HoldLocal(u)
        PROVE  Runs(d)'
    <2>1. /\ UNCHANGED <<running, phase>> /\ status[u] \in {"new", "queued"}
          /\ u \in Local
          /\ \A v \in Updates : status'[v] = IF v = u THEN "held" ELSE status[v]
      BY <1>0, <1>4 DEF HoldLocal, Served, UpdateType, taskVars
    <2>. QED
      BY <2>1, OwnerType DEF Runs
  <1>5. ASSUME NEW u \in Updates, Owner[u] = d, AbortLocal(u)
        PROVE  Runs(d)'
    <2>1. /\ UNCHANGED <<running, phase>> /\ status[u] \in {"new", "queued"}
          /\ u \in Local
          /\ \A v \in Updates : status'[v] = IF v = u THEN "failed" ELSE status[v]
      BY <1>0, <1>5 DEF AbortLocal, Served, UpdateType, taskVars
    <2>. QED
      BY <2>1, OwnerType DEF Runs
  <1>6. ASSUME NEW u \in Updates, Owner[u] = d, HoldRemote(u)
        PROVE  Runs(d)'
    <2>1. /\ running[d] = u /\ u \in Remote /\ UNCHANGED running /\ phase'[d] = "begin"
          /\ \A v \in Updates : status'[v] = IF v = u THEN "held" ELSE status[v]
      BY <1>0, <1>6, RemoteServed DEF HoldRemote, Phase, LinkType, UpdateType
    <2>. QED
      BY <2>1, OwnerType DEF Runs
  <1>7. CASE StartTask(d)
    <2>1. running[d] = None /\ running'[d] = Head(tasks[d]) /\ phase'[d] = "begin" /\ UNCHANGED status
      BY <1>0, <1>7 DEF StartTask, Run, Phase, LinkType, updateVars
    <2>2. PICK v \in Local : Owner[v] = d /\ status[v] = "held" /\ tasks[d] = <<v>>
      BY <1>7 DEF StartTask, Line
    <2>. QED
      BY <2>1, <2>2, OwnerType DEF Runs
  <1>8. CASE ReadAck(d)
    BY <1>0, <1>8, RunsFrame DEF ReadAck, Reading, Phase, Returned, LinkType, MessageType, updateVars, taskVars, linkVars
  <1>9. CASE OpenTransaction(d)
    <2>1. phase[d] = "open" /\ phase'[d] # "idle" /\ UNCHANGED <<status, running>>
      BY <1>0, <1>9, OpenFacts DEF Phase, LinkType, updateVars
    <2>. QED
      BY <2>1, RunsFrame
  <1>10. CASE ReadRejected(d)
    BY <1>0, <1>10, RunsFrame DEF ReadRejected, Reading, Phase, Returned, LinkType, MessageType, updateVars, taskVars, linkVars
  <1>11. CASE ReadEnded(d)
    <2>1. CASE CloseConnection(d)
      BY <2>1, CloseRuns
    <2>2. CASE Finish(d, "failed")
      BY <2>2, <1>11, EndedFacts, FinishRuns
    <2>3. CASE Phase(d, "begin") /\ UNCHANGED <<status, running>>
      <3>1. phase[d] = "waiting" /\ phase'[d] = "begin"
        BY <1>0, <1>11, <2>3, EndedFacts DEF Phase, LinkType
      <3>. QED
        BY <2>3, <3>1, RunsFrame
    <2>. QED
      BY <1>11, <2>1, <2>2, <2>3, EndedFacts
  <1>12. CASE ReadReflectAck(d)
    BY <1>0, <1>12, RunsFrame DEF ReadReflectAck, Reading, Phase, Returned, LinkType, MessageType, updateVars, taskVars, linkVars
  <1>13. CASE ReadCommitAck(d)
    BY <1>13, CommitAckFacts, FinishRuns
  <1>14. CASE ReadSkipAck(d)
    <2>1. CASE CloseConnection(d)
      BY <2>1, CloseRuns
    <2>2. CASE Finish(d, "failed")
      BY <2>2, <1>14, SkipAckFacts, FinishRuns
    <2>. QED
      BY <1>14, <2>1, <2>2, SkipAckFacts
  <1>15. CASE ReadOther(d)
    BY <1>0, <1>15, RunsFrame DEF ReadOther, Reading, Phase, Returned, LinkType, MessageType, updateVars, taskVars, linkVars
  <1>16. CASE ReadReflected(d)
    BY <1>0, <1>16, RunsFrame DEF ReadReflected, Reading, Phase, Returned, LinkType, MessageType, updateVars, taskVars, linkVars
  <1>17. CASE RunReflected(d)
    <2>1. running[d] = None /\ running'[d] = "reflected" /\ UNCHANGED <<status, phase>>
      BY <1>0, <1>17 DEF RunReflected, Idle, Run, LinkType
    <2>. QED
      BY <2>1, OwnerType DEF Runs
  <1>18. CASE Ignore(d)
    BY <1>0, <1>18, RunsFrame DEF Ignore, Reading, Phase, Returned, LinkType, MessageType, updateVars, taskVars, linkVars
  <1>19. ASSUME NEW entry \in downloads[d] \union orphans[d], FinishDownload(d, entry)
        PROVE  Runs(d)'
    BY <1>0, <1>19, RunsFrame DEF FinishDownload, Reading, Phase, Returned, LinkType, MessageType, updateVars, taskVars, linkVars
  <1>20. ASSUME NEW a \in acking[d], Acknowledge(d, a[1], a[2])
        PROVE  Runs(d)'
    <2>1. /\ UNCHANGED <<status, phase>>
          /\ \/ running[d] = "reflected" /\ running'[d] = None
             \/ running'[d] = running[d]
      BY <1>0, <1>20 DEF Acknowledge, Returned, updateVars, LinkType
    <2>. QED
      BY <2>1, OwnerType DEF Runs
  <1>21. CASE Receive(d)
    BY <1>21, ReceiveFacts, RunsFrame
  <1>22. CASE LoseConnection(d)
    BY <1>22, CloseRuns DEF LoseConnection
  <1>23. CASE Reconnect(d)
    <2>1. /\ running'[d] = None /\ phase'[d] = phase[d] /\ running[d] = None
          /\ \A v \in Updates : status'[v] \in {"failed", status[v]}
      BY <1>0, <1>23 DEF Reconnect, Offline
    <2>. QED
      BY <2>1, OwnerType DEF Runs
  <1>25. CASE EndUpload(d)
    <2>1. CASE CloseConnection(d)
      BY <2>1, CloseRuns
    <2>2. CASE ~CloseConnection(d)
      <3>1. phase[d] = "upload" /\ phase'[d] # "idle" /\ UNCHANGED <<status, running>>
        BY <1>0, <1>25, <2>2, UploadFacts DEF Phase, LinkType, updateVars
      <3>. QED
        BY <3>1, RunsFrame
    <2>. QED
      BY <2>1, <2>2
  <1>. QED
    BY <1>1, <1>2, <1>3, <1>4, <1>5, <1>6, <1>7, <1>8, <1>9, <1>10, <1>11,
       <1>12, <1>13, <1>14, <1>15, <1>16, <1>17, <1>18, <1>19, <1>20, <1>21,
       <1>22, <1>23, <1>25
    DEF DeviceStep, UpdateStep, Transaction, Reflection, Blobs

(* The lock of a device: its line, and where each of its updates is in it.  *)
Locked(d) == Line(d) /\ \A v \in Updates : Owner[v] = d => InLine(v)

(* Somebody leaves the front of the line, or joins it at the end.           *)
LEMMA LeaveLine ==
    ASSUME ContactSyncAssumption, IndInv, NEW d \in Devices, NEW u \in Updates, Owner[u] = d,
           lock[d] # <<>>, Head(lock[d]) = u, lock'[d] = Tail(lock[d]),
           status'[u] \in {"new", "done", "failed"},
           \A v \in Updates : v # u => status'[v] = status[v],
           tasks'[d] = IF tasks[d] = <<u>> THEN <<>> ELSE tasks[d]
    PROVE  Locked(d)'
  <1>1. /\ UpdateType /\ LineType /\ Line(d) /\ \A v \in Updates : InLine(v)
    BY Parts
  <1>2. /\ ToSet(lock'[d]) = ToSet(lock[d]) \ {u}
        /\ \A p, q \in DOMAIN lock'[d] : lock'[d][p] = lock'[d][q] => p = q
    <2>1. lock[d] \in Seq(Updates) /\ \A p, q \in DOMAIN lock[d] : lock[d][p] = lock[d][q] => p = q
      BY <1>1 DEF LineType, Line
    <2>2. /\ ToSet(Tail(lock[d])) = ToSet(lock[d]) \ {Head(lock[d])}
          /\ \A p, q \in DOMAIN Tail(lock[d]) : Tail(lock[d])[p] = Tail(lock[d])[q] => p = q
      BY <2>1, LineTail
    <2>. QED
      BY <2>2
  <1>3. \A v \in Updates : Owner[v] = d /\ v # u => status[v] # "held"
    BY <1>1 DEF InLine
  <1>4. \A v \in Updates : Owner[v] = d => InLine(v)'
    BY <1>1, <1>2, <1>3 DEF InLine
  <1>5. Line(d)'
    <2>1. tasks'[d] = <<>>
      BY <1>1, <1>3, OwnerType DEF Line
    <2>. QED
      BY <1>1, <1>2, <2>1 DEF Line
  <1>. QED
    BY <1>4, <1>5 DEF Locked

(* A new update gets in line. *)
LEMMA JoinLine ==
    ASSUME ContactSyncAssumption, IndInv, NEW d \in Devices, NEW u \in Updates, Owner[u] = d,
           status[u] = "new", lock'[d] = Append(lock[d], u),
           \A v \in Updates : status'[v] = IF v = u THEN "queued" ELSE status[v],
           tasks'[d] = tasks[d]
    PROVE  Locked(d)'
  <1>1. /\ UpdateType /\ LineType /\ Line(d) /\ \A v \in Updates : InLine(v)
    BY Parts
  <1>2. u \notin ToSet(lock[d])
    BY <1>1 DEF InLine
  <1>3. /\ ToSet(lock'[d]) = ToSet(lock[d]) \union {u}
        /\ lock[d] # <<>> => Head(lock'[d]) = Head(lock[d])
        /\ \A p, q \in DOMAIN lock'[d] : lock'[d][p] = lock'[d][q] => p = q
    <2>1. lock[d] \in Seq(Updates) /\ \A p, q \in DOMAIN lock[d] : lock[d][p] = lock[d][q] => p = q
      BY <1>1 DEF LineType, Line
    <2>2. ToSet(Append(lock[d], u)) = ToSet(lock[d]) \union {u}
      BY <2>1, AppendFacts
    <2>3. /\ lock[d] # <<>> => Head(Append(lock[d], u)) = Head(lock[d])
          /\ \A p, q \in DOMAIN Append(lock[d], u) :
                Append(lock[d], u)[p] = Append(lock[d], u)[q] => p = q
      BY <1>2, <2>1, LineAppend
    <2>. QED
      BY <2>2, <2>3
  <1>4. \A v \in Updates : Owner[v] = d /\ status[v] = "held" => lock[d] # <<>>
    BY <1>1, Elements DEF InLine, LineType
  <1>5. \A v \in Updates : Owner[v] = d => InLine(v)'
    BY <1>1, <1>3, <1>4 DEF InLine
  <1>6. Line(d)'
    <2>1. \A v \in Local : Owner[v] = d /\ status[v] = "held" => status'[v] = "held"
      BY OwnerType
    <2>. QED
      BY <1>1, <1>3, <2>1 DEF Line
  <1>. QED
    BY <1>5, <1>6 DEF Locked

(* The first in line is served.                                             *)
LEMMA HoldLine ==
    ASSUME ContactSyncAssumption, IndInv, NEW d \in Devices, NEW u \in Updates, Owner[u] = d,
           Served(u), lock'[d] = lock[d],
           \A v \in Updates : status'[v] = IF v = u THEN "held" ELSE status[v],
           tasks'[d] = IF u \in Local THEN Append(tasks[d], u) ELSE tasks[d]
    PROVE  Locked(d)'
  <1>1. /\ UpdateType /\ LineType /\ Line(d) /\ \A v \in Updates : InLine(v)
        /\ status[u] = "queued" /\ Head(lock[d]) = u
    BY Parts DEF Served
  <1>2. \A v \in Updates : Owner[v] = d => status[v] # "held"
    BY <1>1 DEF InLine
  <1>3. tasks[d] = <<>>
    BY <1>1, <1>2, OwnerType DEF Line
  <1>4. tasks'[d] = IF u \in Local THEN <<u>> ELSE <<>>
    BY <1>3
  <1>5. \A v \in Updates : Owner[v] = d => InLine(v)'
    BY <1>1, <1>2, <1>4 DEF InLine
  <1>6. Line(d)'
    <2>1. tasks'[d] # <<>> => u \in Local /\ status'[u] = "held" /\ tasks'[d] = <<u>>
      BY <1>4
    <2>. QED
      BY <1>1, <2>1 DEF Line
  <1>. QED
    BY <1>5, <1>6 DEF Locked

(* No update, no lock and no task changes. *)
LEMMA LockedFrame ==
    ASSUME IndInv, NEW d \in Devices, UNCHANGED <<status, lock, tasks>>
    PROVE  Locked(d)'
  BY Parts DEF Locked, Line, InLine

(* The connection is closed: the task of a chat message leaves the line.    *)
LEMMA CloseLocked ==
    ASSUME ContactSyncAssumption, IndInv, NEW d \in Devices, CloseConnection(d), tasks' = tasks
    PROVE  Locked(d)'
  <1>1. /\ UpdateType /\ LineType /\ Line(d) /\ Runs(d) /\ \A v \in Updates : InLine(v)
    BY Parts
  <1>2. /\ lock'[d] = IF running[d] \in Remote THEN Without(lock[d], running[d]) ELSE lock[d]
        /\ \A v \in Updates :
              status'[v] = IF v = running[d] /\ v \in Remote THEN "new" ELSE status[v]
    BY CloseFacts
  <1>3. CASE running[d] \notin Remote
    <2>1. lock'[d] = lock[d] /\ \A v \in Updates : status'[v] = status[v]
      BY <1>2, <1>3
    <2>. QED
      BY <1>1, <2>1, OwnerType DEF Locked, Line, InLine
  <1>4. CASE running[d] \in Remote
    <2>. DEFINE u == running[d]
    <2>1. u \in Updates /\ Owner[u] = d
      BY <1>1, <1>4, OwnerType DEF Runs
    <2>. HIDE DEF u
    <2>2. /\ lock'[d] = Without(lock[d], u) /\ u \in Remote
          /\ \A v \in Updates : status'[v] = IF v = u THEN "new" ELSE status[v]
      BY <1>2, <1>4 DEF u
    <2>3. /\ ToSet(lock'[d]) = ToSet(lock[d]) \ {u}
          /\ \A p, q \in DOMAIN lock'[d] : lock'[d][p] = lock'[d][q] => p = q
          /\ lock[d] # <<>> /\ Head(lock[d]) # u => Head(lock'[d]) = Head(lock[d])
      <3>1. lock[d] \in Seq(Updates) /\ \A p, q \in DOMAIN lock[d] : lock[d][p] = lock[d][q] => p = q
        BY <1>1 DEF LineType, Line
      <3>2. /\ ToSet(Without(lock[d], u)) = ToSet(lock[d]) \ {u}
            /\ lock[d] # <<>> /\ Head(lock[d]) # u => Head(Without(lock[d], u)) = Head(lock[d])
            /\ \A p, q \in DOMAIN Without(lock[d], u) :
                  Without(lock[d], u)[p] = Without(lock[d], u)[q] => p = q
        BY <3>1, WithoutFacts
      <3>. QED
        BY <2>2, <3>2
    <2>4. \A v \in Updates : Owner[v] = d /\ status[v] = "held" => lock[d] # <<>>
      BY <1>1, Elements DEF InLine, LineType
    <2>5. \A v \in Updates : Owner[v] = d => InLine(v)'
      BY <1>1, <2>2, <2>3, <2>4 DEF InLine
    <2>6. Line(d)'
      <3>1. \A v \in Local : status'[v] = status[v]
        BY <2>2, OwnerType
      <3>. QED
        BY <1>1, <2>3, <3>1 DEF Line
    <2>. QED
      BY <2>5, <2>6 DEF Locked
  <1>. QED
    BY <1>3, <1>4

(* The end of an update: it leaves the line. *)
LEMMA FinishLocked ==
    ASSUME ContactSyncAssumption, IndInv, NEW d \in Devices, phase[d] # "idle",
           Finish(d, "done") \/ Finish(d, "failed")
    PROVE  Locked(d)'
  <1>. DEFINE u == running[d]
  <1>1. UpdateType /\ LineType
    BY Parts
  <1>2. /\ u \in Updates /\ Owner[u] = d /\ lock[d] # <<>> /\ Head(lock[d]) = u
        /\ tasks[d] = IF u \in Local THEN <<u>> ELSE <<>>
    BY TransactionFacts, OwnerType DEF Local
  <1>3. /\ lock' = [lock EXCEPT ![d] = Tail(@)]
        /\ tasks' = [tasks EXCEPT ![d] = IF u \in Local THEN Tail(@) ELSE @]
        /\ status' = [status EXCEPT ![u] = "done"] \/ status' = [status EXCEPT ![u] = "failed"]
    BY DEF Finish
  <1>. HIDE DEF u
  <1>4. /\ lock'[d] = Tail(lock[d]) /\ status'[u] \in {"new", "done", "failed"}
        /\ \A v \in Updates : v # u => status'[v] = status[v]
    BY <1>1, <1>2, <1>3 DEF UpdateType, LineType
  <1>5. tasks'[d] = IF tasks[d] = <<u>> THEN <<>> ELSE tasks[d]
    BY <1>1, <1>2, <1>3 DEF LineType
  <1>. QED
    BY <1>2, <1>4, <1>5, LeaveLine

(* The line for the lock of the contact. *)
LEMMA LockedStep ==
    ASSUME ContactSyncAssumption, IndInv, NEW d \in Devices, DeviceStep(d)
    PROVE  Locked(d)'
  <1>0. UpdateType /\ LineType /\ LinkType
    BY Parts
  <1>. Line(d) /\ Runs(d) /\ \A v \in Updates : InLine(v)
    BY Parts
  <1>1. ASSUME NEW u \in Updates, Owner[u] = d, RequestLocal(u)
        PROVE  Locked(d)'
    <2>1. /\ status[u] = "new" /\ lock'[d] = Append(lock[d], u) /\ tasks'[d] = tasks[d]
          /\ \A v \in Updates : status'[v] = IF v = u THEN "queued" ELSE status[v]
      BY <1>0, <1>1 DEF RequestLocal, taskVars, UpdateType, LineType
    <2>. QED
      BY <1>1, <2>1, JoinLine
  <1>2. ASSUME NEW u \in Updates, Owner[u] = d, StartIncoming(u)
        PROVE  Locked(d)'
    BY <1>2, LockedFrame DEF StartIncoming, updateVars, contactVars, taskVars
  <1>3. ASSUME NEW u \in Updates, Owner[u] = d, UpdateFromRemote(u)
        PROVE  Locked(d)'
    <2>1. /\ status[u] = "new" /\ lock'[d] = Append(lock[d], u) /\ tasks'[d] = tasks[d]
          /\ \A v \in Updates : status'[v] = IF v = u THEN "queued" ELSE status[v]
      BY <1>0, <1>3 DEF UpdateFromRemote, taskVars, UpdateType, LineType
    <2>. QED
      BY <1>3, <2>1, JoinLine
  <1>4. ASSUME NEW u \in Updates, Owner[u] = d, HoldLocal(u)
        PROVE  Locked(d)'
    <2>1. /\ Served(u) /\ lock'[d] = lock[d]
          /\ \A v \in Updates : status'[v] = IF v = u THEN "held" ELSE status[v]
          /\ tasks'[d] = IF u \in Local THEN Append(tasks[d], u) ELSE tasks[d]
      BY <1>0, <1>4, OwnerType DEF HoldLocal, contactVars, UpdateType, LineType
    <2>. QED
      BY <1>4, <2>1, HoldLine
  <1>5. ASSUME NEW u \in Updates, Owner[u] = d, AbortLocal(u)
        PROVE  Locked(d)'
    <2>1. /\ Served(u) /\ lock'[d] = Tail(lock[d]) /\ tasks'[d] = tasks[d]
          /\ status'[u] \in {"new", "done", "failed"}
          /\ \A v \in Updates : v # u => status'[v] = status[v]
      BY <1>0, <1>5 DEF AbortLocal, taskVars, UpdateType, LineType
    <2>2. status[u] = "queued" /\ lock[d] # <<>> /\ Head(lock[d]) = u
      BY <1>5, <2>1, ServedFacts
    <2>3. tasks[d] = <<>>
      BY <1>5, <2>2, OwnerType DEF Line, InLine
    <2>. QED
      BY <1>5, <2>1, <2>2, <2>3, LeaveLine
  <1>6. ASSUME NEW u \in Updates, Owner[u] = d, HoldRemote(u)
        PROVE  Locked(d)'
    <2>1. /\ Served(u) /\ lock'[d] = lock[d]
          /\ \A v \in Updates : status'[v] = IF v = u THEN "held" ELSE status[v]
          /\ tasks'[d] = IF u \in Local THEN Append(tasks[d], u) ELSE tasks[d]
      BY <1>0, <1>6, OwnerType DEF HoldRemote, contactVars, UpdateType, LineType
    <2>. QED
      BY <1>6, <2>1, HoldLine
  <1>7. CASE StartTask(d)
    BY <1>7, LockedFrame DEF StartTask, updateVars, contactVars, taskVars
  <1>8. CASE ReadAck(d)
    BY <1>8, LockedFrame DEF ReadAck, updateVars, contactVars, taskVars
  <1>9. CASE OpenTransaction(d)
    BY <1>9, OpenFacts, LockedFrame DEF updateVars, contactVars
  <1>10. CASE ReadRejected(d)
    BY <1>10, LockedFrame DEF ReadRejected, updateVars, contactVars, taskVars
  <1>11. CASE ReadEnded(d)
    <2>1. CASE CloseConnection(d) /\ UNCHANGED tasks
      BY <2>1, CloseLocked
    <2>2. CASE Finish(d, "failed")
      BY <2>2, <1>11, EndedFacts, FinishLocked
    <2>3. CASE UNCHANGED <<status, lock, tasks>>
      BY <2>3, LockedFrame
    <2>. QED
      BY <1>11, <2>1, <2>2, <2>3, EndedFacts
  <1>12. CASE ReadReflectAck(d)
    BY <1>12, LockedFrame DEF ReadReflectAck, updateVars, contactVars, taskVars
  <1>13. CASE ReadCommitAck(d)
    BY <1>13, CommitAckFacts, FinishLocked
  <1>14. CASE ReadSkipAck(d)
    <2>1. CASE CloseConnection(d) /\ UNCHANGED tasks
      BY <2>1, CloseLocked
    <2>2. CASE Finish(d, "failed")
      BY <2>2, <1>14, SkipAckFacts, FinishLocked
    <2>. QED
      BY <1>14, <2>1, <2>2, SkipAckFacts
  <1>15. CASE ReadOther(d)
    BY <1>15, LockedFrame DEF ReadOther, updateVars, contactVars, taskVars
  <1>16. CASE ReadReflected(d)
    BY <1>16, LockedFrame DEF ReadReflected, updateVars, contactVars, taskVars
  <1>17. CASE RunReflected(d)
    BY <1>17, LockedFrame DEF RunReflected, updateVars, contactVars, taskVars
  <1>18. CASE Ignore(d)
    BY <1>18, LockedFrame DEF Ignore, updateVars, contactVars, taskVars
  <1>19. ASSUME NEW entry \in downloads[d] \union orphans[d], FinishDownload(d, entry)
        PROVE  Locked(d)'
    BY <1>19, LockedFrame DEF FinishDownload, updateVars, contactVars, taskVars
  <1>20. ASSUME NEW a \in acking[d], Acknowledge(d, a[1], a[2])
        PROVE  Locked(d)'
    BY <1>20, LockedFrame DEF Acknowledge, updateVars, contactVars, taskVars
  <1>21. CASE Receive(d)
    BY <1>21, ReceiveFacts, LockedFrame
  <1>22. CASE LoseConnection(d)
    BY <1>22, CloseLocked DEF LoseConnection
  <1>23. CASE Reconnect(d)
    <2>1. /\ tasks'[d] = <<>> /\ lock'[d] = IF tasks[d] # <<>> THEN Tail(lock[d]) ELSE lock[d]
          /\ \A v \in Updates : status'[v] = IF \E i \in DOMAIN tasks[d] : tasks[d][i] = v
                                             THEN "failed" ELSE status[v]
      BY <1>0, <1>23 DEF Reconnect, LineType
    <2>2. CASE tasks[d] = <<>>
      <3>1. lock'[d] = lock[d] /\ \A v \in Updates : status'[v] = status[v]
        BY <2>1, <2>2
      <3>. QED
        BY <2>1, <2>2, <3>1 DEF Locked, Line, InLine
    <2>3. CASE tasks[d] # <<>>
      <3>1. PICK v \in Local : Owner[v] = d /\ status[v] = "held" /\ tasks[d] = <<v>>
        BY <2>3 DEF Line
      <3>2. /\ v \in Updates /\ Head(lock[d]) = v /\ v \in ToSet(lock[d])
        BY <3>1, OwnerType DEF InLine
      <3>3. lock[d] # <<>>
        BY <1>0, <3>2, Elements DEF LineType
      <3>4. \A w \in Updates : status'[w] = IF w = v THEN "failed" ELSE status[w]
        BY <2>1, <3>1
      <3>. QED
        BY <2>1, <2>3, <3>1, <3>2, <3>3, <3>4, LeaveLine
    <2>. QED
      BY <2>2, <2>3
  <1>25. CASE EndUpload(d)
    <2>1. CASE CloseConnection(d)
      <3>1. UNCHANGED tasks
        BY <1>25, <2>1, UploadFacts
      <3>. QED
        BY <2>1, <3>1, CloseLocked
    <2>2. CASE ~CloseConnection(d)
      BY <1>25, <2>2, UploadFacts, LockedFrame DEF updateVars, contactVars
    <2>. QED
      BY <2>1, <2>2
  <1>. QED
    BY <1>1, <1>2, <1>3, <1>4, <1>5, <1>6, <1>7, <1>8, <1>9, <1>10, <1>11,
       <1>12, <1>13, <1>14, <1>15, <1>16, <1>17, <1>18, <1>19, <1>20, <1>21,
       <1>22, <1>23, <1>25
    DEF DeviceStep, UpdateStep, Transaction, Reflection, Blobs

(* The same for the other devices, of which the step changes little. *)
LEMMA ElsewhereLocal ==
    ASSUME ContactSyncAssumption, IndInv, NEW d \in Devices, NEW e \in Devices \ {d}, Elsewhere(d, e)
    PROVE  /\ Offline(e)' /\ Runs(e)' /\ Backlog(e)' /\ Locked(e)'
  <1>1. /\ UpdateType /\ Offline(e) /\ Runs(e) /\ Backlog(e) /\ Line(e)
        /\ \A v \in Updates : InLine(v)
    BY Parts
  <1>2. Same(e) /\ SameContact(e) /\ SameUpdates(e) /\ (~connected[e] => down'[e] = down[e])
    BY DEF Elsewhere, Reflects, Ends
  <1>3. Offline(e)'
    BY <1>1, <1>2 DEF Offline, Same, SameContact
  <1>4. Runs(e)'
    BY <1>1, <1>2, OwnerType DEF Runs, Same, SameUpdates
  <1>5. Backlog(e)'
    BY <1>1, <1>2 DEF Backlog, Same
  <1>6. Line(e)'
    BY <1>1, <1>2, OwnerType DEF Line, Same, SameUpdates
  <1>7. \A v \in Updates : Owner[v] = e => InLine(v)'
    BY <1>1, <1>2 DEF InLine, Same, SameUpdates
  <1>. QED
    BY <1>3, <1>4, <1>5, <1>6, <1>7 DEF Locked

-----------------------------------------------------------------------------
(* The dialog with the mediator *)

(* What follows is there; what is there was sent. *)
LEMMA FollowsFacts ==
    ASSUME NEW S, NEW s \in Seq(S), NEW K, NEW L
    PROVE  /\ Follows(s, K, L) => Has(s, K) /\ Has(s, L)
           /\ \A e \in S : Has(Append(s, e), K) => Has(s, K) \/ e.kind \in K
           /\ ~Has(<<>>, K)
           /\ s # <<>> /\ Has(Tail(s), K) => Has(s, K)
  <1>1. Follows(s, K, L) => Has(s, K) /\ Has(s, L)
    BY DEF Follows, Has, ToSet
  <1>2. \A e \in S : Has(Append(s, e), K) => Has(s, K) \/ e.kind \in K
    BY AppendFacts DEF Has
  <1>3. ~Has(<<>>, K)
    BY EmptySeq, Elements DEF Has
  <1>4. s # <<>> /\ Has(Tail(s), K) => Has(s, K)
    BY TailFacts DEF Has
  <1>. QED
    BY <1>1, <1>2, <1>3, <1>4

(* Nothing is in an empty line. *)
LEMMA NothingIn == ASSUME NEW K PROVE ~Has(<<>>, K)
  BY EmptySeq, Elements DEF Has

(* A message that is no ask, or no answer, changes nothing in the order of  *)
(* those that are; nor does taking one.                                     *)
LEMMA FollowsKept ==
    ASSUME NEW S, NEW s \in Seq(S), NEW K, ~Follows(s, K, K)
    PROVE  /\ \A e \in S : e.kind \notin K => ~Follows(Append(s, e), K, K)
           /\ s # <<>> => ~Follows(Tail(s), K, K)
           /\ s # <<>> /\ Head(s).kind \in K => ~Has(Tail(s), K)
           /\ \A e \in S : ~Has(s, K) => ~Follows(Append(s, e), K, K)
  <1>1. \A e \in S : e.kind \notin K => ~Follows(Append(s, e), K, K)
    BY AppendFollows
  <1>2. \A e \in S : ~Has(s, K) => ~Follows(Append(s, e), K, K)
    BY AppendFollows
  <1>. QED
    BY <1>1, <1>2, TailFollows

(* Nothing is asked or answered.                                            *)
Silent(d) == ~Has(up[d], Asks) /\ ~Has(down[d], AnswersToAsks)

(* Where a transaction is tells what is under way. *)
LEMMA AnswerKinds ==
    ASSUME NEW d \in Devices, Dialog(d)
    PROVE  /\ phase[d] \in {"idle", "waiting", "open", "upload"} => Silent(d)
           /\ phase[d] = "skip" /\ Has(down[d], AnswersToAsks) => ~Has(up[d], Asks)
           /\ \A m \in ToSet(down[d]) : m.kind \in AnswersToAsks => ~Has(up[d], Asks)
           /\ \A m \in ToSet(up[d]) : m.kind \in Asks => ~Has(down[d], AnswersToAsks)
  BY DEF Dialog, Silent, Has, Asks, AnswersToAsks

(* Nothing is asked and nothing answered. *)
LEMMA SilentDialog ==
    ASSUME MessageType', NEW d \in Devices, Silent(d)',
           phase'[d] \in {"idle", "waiting"} => holder' # d,
           phase'[d] \in {"open", "upload"} => holder' = d /\ staged' = <<>>,
           phase'[d] = "execute" => holder' = d
    PROVE  Dialog(d)'
  <1>1. ~Has(up'[d], Asks) /\ ~Has(down'[d], AnswersToAsks)
    BY DEF Silent
  <1>2. /\ \A m \in ToSet(up'[d]) : m.kind \notin Asks
        /\ \A m \in ToSet(down'[d]) : m.kind \notin AnswersToAsks
    BY <1>1 DEF Has
  <1>3. ~Follows(up'[d], Asks, Asks) /\ ~Follows(down'[d], AnswersToAsks, AnswersToAsks)
    BY <1>1, FollowsFacts DEF MessageType
  <1>. QED
    BY <1>1, <1>2, <1>3 DEF Dialog, Asks, AnswersToAsks

(* A question is asked.                                                     *)
LEMMA AskDialog ==
    ASSUME MessageType, MessageType', NEW d \in Devices, NEW m \in Requests,
           ~Has(up[d], Asks), up'[d] = Append(up[d], m), ~Has(down'[d], AnswersToAsks),
           m.kind \in {"reflect", "commit"} => holder' = d,
           m.kind = "begin" => phase'[d] = "begin" /\ holder' # d,
           m.kind = "reflect" => phase'[d] = "execute" /\ staged' = <<>> /\ m.of = running'[d],
           m.kind = "commit" => \/ phase'[d] = "commit" /\ staged' = <<running'[d]>>
                                \/ phase'[d] = "skip" /\ staged' = <<>>,
           phase'[d] \notin {"idle", "waiting", "open", "upload"}, phase'[d] = "execute" => holder' = d
    PROVE  Dialog(d)'
  <1>1. \A n \in ToSet(up'[d]) : n.kind \in Asks => n = m
    BY AppendFacts DEF MessageType, Has
  <1>2. \A n \in ToSet(down'[d]) : n.kind \notin AnswersToAsks
    BY DEF Has
  <1>3. ~Follows(up'[d], Asks, Asks)
    <2>1. up[d] \in Seq(Requests)
      BY DEF MessageType
    <2>2. ~Follows(up[d], Asks, Asks)
      BY <2>1, FollowsFacts
    <2>3. ~Follows(Append(up[d], m), Asks, Asks)
      BY <2>1, <2>2, FollowsKept
    <2>. QED
      BY <2>3
  <1>4. ~Follows(down'[d], AnswersToAsks, AnswersToAsks)
    BY FollowsFacts DEF MessageType
  <1>. QED
    BY <1>1, <1>2, <1>3, <1>4 DEF Dialog, Asks, AnswersToAsks

(* A question is answered.                                                  *)
LEMMA AnswerDialog ==
    ASSUME MessageType, MessageType', NEW d \in Devices, NEW m \in Answers,
           ~Has(up'[d], Asks), down'[d] = Append(down[d], m), ~Has(down[d], AnswersToAsks),
           m.kind = "ack" => phase'[d] = "begin" /\ holder' = d /\ staged' = <<>>,
           m.kind = "rejected" => phase'[d] = "begin" /\ holder' # d,
           m.kind = "reflectAck" => /\ phase'[d] = "execute" /\ holder' = d
                                    /\ staged' = <<running'[d]>>,
           m.kind = "commitAck" => phase'[d] \in {"commit", "skip"} /\ holder' # d,
           m.kind = "commitAck" /\ phase'[d] = "commit" =>
                m.of \in DOMAIN log' /\ Owner[log'[m.of].update] = d,
           phase'[d] \notin {"idle", "waiting", "open", "upload"}, phase'[d] = "execute" => holder' = d
    PROVE  Dialog(d)'
  <1>1. \A n \in ToSet(down'[d]) : n.kind \in AnswersToAsks => n = m
    BY AppendFacts DEF MessageType, Has
  <1>2. \A n \in ToSet(up'[d]) : n.kind \notin Asks
    BY DEF Has
  <1>3. ~Follows(down'[d], AnswersToAsks, AnswersToAsks)
    <2>1. down[d] \in Seq(Answers)
      BY DEF MessageType
    <2>2. ~Follows(down[d], AnswersToAsks, AnswersToAsks)
      BY <2>1, FollowsFacts
    <2>3. ~Follows(Append(down[d], m), AnswersToAsks, AnswersToAsks)
      BY <2>1, <2>2, FollowsKept
    <2>. QED
      BY <2>3
  <1>4. ~Follows(up'[d], Asks, Asks)
    BY FollowsFacts DEF MessageType
  <1>. QED
    BY <1>1, <1>2, <1>3, <1>4 DEF Dialog, Asks, AnswersToAsks

(* A message that is neither, or one less of those that are not asked for.  *)
LEMMA KeptDialog ==
    ASSUME NEW d \in Devices, Dialog(d), phase'[d] = phase[d],
           phase[d] # "idle" => running'[d] = running[d],
           holder' = d <=> holder = d, holder = d => staged' = staged,
           \A j \in DOMAIN log : j \in DOMAIN log' /\ log'[j] = log[j],
           \A m \in ToSet(up'[d]) : m.kind \in Asks => m \in ToSet(up[d]),
           \A m \in ToSet(down'[d]) : m.kind \in AnswersToAsks => m \in ToSet(down[d]),
           ~Follows(up'[d], Asks, Asks), ~Follows(down'[d], AnswersToAsks, AnswersToAsks)
    PROVE  Dialog(d)'
  <1>1. Has(up'[d], Asks) => ~Has(down'[d], AnswersToAsks)
    BY DEF Dialog, Has
  <1>2. /\ phase'[d] \in {"idle", "waiting"} => holder' # d
        /\ phase'[d] \in {"open", "upload"} => holder' = d /\ staged' = <<>>
        /\ phase'[d] = "execute" => holder' = d
    BY DEF Dialog
  <1>3. \A m \in ToSet(up'[d]) :
          /\ m.kind = "begin" => phase'[d] = "begin" /\ holder' # d
          /\ m.kind = "reflect" => /\ phase'[d] = "execute" /\ holder' = d
                                   /\ staged' = <<>> /\ m.of = running'[d]
          /\ m.kind = "commit" =>
                /\ phase'[d] \in {"commit", "skip"} /\ holder' = d
                /\ staged' = IF phase'[d] = "commit" THEN <<running'[d]>> ELSE <<>>
    BY DEF Dialog, Asks
  <1>4. \A m \in ToSet(down'[d]) :
          /\ m.kind = "ack" => phase'[d] = "begin" /\ holder' = d /\ staged' = <<>>
          /\ m.kind = "rejected" => phase'[d] = "begin" /\ holder' # d
          /\ m.kind = "reflectAck" => /\ phase'[d] = "execute" /\ holder' = d
                                      /\ staged' = <<running'[d]>>
          /\ m.kind = "commitAck" => phase'[d] \in {"commit", "skip"} /\ holder' # d
          /\ m.kind = "commitAck" /\ phase'[d] = "commit" =>
                m.of \in DOMAIN log' /\ Owner[log'[m.of].update] = d
    BY DEF Dialog, AnswersToAsks
  <1>. QED
    BY <1>1, <1>2, <1>3, <1>4 DEF Dialog

(* Nothing of the transaction changes. *)
LEMMA SameDialog ==
    ASSUME NEW d \in Devices, Dialog(d), phase'[d] = phase[d],
           phase[d] # "idle" => running'[d] = running[d],
           UNCHANGED <<holder, staged, log>>, up'[d] = up[d], down'[d] = down[d]
    PROVE  Dialog(d)'
  BY KeptDialog DEF Dialog

(* A message of the mediator that is no answer is taken.                    *)
LEMMA TakeDialog ==
    ASSUME MessageType, NEW d \in Devices, Dialog(d), phase'[d] = phase[d],
           phase[d] # "idle" => running'[d] = running[d],
           UNCHANGED <<holder, staged, log>>, up'[d] = up[d],
           \/ down'[d] = down[d]
           \/ down[d] # <<>> /\ down'[d] = Tail(down[d])
    PROVE  Dialog(d)'
  <1>1. CASE down[d] # <<>> /\ down'[d] = Tail(down[d])
    <2>1. \A m \in ToSet(down'[d]) : m \in ToSet(down[d])
      BY <1>1, TailFacts DEF MessageType
    <2>2. ~Follows(down'[d], AnswersToAsks, AnswersToAsks)
      BY <1>1, FollowsKept DEF MessageType, Dialog
    <2>. QED
      BY <2>1, <2>2, KeptDialog DEF Dialog
  <1>. QED
    BY <1>1, SameDialog

(* Closing a connection ends the dialog. *)
LEMMA CloseDialog ==
    ASSUME ContactSyncAssumption, IndInv, NEW d \in Devices, CloseConnection(d)
    PROVE  Dialog(d)'
  <1>1. /\ phase'[d] = "idle" /\ up'[d] = <<>> /\ down'[d] = <<>> /\ holder' # d
    BY CloseFacts DEF ContactSyncAssumption
  <1>2. MessageType'
    BY CloseMessageType
  <1>3. Silent(d)'
    BY <1>1, NothingIn DEF Silent
  <1>. QED
    BY <1>1, <1>2, <1>3, SilentDialog

(* The answer that ends a phase is the only one.                            *)
LEMMA LastAnswer ==
    ASSUME MessageType, NEW d \in Devices, Dialog(d), down[d] # <<>>,
           Head(down[d]).kind \in AnswersToAsks
    PROVE  ~Has(up[d], Asks) /\ ~Has(Tail(down[d]), AnswersToAsks)
  <1>1. Head(down[d]) \in ToSet(down[d])
    BY TailFacts DEF MessageType
  <1>2. ~Has(Tail(down[d]), AnswersToAsks)
    BY FollowsKept DEF MessageType, Dialog
  <1>. QED
    BY <1>1, <1>2, AnswerKinds

(* The last answer ends the dialog. *)
LEMMA FinishDialog ==
    ASSUME ContactSyncAssumption, IndInv, MessageType', NEW d \in Devices, NEW result,
           Finish(d, result), UNCHANGED <<holder, staged, up>>, down[d] # <<>>,
           down' = [down EXCEPT ![d] = Tail(@)], phase[d] # "idle",
           phase[d] = "waiting" \/ Head(down[d]).kind = "commitAck"
    PROVE  Dialog(d)'
  <1>1. MessageType /\ LinkType /\ Dialog(d)
    BY Parts
  <1>2. /\ phase'[d] = "idle" /\ down'[d] = Tail(down[d])
        /\ Head(down[d]) \in ToSet(down[d])
    BY <1>1, TailFacts DEF Finish, Phase, MessageType, LinkType
  <1>3. holder # d
    BY <1>1, <1>2 DEF Dialog
  <1>4. CASE phase[d] = "waiting"
    <2>1. Silent(d)
      BY <1>1, <1>4, AnswerKinds
    <2>2. ~Has(Tail(down[d]), AnswersToAsks)
      BY <1>1, <2>1, FollowsFacts DEF Silent, MessageType
    <2>. QED
      BY <1>2, <1>3, <2>1, <2>2, SilentDialog DEF Silent
  <1>5. CASE Head(down[d]).kind = "commitAck"
    <2>1. ~Has(up[d], Asks) /\ ~Has(Tail(down[d]), AnswersToAsks)
      BY <1>1, <1>5, LastAnswer DEF AnswersToAsks
    <2>. QED
      BY <1>2, <1>3, <2>1, SilentDialog DEF Silent
  <1>. QED
    BY <1>4, <1>5

(* The type of the messages, for a step of a device. *)
LEMMA StepMessages ==
    ASSUME ContactSyncAssumption, IndInv, NEW d \in Devices, DeviceStep(d)
    PROVE  MessageType'
  <1>1. Next
    BY DEF DeviceStep, UpdateStep, Next, Controller
  <1>. QED
    BY <1>1, MessageTypeStep

(* Every question gets its answer, one after the other. *)
LEMMA DialogStep ==
    ASSUME ContactSyncAssumption, IndInv, NEW d \in Devices, DeviceStep(d)
    PROVE  Dialog(d)'
  <1>0. UpdateType /\ LineType /\ LinkType /\ MessageType /\ ContactType /\ LogType
    BY Parts
  <1>. Dialog(d) /\ Runs(d)
    BY Parts
  <1>m. MessageType'
    BY StepMessages
  <1>1. ASSUME NEW u \in Updates, Owner[u] = d, RequestLocal(u)
        PROVE  Dialog(d)'
    <2>1. /\ UNCHANGED <<phase, holder, staged, log, up, down>>
          /\ phase[d] # "idle" => running'[d] = running[d]
      BY <1>0, <1>1, OwnerType DEF RequestLocal, Run, taskVars, mediatorVars, LinkType, Runs
    <2>. QED
      BY <2>1, SameDialog
  <1>2. ASSUME NEW u \in Updates, Owner[u] = d, StartIncoming(u)
        PROVE  Dialog(d)'
    <2>1. /\ UNCHANGED <<phase, holder, staged, log, up, down>>
          /\ phase[d] # "idle" => running'[d] = running[d]
      BY <1>0, <1>2, OwnerType DEF StartIncoming, Run, taskVars, mediatorVars, LinkType, Runs
    <2>. QED
      BY <2>1, SameDialog
  <1>3. ASSUME NEW u \in Updates, Owner[u] = d, UpdateFromRemote(u)
        PROVE  Dialog(d)'
    <2>1. /\ UNCHANGED <<phase, holder, staged, log, up, down>>
          /\ phase[d] # "idle" => running'[d] = running[d]
      BY <1>0, <1>3, OwnerType DEF UpdateFromRemote, Run, taskVars, mediatorVars, LinkType, Runs
    <2>. QED
      BY <2>1, SameDialog
  <1>4. ASSUME NEW u \in Updates, Owner[u] = d, HoldLocal(u)
        PROVE  Dialog(d)'
    <2>1. /\ UNCHANGED <<phase, holder, staged, log, up, down>>
          /\ phase[d] # "idle" => running'[d] = running[d]
      BY <1>0, <1>4, OwnerType DEF HoldLocal, Run, taskVars, mediatorVars, LinkType, Runs
    <2>. QED
      BY <2>1, SameDialog
  <1>5. ASSUME NEW u \in Updates, Owner[u] = d, AbortLocal(u)
        PROVE  Dialog(d)'
    <2>1. /\ UNCHANGED <<phase, holder, staged, log, up, down>>
          /\ phase[d] # "idle" => running'[d] = running[d]
      BY <1>0, <1>5, OwnerType DEF AbortLocal, Run, taskVars, mediatorVars, LinkType, Runs
    <2>. QED
      BY <2>1, SameDialog
  <1>6. ASSUME NEW u \in Updates, Owner[u] = d, HoldRemote(u)
        PROVE  Dialog(d)'
    <2>1. /\ phase[d] = "idle" /\ phase'[d] = "begin" /\ UNCHANGED <<holder, staged, down>>
          /\ up'[d] = Append(up[d], Bare("begin"))
      BY <1>0, <1>6, RemoteServed DEF HoldRemote, Phase, Write, LinkType, MessageType, mediatorVars
    <2>2. Silent(d) /\ holder # d
      BY <2>1, AnswerKinds DEF Dialog
    <2>3. Bare("begin") \in Requests /\ Bare("begin").kind = "begin"
      BY MessageTypes DEF Bare, Msg
    <2>. QED
      BY <1>0, <1>m, <2>1, <2>2, <2>3, AskDialog DEF Silent
  <1>7. CASE StartTask(d)
    <2>1. /\ phase[d] = "idle" /\ phase'[d] = "begin" /\ UNCHANGED <<holder, staged, down>>
          /\ up'[d] = Append(up[d], Bare("begin"))
      BY <1>0, <1>7, OwnerType DEF StartTask, Phase, Write, LinkType, MessageType, mediatorVars, Runs
    <2>2. Silent(d) /\ holder # d
      BY <2>1, AnswerKinds DEF Dialog
    <2>3. Bare("begin") \in Requests /\ Bare("begin").kind = "begin"
      BY MessageTypes DEF Bare, Msg
    <2>. QED
      BY <1>0, <1>m, <2>1, <2>2, <2>3, AskDialog DEF Silent
  <1>8. CASE ReadAck(d)
    <2>1. /\ Reading(d) /\ Consume(d) /\ Phase(d, "open") /\ Message(d) = Bare("ack")
          /\ UNCHANGED <<holder, staged, up>>
      BY <1>8 DEF ReadAck, mediatorVars
    <2>2. /\ down[d] # <<>> /\ Message(d) = Head(down[d]) /\ down' = [down EXCEPT ![d] = Tail(@)]
          /\ Head(down[d]) \in ToSet(down[d]) /\ Head(down[d]).kind = "ack"
      BY <2>1, AnswerFacts DEF Bare, Msg
    <2>3. ~Has(up[d], Asks) /\ ~Has(Tail(down[d]), AnswersToAsks)
      BY <1>0, <2>2, LastAnswer DEF AnswersToAsks
    <2>4. Silent(d)' /\ phase'[d] = "open"
      BY <1>0, <2>1, <2>2, <2>3 DEF Silent, Phase, LinkType, MessageType
    <2>. QED
      BY <1>m, <2>1, <2>2, <2>4, SilentDialog DEF Dialog
  <1>9. CASE OpenTransaction(d)
    <2>1. phase[d] = "open" /\ UNCHANGED <<holder, staged, running, down>>
      BY <1>9, OpenFacts DEF mediatorVars
    <2>2. Silent(d) /\ holder = d /\ staged = <<>>
      BY <2>1, AnswerKinds DEF Dialog
    <2>3. CASE Phase(d, "execute") /\ Write(d, Msg("reflect", running[d]))
      <3>1. /\ phase'[d] = "execute" /\ up'[d] = Append(up[d], Msg("reflect", running[d]))
        BY <1>0, <2>3 DEF Phase, Write, LinkType, MessageType
      <3>2. /\ Msg("reflect", running[d]) \in Requests /\ Msg("reflect", running[d]).kind = "reflect"
            /\ Msg("reflect", running[d]).of = running[d]
        BY <2>1, MessageTypes DEF Msg, Runs
      <3>. QED
        BY <1>0, <1>m, <2>1, <2>2, <3>1, <3>2, AskDialog DEF Silent
    <2>4. CASE Phase(d, "skip") /\ Write(d, Bare("commit"))
      <3>1. phase'[d] = "skip" /\ up'[d] = Append(up[d], Bare("commit"))
        BY <1>0, <2>4 DEF Phase, Write, LinkType, MessageType
      <3>2. Bare("commit") \in Requests /\ Bare("commit").kind = "commit"
        BY MessageTypes DEF Bare, Msg
      <3>. QED
        BY <1>0, <1>m, <2>1, <2>2, <3>1, <3>2, AskDialog DEF Silent
    <2>5. CASE Phase(d, "upload") /\ UNCHANGED up
      <3>1. phase'[d] = "upload" /\ Silent(d)'
        BY <1>0, <2>1, <2>2, <2>5 DEF Phase, Silent, LinkType
      <3>. QED
        BY <1>m, <2>1, <2>2, <3>1, SilentDialog
    <2>. QED
      BY <1>9, <2>3, <2>4, <2>5, OpenFacts
  <1>10. CASE ReadRejected(d)
    <2>1. /\ Reading(d) /\ Consume(d) /\ Phase(d, "waiting") /\ Message(d) = Bare("rejected")
          /\ UNCHANGED <<holder, staged, up>>
      BY <1>10 DEF ReadRejected, mediatorVars
    <2>2. /\ down[d] # <<>> /\ Message(d) = Head(down[d]) /\ down' = [down EXCEPT ![d] = Tail(@)]
          /\ Head(down[d]) \in ToSet(down[d]) /\ Head(down[d]).kind = "rejected"
      BY <2>1, AnswerFacts DEF Bare, Msg
    <2>3. ~Has(up[d], Asks) /\ ~Has(Tail(down[d]), AnswersToAsks)
      BY <1>0, <2>2, LastAnswer DEF AnswersToAsks
    <2>4. Silent(d)' /\ phase'[d] = "waiting"
      BY <1>0, <2>1, <2>2, <2>3 DEF Silent, Phase, LinkType, MessageType
    <2>. QED
      BY <1>m, <2>1, <2>2, <2>4, SilentDialog DEF Dialog
  <1>11. CASE ReadEnded(d)
    <2>1. CASE CloseConnection(d)
      BY <2>1, CloseDialog
    <2>2. CASE Finish(d, "failed") /\ down' = [down EXCEPT ![d] = Tail(@)] /\ UNCHANGED <<up, holder, staged>>
      BY <1>m, <1>11, <2>2, EndedFacts, FinishDialog
    <2>3. CASE /\ down' = [down EXCEPT ![d] = Tail(@)]
               /\ Phase(d, "begin") /\ Write(d, Bare("begin")) /\ UNCHANGED <<holder, staged>>
      <3>1. phase[d] = "waiting" /\ down[d] # <<>>
        BY <1>11, EndedFacts
      <3>2. Silent(d) /\ holder # d
        BY <3>1, AnswerKinds DEF Dialog
      <3>3. /\ phase'[d] = "begin" /\ up'[d] = Append(up[d], Bare("begin")) /\ down'[d] = Tail(down[d])
        BY <1>0, <2>3 DEF Phase, Write, LinkType, MessageType
      <3>4. Bare("begin") \in Requests /\ Bare("begin").kind = "begin"
        BY MessageTypes DEF Bare, Msg
      <3>5. ~Has(down'[d], AnswersToAsks)
        <4>1. down[d] \in Seq(Answers) /\ ~Has(down[d], AnswersToAsks)
          BY <1>0, <3>2 DEF Silent, MessageType
        <4>2. ~Has(Tail(down[d]), AnswersToAsks)
          BY <3>1, <4>1, FollowsFacts
        <4>. QED
          BY <3>3, <4>2
      <3>. QED
        BY <1>0, <1>m, <2>3, <3>2, <3>3, <3>4, <3>5, AskDialog DEF Silent
    <2>. QED
      BY <1>11, <2>1, <2>2, <2>3, EndedFacts
  <1>12. CASE ReadReflectAck(d)
    <2>1. /\ Reading(d) /\ Consume(d) /\ Phase(d, "commit") /\ Message(d) = Bare("reflectAck")
          /\ Write(d, Bare("commit")) /\ UNCHANGED <<holder, staged, running>>
      BY <1>12 DEF ReadReflectAck, mediatorVars
    <2>2. /\ down[d] # <<>> /\ Message(d) = Head(down[d]) /\ down' = [down EXCEPT ![d] = Tail(@)]
          /\ Head(down[d]) \in ToSet(down[d]) /\ Head(down[d]).kind = "reflectAck"
      BY <2>1, AnswerFacts DEF Bare, Msg
    <2>3. ~Has(up[d], Asks) /\ ~Has(Tail(down[d]), AnswersToAsks)
      BY <1>0, <2>2, LastAnswer DEF AnswersToAsks
    <2>4. /\ ~Has(down'[d], AnswersToAsks) /\ phase'[d] = "commit"
          /\ up'[d] = Append(up[d], Bare("commit"))
      BY <1>0, <2>1, <2>2, <2>3 DEF Phase, Write, LinkType, MessageType
    <2>5. Bare("commit") \in Requests /\ Bare("commit").kind = "commit"
      BY MessageTypes DEF Bare, Msg
    <2>6. holder' = d /\ staged' = <<running'[d]>>
      BY <2>1, <2>2 DEF Dialog
    <2>. QED
      BY <1>0, <1>m, <2>3, <2>4, <2>5, <2>6, AskDialog
  <1>13. CASE ReadCommitAck(d)
    BY <1>m, <1>13, CommitAckFacts, FinishDialog
  <1>14. CASE ReadSkipAck(d)
    <2>1. CASE CloseConnection(d)
      BY <2>1, CloseDialog
    <2>2. CASE Finish(d, "failed") /\ down' = [down EXCEPT ![d] = Tail(@)] /\ UNCHANGED <<up, holder, staged>>
      BY <1>m, <1>14, <2>2, SkipAckFacts, FinishDialog
    <2>. QED
      BY <1>14, <2>1, <2>2, SkipAckFacts
  <1>15. CASE ReadOther(d)
    <2>1. /\ UNCHANGED <<phase, holder, staged, log, up>>
          /\ phase[d] # "idle" => running'[d] = running[d]
      BY <1>0, <1>15, OwnerType DEF ReadOther, taskVars, mediatorVars, LinkType, Runs
    <2>2. down'[d] = down[d] \/ (down[d] # <<>> /\ down'[d] = Tail(down[d]))
      BY <1>0, <1>15, ConsumeFacts DEF ReadOther, MessageType
    <2>. QED
      BY <1>0, <2>1, <2>2, TakeDialog
  <1>16. CASE ReadReflected(d)
    <2>1. /\ UNCHANGED <<phase, holder, staged, log, up>>
          /\ phase[d] # "idle" => running'[d] = running[d]
      BY <1>0, <1>16, OwnerType DEF ReadReflected, taskVars, mediatorVars, LinkType, Runs
    <2>2. down'[d] = down[d] \/ (down[d] # <<>> /\ down'[d] = Tail(down[d]))
      BY <1>0, <1>16, ConsumeFacts DEF ReadReflected, MessageType
    <2>. QED
      BY <1>0, <2>1, <2>2, TakeDialog
  <1>17. CASE RunReflected(d)
    <2>1. /\ UNCHANGED <<phase, holder, staged, log, up>>
          /\ phase[d] # "idle" => running'[d] = running[d]
      BY <1>0, <1>17, OwnerType DEF RunReflected, Idle, Run, taskVars, mediatorVars, LinkType, Runs
    <2>2. down'[d] = down[d] \/ (down[d] # <<>> /\ down'[d] = Tail(down[d]))
      BY <1>0, <1>17 DEF RunReflected, MessageType
    <2>. QED
      BY <1>0, <2>1, <2>2, TakeDialog
  <1>18. CASE Ignore(d)
    <2>1. /\ UNCHANGED <<phase, holder, staged, log, up>>
          /\ phase[d] # "idle" => running'[d] = running[d]
      BY <1>0, <1>18, OwnerType DEF Ignore, taskVars, mediatorVars, LinkType, Runs
    <2>2. backlog[d] = <<>> => down[d] # <<>>
      BY <1>0, <1>18, ConcatEmptySeq DEF Ignore, MessageType
    <2>3. down'[d] = down[d] \/ (down[d] # <<>> /\ down'[d] = Tail(down[d]))
      BY <1>0, <2>2, <1>18 DEF Ignore, MessageType
    <2>. QED
      BY <1>0, <2>1, <2>3, TakeDialog
  <1>19. ASSUME NEW entry \in downloads[d] \union orphans[d], FinishDownload(d, entry)
        PROVE  Dialog(d)'
    <2>1. /\ UNCHANGED <<phase, holder, staged, log, up, down>>
          /\ phase[d] # "idle" => running'[d] = running[d]
      BY <1>0, <1>19, OwnerType DEF FinishDownload, Run, taskVars, mediatorVars, LinkType, Runs
    <2>. QED
      BY <2>1, SameDialog
  <1>20. ASSUME NEW a \in acking[d], Acknowledge(d, a[1], a[2])
        PROVE  Dialog(d)'
    <2>1. /\ UNCHANGED <<phase, holder, staged, log, down>> /\ up'[d] = Append(up[d], Msg("ack", a[1]))
          /\ phase[d] # "idle" => running'[d] = running[d]
      BY <1>0, <1>20, OwnerType DEF Acknowledge, Write, Returned, mediatorVars, LinkType, MessageType, Runs
    <2>2. Msg("ack", a[1]) \in Requests /\ Msg("ack", a[1]).kind \notin Asks
      <3>1. a[1] \in Nat
        BY <1>0 DEF ContactType
      <3>. QED
        BY <3>1, MessageTypes DEF Msg, Asks
    <2>3. \A m \in ToSet(up'[d]) : m.kind \in Asks => m \in ToSet(up[d])
      BY <1>0, <2>1, <2>2, AppendFacts DEF MessageType
    <2>4. ~Follows(up'[d], Asks, Asks)
      BY <1>0, <2>1, <2>2, FollowsKept DEF MessageType, Dialog
    <2>. QED
      BY <2>1, <2>3, <2>4, KeptDialog DEF Dialog
  <1>21. CASE Receive(d)
    <2>1. /\ up[d] # <<>> /\ up' = [up EXCEPT ![d] = Tail(@)] /\ UNCHANGED <<phase, running, seenAtStart>>
          /\ Head(up[d]) \in ToSet(up[d]) /\ Head(up[d]) \in Requests
      BY <1>21, ReceiveFacts
    <2>2. up'[d] = Tail(up[d]) /\ d # None
      BY <1>0, <2>1 DEF MessageType, ContactSyncAssumption
    <2>3. Head(up[d]).kind \in Asks => ~Has(up'[d], Asks) /\ ~Has(down[d], AnswersToAsks)
      BY <1>0, <2>1, <2>2, AnswerKinds, FollowsKept DEF MessageType, Dialog
    <2>4. CASE Head(up[d]).kind = "begin" /\ Begin(d)
      <3>1. phase[d] = "begin" /\ holder # d
        BY <2>1, <2>4 DEF Dialog
      <3>2. CASE holder = None
        <4>1. /\ holder' = d /\ staged' = staged /\ staged = <<>>
              /\ down'[d] = Append(down[d], Bare("ack"))
          BY <1>0, <2>4, <3>2 DEF Begin, Answer, IndInv, MessageType
        <4>2. Bare("ack") \in Answers /\ Bare("ack").kind = "ack"
          BY MessageTypes DEF Bare, Msg
        <4>. QED
          BY <1>0, <1>m, <2>1, <2>3, <2>4, <3>1, <4>1, <4>2, AnswerDialog DEF Asks
      <3>3. CASE holder # None
        <4>1. /\ holder' = holder /\ down'[d] = Append(down[d], Bare("rejected"))
          BY <1>0, <2>4, <3>3 DEF Begin, Answer, MessageType
        <4>2. Bare("rejected") \in Answers /\ Bare("rejected").kind = "rejected"
          BY MessageTypes DEF Bare, Msg
        <4>. QED
          BY <1>0, <1>m, <2>1, <2>3, <2>4, <3>1, <4>1, <4>2, AnswerDialog DEF Asks
      <3>. QED
        BY <3>2, <3>3
    <2>5. CASE Head(up[d]).kind = "reflect" /\ Stage(d, Head(up[d]).of)
      <3>1. /\ phase[d] = "execute" /\ holder = d /\ staged = <<>> /\ Head(up[d]).of = running[d]
        BY <2>1, <2>5 DEF Dialog
      <3>2. /\ holder' = d /\ staged' = <<running'[d]>> /\ down'[d] = Append(down[d], Bare("reflectAck"))
        BY <1>0, <2>1, <2>5, <3>1 DEF Stage, Answer, MessageType
      <3>3. Bare("reflectAck") \in Answers /\ Bare("reflectAck").kind = "reflectAck"
        BY MessageTypes DEF Bare, Msg
      <3>. QED
        BY <1>0, <1>m, <2>1, <2>3, <2>5, <3>1, <3>2, <3>3, AnswerDialog DEF Asks
    <2>6. CASE Head(up[d]).kind = "commit" /\ Commit(d)
      <3>. DEFINE answer == Msg("commitAck", Len(log) + Len(staged))
      <3>1. /\ phase[d] \in {"commit", "skip"} /\ holder' = None
            /\ down'[d] = Append(down[d], answer)
        BY <1>0, <2>1, <2>6, CommitFacts, CommitDown DEF Commit
      <3>2. answer \in Answers /\ answer.kind = "commitAck" /\ answer.of = Len(log) + Len(staged)
        <4>1. Len(log) + Len(staged) \in Nat
          BY <1>0 DEF LogType, LinkType
        <4>. QED
          BY <4>1, MessageTypes DEF Msg
      <3>3. CASE phase[d] = "skip"
        <4>. HIDE DEF answer
        <4>. QED
          BY <1>0, <1>m, <2>1, <2>2, <2>3, <2>6, <3>1, <3>2, <3>3, AnswerDialog DEF Asks
      <3>4. CASE phase[d] = "commit"
        <4>1. /\ staged = <<running[d]>> /\ Owner[running[d]] = d
              /\ log' = Append(log, [update |-> running[d], seen |-> seenAtStart[running[d]]])
              /\ [update |-> running[d], seen |-> seenAtStart[running[d]]]
                    \in [update : Updates, seen : SUBSET Nat]
          BY <2>1, <2>6, <3>4, CommitFacts
        <4>2. Len(log) + Len(staged) = Len(log) + 1 /\ Len(log) + 1 \in DOMAIN log'
              /\ log'[Len(log) + 1] = [update |-> running[d], seen |-> seenAtStart[running[d]]]
          BY <1>0, <4>1 DEF LogType
        <4>3. answer.of \in DOMAIN log' /\ Owner[log'[answer.of].update] = d
          BY <3>2, <4>1, <4>2
        <4>. HIDE DEF answer
        <4>. QED
          BY <1>0, <1>m, <2>1, <2>2, <2>3, <2>6, <3>1, <3>2, <3>4, <4>3, AnswerDialog DEF Asks
      <3>. QED
        BY <3>1, <3>3, <3>4
    <2>7. CASE UNCHANGED <<holder, staged, log, down>>
      <3>1. \A m \in ToSet(up'[d]) : m \in ToSet(up[d])
        BY <1>21, ReceiveFacts
      <3>2. ~Follows(up'[d], Asks, Asks)
        BY <1>0, <2>1, <2>2, FollowsKept DEF MessageType, Dialog
      <3>. QED
        BY <2>1, <2>7, <3>1, <3>2, KeptDialog DEF Dialog
    <2>. QED
      BY <1>21, <2>4, <2>5, <2>6, <2>7, ReceiveFacts
  <1>22. CASE LoseConnection(d)
    BY <1>22, CloseDialog DEF LoseConnection
  <1>23. CASE Reconnect(d)
    <2>1. /\ phase'[d] = "idle" /\ up'[d] = <<>> /\ holder' # d
          /\ down'[d] = [i \in DOMAIN mailbox[d] |-> Reflected(mailbox[d][i])]
      BY <1>0, <1>23, Parts DEF Reconnect, Offline, MessageType, mediatorVars, Dialog
    <2>2. \A m \in ToSet(down'[d]) : m.kind = "reflected"
      BY <2>1 DEF ToSet, Reflected, Msg
    <2>3. Silent(d)'
      BY <2>1, <2>2, EmptySeq, FollowsFacts DEF Silent, Has, AnswersToAsks
    <2>. QED
      BY <1>m, <2>1, <2>3, SilentDialog
  <1>25. CASE EndUpload(d)
    <2>1. CASE CloseConnection(d)
      BY <2>1, CloseDialog
    <2>2. CASE ~CloseConnection(d)
      <3>1. /\ phase[d] = "upload" /\ UNCHANGED <<holder, staged, running, down>>
            /\ Phase(d, "execute") /\ Write(d, Msg("reflect", running[d]))
        BY <1>25, <2>2, UploadFacts DEF mediatorVars
      <3>2. Silent(d) /\ holder = d /\ staged = <<>>
        BY <3>1, AnswerKinds DEF Dialog
      <3>3. /\ phase'[d] = "execute" /\ up'[d] = Append(up[d], Msg("reflect", running[d]))
        BY <1>0, <3>1 DEF Phase, Write, LinkType, MessageType
      <3>4. /\ Msg("reflect", running[d]) \in Requests /\ Msg("reflect", running[d]).kind = "reflect"
            /\ Msg("reflect", running[d]).of = running[d]
        BY <3>1, MessageTypes DEF Msg, Runs
      <3>. QED
        BY <1>0, <1>m, <3>1, <3>2, <3>3, <3>4, AskDialog DEF Silent
    <2>. QED
      BY <2>1, <2>2
  <1>. QED
    BY <1>1, <1>2, <1>3, <1>4, <1>5, <1>6, <1>7, <1>8, <1>9, <1>10, <1>11,
       <1>12, <1>13, <1>14, <1>15, <1>16, <1>17, <1>18, <1>19, <1>20, <1>21,
       <1>22, <1>23, <1>25
    DEF DeviceStep, UpdateStep, Transaction, Reflection, Blobs

(* What a step elsewhere sends to this device is no answer to it. *)
LEMMA ElsewhereMessages ==
    ASSUME ContactSyncAssumption, IndInv, NEW d \in Devices, NEW e \in Devices \ {d}, Elsewhere(d, e)
    PROVE  /\ \/ down'[e] = down[e]
              \/ down'[e] = Append(down[e], Bare("ended"))
              \/ down'[e] = Append(Append(down[e], Reflected(Len(log) + 1)), Bare("ended"))
           /\ Bare("ended") \in Answers /\ Bare("ended").kind = "ended"
           /\ Reflected(Len(log) + 1) \in Answers /\ Reflected(Len(log) + 1).kind = "reflected"
           /\ \/ log' = log
              \/ \E new \in [update : Updates, seen : SUBSET Nat] : Owner[new.update] = d /\ log' = Append(log, new)
           /\ \A j \in DOMAIN log : j \in DOMAIN log' /\ log'[j] = log[j]
  <1>1. LogType
    BY Parts
  <1>2. /\ Bare("ended") \in Answers /\ Bare("ended").kind = "ended"
        /\ Reflected(Len(log) + 1) \in Answers /\ Reflected(Len(log) + 1).kind = "reflected"
    <2>1. Len(log) + 1 \in Nat
      BY <1>1 DEF LogType
    <2>. QED
      BY <2>1, MessageTypes DEF Bare, Reflected, Msg
  <1>3. /\ \/ down'[e] = down[e]
           \/ down'[e] = Append(down[e], Bare("ended"))
           \/ down'[e] = Append(Append(down[e], Reflected(Len(log) + 1)), Bare("ended"))
        /\ \/ log' = log
           \/ \E new \in [update : Updates, seen : SUBSET Nat] : Owner[new.update] = d /\ log' = Append(log, new)
    BY DEF Elsewhere, Reflects, Ends
  <1>4. \A j \in DOMAIN log : j \in DOMAIN log' /\ log'[j] = log[j]
    <2>1. \A new \in [update : Updates, seen : SUBSET Nat] : \A j \in DOMAIN log :
             j \in DOMAIN Append(log, new) /\ Append(log, new)[j] = log[j]
      BY <1>1 DEF LogType
    <2>. QED
      BY <1>3, <2>1
  <1>. QED
    BY <1>2, <1>3, <1>4

(* A step elsewhere changes nothing in the dialog. *)
LEMMA ElsewhereDialog ==
    ASSUME ContactSyncAssumption, IndInv, NEW d \in Devices, NEW e \in Devices \ {d}, Elsewhere(d, e)
    PROVE  Dialog(e)'
  <1>1. MessageType /\ Dialog(e)
    BY Parts
  <1>2. /\ phase'[e] = phase[e] /\ running'[e] = running[e] /\ up'[e] = up[e]
        /\ holder' = e <=> holder = e
        /\ holder = e => staged' = staged
    BY DEF Elsewhere, Same
  <1>3. /\ \/ down'[e] = down[e]
           \/ down'[e] = Append(down[e], Bare("ended"))
           \/ down'[e] = Append(Append(down[e], Reflected(Len(log) + 1)), Bare("ended"))
        /\ Bare("ended") \in Answers /\ Bare("ended").kind = "ended"
        /\ Reflected(Len(log) + 1) \in Answers /\ Reflected(Len(log) + 1).kind = "reflected"
        /\ \A j \in DOMAIN log : j \in DOMAIN log' /\ log'[j] = log[j]
    BY ElsewhereMessages
  <1>4. \A s \in Seq(Answers), m \in Answers : m.kind \notin AnswersToAsks =>
          /\ Append(s, m) \in Seq(Answers)
          /\ ~Follows(s, AnswersToAsks, AnswersToAsks)
                => ~Follows(Append(s, m), AnswersToAsks, AnswersToAsks)
          /\ \A n \in ToSet(Append(s, m)) : n.kind \in AnswersToAsks => n \in ToSet(s)
    BY FollowsKept, AppendFacts
  <1>5. down[e] \in Seq(Answers) /\ ~Follows(down[e], AnswersToAsks, AnswersToAsks)
    BY <1>1 DEF MessageType, Dialog
  <1>6. /\ ~Follows(down'[e], AnswersToAsks, AnswersToAsks)
        /\ \A n \in ToSet(down'[e]) : n.kind \in AnswersToAsks => n \in ToSet(down[e])
    <2>. DEFINE r == Reflected(Len(log) + 1)
                t == Bare("ended")
    <2>1. r \in Answers /\ r.kind \notin AnswersToAsks /\ t \in Answers /\ t.kind \notin AnswersToAsks
      BY <1>3 DEF AnswersToAsks
    <2>2. down'[e] = down[e] \/ down'[e] = Append(down[e], t) \/ down'[e] = Append(Append(down[e], r), t)
      BY <1>3
    <2>. HIDE DEF r, t
    <2>3. /\ Append(down[e], t) \in Seq(Answers)
          /\ ~Follows(Append(down[e], t), AnswersToAsks, AnswersToAsks)
          /\ \A n \in ToSet(Append(down[e], t)) : n.kind \in AnswersToAsks => n \in ToSet(down[e])
      BY <1>4, <1>5, <2>1
    <2>4. /\ Append(down[e], r) \in Seq(Answers)
          /\ ~Follows(Append(down[e], r), AnswersToAsks, AnswersToAsks)
          /\ \A n \in ToSet(Append(down[e], r)) : n.kind \in AnswersToAsks => n \in ToSet(down[e])
      BY <1>4, <1>5, <2>1
    <2>5. /\ ~Follows(Append(Append(down[e], r), t), AnswersToAsks, AnswersToAsks)
          /\ \A n \in ToSet(Append(Append(down[e], r), t)) : n.kind \in AnswersToAsks
                => n \in ToSet(Append(down[e], r))
      BY <1>4, <2>1, <2>4
    <2>. QED
      BY <1>5, <2>2, <2>3, <2>4, <2>5
  <1>. QED
    BY <1>1, <1>2, <1>3, <1>6, KeptDialog DEF Dialog

(* Without a holder nothing is staged. *)
LEMMA StagedStep ==
    ASSUME ContactSyncAssumption, IndInv, NEW d \in Devices, DeviceStep(d)
    PROVE  holder' = None => staged' = <<>>
  <1>0. holder = None => staged = <<>>
    BY DEF IndInv
  <1>1. ASSUME NEW u \in Updates, Owner[u] = d, RequestLocal(u)
        PROVE  holder' = None => staged' = <<>>
    BY <1>0, <1>1 DEF RequestLocal, mediatorVars
  <1>2. ASSUME NEW u \in Updates, Owner[u] = d, StartIncoming(u)
        PROVE  holder' = None => staged' = <<>>
    BY <1>0, <1>2 DEF StartIncoming, mediatorVars
  <1>3. ASSUME NEW u \in Updates, Owner[u] = d, UpdateFromRemote(u)
        PROVE  holder' = None => staged' = <<>>
    BY <1>0, <1>3 DEF UpdateFromRemote, mediatorVars
  <1>4. ASSUME NEW u \in Updates, Owner[u] = d, HoldLocal(u)
        PROVE  holder' = None => staged' = <<>>
    BY <1>0, <1>4 DEF HoldLocal, mediatorVars
  <1>5. ASSUME NEW u \in Updates, Owner[u] = d, AbortLocal(u)
        PROVE  holder' = None => staged' = <<>>
    BY <1>0, <1>5 DEF AbortLocal, mediatorVars
  <1>6. ASSUME NEW u \in Updates, Owner[u] = d, HoldRemote(u)
        PROVE  holder' = None => staged' = <<>>
    BY <1>0, <1>6 DEF HoldRemote, mediatorVars
  <1>7. CASE StartTask(d)
    BY <1>0, <1>7 DEF StartTask, mediatorVars
  <1>8. CASE ReadAck(d)
    BY <1>0, <1>8 DEF ReadAck, mediatorVars
  <1>9. CASE OpenTransaction(d)
    BY <1>0, <1>9, OpenFacts DEF mediatorVars
  <1>10. CASE ReadRejected(d)
    BY <1>0, <1>10 DEF ReadRejected, mediatorVars
  <1>11. CASE ReadEnded(d)
    <2>1. CASE CloseConnection(d)
      BY <1>0, <2>1, CloseFacts
    <2>2. CASE UNCHANGED <<holder, staged>>
      BY <1>0, <2>2
    <2>. QED
      BY <1>11, <2>1, <2>2, EndedFacts
  <1>12. CASE ReadReflectAck(d)
    BY <1>0, <1>12 DEF ReadReflectAck, mediatorVars
  <1>13. CASE ReadCommitAck(d)
    BY <1>0, <1>13, CommitAckFacts
  <1>14. CASE ReadSkipAck(d)
    <2>1. CASE CloseConnection(d)
      BY <1>0, <2>1, CloseFacts
    <2>2. CASE UNCHANGED <<holder, staged>>
      BY <1>0, <2>2
    <2>. QED
      BY <1>14, <2>1, <2>2, SkipAckFacts
  <1>15. CASE ReadOther(d)
    BY <1>0, <1>15 DEF ReadOther, mediatorVars
  <1>16. CASE ReadReflected(d)
    BY <1>0, <1>16 DEF ReadReflected, mediatorVars
  <1>17. CASE RunReflected(d)
    BY <1>0, <1>17 DEF RunReflected, mediatorVars
  <1>18. CASE Ignore(d)
    BY <1>0, <1>18 DEF Ignore, mediatorVars
  <1>19. ASSUME NEW entry \in downloads[d] \union orphans[d], FinishDownload(d, entry)
        PROVE  holder' = None => staged' = <<>>
    BY <1>0, <1>19 DEF FinishDownload, mediatorVars
  <1>20. ASSUME NEW a \in acking[d], Acknowledge(d, a[1], a[2])
        PROVE  holder' = None => staged' = <<>>
    BY <1>0, <1>20 DEF Acknowledge, mediatorVars
  <1>21. CASE Receive(d)
    <2>1. Dialog(d) /\ d # None
      BY Parts DEF ContactSyncAssumption
    <2>2. CASE Begin(d)
      BY <1>0, <2>1, <2>2 DEF Begin
    <2>3. CASE Head(up[d]).kind = "reflect" /\ Stage(d, Head(up[d]).of)
      BY <1>21, <2>1, <2>3, ReceiveFacts DEF Stage, Dialog
    <2>4. CASE Commit(d)
      BY <2>4 DEF Commit
    <2>. QED
      BY <1>0, <1>21, <2>2, <2>3, <2>4, ReceiveFacts
  <1>22. CASE LoseConnection(d)
    BY <1>0, <1>22, CloseFacts DEF LoseConnection
  <1>23. CASE Reconnect(d)
    BY <1>0, <1>23 DEF Reconnect, mediatorVars
  <1>25. CASE EndUpload(d)
    <2>1. CASE CloseConnection(d)
      BY <1>0, <2>1, CloseFacts
    <2>2. CASE ~CloseConnection(d)
      BY <1>0, <1>25, <2>2, UploadFacts DEF mediatorVars
    <2>. QED
      BY <2>1, <2>2
  <1>. QED
    BY <1>1, <1>2, <1>3, <1>4, <1>5, <1>6, <1>7, <1>8, <1>9, <1>10, <1>11,
       <1>12, <1>13, <1>14, <1>15, <1>16, <1>17, <1>18, <1>19, <1>20, <1>21,
       <1>22, <1>23, <1>25
    DEF DeviceStep, UpdateStep, Transaction, Reflection, Blobs

-----------------------------------------------------------------------------
(* The log, and what a device knows of it *)

(* A new entry of a device: one more for the others, none for itself. *)
LEMMA OwnEntry ==
    ASSUME LogType, NEW d \in Devices, NEW new \in [update : Updates, seen : SUBSET Nat],
           Owner[new.update] = d, log' = Append(log, new)
    PROVE  /\ \A j \in DOMAIN log : j \in DOMAIN log' /\ log'[j] = log[j]
           /\ Len(log) + 1 \in DOMAIN log' /\ log'[Len(log) + 1] = new
           /\ \A j \in DOMAIN log' : j \in DOMAIN log \/ j = Len(log) + 1
           /\ Len(log) + 1 \notin DOMAIN log /\ DOMAIN log \subseteq Nat
           /\ Others(d)' = Others(d)
           /\ \A e \in Devices \ {d} : Others(e)' = Others(e) \union {Len(log) + 1}
  <1>1. /\ \A j \in DOMAIN log : j \in DOMAIN log' /\ log'[j] = log[j]
        /\ Len(log) + 1 \in DOMAIN log' /\ log'[Len(log) + 1] = new
        /\ \A j \in DOMAIN log' : j \in DOMAIN log \/ j = Len(log) + 1
        /\ Len(log) + 1 \notin DOMAIN log /\ DOMAIN log \subseteq Nat
    BY DEF LogType
  <1>2. Others(d)' = Others(d)
    BY <1>1 DEF Others
  <1>3. \A e \in Devices \ {d} : Others(e)' = Others(e) \union {Len(log) + 1}
    BY <1>1 DEF Others
  <1>. QED
    BY <1>1, <1>2, <1>3

(* A step of d that loses none of the entries it does not know of.          *)
LEMMA EntriesFrame ==
    ASSUME NEW d \in Devices, Entries(d), Others(d)' = Others(d),
           \A j \in DOMAIN log : j \in DOMAIN log' /\ log'[j] = log[j],
           applied'[d] \subseteq DOMAIN log', Got(d) \subseteq Got(d)',
           \A j \in downloads'[d] \union orphans'[d] \union missed'[d] :
               j \in downloads[d] \union orphans[d] \union missed[d] \/ (j \in Others(d) /\ log[j].update \in Slow),
           ToSet(mailbox'[d]) \subseteq ToSet(mailbox[d]),
           nonces'[d] \subseteq Others(d) \intersect Got(d)',
           \A a \in acking'[d] : a \in acking[d] \/ a[1] \in Others(d) \intersect Got(d)',
           \A m \in ToSet(up'[d]) : m.kind = "ack" =>
               m \in ToSet(up[d]) \/ m.of \in Others(d) \intersect Got(d),
           \A m \in ToSet(down'[d]) : m.kind = "reflected" =>
               m \in ToSet(down[d]) \/ m.of \in Others(d),
           \A j \in Others(d) \ Got(d)' :
               /\ j \in ToSet(mailbox[d]) => j \in ToSet(mailbox'[d])
               /\ connected'[d] => Reflected(j) \in ToSet(down'[d])
    PROVE  Entries(d)'
  <1>1. Others(d) \subseteq DOMAIN log
    BY DEF Others
  <1>2. \A j \in downloads'[d] \union orphans'[d] \union missed'[d] :
           j \in Others(d) /\ log'[j].update \in Slow
    BY <1>1 DEF Entries
  <1>3. \A a \in acking'[d] : a[1] \in Others(d) \intersect Got(d)'
    BY DEF Entries
  <1>4. /\ \A m \in ToSet(up'[d]) : m.kind = "ack" => m.of \in Others(d) \intersect Got(d)'
        /\ \A m \in ToSet(down'[d]) : m.kind = "reflected" => m.of \in Others(d)
    BY DEF Entries
  <1>5. ToSet(mailbox'[d]) \subseteq Others(d)
    BY DEF Entries
  <1>6. \A j \in Others(d) \ Got(d)' :
           j \in ToSet(mailbox'[d]) /\ (connected'[d] => Reflected(j) \in ToSet(down'[d]))
    BY DEF Entries
  <1>. QED
    BY <1>2, <1>3, <1>4, <1>5, <1>6 DEF Entries

(* A step that has nothing to do with the entries, unless it sets one.      *)
LEMMA SameEntries ==
    ASSUME NEW d \in Devices, Entries(d), UNCHANGED <<downloads, orphans, acking, nonces, missed, log>>,
           mailbox'[d] = mailbox[d], connected'[d] => connected[d],
           applied[d] \subseteq applied'[d], applied'[d] \subseteq DOMAIN log,
           \A m \in ToSet(up'[d]) : m.kind = "ack" => m \in ToSet(up[d]),
           \A m \in ToSet(down'[d]) : m.kind = "reflected" => m \in ToSet(down[d]),
           \A m \in ToSet(down[d]) : m.kind = "reflected" => m \in ToSet(down'[d])
    PROVE  Entries(d)'
  <1>1. Others(d)' = Others(d)
    BY DEF Others
  <1>2. Got(d) \subseteq Got(d)'
    BY DEF Got
  <1>3. \A j \in Others(d) \ Got(d)' : connected'[d] => Reflected(j) \in ToSet(down'[d])
    BY <1>2 DEF Entries, Reflected, Msg
  <1>4. nonces'[d] \subseteq Others(d) \intersect Got(d)'
    BY <1>2 DEF Entries
  <1>. QED
    BY <1>1, <1>2, <1>3, <1>4, EntriesFrame

(* What is written and read of other kinds.                                 *)
LEMMA WriteAsk ==
    ASSUME MessageType, NEW d \in Devices, NEW m \in Requests, m.kind # "ack",
           up'[d] = Append(up[d], m)
    PROVE  \A n \in ToSet(up'[d]) : n.kind = "ack" => n \in ToSet(up[d])
  BY AppendFacts DEF MessageType

(* Taking something else leaves the reflected entries. *)
LEMMA TakeOther ==
    ASSUME MessageType, NEW d \in Devices,
           \/ down'[d] = down[d]
           \/ down[d] # <<>> /\ down'[d] = Tail(down[d]) /\ Head(down[d]).kind # "reflected"
    PROVE  /\ \A m \in ToSet(down'[d]) : m.kind = "reflected" => m \in ToSet(down[d])
           /\ \A m \in ToSet(down[d]) : m.kind = "reflected" => m \in ToSet(down'[d])
  BY TailFacts DEF MessageType

(* So does sending something else. *)
LEMMA TellOther ==
    ASSUME MessageType, NEW d \in Devices, NEW m \in Answers, m.kind # "reflected",
           down'[d] = Append(down[d], m)
    PROVE  /\ \A n \in ToSet(down'[d]) : n.kind = "reflected" => n \in ToSet(down[d])
           /\ \A n \in ToSet(down[d]) : n.kind = "reflected" => n \in ToSet(down'[d])
  BY AppendFacts DEF MessageType

(* A reflected entry is applied, or known already.                          *)
LEMMA ApplyEntries ==
    ASSUME ContactSyncAssumption, IndInv, NEW d \in Devices, down[d] # <<>>,
           Head(down[d]).kind = "reflected", Apply(d, Head(down[d]).of), down'[d] = Tail(down[d]),
           UNCHANGED <<orphans, nonces, missed, connected, log, mailbox, up>>
    PROVE  Entries(d)'
  <1>. DEFINE j == Head(down[d]).of
  <1>0. MessageType /\ ContactType /\ LogType /\ Entries(d)
    BY Parts
  <1>1. /\ Head(down[d]) \in ToSet(down[d]) /\ Head(down[d]) \in Answers
        /\ ToSet(down[d]) = {Head(down[d])} \union ToSet(down'[d])
    BY <1>0, TailFacts DEF MessageType
  <1>2. j \in Others(d)
    BY <1>0, <1>1 DEF Entries
  <1>3. Others(d)' = Others(d) /\ Others(d) \subseteq DOMAIN log
    BY DEF Others
  <1>4. Apply(d, j)
    OBVIOUS
  <1>5. \A k \in Others(d) : k # j /\ Reflected(k) \in ToSet(down[d]) => Reflected(k) \in ToSet(down'[d])
    BY <1>1 DEF Reflected, Msg
  <1>. HIDE DEF j
  <1>6. orphans' = orphans
    OBVIOUS
  <1>7. /\ applied'[d] = applied[d] \/ applied'[d] = applied[d] \union {j}
        /\ downloads'[d] = downloads[d] \/ (downloads'[d] = downloads[d] \union {j} /\ log[j].update \in Slow)
        /\ \A a \in acking'[d] : a \in acking[d] \/ a[1] = j
        /\ j \in nonces[d] \union Got(d)'
    <2>1. CASE j \in nonces[d] \union downloads[d] \union orphans[d]
      <3>1. /\ acking' = [acking EXCEPT ![d] = @ \union {<<j, FALSE>>}]
            /\ UNCHANGED <<applied, downloads>>
        BY <1>4, <2>1 DEF Apply
      <3>2. acking'[d] = acking[d] \union {<<j, FALSE>>}
        BY <1>0, <3>1 DEF ContactType
      <3>3. \A a \in acking'[d] : a \in acking[d] \/ a = <<j, FALSE>>
        BY <3>2
      <3>4. \A a : a = <<j, FALSE>> => a[1] = j
        OBVIOUS
      <3>5. j \in nonces[d] \union Got(d)'
        BY <1>6, <2>1, <3>1 DEF Got
      <3>. QED
        BY <3>1, <3>3, <3>4, <3>5
    <2>2. CASE j \notin nonces[d] \union downloads[d] \union orphans[d] /\ log[j].update \in Slow
      <3>1. downloads'[d] = downloads[d] \union {j} /\ UNCHANGED <<applied, acking>>
        BY <1>0, <1>4, <2>2 DEF Apply, ContactType
      <3>. QED
        BY <2>2, <3>1 DEF Got
    <2>3. CASE j \notin nonces[d] \union downloads[d] \union orphans[d] /\ log[j].update \notin Slow
      <3>1. /\ Set(d, j) /\ UNCHANGED downloads
            /\ acking' = [acking EXCEPT ![d] = @ \union {<<j, TRUE>>}]
        BY <1>4, <2>3 DEF Apply
      <3>2. acking'[d] = acking[d] \union {<<j, TRUE>>} /\ applied'[d] = applied[d] \union {j}
        BY <1>0, <3>1 DEF Set, ContactType
      <3>3. \A a \in acking'[d] : a \in acking[d] \/ a = <<j, TRUE>>
        BY <3>2
      <3>4. \A a : a = <<j, TRUE>> => a[1] = j
        OBVIOUS
      <3>5. j \in Got(d)'
        BY <3>2 DEF Got
      <3>. QED
        BY <3>1, <3>2, <3>3, <3>4, <3>5
    <2>. QED
      BY <2>1, <2>2, <2>3
  <1>8. Got(d) \subseteq Got(d)'
    BY <1>7 DEF Got
  <1>9. j \in Got(d)'
    BY <1>0, <1>7, <1>8 DEF Entries
  <1>10. \A k \in Others(d) \ Got(d)' : connected'[d] => Reflected(k) \in ToSet(down'[d])
    BY <1>0, <1>5, <1>8, <1>9 DEF Entries
  <1>11. applied'[d] \subseteq DOMAIN log'
    BY <1>0, <1>2, <1>3, <1>7 DEF Entries
  <1>12. nonces'[d] \subseteq Others(d) \intersect Got(d)'
    BY <1>0, <1>8 DEF Entries
  <1>13. \A a \in acking'[d] : a \in acking[d] \/ a[1] \in Others(d) \intersect Got(d)'
    BY <1>2, <1>7, <1>9
  <1>14. \A k \in downloads'[d] \union orphans'[d] :
            k \in downloads[d] \union orphans[d] \/ (k \in Others(d) /\ log[k].update \in Slow)
    BY <1>2, <1>7
  <1>. QED
    BY <1>0, <1>1, <1>3, <1>8, <1>10, <1>11, <1>12, <1>13, <1>14, EntriesFrame

(* Closing a connection loses no entry: they are in the mailbox. *)
LEMMA CloseEntries ==
    ASSUME ContactSyncAssumption, IndInv, NEW d \in Devices, CloseConnection(d),
           UNCHANGED <<applied, nonces, missed, log, mailbox>>
    PROVE  Entries(d)'
  <1>1. /\ ~connected'[d] /\ up'[d] = <<>> /\ down'[d] = <<>> /\ acking'[d] = {}
        /\ downloads'[d] = {} /\ orphans'[d] = orphans[d] \union downloads[d]
    BY CloseFacts
  <1>2. Got(d)' = Got(d) /\ Others(d)' = Others(d)
    BY <1>1 DEF Got, Others
  <1>3. ToSet(up'[d]) = {} /\ ToSet(down'[d]) = {}
    BY <1>1, EmptySeq, Elements
  <1>4. Entries(d)
    BY Parts
  <1>5. nonces'[d] \subseteq Others(d) \intersect Got(d)' /\ applied'[d] \subseteq DOMAIN log'
    BY <1>2, <1>4 DEF Entries
  <1>. QED
    BY <1>1, <1>2, <1>3, <1>4, <1>5, EntriesFrame

(* What is asked is no acknowledgement of an entry. *)
LEMMA WriteOther ==
    ASSUME MessageType, NEW d \in Devices, Write(d, Bare("begin")) \/ Write(d, Bare("commit"))
              \/ \E u \in Updates : Write(d, Msg("reflect", u))
    PROVE  \A n \in ToSet(up'[d]) : n.kind = "ack" => n \in ToSet(up[d])
  <1>1. \E m \in Requests : m.kind # "ack" /\ Write(d, m)
    BY MessageTypes DEF Bare, Msg
  <1>. QED
    BY <1>1, WriteAsk DEF Write, MessageType

(* No entry is lost. *)
LEMMA EntriesStep ==
    ASSUME ContactSyncAssumption, IndInv, NEW d \in Devices, DeviceStep(d)
    PROVE  Entries(d)'
  <1>0. UpdateType /\ LinkType /\ MessageType /\ ContactType /\ LogType
    BY Parts
  <1>. Entries(d) /\ Dialog(d) /\ Backlog(d)
    BY Parts
  <1>1. ASSUME NEW u \in Updates, Owner[u] = d, RequestLocal(u)
        PROVE  Entries(d)'
    <2>1. UNCHANGED <<downloads, orphans, acking, nonces, missed, log, mailbox, connected, applied, up, down>>
      BY <1>1 DEF RequestLocal, contactVars, reflectedVars, linkVars, mediatorVars
    <2>. QED
      BY <2>1, SameEntries DEF Entries
  <1>2. ASSUME NEW u \in Updates, Owner[u] = d, StartIncoming(u)
        PROVE  Entries(d)'
    <2>1. UNCHANGED <<downloads, orphans, acking, nonces, missed, log, mailbox, connected, applied, up, down>>
      BY <1>2 DEF StartIncoming, contactVars, reflectedVars, linkVars, mediatorVars
    <2>. QED
      BY <2>1, SameEntries DEF Entries
  <1>3. ASSUME NEW u \in Updates, Owner[u] = d, UpdateFromRemote(u)
        PROVE  Entries(d)'
    <2>1. UNCHANGED <<downloads, orphans, acking, nonces, missed, log, mailbox, connected, applied, up, down>>
      BY <1>3 DEF UpdateFromRemote, contactVars, reflectedVars, linkVars, mediatorVars
    <2>. QED
      BY <2>1, SameEntries DEF Entries
  <1>4. ASSUME NEW u \in Updates, Owner[u] = d, HoldLocal(u)
        PROVE  Entries(d)'
    <2>1. UNCHANGED <<downloads, orphans, acking, nonces, missed, log, mailbox, connected, applied, up, down>>
      BY <1>4 DEF HoldLocal, contactVars, reflectedVars, linkVars, mediatorVars
    <2>. QED
      BY <2>1, SameEntries DEF Entries
  <1>5. ASSUME NEW u \in Updates, Owner[u] = d, AbortLocal(u)
        PROVE  Entries(d)'
    <2>1. UNCHANGED <<downloads, orphans, acking, nonces, missed, log, mailbox, connected, applied, up, down>>
      BY <1>5 DEF AbortLocal, contactVars, reflectedVars, linkVars, mediatorVars
    <2>. QED
      BY <2>1, SameEntries DEF Entries
  <1>6. ASSUME NEW u \in Updates, Owner[u] = d, HoldRemote(u)
        PROVE  Entries(d)'
    <2>1. /\ UNCHANGED <<downloads, orphans, acking, nonces, missed, log, mailbox, connected, applied, down>>
          /\ Write(d, Bare("begin"))
      BY <1>6 DEF HoldRemote, contactVars, reflectedVars, linkVars, mediatorVars
    <2>2. \A n \in ToSet(up'[d]) : n.kind = "ack" => n \in ToSet(up[d])
      BY <1>0, <2>1, WriteOther
    <2>. QED
      BY <2>1, <2>2, SameEntries DEF Entries
  <1>7. CASE StartTask(d)
    <2>1. /\ UNCHANGED <<downloads, orphans, acking, nonces, missed, log, mailbox, connected, applied, down>>
          /\ Write(d, Bare("begin"))
      BY <1>7 DEF StartTask, contactVars, reflectedVars, linkVars, mediatorVars
    <2>2. \A n \in ToSet(up'[d]) : n.kind = "ack" => n \in ToSet(up[d])
      BY <1>0, <2>1, WriteOther
    <2>. QED
      BY <2>1, <2>2, SameEntries DEF Entries
  <1>8. CASE ReadAck(d)
    <2>1. /\ UNCHANGED <<downloads, orphans, acking, nonces, missed, log, mailbox, connected, applied>>
          /\ Reading(d) /\ Message(d) = Bare("ack") /\ Consume(d) /\ UNCHANGED up
      BY <1>8 DEF ReadAck, contactVars, reflectedVars, linkVars, mediatorVars
    <2>2. down[d] # <<>> /\ down'[d] = Tail(down[d]) /\ Head(down[d]).kind # "reflected"
      BY <1>0, <2>1, AnswerFacts DEF Bare, Msg, MessageType
    <2>3. /\ \A m \in ToSet(down'[d]) : m.kind = "reflected" => m \in ToSet(down[d])
          /\ \A m \in ToSet(down[d]) : m.kind = "reflected" => m \in ToSet(down'[d])
          /\ \A n \in ToSet(up'[d]) : n.kind = "ack" => n \in ToSet(up[d])
      BY <1>0, <2>1, <2>2, TakeOther
    <2>. QED
      BY <2>1, <2>3, SameEntries DEF Entries
  <1>9. CASE OpenTransaction(d)
    <2>1. UNCHANGED <<downloads, orphans, acking, nonces, missed, log, mailbox, connected, applied, down>>
      BY <1>9, OpenFacts DEF contactVars, reflectedVars, linkVars, mediatorVars
    <2>2. running[d] \in Updates
      BY <1>9, OpenFacts, TransactionFacts
    <2>3. \A n \in ToSet(up'[d]) : n.kind = "ack" => n \in ToSet(up[d])
      BY <1>0, <2>2, <1>9, OpenFacts, WriteOther
    <2>. QED
      BY <2>1, <2>3, SameEntries DEF Entries
  <1>10. CASE ReadRejected(d)
    <2>1. /\ UNCHANGED <<downloads, orphans, acking, nonces, missed, log, mailbox, connected, applied>>
          /\ Reading(d) /\ Message(d) = Bare("rejected") /\ Consume(d) /\ UNCHANGED up
      BY <1>10 DEF ReadRejected, contactVars, reflectedVars, linkVars, mediatorVars
    <2>2. down[d] # <<>> /\ down'[d] = Tail(down[d]) /\ Head(down[d]).kind # "reflected"
      BY <1>0, <2>1, AnswerFacts DEF Bare, Msg, MessageType
    <2>3. /\ \A m \in ToSet(down'[d]) : m.kind = "reflected" => m \in ToSet(down[d])
          /\ \A m \in ToSet(down[d]) : m.kind = "reflected" => m \in ToSet(down'[d])
          /\ \A n \in ToSet(up'[d]) : n.kind = "ack" => n \in ToSet(up[d])
      BY <1>0, <2>1, <2>2, TakeOther
    <2>. QED
      BY <2>1, <2>3, SameEntries DEF Entries
  <1>11. CASE ReadEnded(d)
    <2>1. CASE CloseConnection(d)
      BY <1>11, <2>1, EndedFacts, CloseEntries
    <2>2. CASE /\ down' = [down EXCEPT ![d] = Tail(@)]
               /\ UNCHANGED <<downloads, orphans, acking, connected>>
               /\ Write(d, Bare("begin")) \/ UNCHANGED up
      <3>1. down[d] # <<>> /\ down'[d] = Tail(down[d]) /\ Head(down[d]).kind # "reflected"
        <4>1. down[d] # <<>> /\ Head(down[d]) = Bare("ended")
          BY <1>11, EndedFacts
        <4>. QED
          BY <1>0, <2>2, <4>1 DEF Bare, Msg, MessageType
      <3>2. /\ \A m \in ToSet(down'[d]) : m.kind = "reflected" => m \in ToSet(down[d])
            /\ \A m \in ToSet(down[d]) : m.kind = "reflected" => m \in ToSet(down'[d])
            /\ \A n \in ToSet(up'[d]) : n.kind = "ack" => n \in ToSet(up[d])
        BY <1>0, <2>2, <3>1, TakeOther, WriteOther
      <3>3. UNCHANGED <<nonces, missed, log, mailbox, applied>>
        BY <1>11, EndedFacts
      <3>. QED
        BY <2>2, <3>2, <3>3, SameEntries DEF Entries
    <2>. QED
      BY <1>11, <2>1, <2>2, EndedFacts
  <1>12. CASE ReadReflectAck(d)
    <2>1. /\ UNCHANGED <<downloads, orphans, acking, nonces, missed, log, mailbox, connected, applied>>
          /\ Reading(d) /\ Message(d) = Bare("reflectAck") /\ Consume(d) /\ Write(d, Bare("commit"))
      BY <1>12 DEF ReadReflectAck, contactVars, reflectedVars, linkVars, mediatorVars
    <2>2. down[d] # <<>> /\ down'[d] = Tail(down[d]) /\ Head(down[d]).kind # "reflected"
      BY <1>0, <2>1, AnswerFacts DEF Bare, Msg, MessageType
    <2>3. /\ \A m \in ToSet(down'[d]) : m.kind = "reflected" => m \in ToSet(down[d])
          /\ \A m \in ToSet(down[d]) : m.kind = "reflected" => m \in ToSet(down'[d])
          /\ \A n \in ToSet(up'[d]) : n.kind = "ack" => n \in ToSet(up[d])
      BY <1>0, <2>1, <2>2, TakeOther, WriteOther
    <2>. QED
      BY <2>1, <2>3, SameEntries DEF Entries
  <1>13. CASE ReadCommitAck(d)
    <2>1. /\ UNCHANGED <<downloads, orphans, acking, nonces, missed, log, mailbox, connected, up>>
          /\ down[d] # <<>> /\ Head(down[d]).kind = "commitAck" /\ phase[d] = "commit"
          /\ Set(d, Head(down[d]).of) /\ down'[d] = Tail(down[d])
      BY <1>0, <1>13, CommitAckFacts DEF MessageType
    <2>2. Head(down[d]) \in ToSet(down[d])
      BY <1>0, <2>1, TailFacts DEF MessageType
    <2>3. Head(down[d]).of \in DOMAIN log
      BY <2>1, <2>2 DEF Dialog
    <2>4. applied[d] \subseteq applied'[d] /\ applied'[d] \subseteq DOMAIN log
      BY <1>0, <2>1, <2>3 DEF Set, ContactType, Entries
    <2>5. /\ \A m \in ToSet(down'[d]) : m.kind = "reflected" => m \in ToSet(down[d])
          /\ \A m \in ToSet(down[d]) : m.kind = "reflected" => m \in ToSet(down'[d])
      BY <1>0, <2>1, TakeOther
    <2>. QED
      BY <2>1, <2>4, <2>5, SameEntries
  <1>14. CASE ReadSkipAck(d)
    <2>1. CASE CloseConnection(d)
      BY <1>14, <2>1, SkipAckFacts, CloseEntries
    <2>2. CASE /\ down' = [down EXCEPT ![d] = Tail(@)]
               /\ UNCHANGED <<downloads, orphans, acking, connected>>
               /\ UNCHANGED up
      <3>1. down[d] # <<>> /\ down'[d] = Tail(down[d]) /\ Head(down[d]).kind # "reflected"
        <4>1. down[d] # <<>> /\ Head(down[d]).kind = "commitAck"
          BY <1>14, SkipAckFacts
        <4>. QED
          BY <1>0, <2>2, <4>1 DEF Bare, Msg, MessageType
      <3>2. /\ \A m \in ToSet(down'[d]) : m.kind = "reflected" => m \in ToSet(down[d])
            /\ \A m \in ToSet(down[d]) : m.kind = "reflected" => m \in ToSet(down'[d])
            /\ \A n \in ToSet(up'[d]) : n.kind = "ack" => n \in ToSet(up[d])
        BY <1>0, <2>2, <3>1, TakeOther
      <3>3. UNCHANGED <<nonces, missed, log, mailbox, applied>>
        BY <1>14, SkipAckFacts
      <3>. QED
        BY <2>2, <3>2, <3>3, SameEntries DEF Entries
    <2>. QED
      BY <1>14, <2>1, <2>2, SkipAckFacts
  <1>15. CASE ReadOther(d)
    <2>1. /\ UNCHANGED <<downloads, orphans, acking, nonces, missed, log, mailbox, connected, applied, up>>
          /\ Reading(d) /\ Message(d).kind = "ended" /\ Consume(d)
      BY <1>15 DEF ReadOther, contactVars, reflectedVars, linkVars, mediatorVars
    <2>2. \/ down'[d] = down[d]
          \/ down[d] # <<>> /\ down'[d] = Tail(down[d]) /\ Head(down[d]).kind # "reflected"
      BY <1>0, <2>1, ConsumeFacts DEF MessageType
    <2>3. /\ \A m \in ToSet(down'[d]) : m.kind = "reflected" => m \in ToSet(down[d])
          /\ \A m \in ToSet(down[d]) : m.kind = "reflected" => m \in ToSet(down'[d])
      BY <1>0, <2>2, TakeOther
    <2>. QED
      BY <2>1, <2>3, SameEntries DEF Entries
  <1>16. CASE ReadReflected(d)
    <2>1. /\ Reading(d) /\ Message(d).kind = "reflected" /\ Consume(d) /\ Apply(d, Message(d).of)
          /\ UNCHANGED <<orphans, nonces, missed, connected, log, mailbox, up>>
      BY <1>16 DEF ReadReflected, linkVars, mediatorVars
    <2>2. down[d] # <<>> /\ Message(d) = Head(down[d]) /\ down'[d] = Tail(down[d])
      BY <1>0, <2>1, AnswerFacts DEF MessageType
    <2>. QED
      BY <2>1, <2>2, ApplyEntries
  <1>17. CASE RunReflected(d)
    <2>1. /\ down[d] # <<>> /\ Head(down[d]).kind = "reflected" /\ Apply(d, Head(down[d]).of)
          /\ UNCHANGED <<orphans, nonces, missed, connected, log, mailbox, up>> /\ down'[d] = Tail(down[d])
      BY <1>0, <1>17 DEF RunReflected, linkVars, mediatorVars, MessageType
    <2>. QED
      BY <2>1, ApplyEntries
  <1>18. CASE Ignore(d)
    <2>1. UNCHANGED <<downloads, orphans, acking, nonces, missed, log, mailbox, connected, applied, up>>
      BY <1>18 DEF Ignore, contactVars, reflectedVars, linkVars, mediatorVars
    <2>2. backlog[d] = <<>> => down[d] # <<>>
      BY <1>0, <1>18, ConcatEmptySeq DEF Ignore, MessageType
    <2>3. \/ down'[d] = down[d]
          \/ down[d] # <<>> /\ down'[d] = Tail(down[d]) /\ Head(down[d]).kind # "reflected"
      BY <1>0, <2>2, <1>18 DEF Ignore, MessageType
    <2>4. /\ \A m \in ToSet(down'[d]) : m.kind = "reflected" => m \in ToSet(down[d])
          /\ \A m \in ToSet(down[d]) : m.kind = "reflected" => m \in ToSet(down'[d])
      BY <1>0, <2>3, TakeOther
    <2>. QED
      BY <2>1, <2>4, SameEntries DEF Entries
  <1>19. ASSUME NEW entry \in downloads[d] \union orphans[d], FinishDownload(d, entry)
        PROVE  Entries(d)'
    <2>1. /\ UNCHANGED <<nonces, connected, log, mailbox, up, down>>
          /\ downloads'[d] = downloads[d] \ {entry} /\ orphans'[d] = orphans[d] \ {entry}
      BY <1>0, <1>19 DEF FinishDownload, linkVars, mediatorVars, ContactType
    <2>7. \/ applied'[d] = applied[d] \union {entry} /\ missed'[d] = missed[d]
          \/ applied'[d] = applied[d] /\ missed'[d] = missed[d] \union {entry}
      <3>1. CASE Applied(d, entry)
        BY <1>0, <3>1 DEF Applied, Set, ContactType
      <3>2. CASE Missed(d, entry)
        BY <1>0, <3>2 DEF Missed, ContactType
      <3>. QED
        BY <1>19, <3>1, <3>2 DEF FinishDownload
    <2>2. \A a \in acking'[d] : a \in acking[d] \/ a[1] = entry
      <3>1. acking'[d] = acking[d] \union (IF entry \in downloads[d] THEN {<<entry, TRUE>>} ELSE {})
        BY <1>0, <1>19 DEF FinishDownload, ContactType
      <3>2. \A a \in acking'[d] : a \in acking[d] \/ a = <<entry, TRUE>>
        BY <3>1
      <3>3. \A a : a = <<entry, TRUE>> => a[1] = entry
        OBVIOUS
      <3>. QED
        BY <3>2, <3>3
    <2>3. /\ entry \in Others(d) /\ entry \in Got(d) /\ Others(d) \subseteq DOMAIN log
          /\ log[entry].update \in Slow
      BY DEF Entries, Got, Others
    <2>4. Got(d)' = Got(d) /\ Others(d)' = Others(d)
      BY <2>1, <2>3, <2>7 DEF Got, Others
    <2>5. applied'[d] \subseteq DOMAIN log'
      BY <2>1, <2>3, <2>7 DEF Entries
    <2>6. /\ nonces'[d] \subseteq Others(d) \intersect Got(d)'
          /\ \A a \in acking'[d] : a \in acking[d] \/ a[1] \in Others(d) \intersect Got(d)'
          /\ \A j \in Others(d) \ Got(d)' : connected'[d] => Reflected(j) \in ToSet(down'[d])
      BY <2>1, <2>3, <2>4, <2>2 DEF Entries
    <2>8. \A j \in downloads'[d] \union orphans'[d] \union missed'[d] :
             \/ j \in downloads[d] \union orphans[d] \union missed[d]
             \/ j \in Others(d) /\ log[j].update \in Slow
      BY <2>1, <2>3, <2>7
    <2>. QED
      BY <2>1, <2>4, <2>5, <2>6, <2>8, EntriesFrame
  <1>20. ASSUME NEW a \in acking[d], Acknowledge(d, a[1], a[2])
        PROVE  Entries(d)'
    <2>1. /\ UNCHANGED <<applied, downloads, orphans, missed, connected, log, mailbox, down>>
          /\ acking'[d] \subseteq acking[d] /\ nonces'[d] \subseteq nonces[d] \union {a[1]}
          /\ up'[d] = Append(up[d], Msg("ack", a[1]))
      BY <1>0, <1>20 DEF Acknowledge, Write, linkVars, mediatorVars, ContactType, MessageType
    <2>2. a[1] \in Others(d) /\ a[1] \in Got(d)
      BY DEF Entries
    <2>3. Msg("ack", a[1]) \in Requests /\ Msg("ack", a[1]).of = a[1]
      <3>1. a[1] \in Nat
        BY <1>0 DEF ContactType
      <3>. QED
        BY <3>1, MessageTypes DEF Msg
    <2>4. Got(d)' = Got(d) /\ Others(d)' = Others(d)
      BY <2>1 DEF Got, Others
    <2>5. \A m \in ToSet(up'[d]) : m \in ToSet(up[d]) \/ m.of \in Others(d) \intersect Got(d)
      BY <1>0, <2>1, <2>2, <2>3, AppendFacts DEF MessageType
    <2>6. /\ nonces'[d] \subseteq Others(d) \intersect Got(d)'
          /\ applied'[d] \subseteq DOMAIN log'
          /\ \A j \in Others(d) \ Got(d)' : connected'[d] => Reflected(j) \in ToSet(down'[d])
      BY <2>1, <2>2, <2>4 DEF Entries
    <2>. QED
      BY <2>1, <2>4, <2>5, <2>6, EntriesFrame
  <1>21. CASE Receive(d)
    <2>1. /\ UNCHANGED <<applied, downloads, orphans, acking, nonces, missed, connected, seenAtStart>>
          /\ up[d] # <<>> /\ Head(up[d]) \in ToSet(up[d]) /\ ToSet(up'[d]) \subseteq ToSet(up[d])
      BY <1>21, ReceiveFacts
    <2>2. CASE Begin(d) \/ Stage(d, Head(up[d]).of)
      <3>1. PICK m \in Answers : m.kind # "reflected" /\ Answer(d, m)
        BY <2>2, MessageTypes DEF Begin, Stage, Bare, Msg
      <3>2. /\ \A n \in ToSet(down'[d]) : n.kind = "reflected" => n \in ToSet(down[d])
            /\ \A n \in ToSet(down[d]) : n.kind = "reflected" => n \in ToSet(down'[d])
        BY <1>0, <3>1, TellOther DEF Answer, MessageType
      <3>3. UNCHANGED <<log, mailbox>>
        BY <2>2 DEF Begin, Stage
      <3>. QED
        BY <2>1, <3>2, <3>3, SameEntries DEF Entries
    <2>3. CASE Head(up[d]).kind = "commit" /\ Commit(d)
      <3>. DEFINE answer == Msg("commitAck", Len(log) + Len(staged))
      <3>1. /\ mailbox'[d] = mailbox[d] /\ down'[d] = Append(down[d], answer)
        BY <1>0, <2>3, CommitDown
      <3>2. answer \in Answers /\ answer.kind # "reflected"
        <4>1. Len(log) + Len(staged) \in Nat
          BY <1>0 DEF LogType, LinkType
        <4>. QED
          BY <4>1, MessageTypes DEF Msg
      <3>. HIDE DEF answer
      <3>3. /\ \A n \in ToSet(down'[d]) : n.kind = "reflected" => n \in ToSet(down[d])
            /\ \A n \in ToSet(down[d]) : n.kind = "reflected" => n \in ToSet(down'[d])
        BY <1>0, <3>1, <3>2, TellOther
      <3>4. CASE phase[d] = "skip"
        <4>1. log' = log
          BY <2>1, <2>3, <3>4, CommitFacts
        <4>. QED
          BY <2>1, <3>1, <3>3, <4>1, SameEntries DEF Entries
      <3>5. CASE phase[d] = "commit"
        <4>1. PICK new \in [update : Updates, seen : SUBSET Nat] :
                 Owner[new.update] = d /\ log' = Append(log, new)
          BY <2>1, <2>3, <3>5, CommitFacts
        <4>2. /\ \A j \in DOMAIN log : j \in DOMAIN log' /\ log'[j] = log[j]
              /\ Others(d)' = Others(d)
          BY <1>0, <4>1, OwnEntry
        <4>3. Got(d)' = Got(d)
          BY <2>1 DEF Got
        <4>4. /\ nonces'[d] \subseteq Others(d) \intersect Got(d)'
              /\ applied'[d] \subseteq DOMAIN log'
              /\ \A j \in Others(d) \ Got(d)' : connected'[d] => Reflected(j) \in ToSet(down'[d])
          BY <2>1, <3>3, <4>2, <4>3 DEF Entries, Reflected, Msg
        <4>. QED
          BY <2>1, <3>1, <3>3, <4>2, <4>3, <4>4, EntriesFrame
      <3>. QED
        BY <2>1, <2>3, <3>4, <3>5, CommitFacts
    <2>4. CASE /\ Head(up[d]).kind = "ack"
               /\ mailbox' = [mailbox EXCEPT ![d] = Without(@, Head(up[d]).of)]
               /\ UNCHANGED <<holder, staged, log, down>>
      <3>1. mailbox'[d] = Without(mailbox[d], Head(up[d]).of) /\ mailbox[d] \in Seq(Nat)
        BY <1>0, <2>4 DEF LogType
      <3>2. /\ ToSet(mailbox'[d]) \subseteq ToSet(mailbox[d])
            /\ ToSet(mailbox[d]) \ {Head(up[d]).of} \subseteq ToSet(mailbox'[d])
        BY <3>1, WithoutFacts
      <3>3. Head(up[d]).of \in Got(d)
        BY <2>1, <2>4 DEF Entries
      <3>4. Got(d)' = Got(d) /\ Others(d)' = Others(d)
        BY <2>1, <2>4 DEF Got, Others
      <3>5. /\ nonces'[d] \subseteq Others(d) \intersect Got(d)'
            /\ applied'[d] \subseteq DOMAIN log'
            /\ \A j \in Others(d) \ Got(d)' :
                  /\ j \in ToSet(mailbox[d]) => j \in ToSet(mailbox'[d])
                  /\ connected'[d] => Reflected(j) \in ToSet(down'[d])
        BY <2>1, <2>4, <3>2, <3>3, <3>4 DEF Entries
      <3>. QED
        BY <2>1, <2>4, <3>2, <3>4, <3>5, EntriesFrame
    <2>. QED
      BY <1>21, <2>2, <2>3, <2>4, ReceiveFacts
  <1>22. CASE LoseConnection(d)
    BY <1>22, CloseEntries DEF LoseConnection
  <1>23. CASE Reconnect(d)
    <2>1. /\ UNCHANGED <<applied, downloads, orphans, acking, nonces, missed, log, mailbox, up>>
          /\ down'[d] = [i \in DOMAIN mailbox[d] |-> Reflected(mailbox[d][i])]
      BY <1>0, <1>23 DEF Reconnect, reflectedVars, mediatorVars, MessageType
    <2>2. Got(d)' = Got(d) /\ Others(d)' = Others(d)
      BY <2>1 DEF Got, Others
    <2>3. \A m \in ToSet(down'[d]) : m.of \in ToSet(mailbox[d])
      BY <2>1 DEF ToSet, Reflected, Msg
    <2>4. \A j \in ToSet(mailbox[d]) : Reflected(j) \in ToSet(down'[d])
      BY <2>1 DEF ToSet
    <2>5. /\ nonces'[d] \subseteq Others(d) \intersect Got(d)'
          /\ applied'[d] \subseteq DOMAIN log'
          /\ \A j \in Others(d) \ Got(d)' : Reflected(j) \in ToSet(down'[d])
          /\ \A m \in ToSet(down'[d]) : m.of \in Others(d)
      BY <2>1, <2>2, <2>3, <2>4 DEF Entries
    <2>. QED
      BY <2>1, <2>2, <2>5, EntriesFrame
  <1>25. CASE EndUpload(d)
    <2>1. CASE CloseConnection(d)
      <3>1. UNCHANGED <<applied, nonces, missed, log, mailbox>>
        BY <1>25 DEF EndUpload
      <3>. QED
        BY <2>1, <3>1, CloseEntries
    <2>2. CASE ~CloseConnection(d)
      <3>1. /\ UNCHANGED <<downloads, orphans, acking, nonces, missed, log, mailbox, connected, applied, down>>
            /\ Write(d, Msg("reflect", running[d])) /\ phase[d] = "upload"
        BY <1>25, <2>2, UploadFacts DEF contactVars, reflectedVars, linkVars, mediatorVars
      <3>2. running[d] \in Updates
        BY <3>1, TransactionFacts
      <3>3. \A n \in ToSet(up'[d]) : n.kind = "ack" => n \in ToSet(up[d])
        BY <1>0, <3>1, <3>2, WriteOther
      <3>. QED
        BY <3>1, <3>3, SameEntries DEF Entries
    <2>. QED
      BY <2>1, <2>2
  <1>. QED
    BY <1>1, <1>2, <1>3, <1>4, <1>5, <1>6, <1>7, <1>8, <1>9, <1>10, <1>11,
       <1>12, <1>13, <1>14, <1>15, <1>16, <1>17, <1>18, <1>19, <1>20, <1>21,
       <1>22, <1>23, <1>25
    DEF DeviceStep, UpdateStep, Transaction, Reflection, Blobs

(* A step elsewhere loses no entry: a new one goes into the mailbox. *)
LEMMA ElsewhereEntries ==
    ASSUME ContactSyncAssumption, IndInv, NEW d \in Devices, NEW e \in Devices \ {d}, Elsewhere(d, e)
    PROVE  Entries(e)'
  <1>1. LogType /\ MessageType /\ Entries(e)
    BY Parts
  <1>2. /\ connected'[e] = connected[e] /\ up'[e] = up[e]
        /\ applied'[e] = applied[e] /\ downloads'[e] = downloads[e] /\ orphans'[e] = orphans[e]
        /\ acking'[e] = acking[e] /\ nonces'[e] = nonces[e] /\ missed'[e] = missed[e]
    BY DEF Elsewhere, Same, SameContact
  <1>3. Got(e)' = Got(e)
    BY <1>2 DEF Got
  <1>4. CASE Ends(e)
    <2>1. Others(e)' = Others(e) /\ log' = log /\ mailbox'[e] = mailbox[e]
      BY <1>4 DEF Ends, Others
    <2>2. Bare("ended") \in Answers /\ Bare("ended").kind = "ended"
      BY MessageTypes DEF Bare, Msg
    <2>3. /\ \A m \in ToSet(down'[e]) : m.kind = "reflected" => m \in ToSet(down[e])
          /\ \A m \in ToSet(down[e]) : m \in ToSet(down'[e])
      <3>1. down[e] \in Seq(Answers)
        BY <1>1 DEF MessageType
      <3>2. ToSet(Append(down[e], Bare("ended"))) = ToSet(down[e]) \union {Bare("ended")}
        BY <2>2, <3>1, AppendFacts
      <3>. QED
        BY <1>4, <2>2, <3>2 DEF Ends
    <2>4. /\ nonces'[e] \subseteq Others(e) \intersect Got(e)'
          /\ applied'[e] \subseteq DOMAIN log'
          /\ \A j \in Others(e) \ Got(e)' : connected'[e] => Reflected(j) \in ToSet(down'[e])
      BY <1>1, <1>2, <1>3, <2>1, <2>3 DEF Entries
    <2>. QED
      BY <1>1, <1>2, <1>3, <2>1, <2>3, <2>4, EntriesFrame
  <1>5. CASE Reflects(d, e)
    <2>. DEFINE n == Len(log) + 1
                r == Reflected(n)
                t == Bare("ended")
    <2>1. PICK new \in [update : Updates, seen : SUBSET Nat] :
             Owner[new.update] = d /\ log' = Append(log, new)
      BY <1>5 DEF Reflects
    <2>2. /\ \A j \in DOMAIN log : j \in DOMAIN log' /\ log'[j] = log[j]
          /\ Others(e)' = Others(e) \union {n}
      BY <1>1, <2>1, OwnEntry
    <2>3. /\ n \in Nat /\ r \in Answers /\ r.of = n /\ t \in Answers /\ t.kind = "ended"
      <3>1. n \in Nat
        BY <1>1 DEF LogType
      <3>. QED
        BY <3>1, MessageTypes DEF Reflected, Bare, Msg
    <2>4. /\ mailbox'[e] = Append(mailbox[e], n)
          /\ down'[e] = IF connected[e] THEN Append(Append(down[e], r), t) ELSE down[e]
      BY <1>5 DEF Reflects
    <2>5. r = Reflected(n)
      OBVIOUS
    <2>. HIDE DEF n, r, t
    <2>6. ToSet(mailbox'[e]) = ToSet(mailbox[e]) \union {n}
      <3>1. mailbox[e] \in Seq(Nat)
        BY <1>1 DEF LogType
      <3>2. ToSet(Append(mailbox[e], n)) = ToSet(mailbox[e]) \union {n}
        BY <2>3, <3>1, AppendFacts
      <3>. QED
        BY <2>4, <3>2
    <2>7. /\ connected[e] => ToSet(down'[e]) = ToSet(down[e]) \union {r, t}
          /\ ~connected[e] => ToSet(down'[e]) = ToSet(down[e])
      <3>1. down[e] \in Seq(Answers)
        BY <1>1 DEF MessageType
      <3>2. /\ Append(down[e], r) \in Seq(Answers)
            /\ ToSet(Append(down[e], r)) = ToSet(down[e]) \union {r}
        BY <2>3, <3>1, AppendFacts
      <3>3. ToSet(Append(Append(down[e], r), t)) = ToSet(Append(down[e], r)) \union {t}
        <4>. DEFINE s == Append(down[e], r)
        <4>1. s \in Seq(Answers) /\ t \in Answers
          BY <2>3, <3>2
        <4>. HIDE DEF s
        <4>2. ToSet(Append(s, t)) = ToSet(s) \union {t}
          BY <4>1, AppendFacts
        <4>. QED
          BY <4>2 DEF s
      <3>. QED
        BY <2>4, <3>2, <3>3
    <2>8. /\ applied'[e] \subseteq DOMAIN log'
          /\ \A j \in downloads'[e] \union orphans'[e] \union missed'[e] :
                j \in Others(e)' /\ log'[j].update \in Slow
      <3>1. Others(e) \subseteq DOMAIN log
        BY DEF Others
      <3>. QED
        BY <1>1, <1>2, <2>2, <3>1 DEF Entries
    <2>9. /\ ToSet(mailbox'[e]) \subseteq Others(e)'
          /\ nonces'[e] \subseteq Others(e)' \intersect Got(e)'
          /\ \A a \in acking'[e] : a[1] \in Others(e)' \intersect Got(e)'
          /\ \A m \in ToSet(up'[e]) : m.kind = "ack" => m.of \in Others(e)' \intersect Got(e)'
      BY <1>1, <1>2, <1>3, <2>2, <2>6 DEF Entries
    <2>10. \A m \in ToSet(down'[e]) : m.kind = "reflected" => m.of \in Others(e)'
      BY <1>1, <2>2, <2>3, <2>7 DEF Entries
    <2>11. \A j \in Others(e)' \ Got(e)' :
              j \in ToSet(mailbox'[e]) /\ (connected'[e] => Reflected(j) \in ToSet(down'[e]))
      BY <1>1, <1>2, <1>3, <2>2, <2>5, <2>6, <2>7 DEF Entries
    <2>. QED
      BY <2>8, <2>9, <2>10, <2>11 DEF Entries
  <1>. QED
    BY <1>4, <1>5 DEF Elsewhere

-----------------------------------------------------------------------------
(* Everything reflected is read before the transaction opens *)

(* A message that is no entry changes nothing. *)
LEMMA ReadFrame ==
    ASSUME MessageType, NEW d \in Devices, ReadAll(d), Inside(d)' => Inside(d),
           \/ down'[d] = down[d]
           \/ down[d] # <<>> /\ down'[d] = Tail(down[d])
           \/ \E m \in Answers : m.kind # "reflected" /\ down'[d] = Append(down[d], m)
    PROVE  ReadAll(d)'
  <1>1. down[d] \in Seq(Answers)
    BY DEF MessageType
  <1>2. \A m \in Answers : m.kind # "reflected" =>
           /\ Follows(Append(down[d], m), {"ack"}, {"reflected"}) => Follows(down[d], {"ack"}, {"reflected"})
           /\ Has(Append(down[d], m), {"reflected"}) => Has(down[d], {"reflected"})
    <2>1. SUFFICES ASSUME NEW m \in Answers, m.kind # "reflected"
                   PROVE  /\ Follows(Append(down[d], m), {"ack"}, {"reflected"})
                                => Follows(down[d], {"ack"}, {"reflected"})
                          /\ Has(Append(down[d], m), {"reflected"}) => Has(down[d], {"reflected"})
      OBVIOUS
    <2>2. m.kind \notin {"reflected"}
      BY <2>1
    <2>3. Follows(Append(down[d], m), {"ack"}, {"reflected"}) => Follows(down[d], {"ack"}, {"reflected"})
      BY <1>1, <2>2, AppendFollows
    <2>4. Has(Append(down[d], m), {"reflected"}) => Has(down[d], {"reflected"})
      BY <1>1, <2>2, FollowsFacts
    <2>. QED
      BY <2>3, <2>4
  <1>3. down[d] # <<>> =>
           /\ Follows(Tail(down[d]), {"ack"}, {"reflected"}) => Follows(down[d], {"ack"}, {"reflected"})
           /\ Has(Tail(down[d]), {"reflected"}) => Has(down[d], {"reflected"})
    BY <1>1, TailFollows, FollowsFacts
  <1>4. /\ Follows(down'[d], {"ack"}, {"reflected"}) => Follows(down[d], {"ack"}, {"reflected"})
        /\ Has(down'[d], {"reflected"}) => Has(down[d], {"reflected"})
    BY <1>2, <1>3
  <1>. QED
    BY <1>4 DEF ReadAll

(* Without a connection, nothing is to be read. *)
LEMMA CloseRead ==
    ASSUME ContactSyncAssumption, IndInv, NEW d \in Devices, CloseConnection(d)
    PROVE  ReadAll(d)'
  <1>1. down'[d] = <<>>
    BY CloseFacts
  <1>2. ~Has(down'[d], {"reflected"})
    BY <1>1, NothingIn
  <1>3. ~Follows(down'[d], {"ack"}, {"reflected"})
    BY <1>2 DEF Follows, Has, ToSet
  <1>. QED
    BY <1>2, <1>3 DEF ReadAll

(* The device group lock comes after everything that was reflected. *)
LEMMA ReadStep ==
    ASSUME ContactSyncAssumption, IndInv, NEW d \in Devices, DeviceStep(d)
    PROVE  ReadAll(d)'
  <1>0. UpdateType /\ LinkType /\ MessageType /\ ContactType /\ LogType
    BY Parts
  <1>. ReadAll(d) /\ Dialog(d) /\ Backlog(d) /\ Runs(d)
    BY Parts
  <1>1. ASSUME NEW u \in Updates, Owner[u] = d, RequestLocal(u)
        PROVE  ReadAll(d)'
    BY <1>0, <1>1, ReadFrame DEF RequestLocal, Inside, taskVars, mediatorVars
  <1>2. ASSUME NEW u \in Updates, Owner[u] = d, StartIncoming(u)
        PROVE  ReadAll(d)'
    BY <1>0, <1>2, ReadFrame DEF StartIncoming, Inside, taskVars, mediatorVars
  <1>3. ASSUME NEW u \in Updates, Owner[u] = d, UpdateFromRemote(u)
        PROVE  ReadAll(d)'
    BY <1>0, <1>3, ReadFrame DEF UpdateFromRemote, Inside, taskVars, mediatorVars
  <1>4. ASSUME NEW u \in Updates, Owner[u] = d, HoldLocal(u)
        PROVE  ReadAll(d)'
    BY <1>0, <1>4, ReadFrame DEF HoldLocal, Inside, taskVars, mediatorVars
  <1>5. ASSUME NEW u \in Updates, Owner[u] = d, AbortLocal(u)
        PROVE  ReadAll(d)'
    BY <1>0, <1>5, ReadFrame DEF AbortLocal, Inside, taskVars, mediatorVars
  <1>6. ASSUME NEW u \in Updates, Owner[u] = d, HoldRemote(u)
        PROVE  ReadAll(d)'
    <2>1. down' = down /\ phase'[d] = "begin"
      BY <1>0, <1>6 DEF HoldRemote, Phase, LinkType
    <2>. QED
      BY <1>0, <2>1, ReadFrame DEF Inside
  <1>7. CASE StartTask(d)
    <2>1. down' = down /\ phase'[d] = "begin"
      BY <1>0, <1>7 DEF StartTask, Phase, LinkType
    <2>. QED
      BY <1>0, <2>1, ReadFrame DEF Inside
  <1>8. CASE ReadAck(d)
    <2>1. Reading(d) /\ Message(d).kind = "ack" /\ Consume(d)
      BY <1>8 DEF ReadAck, Bare, Msg
    <2>2. down[d] # <<>> /\ down'[d] = Tail(down[d]) /\ Head(down[d]).kind = "ack"
      BY <1>0, <2>1, AnswerFacts DEF MessageType
    <2>3. down[d] \in Seq(Answers) /\ ~Follows(down[d], {"ack"}, {"reflected"})
      BY <1>0 DEF MessageType, ReadAll
    <2>4. /\ ~Follows(Tail(down[d]), {"ack"}, {"reflected"})
          /\ ~Has(Tail(down[d]), {"reflected"})
      BY <2>2, <2>3, TailFollows
    <2>. QED
      BY <2>2, <2>4 DEF ReadAll
  <1>9. CASE OpenTransaction(d)
    BY <1>0, <1>9, OpenFacts, ReadFrame DEF Inside
  <1>10. CASE ReadRejected(d)
    <2>1. Reading(d) /\ Message(d).kind = "rejected" /\ Consume(d) /\ phase'[d] = "waiting"
      BY <1>0, <1>10 DEF ReadRejected, Phase, LinkType, Bare, Msg
    <2>2. down[d] # <<>> /\ down'[d] = Tail(down[d])
      BY <1>0, <2>1, AnswerFacts DEF MessageType
    <2>. QED
      BY <1>0, <2>1, <2>2, ReadFrame DEF Inside
  <1>11. CASE ReadEnded(d)
    <2>1. CASE CloseConnection(d)
      BY <2>1, CloseRead
    <2>2. CASE down' = [down EXCEPT ![d] = Tail(@)] /\ (Phase(d, "begin") \/ Phase(d, "idle"))
      <3>1. down[d] # <<>> /\ down'[d] = Tail(down[d]) /\ phase'[d] \in {"begin", "idle"}
        BY <1>0, <1>11, <2>2, EndedFacts DEF Phase, LinkType, MessageType
      <3>. QED
        BY <1>0, <3>1, ReadFrame DEF Inside
    <2>. QED
      BY <1>11, <2>1, <2>2, EndedFacts DEF Finish
  <1>12. CASE ReadReflectAck(d)
    <2>1. Reading(d) /\ Message(d).kind = "reflectAck" /\ Consume(d) /\ phase[d] = "execute"
      BY <1>12 DEF ReadReflectAck, Bare, Msg
    <2>2. down[d] # <<>> /\ down'[d] = Tail(down[d])
      BY <1>0, <2>1, AnswerFacts DEF MessageType
    <2>. QED
      BY <1>0, <2>1, <2>2, ReadFrame DEF Inside
  <1>13. CASE ReadCommitAck(d)
    <2>1. down[d] # <<>> /\ down'[d] = Tail(down[d]) /\ phase'[d] = "idle"
      BY <1>0, <1>13, CommitAckFacts DEF Finish, Phase, LinkType, MessageType
    <2>. QED
      BY <1>0, <2>1, ReadFrame DEF Inside
  <1>14. CASE ReadSkipAck(d)
    <2>1. CASE CloseConnection(d)
      BY <2>1, CloseRead
    <2>2. CASE down' = [down EXCEPT ![d] = Tail(@)] /\ (Phase(d, "begin") \/ Phase(d, "idle"))
      <3>1. down[d] # <<>> /\ down'[d] = Tail(down[d]) /\ phase'[d] \in {"begin", "idle"}
        BY <1>0, <1>14, <2>2, SkipAckFacts DEF Phase, LinkType, MessageType
      <3>. QED
        BY <1>0, <3>1, ReadFrame DEF Inside
    <2>. QED
      BY <1>14, <2>1, <2>2, SkipAckFacts DEF Finish
  <1>15. CASE ReadOther(d)
    <2>1. UNCHANGED <<phase, holder>>
      BY <1>15 DEF ReadOther, mediatorVars
    <2>2. down'[d] = down[d] \/ (down[d] # <<>> /\ down'[d] = Tail(down[d]))
      BY <1>0, <1>15, ConsumeFacts DEF ReadOther, MessageType
    <2>. QED
      BY <1>0, <2>1, <2>2, ReadFrame DEF Inside
  <1>16. CASE ReadReflected(d)
    <2>1. UNCHANGED <<phase, holder>>
      BY <1>16 DEF ReadReflected, mediatorVars
    <2>2. down'[d] = down[d] \/ (down[d] # <<>> /\ down'[d] = Tail(down[d]))
      BY <1>0, <1>16, ConsumeFacts DEF ReadReflected, MessageType
    <2>. QED
      BY <1>0, <2>1, <2>2, ReadFrame DEF Inside
  <1>17. CASE RunReflected(d)
    <2>1. UNCHANGED <<phase, holder>>
      BY <1>17 DEF RunReflected, mediatorVars
    <2>2. down'[d] = down[d] \/ (down[d] # <<>> /\ down'[d] = Tail(down[d]))
      BY <1>0, <1>17 DEF RunReflected, MessageType
    <2>. QED
      BY <1>0, <2>1, <2>2, ReadFrame DEF Inside
  <1>18. CASE Ignore(d)
    <2>1. UNCHANGED <<phase, holder>>
      BY <1>18 DEF Ignore, mediatorVars
    <2>2. backlog[d] = <<>> => down[d] # <<>>
      BY <1>0, <1>18, ConcatEmptySeq DEF Ignore, MessageType
    <2>3. down'[d] = down[d] \/ (down[d] # <<>> /\ down'[d] = Tail(down[d]))
      BY <1>0, <2>2, <1>18 DEF Ignore, MessageType
    <2>. QED
      BY <1>0, <2>1, <2>3, ReadFrame DEF Inside
  <1>19. ASSUME NEW entry \in downloads[d] \union orphans[d], FinishDownload(d, entry)
        PROVE  ReadAll(d)'
    BY <1>0, <1>19, ReadFrame DEF FinishDownload, Inside, taskVars, mediatorVars
  <1>20. ASSUME NEW a \in acking[d], Acknowledge(d, a[1], a[2])
        PROVE  ReadAll(d)'
    BY <1>0, <1>20, ReadFrame DEF Acknowledge, Inside, taskVars, mediatorVars
  <1>21. CASE Receive(d)
    <2>1. /\ UNCHANGED <<phase, seenAtStart>> /\ up[d] # <<>>
          /\ Head(up[d]) \in ToSet(up[d])
      BY <1>21, ReceiveFacts
    <2>2. CASE Head(up[d]).kind = "begin" /\ Begin(d)
      <3>1. phase[d] = "begin"
        BY <2>1, <2>2 DEF Dialog
      <3>2. \E m \in Answers : m.kind # "reflected" /\ down'[d] = Append(down[d], m)
        <4>1. \E m \in Answers : m.kind # "reflected" /\ Answer(d, m)
          BY <2>2, MessageTypes DEF Begin, Bare, Msg
        <4>. QED
          BY <1>0, <4>1 DEF Answer, MessageType
      <3>. QED
        BY <1>0, <2>1, <3>1, <3>2, ReadFrame DEF Inside
    <2>3. CASE Stage(d, Head(up[d]).of)
      <3>1. \E m \in Answers : m.kind # "reflected" /\ down'[d] = Append(down[d], m)
        <4>1. \E m \in Answers : m.kind # "reflected" /\ Answer(d, m)
          BY <2>3, MessageTypes DEF Stage, Bare, Msg
        <4>. QED
          BY <1>0, <4>1 DEF Answer, MessageType
      <3>. QED
        BY <1>0, <2>1, <2>3, <3>1, ReadFrame DEF Inside, Stage
    <2>4. CASE Head(up[d]).kind = "commit" /\ Commit(d)
      <3>1. phase[d] \in {"commit", "skip"} /\ holder' # d
        BY <2>1, <2>4, CommitFacts DEF Commit, ContactSyncAssumption
      <3>2. Len(log) + Len(staged) \in Nat
        BY <1>0 DEF LogType, LinkType
      <3>3. /\ down'[d] = Append(down[d], Msg("commitAck", Len(log) + Len(staged)))
            /\ Msg("commitAck", Len(log) + Len(staged)) \in Answers
            /\ Msg("commitAck", Len(log) + Len(staged)).kind # "reflected"
        <4>1. down'[d] = Append(down[d], Msg("commitAck", Len(log) + Len(staged)))
          BY <1>0, <2>4, CommitDown
        <4>. QED
          BY <3>2, <4>1, MessageTypes DEF Msg
      <3>. QED
        BY <1>0, <2>1, <3>1, <3>3, ReadFrame DEF Inside
    <2>5. CASE UNCHANGED <<holder, down>>
      BY <1>0, <2>1, <2>5, ReadFrame DEF Inside
    <2>. QED
      BY <1>21, <2>2, <2>3, <2>4, <2>5, ReceiveFacts
  <1>22. CASE LoseConnection(d)
    BY <1>22, CloseRead DEF LoseConnection
  <1>23. CASE Reconnect(d)
    <2>1. /\ phase'[d] = "idle"
          /\ down'[d] = [i \in DOMAIN mailbox[d] |-> Reflected(mailbox[d][i])]
      BY <1>0, <1>23, Parts DEF Reconnect, Offline, MessageType
    <2>2. \A m \in ToSet(down'[d]) : m.kind = "reflected"
      BY <2>1 DEF ToSet, Reflected, Msg
    <2>3. MessageType'
      BY StepMessages
    <2>4. ~Follows(down'[d], {"ack"}, {"reflected"})
      BY <2>2, <2>3, FollowsFacts DEF Has, MessageType
    <2>. QED
      BY <2>1, <2>4 DEF ReadAll, Inside
  <1>25. CASE EndUpload(d)
    <2>1. CASE CloseConnection(d)
      BY <2>1, CloseRead
    <2>2. CASE ~CloseConnection(d)
      BY <1>0, <1>25, <2>2, UploadFacts, ReadFrame DEF Inside
    <2>. QED
      BY <2>1, <2>2
  <1>. QED
    BY <1>1, <1>2, <1>3, <1>4, <1>5, <1>6, <1>7, <1>8, <1>9, <1>10, <1>11,
       <1>12, <1>13, <1>14, <1>15, <1>16, <1>17, <1>18, <1>19, <1>20, <1>21,
       <1>22, <1>23, <1>25
    DEF DeviceStep, UpdateStep, Transaction, Reflection, Blobs

(* Nobody else commits while this device is inside. *)
LEMMA ElsewhereRead ==
    ASSUME ContactSyncAssumption, IndInv, NEW d \in Devices, NEW e \in Devices \ {d}, Elsewhere(d, e)
    PROVE  ReadAll(e)'
  <1>1. MessageType /\ LogType /\ ReadAll(e) /\ Dialog(e)
    BY Parts
  <1>2. Inside(e)' => Inside(e)
    BY DEF Elsewhere, Same, Inside
  <1>3. CASE Ends(e)
    <2>1. Bare("ended") \in Answers /\ Bare("ended").kind # "reflected"
      BY MessageTypes DEF Bare, Msg
    <2>. QED
      BY <1>1, <1>2, <1>3, <2>1, ReadFrame DEF Ends
  <1>4. CASE Reflects(d, e)
    <2>. DEFINE r == Reflected(Len(log) + 1)
                t == Bare("ended")
    <2>1. holder # e /\ ~Inside(e)
      BY <1>1, <1>4 DEF Reflects, Dialog, Inside
    <2>2. ~Has(down[e], {"ack"})
      BY <1>1, <2>1 DEF Dialog, Has
    <2>3. down'[e] = down[e] \/ down'[e] = Append(Append(down[e], r), t)
      BY <1>4 DEF Reflects
    <2>4. r \in Answers /\ r.kind = "reflected" /\ t \in Answers /\ t.kind = "ended"
      BY ElsewhereMessages
    <2>. HIDE DEF r, t
    <2>5. down[e] \in Seq(Answers) /\ Append(down[e], r) \in Seq(Answers)
      BY <1>1, <2>4 DEF MessageType
    <2>6. ~Has(Append(down[e], r), {"ack"})
      BY <2>2, <2>4, <2>5, FollowsFacts
    <2>7. ~Has(Append(Append(down[e], r), t), {"ack"})
      <3>. DEFINE s == Append(down[e], r)
      <3>1. s \in Seq(Answers) /\ ~Has(s, {"ack"})
        BY <2>5, <2>6
      <3>. HIDE DEF s
      <3>2. ~Has(Append(s, t), {"ack"})
        BY <2>4, <3>1, FollowsFacts
      <3>. QED
        BY <3>2 DEF s
    <2>8. ~Has(down'[e], {"ack"})
      BY <2>2, <2>3, <2>7
    <2>9. ~Follows(down'[e], {"ack"}, {"reflected"})
      BY <2>8 DEF Follows, Has, ToSet
    <2>. QED
      BY <1>2, <2>1, <2>9 DEF ReadAll
  <1>. QED
    BY <1>3, <1>4 DEF Elsewhere

-----------------------------------------------------------------------------
(* What an update has seen *)

OwnNoted(d) == \A v \in Updates : Owner[v] = d => Noted(v)

(* Neither the contact nor what was noted changes. *)
LEMMA NotedFrame ==
    ASSUME IndInv, NEW d \in Devices, UNCHANGED <<stale, seenAtStart>>, applied'[d] = applied[d],
           \A v \in Updates : Owner[v] = d /\ status'[v] = "held" => status[v] = "held"
    PROVE  OwnNoted(d)'
  BY Parts DEF OwnNoted, Noted

(* With a new value the updates under way are stale. *)
LEMMA SetNoted ==
    ASSUME IndInv, NEW d \in Devices, NEW entry, Set(d, entry),
           \A v \in Updates : Owner[v] = d /\ status'[v] = "held" => status[v] = "held"
    PROVE  OwnNoted(d)'
  BY Parts DEF OwnNoted, Noted, Set, UpdateType

(* Nobody gets the lock by the end of another. *)
LEMMA FinishStatus ==
    ASSUME ContactSyncAssumption, IndInv, NEW d \in Devices,
           Finish(d, "done") \/ Finish(d, "failed")
    PROVE  \A v \in Updates : Owner[v] = d /\ status'[v] = "held" => status[v] = "held"
  BY Parts DEF Finish, UpdateType

(* Nor by the end of a connection. *)
LEMMA CloseStatus ==
    ASSUME ContactSyncAssumption, IndInv, NEW d \in Devices, CloseConnection(d)
    PROVE  \A v \in Updates : Owner[v] = d /\ status'[v] = "held" => status[v] = "held"
  BY CloseFacts

(* The version is noted when the lock is held. *)
LEMMA NoteNoted ==
    ASSUME IndInv, NEW d \in Devices, NEW u \in Updates, Owner[u] = d, NoteVersion(u),
           \A v \in Updates : status'[v] = IF v = u THEN "held" ELSE status[v],
           applied' = applied
    PROVE  OwnNoted(d)'
  BY Parts DEF OwnNoted, Noted, NoteVersion, UpdateType

(* An update that is not stale has seen what its contact has. *)
LEMMA NotedStep ==
    ASSUME ContactSyncAssumption, IndInv, NEW d \in Devices, DeviceStep(d)
    PROVE  OwnNoted(d)'
  <1>0. UpdateType /\ LinkType /\ MessageType /\ ContactType /\ LogType
    BY Parts
  <1>. Runs(d) /\ Dialog(d) /\ Covered(d) /\ \A v \in Updates : Noted(v)
    BY Parts
  <1>1. ASSUME NEW u \in Updates, Owner[u] = d, RequestLocal(u)
        PROVE  OwnNoted(d)'
    <2>1. \A v \in Updates : status'[v] = "held" => status[v] = "held"
      BY <1>0, <1>1 DEF RequestLocal, UpdateType
    <2>. QED
      BY <1>1, <2>1, NotedFrame DEF RequestLocal
  <1>2. ASSUME NEW u \in Updates, Owner[u] = d, StartIncoming(u)
        PROVE  OwnNoted(d)'
    BY <1>2, NotedFrame DEF StartIncoming, updateVars, contactVars
  <1>3. ASSUME NEW u \in Updates, Owner[u] = d, UpdateFromRemote(u)
        PROVE  OwnNoted(d)'
    <2>1. \A v \in Updates : status'[v] = "held" => status[v] = "held"
      BY <1>0, <1>3 DEF UpdateFromRemote, UpdateType
    <2>. QED
      BY <1>3, <2>1, NotedFrame DEF UpdateFromRemote
  <1>4. ASSUME NEW u \in Updates, Owner[u] = d, HoldLocal(u)
        PROVE  OwnNoted(d)'
    <2>1. \A v \in Updates : status'[v] = IF v = u THEN "held" ELSE status[v]
      BY <1>0, <1>4 DEF HoldLocal, UpdateType
    <2>. QED
      BY <1>4, <2>1, NoteNoted DEF HoldLocal, contactVars
  <1>5. ASSUME NEW u \in Updates, Owner[u] = d, AbortLocal(u)
        PROVE  OwnNoted(d)'
    <2>1. \A v \in Updates : status'[v] = "held" => status[v] = "held"
      BY <1>0, <1>5 DEF AbortLocal, UpdateType
    <2>. QED
      BY <1>5, <2>1, NotedFrame DEF AbortLocal
  <1>6. ASSUME NEW u \in Updates, Owner[u] = d, HoldRemote(u)
        PROVE  OwnNoted(d)'
    <2>1. \A v \in Updates : status'[v] = IF v = u THEN "held" ELSE status[v]
      BY <1>0, <1>6 DEF HoldRemote, UpdateType
    <2>. QED
      BY <1>6, <2>1, NoteNoted DEF HoldRemote, contactVars
  <1>7. CASE StartTask(d)
    BY <1>7, NotedFrame DEF StartTask, updateVars, contactVars
  <1>8. CASE ReadAck(d)
    BY <1>8, NotedFrame DEF ReadAck, updateVars, contactVars
  <1>9. CASE OpenTransaction(d)
    BY <1>9, OpenFacts, NotedFrame DEF updateVars, contactVars
  <1>10. CASE ReadRejected(d)
    BY <1>10, NotedFrame DEF ReadRejected, updateVars, contactVars
  <1>11. CASE ReadEnded(d)
    <2>1. \A v \in Updates : Owner[v] = d /\ status'[v] = "held" => status[v] = "held"
      BY <1>11, EndedFacts, FinishStatus, CloseStatus
    <2>. QED
      BY <1>11, <2>1, EndedFacts, NotedFrame
  <1>12. CASE ReadReflectAck(d)
    BY <1>12, NotedFrame DEF ReadReflectAck, updateVars, contactVars
  <1>13. CASE ReadCommitAck(d)
    <2>1. \A v \in Updates : Owner[v] = d /\ status'[v] = "held" => status[v] = "held"
      BY <1>13, CommitAckFacts, FinishStatus
    <2>. QED
      BY <1>13, <2>1, CommitAckFacts, SetNoted
  <1>14. CASE ReadSkipAck(d)
    <2>1. \A v \in Updates : Owner[v] = d /\ status'[v] = "held" => status[v] = "held"
      BY <1>14, SkipAckFacts, FinishStatus, CloseStatus
    <2>. QED
      BY <1>14, <2>1, SkipAckFacts, NotedFrame
  <1>15. CASE ReadOther(d)
    BY <1>15, NotedFrame DEF ReadOther, updateVars, contactVars
  <1>16. CASE ReadReflected(d)
    <2>1. Apply(d, Message(d).of) /\ UNCHANGED <<status, seenAtStart>>
      BY <1>16 DEF ReadReflected
    <2>2. CASE Set(d, Message(d).of)
      BY <2>1, <2>2, SetNoted
    <2>3. CASE UNCHANGED <<stale, applied>>
      BY <2>1, <2>3, NotedFrame
    <2>. QED
      BY <2>1, <2>2, <2>3 DEF Apply
  <1>17. CASE RunReflected(d)
    <2>1. Apply(d, Head(down[d]).of) /\ UNCHANGED <<status, seenAtStart>>
      BY <1>17 DEF RunReflected
    <2>2. CASE Set(d, Head(down[d]).of)
      BY <2>1, <2>2, SetNoted
    <2>3. CASE UNCHANGED <<stale, applied>>
      BY <2>1, <2>3, NotedFrame
    <2>. QED
      BY <2>1, <2>2, <2>3 DEF Apply
  <1>18. CASE Ignore(d)
    BY <1>18, NotedFrame DEF Ignore, updateVars, contactVars
  <1>19. ASSUME NEW entry \in downloads[d] \union orphans[d], FinishDownload(d, entry)
        PROVE  OwnNoted(d)'
    <2>1. UNCHANGED <<status, seenAtStart>>
      BY <1>19 DEF FinishDownload
    <2>2. CASE Applied(d, entry)
      BY <2>1, <2>2, SetNoted DEF Applied
    <2>3. CASE Missed(d, entry)
      BY <2>1, <2>3, NotedFrame DEF Missed
    <2>. QED
      BY <1>19, <2>2, <2>3 DEF FinishDownload
  <1>20. ASSUME NEW a \in acking[d], Acknowledge(d, a[1], a[2])
        PROVE  OwnNoted(d)'
    BY <1>20, NotedFrame DEF Acknowledge, updateVars, contactVars
  <1>21. CASE Receive(d)
    BY <1>21, ReceiveFacts, NotedFrame
  <1>22. CASE LoseConnection(d)
    BY <1>22, CloseStatus, NotedFrame DEF LoseConnection
  <1>23. CASE Reconnect(d)
    <2>1. \A v \in Updates : status'[v] = "held" => status[v] = "held"
      BY <1>23 DEF Reconnect
    <2>. QED
      BY <1>23, <2>1, NotedFrame DEF Reconnect
  <1>25. CASE EndUpload(d)
    <2>1. CASE CloseConnection(d)
      <3>1. UNCHANGED <<stale, seenAtStart, applied>>
        BY <1>25 DEF EndUpload
      <3>. QED
        BY <2>1, <3>1, CloseStatus, NotedFrame
    <2>2. CASE ~CloseConnection(d)
      BY <1>25, <2>2, UploadFacts, NotedFrame DEF updateVars, contactVars
    <2>. QED
      BY <2>1, <2>2
  <1>. QED
    BY <1>1, <1>2, <1>3, <1>4, <1>5, <1>6, <1>7, <1>8, <1>9, <1>10, <1>11,
       <1>12, <1>13, <1>14, <1>15, <1>16, <1>17, <1>18, <1>19, <1>20, <1>21,
       <1>22, <1>23, <1>25
    DEF DeviceStep, UpdateStep, Transaction, Reflection, Blobs

(* What the update in the transaction has seen stays the same. *)
LEMMA CoveredFrame ==
    ASSUME NEW d \in Devices, Covered(d), Others(d)' = Others(d),
           \A j \in Others(d) : log'[j] = log[j],
           phase'[d] \in {"upload", "execute", "commit"} /\ holder' = d =>
               /\ phase[d] \in {"upload", "execute", "commit"} /\ holder = d
               /\ running'[d] = running[d] /\ seenAtStart'[running[d]] = seenAtStart[running[d]]
    PROVE  Covered(d)'
  BY DEF Covered

(* Nothing is committed. *)
LEMMA SameLog ==
    ASSUME NEW d \in Devices, log' = log
    PROVE  Others(d)' = Others(d) /\ \A j \in Others(d) : log'[j] = log[j]
  BY DEF Others

(* No update is in its transaction. *)
LEMMA IdleCovered ==
    ASSUME NEW d \in Devices, phase'[d] \notin {"upload", "execute", "commit"}
    PROVE  Covered(d)'
  BY DEF Covered

(* An update whose precondition holds when the lock is ours has seen all.   *)
LEMMA OpenCovered ==
    ASSUME ContactSyncAssumption, IndInv, NEW d \in Devices, phase[d] = "open", Precondition(d)
    PROVE  \A j \in Others(d) : log[j].update \notin Slow => j \in seenAtStart[running[d]]
  <1>1. Entries(d) /\ ReadAll(d) /\ \A v \in Updates : Noted(v)
    BY Parts
  <1>2. /\ running[d] \in Updates /\ Owner[running[d]] = d /\ status[running[d]] = "held"
        /\ connected[d]
    BY TransactionFacts
  <1>3. seenAtStart[running[d]] = applied[d]
    BY <1>1, <1>2 DEF Noted, Precondition
  <1>4. \A j \in Nat : Reflected(j) \notin ToSet(down[d])
    BY <1>1 DEF ReadAll, Inside, Has, Reflected, Msg
  <1>5. Others(d) \subseteq Nat
    BY Parts DEF Others, LogType
  <1>6. \A j \in Others(d) : j \in Got(d)
    BY <1>1, <1>2, <1>4, <1>5 DEF Entries
  <1>. QED
    BY <1>1, <1>3, <1>6 DEF Entries, Got

(* The update in the transaction has seen whatever is in the log. *)
LEMMA CoveredStep ==
    ASSUME ContactSyncAssumption, IndInv, NEW d \in Devices, DeviceStep(d)
    PROVE  Covered(d)'
  <1>0. UpdateType /\ LinkType /\ MessageType /\ ContactType /\ LogType
    BY Parts
  <1>. Runs(d) /\ Dialog(d) /\ Covered(d) /\ \A v \in Updates : Noted(v)
    BY Parts
  <1>1. ASSUME NEW u \in Updates, Owner[u] = d, RequestLocal(u)
        PROVE  Covered(d)'
    BY <1>1, SameLog, CoveredFrame DEF RequestLocal, taskVars, mediatorVars, updateVars
  <1>2. ASSUME NEW u \in Updates, Owner[u] = d, StartIncoming(u)
        PROVE  Covered(d)'
    <2>1. phase'[d] \notin {"upload", "execute", "commit"}
      BY <1>2, OwnerType DEF StartIncoming, LinkType, Runs
    <2>. QED
      BY <2>1, IdleCovered
  <1>3. ASSUME NEW u \in Updates, Owner[u] = d, UpdateFromRemote(u)
        PROVE  Covered(d)'
    BY <1>3, SameLog, CoveredFrame DEF UpdateFromRemote, taskVars, mediatorVars, updateVars
  <1>4. ASSUME NEW u \in Updates, Owner[u] = d, HoldLocal(u)
        PROVE  Covered(d)'
    <2>1. /\ UNCHANGED <<phase, running, holder, log>> /\ status[u] = "queued"
          /\ \A v \in Updates : v # u => seenAtStart'[v] = seenAtStart[v]
      BY <1>0, <1>4 DEF HoldLocal, Served, NoteVersion, UpdateType, mediatorVars
    <2>2. phase[d] # "idle" => running[d] \in Updates /\ running[d] # u
      BY <2>1, TransactionFacts
    <2>. QED
      BY <2>1, <2>2, SameLog, CoveredFrame
  <1>5. ASSUME NEW u \in Updates, Owner[u] = d, AbortLocal(u)
        PROVE  Covered(d)'
    BY <1>5, SameLog, CoveredFrame DEF AbortLocal, taskVars, mediatorVars, updateVars
  <1>6. ASSUME NEW u \in Updates, Owner[u] = d, HoldRemote(u)
        PROVE  Covered(d)'
    <2>1. phase'[d] = "begin"
      BY <1>0, <1>6 DEF HoldRemote, Phase, LinkType
    <2>. QED
      BY <2>1, IdleCovered
  <1>7. CASE StartTask(d)
    <2>1. phase'[d] = "begin"
      BY <1>0, <1>7 DEF StartTask, Phase, LinkType
    <2>. QED
      BY <2>1, IdleCovered
  <1>8. CASE ReadAck(d)
    <2>1. phase'[d] = "open"
      BY <1>0, <1>8 DEF ReadAck, Phase, LinkType
    <2>. QED
      BY <2>1, IdleCovered
  <1>9. CASE OpenTransaction(d)
    <2>1. phase[d] = "open" /\ UNCHANGED <<running, holder, log, seenAtStart>>
      BY <1>9, OpenFacts DEF mediatorVars, updateVars
    <2>2. CASE Precondition(d)
      <3>1. \A j \in Others(d) : log[j].update \notin Slow => j \in seenAtStart[running[d]]
        BY <2>1, <2>2, OpenCovered
      <3>2. Others(d)' = Others(d)
        BY <2>1, SameLog
      <3>. QED
        BY <2>1, <3>1, <3>2 DEF Covered
    <2>3. CASE Phase(d, "skip")
      <3>1. phase'[d] = "skip"
        BY <1>0, <2>3 DEF Phase, LinkType
      <3>. QED
        BY <3>1, IdleCovered
    <2>. QED
      BY <1>9, <2>2, <2>3, OpenFacts
  <1>10. CASE ReadRejected(d)
    <2>1. phase'[d] = "waiting"
      BY <1>0, <1>10 DEF ReadRejected, Phase, LinkType
    <2>. QED
      BY <2>1, IdleCovered
  <1>11. CASE ReadEnded(d)
    <2>1. CASE CloseConnection(d)
      BY <2>1, CloseFacts, IdleCovered
    <2>2. CASE Phase(d, "begin") \/ Phase(d, "idle")
      <3>1. phase'[d] \in {"begin", "idle"}
        BY <1>0, <2>2 DEF Phase, LinkType
      <3>. QED
        BY <3>1, IdleCovered
    <2>. QED
      BY <1>11, <2>1, <2>2, EndedFacts DEF Finish
  <1>12. CASE ReadReflectAck(d)
    <2>1. UNCHANGED <<running, holder, log, seenAtStart>> /\ phase[d] = "execute"
      BY <1>12 DEF ReadReflectAck, mediatorVars, updateVars
    <2>. QED
      BY <2>1, SameLog, CoveredFrame
  <1>13. CASE ReadCommitAck(d)
    <2>1. phase'[d] = "idle"
      BY <1>0, <1>13, CommitAckFacts DEF Finish, Phase, LinkType
    <2>. QED
      BY <2>1, IdleCovered
  <1>14. CASE ReadSkipAck(d)
    <2>1. CASE CloseConnection(d)
      BY <2>1, CloseFacts, IdleCovered
    <2>2. CASE Phase(d, "begin") \/ Phase(d, "idle")
      <3>1. phase'[d] \in {"begin", "idle"}
        BY <1>0, <2>2 DEF Phase, LinkType
      <3>. QED
        BY <3>1, IdleCovered
    <2>. QED
      BY <1>14, <2>1, <2>2, SkipAckFacts DEF Finish
  <1>15. CASE ReadOther(d)
    BY <1>15, SameLog, CoveredFrame DEF ReadOther, taskVars, mediatorVars, updateVars
  <1>16. CASE ReadReflected(d)
    BY <1>16, SameLog, CoveredFrame DEF ReadReflected, taskVars, mediatorVars, updateVars
  <1>17. CASE RunReflected(d)
    <2>1. phase'[d] \notin {"upload", "execute", "commit"}
      BY <1>17, OwnerType DEF RunReflected, Idle, Runs
    <2>. QED
      BY <2>1, IdleCovered
  <1>18. CASE Ignore(d)
    BY <1>18, SameLog, CoveredFrame DEF Ignore, taskVars, mediatorVars, updateVars
  <1>19. ASSUME NEW entry \in downloads[d] \union orphans[d], FinishDownload(d, entry)
        PROVE  Covered(d)'
    BY <1>19, SameLog, CoveredFrame DEF FinishDownload, taskVars, mediatorVars, updateVars
  <1>20. ASSUME NEW a \in acking[d], Acknowledge(d, a[1], a[2])
        PROVE  Covered(d)'
    <2>1. /\ UNCHANGED <<seenAtStart, phase, holder, log>>
          /\ running[d] = "reflected" \/ running' = running
      BY <1>20 DEF Acknowledge, mediatorVars, updateVars
    <2>. QED
      BY <2>1, OwnerType, SameLog, CoveredFrame DEF Runs
  <1>21. CASE Receive(d)
    <2>1. UNCHANGED <<phase, running, seenAtStart>> /\ up[d] # <<>> /\ Head(up[d]) \in ToSet(up[d])
      BY <1>21, ReceiveFacts
    <2>2. CASE Head(up[d]).kind = "begin" /\ Begin(d)
      <3>1. phase'[d] = "begin"
        BY <2>1, <2>2 DEF Dialog
      <3>. QED
        BY <3>1, IdleCovered
    <2>3. CASE UNCHANGED <<holder, log>>
      BY <2>1, <2>3, SameLog, CoveredFrame
    <2>4. CASE Commit(d)
      BY <2>4 DEF Commit, Covered, ContactSyncAssumption
    <2>. QED
      BY <1>21, <2>2, <2>3, <2>4, ReceiveFacts DEF Stage
  <1>22. CASE LoseConnection(d)
    BY <1>22, CloseFacts, IdleCovered DEF LoseConnection
  <1>23. CASE Reconnect(d)
    <2>1. phase'[d] = "idle"
      BY <1>23, Parts DEF Reconnect, Offline
    <2>. QED
      BY <2>1, IdleCovered
  <1>25. CASE EndUpload(d)
    <2>1. CASE CloseConnection(d)
      BY <2>1, CloseFacts, IdleCovered
    <2>2. CASE ~CloseConnection(d)
      <3>1. /\ phase[d] = "upload" /\ UNCHANGED <<running, holder, log, seenAtStart>>
        BY <1>25, <2>2, UploadFacts DEF mediatorVars, updateVars
      <3>. QED
        BY <3>1, SameLog, CoveredFrame
    <2>. QED
      BY <2>1, <2>2
  <1>. QED
    BY <1>1, <1>2, <1>3, <1>4, <1>5, <1>6, <1>7, <1>8, <1>9, <1>10, <1>11,
       <1>12, <1>13, <1>14, <1>15, <1>16, <1>17, <1>18, <1>19, <1>20, <1>21,
       <1>22, <1>23, <1>25
    DEF DeviceStep, UpdateStep, Transaction, Reflection, Blobs

(* A step elsewhere changes nothing in what was noted and seen. *)
LEMMA ElsewhereSeen ==
    ASSUME ContactSyncAssumption, IndInv, NEW d \in Devices, NEW e \in Devices \ {d}, Elsewhere(d, e)
    PROVE  OwnNoted(e)' /\ Covered(e)'
  <1>1. Covered(e) /\ Runs(e) /\ \A v \in Updates : Noted(v)
    BY Parts
  <1>2. Same(e) /\ SameContact(e) /\ SameUpdates(e)
    BY DEF Elsewhere
  <1>3. OwnNoted(e)'
    BY <1>1, <1>2 DEF OwnNoted, Noted, SameContact, SameUpdates
  <1>4. CASE holder = e
    <2>1. log' = log /\ phase'[e] = phase[e] /\ running'[e] = running[e]
      BY <1>2, <1>4 DEF Elsewhere, Same
    <2>2. phase[e] # "idle" => seenAtStart'[running[e]] = seenAtStart[running[e]]
      BY <1>1, <1>2 DEF Runs, SameUpdates
    <2>. QED
      BY <1>1, <1>3, <1>4, <2>1, <2>2, SameLog, CoveredFrame
  <1>5. CASE holder # e
    BY <1>3, <1>5 DEF Elsewhere, Covered
  <1>. QED
    BY <1>4, <1>5

(* The log grows by an update of the device that commits, which has seen    *)
(* what is in it already.                                                   *)
LEMMA LogStep ==
    ASSUME ContactSyncAssumption, IndInv, NEW d \in Devices, DeviceStep(d)
    PROVE  \/ log' = log
           \/ \E new \in [update : Updates, seen : SUBSET Nat] :
                 /\ Owner[new.update] = d /\ log' = Append(log, new)
                 /\ \A j \in Others(d) : log[j].update \notin Slow => j \in new.seen
  <1>0. LogType /\ Covered(d) /\ Dialog(d)
    BY Parts
  <1>1. CASE Receive(d)
    <2>1. /\ UNCHANGED seenAtStart /\ up[d] # <<>> /\ Head(up[d]) \in ToSet(up[d])
      BY <1>1, ReceiveFacts
    <2>2. CASE Head(up[d]).kind = "commit" /\ Commit(d)
      <3>1. CASE phase[d] = "skip"
        BY <2>1, <2>2, <3>1, CommitFacts
      <3>2. CASE phase[d] = "commit"
        <4>. DEFINE new == [update |-> running[d], seen |-> seenAtStart[running[d]]]
        <4>1. /\ holder = d /\ Owner[running[d]] = d /\ log' = Append(log, new)
              /\ new \in [update : Updates, seen : SUBSET Nat]
          BY <2>1, <2>2, <3>2, CommitFacts
        <4>2. \A j \in Others(d) : log[j].update \notin Slow => j \in new.seen
          BY <1>0, <3>2, <4>1 DEF Covered
        <4>3. new.update = running[d]
          OBVIOUS
        <4>. HIDE DEF new
        <4>. QED
          BY <4>1, <4>2, <4>3
      <3>. QED
        BY <2>1, <2>2, <3>1, <3>2, CommitFacts
    <2>3. CASE log' = log
      BY <2>3
    <2>. QED
      BY <1>1, <2>2, <2>3, ReceiveFacts DEF Begin, Stage
  <1>2. CASE \E u \in Updates : UpdateStep(u)
    BY <1>2 DEF UpdateStep, RequestLocal, StartIncoming, UpdateFromRemote, HoldLocal,
       AbortLocal, HoldRemote, mediatorVars
  <1>3. CASE Transaction(d)
    <2>1. OpenTransaction(d) => log' = log
      BY OpenFacts DEF mediatorVars
    <2>2. ReadEnded(d) => log' = log
      BY EndedFacts
    <2>3. ReadSkipAck(d) => log' = log
      BY SkipAckFacts
    <2>4. ReadCommitAck(d) => log' = log
      BY CommitAckFacts
    <2>. QED
      BY <1>3, <2>1, <2>2, <2>3, <2>4 DEF Transaction, StartTask, ReadAck, ReadRejected,
         ReadReflectAck, ReadOther, ReadReflected, RunReflected, Ignore, mediatorVars
  <1>4. CASE Reflection(d)
    BY <1>4 DEF Reflection, Acknowledge, mediatorVars
  <1>5. CASE LoseConnection(d) \/ Reconnect(d)
    BY <1>5 DEF LoseConnection, Reconnect, mediatorVars
  <1>6. CASE Blobs(d)
    BY <1>6 DEF Blobs, EndUpload, FinishDownload, mediatorVars
  <1>. QED
    BY <1>1, <1>2, <1>3, <1>4, <1>5, <1>6 DEF DeviceStep

(* An entry is added by the transaction that has seen those of the others.  *)
LEMMA NothingOverwritten ==
    ASSUME ContactSyncAssumption, IndInv, NEW d \in Devices, DeviceStep(d)
    PROVE  NothingMissedSinceLock'
  <1>0. NothingMissedSinceLock /\ LogType
    BY Parts DEF IndInv
  <1>1. CASE log' = log
    BY <1>0, <1>1 DEF NothingMissedSinceLock
  <1>2. CASE \E new \in [update : Updates, seen : SUBSET Nat] :
                /\ Owner[new.update] = d /\ log' = Append(log, new)
                /\ \A j \in Others(d) : log[j].update \notin Slow => j \in new.seen
    <2>1. PICK new \in [update : Updates, seen : SUBSET Nat] :
                /\ Owner[new.update] = d /\ log' = Append(log, new)
                /\ \A j \in Others(d) : log[j].update \notin Slow => j \in new.seen
      BY <1>2
    <2>2. /\ \A j \in DOMAIN log : j \in DOMAIN log' /\ log'[j] = log[j]
          /\ Len(log) + 1 \in DOMAIN log' /\ log'[Len(log) + 1] = new
          /\ \A j \in DOMAIN log' : j \in DOMAIN log \/ j = Len(log) + 1
      BY <1>0, <2>1, OwnEntry
    <2>3. \A i \in DOMAIN log : ~(Len(log) + 1 < i)
      BY <1>0 DEF LogType
    <2>4. \A j \in DOMAIN log : Owner[log[j].update] # d /\ log[j].update \notin Slow => j \in new.seen
      BY <2>1 DEF Others
    <2>5. ~(Len(log) + 1 < Len(log) + 1)
      BY <1>0 DEF LogType
    <2>. QED
      BY <1>0, <2>1, <2>2, <2>3, <2>4, <2>5 DEF NothingMissedSinceLock
  <1>. QED
    BY <1>1, <1>2, LogStep

-----------------------------------------------------------------------------
(* The order of updates, as long as no pictures are downloaded *)

NoSlow == \A j \in DOMAIN log : log[j].update \notin Slow

(* The entries of the others are marked in the order of the log, and before *)
(* an own later one is applied; what is acknowledged is marked.             *)
Marked(d) ==
    /\ \A k \in nonces[d] : \A j \in Others(d) : j < k => j \in nonces[d]
    /\ \A i \in applied[d] \ Others(d) : \A j \in Others(d) : j < i => j \in nonces[d]
    /\ \A a \in acking[d] : a[2] \/ a[1] \in nonces[d]
    /\ \A m \in ToSet(up[d]) : m.kind = "ack" => m.of \in nonces[d]

(* The entries among messages come in the order of the log.                 *)
Ascending(s) ==
    \A p, q \in DOMAIN s :
        p < q /\ s[p].kind = "reflected" /\ s[q].kind = "reflected" => s[p].of < s[q].of

(* What is not marked will be sent again, and with a connection is on its   *)
(* way or about to be marked.                                               *)
Arriving(d) ==
    /\ Unmarked(d) \subseteq ToSet(mailbox[d])
    /\ connected[d] => \A j \in Unmarked(d) :
          Reflected(j) \in ToSet(down[d]) \/ <<j, TRUE>> \in acking[d]
    /\ \A a \in acking[d] : \A j \in Others(d) : Reflected(j) \in ToSet(down[d]) => a[1] < j
    /\ Ascending(down[d])
    /\ \A p, q \in DOMAIN mailbox[d] : p < q => mailbox[d][p] < mailbox[d][q]

(* A commit is asked for when everything is marked, and its entry is later  *)
(* than whatever was applied.                                               *)
Committed(d) ==
    phase[d] = "commit" =>
        /\ holder = d => Unmarked(d) = {}
        /\ ~Follows(down[d], {"reflected"}, {"commitAck"})
        /\ \A m \in ToSet(down[d]) : m.kind = "commitAck" =>
              /\ \A j \in Others(d) : j < m.of => j \in nonces[d]
              /\ \A i \in applied[d] : i < m.of

(* The contact has the value of the last entry it applied, unless it is set *)
(* to an older one again, and a later one is on its way.                    *)
Latest(d) ==
    \A i \in applied[d] :
        \/ i <= value[d]
        \/ \E k \in Unmarked(d) : i <= k /\ (connected[d] => Reflected(k) \in ToSet(down[d]))

Order(d) == Marked(d) /\ Arriving(d) /\ Committed(d) /\ Latest(d)

OrderInv == NoSlow => \A d \in Devices : Order(d)

(* The kinds of steps of a device, for its entries.  Most do nothing.       *)
SameEntriesOf(d) ==
    /\ applied'[d] = applied[d] /\ value'[d] = value[d]
    /\ nonces'[d] = nonces[d] /\ acking'[d] = acking[d] /\ connected'[d] = connected[d]
    /\ \A m \in ToSet(up'[d]) : m.kind = "ack" => m \in ToSet(up[d])

Calm(d) ==
    /\ SameEntriesOf(d) /\ log' = log /\ mailbox'[d] = mailbox[d]
    /\ \/ down'[d] = down[d]
       \/ down[d] # <<>> /\ Head(down[d]).kind # "reflected" /\ down'[d] = Tail(down[d])
       \/ \E m \in Answers : /\ m.kind # "reflected" /\ down'[d] = Append(down[d], m)
                             /\ m.kind = "commitAck" => phase'[d] # "commit"
    /\ phase'[d] = "commit" =>
          \/ phase[d] = "commit" /\ (holder' = d => holder = d)
          \/ /\ phase[d] = "execute" /\ acking[d] = {}
             /\ down[d] # <<>> /\ down'[d] = Tail(down[d])

Applying(d) ==
    /\ down[d] # <<>> /\ Head(down[d]).kind = "reflected" /\ down'[d] = Tail(down[d])
    /\ Apply(d, Head(down[d]).of)
    /\ UNCHANGED <<phase, holder, orphans, nonces, connected, log, mailbox, up>>

Removing(d) ==
    /\ SameEntriesOf(d) /\ log' = log /\ down'[d] = down[d] /\ phase'[d] = phase[d] /\ holder' = holder
    /\ \E m \in ToSet(up[d]) : m.kind = "ack" /\ mailbox'[d] = Without(mailbox[d], m.of)

Committing(d) ==
    /\ SameEntriesOf(d) /\ mailbox'[d] = mailbox[d]
    /\ phase[d] = "commit" /\ holder = d /\ phase'[d] = "commit" /\ holder' # d
    /\ \E new \in [update : Updates, seen : SUBSET Nat] :
          Owner[new.update] = d /\ log' = Append(log, new)
    /\ down'[d] = Append(down[d], Msg("commitAck", Len(log) + 1))

Closing(d) == CloseConnection(d) /\ UNCHANGED <<applied, value, nonces, log, mailbox>>

Kinds(d) ==
    \/ Calm(d) \/ Applying(d) \/ Removing(d) \/ Committing(d) \/ Closing(d)
    \/ ReadCommitAck(d) \/ Reconnect(d)
    \/ \E a \in acking[d] : Acknowledge(d, a[1], a[2])

(* A calm step, described by what it leaves. *)
LEMMA CalmFacts ==
    ASSUME NEW d \in Devices,
           UNCHANGED <<applied, value, nonces, acking, connected, log, mailbox>>,
           \A m \in ToSet(up'[d]) : m.kind = "ack" => m \in ToSet(up[d]),
           \/ down'[d] = down[d]
           \/ down[d] # <<>> /\ Head(down[d]).kind # "reflected" /\ down'[d] = Tail(down[d]),
           phase'[d] = "commit" => phase[d] = "commit" /\ (holder' = d => holder = d)
    PROVE  Kinds(d)
  BY DEF Kinds, Calm, SameEntriesOf

(* What a step of a device does to its entries. *)
LEMMA EveryKind ==
    ASSUME ContactSyncAssumption, IndInv, NEW d \in Devices, NoSlow,
           DeviceStep(d)
    PROVE  Kinds(d)
  <1>0. UpdateType /\ LinkType /\ MessageType /\ ContactType /\ LogType
    BY Parts
  <1>. Dialog(d) /\ Backlog(d) /\ Runs(d) /\ Entries(d)
    BY Parts
  <1>1. ASSUME NEW u \in Updates, Owner[u] = d, RequestLocal(u)
        PROVE  Kinds(d)
    BY <1>1, CalmFacts DEF RequestLocal, contactVars, reflectedVars, taskVars, linkVars, mediatorVars
  <1>2. ASSUME NEW u \in Updates, Owner[u] = d, StartIncoming(u)
        PROVE  Kinds(d)
    BY <1>2, CalmFacts DEF StartIncoming, contactVars, reflectedVars, taskVars, linkVars, mediatorVars
  <1>3. ASSUME NEW u \in Updates, Owner[u] = d, UpdateFromRemote(u)
        PROVE  Kinds(d)
    BY <1>3, CalmFacts DEF UpdateFromRemote, contactVars, reflectedVars, taskVars, linkVars, mediatorVars
  <1>4. ASSUME NEW u \in Updates, Owner[u] = d, HoldLocal(u)
        PROVE  Kinds(d)
    BY <1>4, CalmFacts DEF HoldLocal, contactVars, reflectedVars, taskVars, linkVars, mediatorVars
  <1>5. ASSUME NEW u \in Updates, Owner[u] = d, AbortLocal(u)
        PROVE  Kinds(d)
    BY <1>5, CalmFacts DEF AbortLocal, contactVars, reflectedVars, taskVars, linkVars, mediatorVars
  <1>6. ASSUME NEW u \in Updates, Owner[u] = d, HoldRemote(u)
        PROVE  Kinds(d)
    <2>1. /\ UNCHANGED <<applied, value, nonces, acking, connected, log, mailbox, down>>
          /\ Write(d, Bare("begin")) /\ phase'[d] = "begin"
      BY <1>0, <1>6 DEF HoldRemote, Phase, LinkType, contactVars, reflectedVars, linkVars, mediatorVars
    <2>2. \A n \in ToSet(up'[d]) : n.kind = "ack" => n \in ToSet(up[d])
      BY <1>0, <2>1, WriteOther
    <2>. QED
      BY <2>1, <2>2, CalmFacts
  <1>7. CASE StartTask(d)
    <2>1. /\ UNCHANGED <<applied, value, nonces, acking, connected, log, mailbox, down>>
          /\ Write(d, Bare("begin")) /\ phase'[d] = "begin"
      BY <1>0, <1>7 DEF StartTask, Phase, LinkType, contactVars, reflectedVars, linkVars, mediatorVars
    <2>2. \A n \in ToSet(up'[d]) : n.kind = "ack" => n \in ToSet(up[d])
      BY <1>0, <2>1, WriteOther
    <2>. QED
      BY <2>1, <2>2, CalmFacts
  <1>8. CASE ReadAck(d)
    <2>1. /\ UNCHANGED <<applied, value, nonces, acking, connected, log, mailbox, up>>
          /\ Reading(d) /\ Message(d) = Bare("ack") /\ Consume(d) /\ phase'[d] = "open"
      BY <1>0, <1>8 DEF ReadAck, Phase, LinkType, contactVars, reflectedVars, linkVars, mediatorVars
    <2>2. down[d] # <<>> /\ down'[d] = Tail(down[d]) /\ Head(down[d]).kind # "reflected"
      BY <1>0, <2>1, AnswerFacts DEF Bare, Msg, MessageType
    <2>. QED
      BY <2>1, <2>2, CalmFacts
  <1>9. CASE OpenTransaction(d)
    <2>1. /\ UNCHANGED <<applied, value, nonces, acking, connected, log, mailbox, down>>
          /\ phase[d] = "open"
      BY <1>9, OpenFacts DEF contactVars, reflectedVars, linkVars, mediatorVars
    <2>2. running[d] \in Updates
      BY <2>1, TransactionFacts
    <2>3. \A n \in ToSet(up'[d]) : n.kind = "ack" => n \in ToSet(up[d])
      BY <1>0, <2>2, <1>9, OpenFacts, WriteOther
    <2>4. phase'[d] # "commit"
      BY <1>0, <1>9, OpenFacts DEF Phase, LinkType
    <2>. QED
      BY <2>1, <2>3, <2>4, CalmFacts
  <1>10. CASE ReadRejected(d)
    <2>1. /\ UNCHANGED <<applied, value, nonces, acking, connected, log, mailbox, up>>
          /\ Reading(d) /\ Message(d) = Bare("rejected") /\ Consume(d) /\ phase'[d] = "waiting"
      BY <1>0, <1>10 DEF ReadRejected, Phase, LinkType, contactVars, reflectedVars, linkVars, mediatorVars
    <2>2. down[d] # <<>> /\ down'[d] = Tail(down[d]) /\ Head(down[d]).kind # "reflected"
      BY <1>0, <2>1, AnswerFacts DEF Bare, Msg, MessageType
    <2>. QED
      BY <2>1, <2>2, CalmFacts
  <1>11. CASE ReadEnded(d)
    <2>1. CASE CloseConnection(d)
      BY <1>11, <2>1, EndedFacts DEF Closing, Kinds
    <2>2. CASE /\ down' = [down EXCEPT ![d] = Tail(@)] /\ (Phase(d, "begin") \/ Phase(d, "idle"))
               /\ UNCHANGED <<acking, connected>>
               /\ (Write(d, Bare("begin")) \/ UNCHANGED up)
      <3>1. down[d] # <<>> /\ down'[d] = Tail(down[d]) /\ Head(down[d]).kind # "reflected"
        <4>1. down[d] # <<>> /\ Head(down[d]) = Bare("ended")
          BY <1>11, EndedFacts
        <4>. QED
          BY <1>0, <2>2, <4>1 DEF Bare, Msg, MessageType
      <3>2. \A n \in ToSet(up'[d]) : n.kind = "ack" => n \in ToSet(up[d])
        BY <1>0, <2>2, WriteOther
      <3>3. UNCHANGED <<nonces, log, mailbox, applied, value>> /\ phase'[d] # "commit"
        BY <1>0, <1>11, <2>2, EndedFacts DEF Phase, LinkType
      <3>. QED
        BY <2>2, <3>1, <3>2, <3>3, CalmFacts
    <2>. QED
      BY <1>11, <2>1, <2>2, EndedFacts DEF Finish
  <1>12. CASE ReadReflectAck(d)
    <2>1. /\ UNCHANGED <<applied, value, nonces, acking, connected, log, mailbox>> /\ acking[d] = {}
          /\ Reading(d) /\ Message(d) = Bare("reflectAck") /\ Consume(d) /\ phase[d] = "execute"
          /\ Write(d, Bare("commit"))
      BY <1>12 DEF ReadReflectAck, AcksWritten, contactVars, reflectedVars, linkVars, mediatorVars
    <2>2. down[d] # <<>> /\ down'[d] = Tail(down[d]) /\ Head(down[d]).kind # "reflected"
      BY <1>0, <2>1, AnswerFacts DEF Bare, Msg, MessageType
    <2>3. \A n \in ToSet(up'[d]) : n.kind = "ack" => n \in ToSet(up[d])
      BY <1>0, <2>1, WriteOther
    <2>. QED
      BY <2>1, <2>2, <2>3 DEF Kinds, Calm, SameEntriesOf
  <1>13. CASE ReadCommitAck(d)
    BY <1>13 DEF Kinds
  <1>14. CASE ReadSkipAck(d)
    <2>1. CASE CloseConnection(d)
      BY <1>14, <2>1, SkipAckFacts DEF Closing, Kinds
    <2>2. CASE /\ down' = [down EXCEPT ![d] = Tail(@)] /\ (Phase(d, "begin") \/ Phase(d, "idle"))
               /\ UNCHANGED <<acking, connected>>
               /\ (Write(d, Bare("begin")) \/ UNCHANGED up)
      <3>1. down[d] # <<>> /\ down'[d] = Tail(down[d]) /\ Head(down[d]).kind # "reflected"
        <4>1. down[d] # <<>> /\ Head(down[d]).kind = "commitAck"
          BY <1>14, SkipAckFacts
        <4>. QED
          BY <1>0, <2>2, <4>1 DEF Bare, Msg, MessageType
      <3>2. \A n \in ToSet(up'[d]) : n.kind = "ack" => n \in ToSet(up[d])
        BY <1>0, <2>2, WriteOther
      <3>3. UNCHANGED <<nonces, log, mailbox, applied, value>> /\ phase'[d] # "commit"
        BY <1>0, <1>14, <2>2, SkipAckFacts DEF Phase, LinkType
      <3>. QED
        BY <2>2, <3>1, <3>2, <3>3, CalmFacts
    <2>. QED
      BY <1>14, <2>1, <2>2, SkipAckFacts DEF Finish
  <1>15. CASE ReadOther(d)
    <2>1. /\ UNCHANGED <<applied, value, nonces, acking, connected, log, mailbox, up, phase, holder>>
          /\ Reading(d) /\ Message(d).kind = "ended" /\ Consume(d)
      BY <1>15 DEF ReadOther, contactVars, reflectedVars, linkVars, mediatorVars
    <2>2. \/ down'[d] = down[d]
          \/ down[d] # <<>> /\ down'[d] = Tail(down[d]) /\ Head(down[d]).kind # "reflected"
      BY <1>0, <2>1, ConsumeFacts DEF MessageType
    <2>. QED
      BY <2>1, <2>2, CalmFacts
  <1>16. CASE ReadReflected(d)
    <2>1. /\ Reading(d) /\ Message(d).kind = "reflected" /\ Consume(d) /\ Apply(d, Message(d).of)
          /\ UNCHANGED <<phase, holder, orphans, nonces, connected, log, mailbox, up>>
      BY <1>16 DEF ReadReflected, linkVars, mediatorVars
    <2>2. down[d] # <<>> /\ Message(d) = Head(down[d]) /\ down'[d] = Tail(down[d])
      BY <1>0, <2>1, AnswerFacts DEF MessageType
    <2>. QED
      BY <2>1, <2>2 DEF Applying, Kinds
  <1>17. CASE RunReflected(d)
    <2>1. Applying(d)
      BY <1>0, <1>17 DEF RunReflected, Applying, linkVars, mediatorVars, MessageType
    <2>. QED
      BY <2>1 DEF Kinds
  <1>18. CASE Ignore(d)
    <2>1. UNCHANGED <<applied, value, nonces, acking, connected, log, mailbox, up, phase, holder>>
      BY <1>18 DEF Ignore, contactVars, reflectedVars, linkVars, mediatorVars
    <2>2. backlog[d] = <<>> => down[d] # <<>>
      BY <1>0, <1>18, ConcatEmptySeq DEF Ignore, MessageType
    <2>3. \/ down'[d] = down[d]
          \/ down[d] # <<>> /\ down'[d] = Tail(down[d]) /\ Head(down[d]).kind # "reflected"
      BY <1>0, <2>2, <1>18 DEF Ignore, MessageType
    <2>. QED
      BY <2>1, <2>3, CalmFacts
  <1>19. ASSUME NEW entry \in downloads[d] \union orphans[d], FinishDownload(d, entry)
        PROVE  Kinds(d)
    <2>1. entry \in DOMAIN log /\ log[entry].update \in Slow
      BY DEF Entries, Others
    <2>. QED
      BY <2>1 DEF NoSlow
  <1>20. ASSUME NEW a \in acking[d], Acknowledge(d, a[1], a[2])
        PROVE  Kinds(d)
    BY <1>20 DEF Kinds
  <1>21. CASE Receive(d)
    <2>1. /\ UNCHANGED <<applied, value, acking, nonces, connected, seenAtStart, phase>>
          /\ up[d] # <<>> /\ Head(up[d]) \in ToSet(up[d]) /\ ToSet(up'[d]) \subseteq ToSet(up[d])
      BY <1>21, ReceiveFacts
    <2>2. SameEntriesOf(d)
      BY <2>1 DEF SameEntriesOf
    <2>3. CASE Head(up[d]).kind = "begin" /\ Begin(d)
      <3>1. \E m \in Answers : /\ m.kind \notin {"reflected", "commitAck"}
                               /\ down'[d] = Append(down[d], m)
        <4>1. PICK m \in Answers : m.kind \notin {"reflected", "commitAck"} /\ Answer(d, m)
          BY <2>3, MessageTypes DEF Begin, Bare, Msg
        <4>. QED
          BY <1>0, <4>1 DEF Answer, MessageType
      <3>2. phase[d] = "begin" /\ log' = log /\ mailbox' = mailbox
        BY <2>1, <2>3 DEF Dialog, Begin
      <3>. QED
        BY <2>1, <2>2, <3>1, <3>2 DEF Kinds, Calm
    <2>4. CASE Head(up[d]).kind = "reflect" /\ Stage(d, Head(up[d]).of)
      <3>1. \E m \in Answers : /\ m.kind \notin {"reflected", "commitAck"}
                               /\ down'[d] = Append(down[d], m)
        <4>1. PICK m \in Answers : m.kind \notin {"reflected", "commitAck"} /\ Answer(d, m)
          BY <2>4, MessageTypes DEF Stage, Bare, Msg
        <4>. QED
          BY <1>0, <4>1 DEF Answer, MessageType
      <3>2. phase[d] = "execute" /\ log' = log /\ mailbox' = mailbox
        BY <2>1, <2>4 DEF Dialog, Stage
      <3>. QED
        BY <2>1, <2>2, <3>1, <3>2 DEF Kinds, Calm
    <2>5. CASE Head(up[d]).kind = "commit" /\ Commit(d)
      <3>1. /\ holder = d /\ holder' # d
            /\ mailbox'[d] = mailbox[d]
            /\ down'[d] = Append(down[d], Msg("commitAck", Len(log) + Len(staged)))
        BY <1>0, <2>1, <2>5, CommitFacts, CommitDown DEF Commit, ContactSyncAssumption
      <3>2. CASE phase[d] = "skip"
        <4>1. log' = log /\ phase'[d] = "skip"
          BY <2>1, <2>5, <3>2, CommitFacts
        <4>2. Len(log) + Len(staged) \in Nat
          BY <1>0 DEF LogType, LinkType
        <4>3. /\ Msg("commitAck", Len(log) + Len(staged)) \in Answers
              /\ Msg("commitAck", Len(log) + Len(staged)).kind = "commitAck"
          BY <4>2, MessageTypes DEF Msg
        <4>. QED
          BY <2>2, <3>1, <4>1, <4>3 DEF Kinds, Calm
      <3>3. CASE phase[d] = "commit"
        <4>1. /\ staged = <<running[d]>>
              /\ \E new \in [update : Updates, seen : SUBSET Nat] :
                    Owner[new.update] = d /\ log' = Append(log, new)
          BY <2>1, <2>5, <3>3, CommitFacts
        <4>2. Len(log) + Len(staged) = Len(log) + 1
          BY <1>0, <4>1 DEF LogType
        <4>. QED
          BY <2>1, <2>2, <3>1, <3>3, <4>1, <4>2 DEF Kinds, Committing
      <3>. QED
        BY <2>1, <2>5, <3>2, <3>3, CommitFacts
    <2>6. CASE /\ Head(up[d]).kind = "ack"
               /\ mailbox' = [mailbox EXCEPT ![d] = Without(@, Head(up[d]).of)]
               /\ UNCHANGED <<holder, staged, log, down>>
      <3>1. mailbox'[d] = Without(mailbox[d], Head(up[d]).of)
        BY <1>0, <2>6 DEF LogType
      <3>. QED
        BY <2>1, <2>2, <2>6, <3>1 DEF Kinds, Removing
    <2>. QED
      BY <1>21, <2>3, <2>4, <2>5, <2>6, ReceiveFacts
  <1>22. CASE LoseConnection(d)
    BY <1>22 DEF LoseConnection, Closing, Kinds
  <1>23. CASE Reconnect(d)
    BY <1>23 DEF Kinds
  <1>25. CASE EndUpload(d)
    <2>1. CASE CloseConnection(d)
      <3>1. UNCHANGED <<applied, value, nonces, log, mailbox>>
        BY <1>25 DEF EndUpload
      <3>. QED
        BY <2>1, <3>1 DEF Closing, Kinds
    <2>2. CASE ~CloseConnection(d)
      <3>1. /\ UNCHANGED <<applied, value, nonces, acking, connected, log, mailbox, down>>
            /\ phase[d] = "upload" /\ Phase(d, "execute") /\ Write(d, Msg("reflect", running[d]))
        BY <1>25, <2>2, UploadFacts DEF contactVars, reflectedVars, linkVars, mediatorVars
      <3>2. running[d] \in Updates
        BY <3>1, TransactionFacts
      <3>3. \A n \in ToSet(up'[d]) : n.kind = "ack" => n \in ToSet(up[d])
        BY <1>0, <3>1, <3>2, WriteOther
      <3>4. phase'[d] # "commit"
        BY <1>0, <3>1 DEF Phase, LinkType
      <3>. QED
        BY <3>1, <3>3, <3>4, CalmFacts
    <2>. QED
      BY <2>1, <2>2
  <1>. QED
    BY <1>1, <1>2, <1>3, <1>4, <1>5, <1>6, <1>7, <1>8, <1>9, <1>10, <1>11,
       <1>12, <1>13, <1>14, <1>15, <1>16, <1>17, <1>18, <1>19, <1>20, <1>21,
       <1>22, <1>23, <1>25
    DEF DeviceStep, UpdateStep, Transaction, Reflection, Blobs

(* Numbers of entries. *)
LEMMA EntryNumbers ==
    ASSUME IndInv, NEW d \in Devices
    PROVE  /\ Others(d) \subseteq Nat /\ Others(d) \subseteq DOMAIN log /\ Len(log) \in Nat
           /\ \A j \in DOMAIN log : j \in Nat /\ j <= Len(log)
           /\ nonces[d] \subseteq Others(d) /\ applied[d] \subseteq DOMAIN log
           /\ value[d] \in Nat /\ \A a \in acking[d] : a[1] \in Others(d)
           /\ \A m \in ToSet(down[d]) : m.kind = "reflected" => m.of \in Others(d) /\ m = Reflected(m.of)
           /\ down[d] \in Seq(Answers) /\ mailbox[d] \in Seq(Nat) /\ up[d] \in Seq(Requests)
           /\ ToSet(mailbox[d]) \subseteq Others(d)
  <1>1. Entries(d) /\ LogType /\ MessageType /\ ContactType
    BY Parts
  <1>2. Others(d) \subseteq DOMAIN log /\ Len(log) \in Nat /\ \A j \in DOMAIN log : j \in Nat /\ j <= Len(log)
    BY <1>1 DEF Others, LogType
  <1>3. \A m \in ToSet(down[d]) : m.kind = "reflected" => m = Reflected(m.of)
    <2>1. ToSet(down[d]) \subseteq Answers
      BY <1>1, Elements DEF MessageType
    <2>2. \A m \in Answers : m.kind = "reflected" => m = Reflected(m.of)
      BY DEF Answers, Reflected, Msg
    <2>. QED
      BY <2>1, <2>2
  <1>. QED
    BY <1>1, <1>2, <1>3 DEF Entries, LogType, MessageType, ContactType

(* Entries in order stay so when the first leaves or a later one comes.     *)
LEMMA AscendingFacts ==
    ASSUME NEW s \in Seq(Answers), Ascending(s)
    PROVE  /\ s # <<>> => Ascending(Tail(s))
           /\ s # <<>> /\ Head(s).kind = "reflected" =>
                 \A m \in ToSet(Tail(s)) : m.kind = "reflected" => Head(s).of < m.of
           /\ \A e \in Answers :
                 (e.kind = "reflected" => \A m \in ToSet(s) : m.kind = "reflected" => m.of < e.of)
                 => Ascending(Append(s, e))
  <1>1. ASSUME s # <<>>
        PROVE  /\ Ascending(Tail(s))
               /\ Head(s).kind = "reflected" =>
                     \A m \in ToSet(Tail(s)) : m.kind = "reflected" => Head(s).of < m.of
    <2>1. /\ Len(s) \in Nat \ {0} /\ DOMAIN s = 1 .. Len(s) /\ Head(s) = s[1]
          /\ DOMAIN Tail(s) = 1 .. Len(s) - 1
      BY <1>1
    <2>2. \A i \in 1 .. Len(s) - 1 : Tail(s)[i] = s[i + 1]
      BY <1>1
    <2>3. \A i \in DOMAIN Tail(s) : i + 1 \in DOMAIN s /\ Tail(s)[i] = s[i + 1] /\ 1 < i + 1
      BY <2>1, <2>2
    <2>4. \A p, q \in DOMAIN Tail(s) : p < q => p + 1 < q + 1
      BY <2>1
    <2>5. 1 \in DOMAIN s
      BY <2>1
    <2>6. Ascending(Tail(s))
      BY <2>3, <2>4 DEF Ascending
    <2>7. Head(s).kind = "reflected" =>
             \A m \in ToSet(Tail(s)) : m.kind = "reflected" => Head(s).of < m.of
      BY <2>1, <2>3, <2>5 DEF Ascending, ToSet
    <2>. QED
      BY <2>6, <2>7
  <1>2. ASSUME NEW e \in Answers,
               e.kind = "reflected" => \A m \in ToSet(s) : m.kind = "reflected" => m.of < e.of
        PROVE  Ascending(Append(s, e))
    <2>1. /\ DOMAIN Append(s, e) = 1 .. Len(s) + 1 /\ DOMAIN s = 1 .. Len(s)
          /\ Append(s, e)[Len(s) + 1] = e /\ Len(s) \in Nat
      OBVIOUS
    <2>2. \A i \in 1 .. Len(s) : Append(s, e)[i] = s[i]
      OBVIOUS
    <2>3. SUFFICES ASSUME NEW p \in DOMAIN Append(s, e), NEW q \in DOMAIN Append(s, e), p < q,
                          Append(s, e)[p].kind = "reflected", Append(s, e)[q].kind = "reflected"
                   PROVE  Append(s, e)[p].of < Append(s, e)[q].of
      BY DEF Ascending
    <2>4. p \in DOMAIN s /\ Append(s, e)[p] = s[p]
      BY <2>1, <2>2, <2>3
    <2>5. CASE q = Len(s) + 1
      BY <1>2, <2>1, <2>3, <2>4, <2>5 DEF ToSet
    <2>6. CASE q # Len(s) + 1
      <3>1. q \in DOMAIN s /\ Append(s, e)[q] = s[q]
        BY <2>1, <2>2, <2>6
      <3>. QED
        BY <2>3, <2>4, <3>1 DEF Ascending
    <2>. QED
      BY <2>5, <2>6
  <1>. QED
    BY <1>1, <1>2

(* A mailbox stays in order. *)
LEMMA MailboxFacts ==
    ASSUME NEW s \in Seq(Nat), \A p, q \in DOMAIN s : p < q => s[p] < s[q]
    PROVE  /\ \A e : \A p, q \in DOMAIN Without(s, e) : p < q => Without(s, e)[p] < Without(s, e)[q]
           /\ \A n \in Nat : (\A j \in ToSet(s) : j < n) =>
                 \A p, q \in DOMAIN Append(s, n) : p < q => Append(s, n)[p] < Append(s, n)[q]
  <1>1. ASSUME NEW e
        PROVE  \A p, q \in DOMAIN Without(s, e) : p < q => Without(s, e)[p] < Without(s, e)[q]
    BY WithoutFacts
  <1>2. ASSUME NEW n \in Nat, \A j \in ToSet(s) : j < n
        PROVE  \A p, q \in DOMAIN Append(s, n) : p < q => Append(s, n)[p] < Append(s, n)[q]
    <2>1. /\ DOMAIN Append(s, n) = 1 .. Len(s) + 1 /\ DOMAIN s = 1 .. Len(s)
          /\ Append(s, n)[Len(s) + 1] = n /\ Len(s) \in Nat
      OBVIOUS
    <2>2. \A i \in 1 .. Len(s) : Append(s, n)[i] = s[i]
      OBVIOUS
    <2>3. \A i \in 1 .. Len(s) : s[i] < n
      BY <1>2, <2>1 DEF ToSet
    <2>. QED
      BY <2>1, <2>2, <2>3
  <1>. QED
    BY <1>1, <1>2

(* Nothing happens to the entries. *)
LEMMA CalmOrder ==
    ASSUME ContactSyncAssumption, IndInv, NoSlow, NEW d \in Devices, Order(d),
           Calm(d)
    PROVE  Order(d)'
  <1>0. UpdateType /\ LinkType /\ MessageType /\ ContactType /\ LogType
    BY Parts
  <1>. Marked(d) /\ Arriving(d) /\ Committed(d) /\ Latest(d)
    BY DEF Order
  <1>1. Others(d)' = Others(d) /\ Unmarked(d)' = Unmarked(d)
    BY SameLog DEF Calm, SameEntriesOf, Unmarked
  <1>2. down[d] \in Seq(Answers)
    BY <1>0 DEF MessageType
  <1>3. /\ \A m \in ToSet(down'[d]) : m.kind = "reflected" => m \in ToSet(down[d])
        /\ \A m \in ToSet(down[d]) : m.kind = "reflected" => m \in ToSet(down'[d])
    BY <1>0, TakeOther, TellOther DEF Calm
  <1>4. \A j : Reflected(j) \in ToSet(down'[d]) <=> Reflected(j) \in ToSet(down[d])
    BY <1>3 DEF Reflected, Msg
  <1>5. Ascending(down'[d])
    BY <1>2, AscendingFacts DEF Calm, Arriving
  <1>6. Marked(d)'
    BY <1>1 DEF Marked, Calm, SameEntriesOf
  <1>7. Arriving(d)'
    BY <1>1, <1>4, <1>5 DEF Arriving, Calm, SameEntriesOf
  <1>8. Latest(d)'
    BY <1>1, <1>4 DEF Latest, Calm, SameEntriesOf
  <1>9. ASSUME phase'[d] = "commit", phase[d] = "commit", holder' = d => holder = d
        PROVE  Committed(d)'
    <2>1. /\ ~Follows(down'[d], {"reflected"}, {"commitAck"})
          /\ \A m \in ToSet(down'[d]) : m.kind = "commitAck" => m \in ToSet(down[d])
      <3>1. ~Follows(down[d], {"reflected"}, {"commitAck"})
        BY <1>9 DEF Committed
      <3>2. CASE down'[d] = down[d]
        BY <3>1, <3>2
      <3>3. CASE down[d] # <<>> /\ down'[d] = Tail(down[d])
        <4>1. ~Follows(down'[d], {"reflected"}, {"commitAck"})
          BY <1>2, <3>1, <3>3, TailFollows
        <4>2. ToSet(down'[d]) \subseteq ToSet(down[d])
          BY <1>2, <3>3, TailFacts
        <4>. QED
          BY <4>1, <4>2
      <3>4. CASE \E m \in Answers : m.kind \notin {"reflected", "commitAck"} /\ down'[d] = Append(down[d], m)
        <4>1. PICK m \in Answers : m.kind \notin {"reflected", "commitAck"} /\ down'[d] = Append(down[d], m)
          BY <3>4
        <4>2. ~Follows(down'[d], {"reflected"}, {"commitAck"})
          BY <1>2, <3>1, <4>1, AppendFollows
        <4>3. ToSet(down'[d]) = ToSet(down[d]) \union {m}
          BY <1>2, <4>1, AppendFacts
        <4>. QED
          BY <4>1, <4>2, <4>3
      <3>. QED
        BY <1>9, <3>2, <3>3, <3>4 DEF Calm
    <2>. QED
      BY <1>1, <1>9, <2>1 DEF Committed, Calm, SameEntriesOf
  <1>10. ASSUME phase'[d] = "commit", phase[d] = "execute", acking[d] = {},
                down[d] # <<>>, down'[d] = Tail(down[d])
         PROVE  Committed(d)'
    <2>1. ReadAll(d) /\ Dialog(d) /\ Offline(d)
      BY Parts
    <2>2. connected[d] /\ ~Has(down[d], {"reflected"})
      BY <1>10, <2>1 DEF ReadAll, Inside, Offline
    <2>3. Unmarked(d) = {}
      BY <1>10, <2>2 DEF Arriving, Has, Reflected, Msg
    <2>4. ~Has(down[d], {"commitAck"})
      BY <1>10, <2>1 DEF Dialog, Has
    <2>5. ~Has(down'[d], {"commitAck"})
      <3>1. ToSet(down'[d]) \subseteq ToSet(down[d])
        BY <1>2, <1>10, TailFacts
      <3>. QED
        BY <2>4, <3>1 DEF Has
    <2>6. down'[d] \in Seq(Answers)
      BY <1>2, <1>10, TailFacts
    <2>7. ~Follows(down'[d], {"reflected"}, {"commitAck"})
      BY <2>5, <2>6, FollowsFacts
    <2>. QED
      BY <1>1, <2>3, <2>5, <2>7 DEF Committed, Has
  <1>11. Committed(d)'
    BY <1>9, <1>10 DEF Calm, Committed
  <1>. QED
    BY <1>6, <1>7, <1>8, <1>11 DEF Order
(* A reflected entry is applied.  Those that were applied and are later are *)
(* not marked: they have to come again.                                     *)
LEMMA ApplyOrder ==
    ASSUME ContactSyncAssumption, IndInv, NoSlow, NEW d \in Devices, Order(d),
           Applying(d)
    PROVE  Order(d)'
  <1>0. UpdateType /\ LinkType /\ MessageType /\ ContactType /\ LogType
    BY Parts
  <1>. Marked(d) /\ Arriving(d) /\ Committed(d) /\ Latest(d)
    BY DEF Order
  <1>1. /\ Entries(d) /\ Offline(d)
        /\ down[d] \in Seq(Answers) /\ down[d] # <<>> /\ connected[d]
    BY <1>0, Parts DEF MessageType, Applying, Offline
  <1>2. /\ ToSet(down[d]) = {Head(down[d])} \union ToSet(Tail(down[d]))
        /\ Head(down[d]) \in Answers
    BY <1>1, TailFacts
  <1>3. PICK n \in Nat : n = Head(down[d]).of /\ n \in Others(d) /\ Head(down[d]) = Reflected(n)
    BY <1>2, EntryNumbers DEF Applying
  <1>4. /\ Others(d)' = Others(d) /\ Unmarked(d)' = Unmarked(d)
        /\ UNCHANGED <<phase, holder, nonces, connected, mailbox, up>>
    BY SameLog DEF Applying, Unmarked
  <1>5. downloads[d] = {} /\ orphans[d] = {} /\ log[n].update \notin Slow
    BY <1>1, <1>3 DEF Entries, NoSlow, Others
  <1>6. PICK b \in Nat \X BOOLEAN :
           /\ b[1] = n /\ b[2] = (n \notin nonces[d]) /\ acking'[d] = acking[d] \union {b}
           /\ b[2] => b = <<n, TRUE>>
           /\ b[2] => applied'[d] = applied[d] \union {n} /\ value'[d] = n
           /\ ~b[2] => applied'[d] = applied[d] /\ value'[d] = value[d]
    <2>1. /\ <<n, TRUE>>[1] = n /\ <<n, TRUE>>[2] = TRUE /\ <<n, TRUE>> \in Nat \X BOOLEAN
          /\ <<n, FALSE>>[1] = n /\ <<n, FALSE>>[2] = FALSE /\ <<n, FALSE>> \in Nat \X BOOLEAN
      BY <1>3
    <2>2. CASE n \in nonces[d]
      <3>1. /\ acking'[d] = acking[d] \union {<<n, FALSE>>}
            /\ applied'[d] = applied[d] /\ value'[d] = value[d]
        BY <1>0, <1>3, <2>2 DEF Applying, Apply, ContactType
      <3>. QED
        BY <2>1, <2>2, <3>1
    <2>3. CASE n \notin nonces[d]
      <3>1. /\ acking'[d] = acking[d] \union {<<n, TRUE>>}
            /\ applied'[d] = applied[d] \union {n} /\ value'[d] = n
        BY <1>0, <1>3, <1>5, <2>3 DEF Applying, Apply, ContactType, Set
      <3>. QED
        BY <2>1, <2>3, <3>1
    <2>. QED
      BY <2>2, <2>3
  <1>7. /\ Ascending(Tail(down[d]))
        /\ \A k : Reflected(k) \in ToSet(Tail(down[d])) => n < k
        /\ \A k : Reflected(k) \in ToSet(down[d]) => k = n \/ Reflected(k) \in ToSet(Tail(down[d]))
        /\ \A k : Reflected(k) \in ToSet(Tail(down[d])) => Reflected(k) \in ToSet(down[d])
        /\ Reflected(n) \in ToSet(down[d]) /\ down'[d] = Tail(down[d])
    <2>1. \A k, l : Reflected(k) = Reflected(l) => k = l
      BY DEF Reflected, Msg
    <2>2. \A k : Reflected(k).kind = "reflected" /\ Reflected(k).of = k
      BY DEF Reflected, Msg
    <2>3. /\ Ascending(Tail(down[d])) /\ Head(down[d]).kind = "reflected"
          /\ \A m \in ToSet(Tail(down[d])) : m.kind = "reflected" => Head(down[d]).of < m.of
      BY <1>1, AscendingFacts DEF Arriving, Applying
    <2>. QED
      BY <1>2, <1>3, <2>1, <2>2, <2>3 DEF Applying
  <1>8. \A k \in Others(d) \union applied[d] : k \in Nat
    BY EntryNumbers
  <1>9. Marked(d)'
    BY <1>3, <1>4, <1>6 DEF Marked
  <1>10. Arriving(d)'
    <2>1. \A k \in Unmarked(d) : Reflected(k) \in ToSet(down'[d]) \/ <<k, TRUE>> \in acking'[d]
      BY <1>1, <1>3, <1>6, <1>7 DEF Arriving, Unmarked
    <2>2. \A a \in acking'[d] : \A k \in Others(d) : Reflected(k) \in ToSet(down'[d]) => a[1] < k
      BY <1>6, <1>7 DEF Arriving
    <2>. QED
      BY <1>4, <1>7, <2>1, <2>2 DEF Arriving
  <1>11. Committed(d)'
    <2>1. SUFFICES ASSUME phase[d] = "commit"
                   PROVE  /\ holder = d => Unmarked(d) = {}
                          /\ ~Follows(down'[d], {"reflected"}, {"commitAck"})
                          /\ \A m \in ToSet(down'[d]) : m.kind # "commitAck"
      BY <1>4 DEF Committed
    <2>2. ~Follows(down[d], {"reflected"}, {"commitAck"})
      BY <2>1 DEF Committed
    <2>3. ~Follows(Tail(down[d]), {"reflected"}, {"commitAck"})
      BY <1>1, <2>2, TailFollows
    <2>4. ~Has(Tail(down[d]), {"commitAck"})
      BY <1>1, <2>2, TailFollows DEF Applying
    <2>5. \A m \in ToSet(Tail(down[d])) : m.kind # "commitAck"
      BY <2>4 DEF Has
    <2>6. holder = d => Unmarked(d) = {}
      BY <2>1 DEF Committed
    <2>. QED
      BY <1>7, <2>3, <2>5, <2>6
  <1>12. Latest(d)'
    <2>1. CASE ~b[2]
      BY <1>1, <1>4, <1>6, <1>7, <2>1 DEF Latest, Unmarked
    <2>2. CASE b[2]
      <3>1. SUFFICES ASSUME NEW i \in applied[d], n < i
                     PROVE  i \in Unmarked(d) /\ Reflected(i) \in ToSet(Tail(down[d]))
        <4>1. applied'[d] = applied[d] \union {n} /\ value'[d] = n
          BY <1>6, <2>2
        <4>2. \A k \in applied'[d] : k \in Nat /\ (k <= n \/ (k \in applied[d] /\ n < k))
          <5>1. SUFFICES ASSUME NEW k \in applied'[d]
                         PROVE  k \in Nat /\ (k <= n \/ (k \in applied[d] /\ n < k))
            OBVIOUS
          <5>2. k \in Nat /\ (k = n \/ k \in applied[d])
            BY <1>3, <1>8, <4>1
          <5>3. k <= n \/ n < k
            BY <1>3, <5>2
          <5>4. n <= n
            BY <1>3
          <5>. QED
            BY <5>2, <5>3, <5>4
        <4>3. \A k \in applied'[d] : n < k => k \in Unmarked(d)' /\ Reflected(k) \in ToSet(down'[d])
          BY <1>4, <1>7, <3>1, <4>2
        <4>. QED
          BY <4>1, <4>2, <4>3 DEF Latest
      <3>2. i \in Nat /\ n < i
        BY <1>8, <3>1
      <3>3. i \in Unmarked(d)
        BY <1>3, <1>6, <2>2, <3>2 DEF Marked, Unmarked
      <3>4. <<i, TRUE>> \notin acking[d]
        <4>1. \A t : t = <<i, TRUE>> => t[1] = i
          OBVIOUS
        <4>2. \A a \in acking[d] : a[1] < n
          BY <1>3, <1>7 DEF Arriving
        <4>3. n \in Nat /\ ~(i < n)
          BY <1>3, <3>2
        <4>. QED
          BY <4>1, <4>2, <4>3
      <3>5. Reflected(i) \in ToSet(down[d])
        BY <1>1, <3>3, <3>4 DEF Arriving
      <3>6. i # n
        BY <1>3, <3>2
      <3>. QED
        BY <1>7, <3>3, <3>5, <3>6
    <2>. QED
      BY <1>6, <2>1, <2>2
  <1>. QED
    BY <1>9, <1>10, <1>11, <1>12 DEF Order
(* What is acknowledged is marked, and so the mailbox keeps what is not.    *)
LEMMA RemoveOrder ==
    ASSUME ContactSyncAssumption, IndInv, NoSlow, NEW d \in Devices, Order(d),
           Removing(d)
    PROVE  Order(d)'
  <1>0. UpdateType /\ LinkType /\ MessageType /\ ContactType /\ LogType
    BY Parts
  <1>. Marked(d) /\ Arriving(d) /\ Committed(d) /\ Latest(d)
    BY DEF Order
  <1>1. /\ Others(d)' = Others(d) /\ Unmarked(d)' = Unmarked(d) /\ mailbox[d] \in Seq(Nat)
        /\ UNCHANGED holder /\ down'[d] = down[d] /\ phase'[d] = phase[d]
    BY <1>0, SameLog DEF Removing, SameEntriesOf, Unmarked, LogType
  <1>2. PICK m \in ToSet(up[d]) : m.kind = "ack" /\ mailbox'[d] = Without(mailbox[d], m.of)
    BY DEF Removing
  <1>3. m.of \notin Unmarked(d)
    BY <1>2 DEF Marked, Unmarked
  <1>4. Unmarked(d) \subseteq ToSet(mailbox'[d])
    <2>1. ToSet(mailbox[d]) \ {m.of} \subseteq ToSet(mailbox'[d])
      BY <1>1, <1>2, WithoutFacts
    <2>. QED
      BY <1>3, <2>1 DEF Arriving
  <1>5. \A p, q \in DOMAIN mailbox'[d] : p < q => mailbox'[d][p] < mailbox'[d][q]
    BY <1>1, <1>2, MailboxFacts DEF Arriving
  <1>6. Marked(d)'
    BY <1>1 DEF Marked, Removing, SameEntriesOf
  <1>7. Arriving(d)'
    BY <1>1, <1>4, <1>5 DEF Arriving, Removing, SameEntriesOf
  <1>8. Committed(d)' /\ Latest(d)'
    BY <1>1 DEF Committed, Latest, Removing, SameEntriesOf
  <1>. QED
    BY <1>6, <1>7, <1>8 DEF Order
(* A commit: everything is marked, and nothing was reflected meanwhile.      *)
LEMMA CommitOrder ==
    ASSUME ContactSyncAssumption, IndInv, NoSlow, NEW d \in Devices, Order(d),
           Committing(d)
    PROVE  Order(d)'
  <1>0. UpdateType /\ LinkType /\ MessageType /\ ContactType /\ LogType
    BY Parts
  <1>. Marked(d) /\ Arriving(d) /\ Committed(d) /\ Latest(d)
    BY DEF Order
  <1>1. PICK new \in [update : Updates, seen : SUBSET Nat] :
           Owner[new.update] = d /\ log' = Append(log, new)
    BY DEF Committing
  <1>2. Others(d)' = Others(d) /\ Unmarked(d)' = Unmarked(d)
    BY <1>0, <1>1, OwnEntry DEF Unmarked, Committing, SameEntriesOf
  <1>3. /\ down[d] \in Seq(Answers) /\ Len(log) + 1 \in Nat
        /\ Msg("commitAck", Len(log) + 1) \in Answers
        /\ Msg("commitAck", Len(log) + 1).kind = "commitAck"
        /\ Msg("commitAck", Len(log) + 1).of = Len(log) + 1
    BY <1>0 DEF MessageType, LogType, Answers, Msg
  <1>. DEFINE m == Msg("commitAck", Len(log) + 1)
  <1>4. down'[d] = Append(down[d], m) /\ m \in Answers /\ m.kind = "commitAck" /\ m.of = Len(log) + 1
    BY <1>3 DEF Committing
  <1>. HIDE DEF m
  <1>5. ToSet(down'[d]) = ToSet(down[d]) \union {m}
    BY <1>3, <1>4, AppendFacts
  <1>6. \A j : Reflected(j) \in ToSet(down'[d]) <=> Reflected(j) \in ToSet(down[d])
    BY <1>4, <1>5 DEF Reflected, Msg
  <1>7. Ascending(down'[d])
    BY <1>3, <1>4, AscendingFacts DEF Arriving
  <1>8. Unmarked(d) = {} /\ ~Has(down[d], {"reflected"}) /\ ~Has(down[d], {"commitAck"})
    <2>1. Dialog(d) /\ ReadAll(d) /\ phase[d] = "commit" /\ holder = d
      BY Parts DEF Committing
    <2>. QED
      BY <2>1 DEF Committed, ReadAll, Inside, Dialog, Has
  <1>9. Marked(d)'
    BY <1>2 DEF Marked, Committing, SameEntriesOf
  <1>10. Arriving(d)'
    <2>1. Unmarked(d)' \subseteq ToSet(mailbox'[d])
      BY <1>2 DEF Arriving, Committing, SameEntriesOf
    <2>2. connected'[d] => \A j \in Unmarked(d)' :
            Reflected(j) \in ToSet(down'[d]) \/ <<j, TRUE>> \in acking'[d]
      BY <1>2, <1>6 DEF Arriving, Committing, SameEntriesOf
    <2>3. \A b \in acking'[d] : \A j \in Others(d)' : Reflected(j) \in ToSet(down'[d]) => b[1] < j
      BY <1>2, <1>6 DEF Arriving, Committing, SameEntriesOf
    <2>4. Ascending(down'[d])
      BY <1>7
    <2>5. \A p, q \in DOMAIN mailbox'[d] : p < q => mailbox'[d][p] < mailbox'[d][q]
      BY DEF Arriving, Committing, SameEntriesOf
    <2>. QED
      BY <2>1, <2>2, <2>3, <2>4, <2>5 DEF Arriving
  <1>11. Latest(d)'
    BY <1>2, <1>6 DEF Latest, Committing, SameEntriesOf
  <1>12. Committed(d)'
    <2>1. ~Follows(down'[d], {"reflected"}, {"commitAck"})
      <3>1. ~Follows(down[d], {"reflected"}, {"commitAck"})
        BY <1>3, <1>8, FollowsFacts
      <3>. QED
        BY <1>3, <1>4, <1>8, <3>1, AppendFollows
    <2>2. \A n \in ToSet(down'[d]) : n.kind = "commitAck" => n.of = Len(log) + 1
      BY <1>4, <1>5, <1>8 DEF Has
    <2>3. \A j \in Others(d) : j \in nonces[d]
      BY <1>8 DEF Unmarked
    <2>4. \A i \in applied[d] : i < Len(log) + 1
      BY EntryNumbers
    <2>. QED
      BY <1>2, <2>1, <2>2, <2>3, <2>4 DEF Committed, Committing, SameEntriesOf
  <1>. QED
    BY <1>9, <1>10, <1>11, <1>12 DEF Order
(* The connection is closed: nothing is on its way any more.                *)
LEMMA CloseOrder ==
    ASSUME ContactSyncAssumption, IndInv, NoSlow, NEW d \in Devices, Order(d),
           Closing(d)
    PROVE  Order(d)'
  <1>0. UpdateType /\ LinkType /\ MessageType /\ ContactType /\ LogType
    BY Parts
  <1>. Marked(d) /\ Arriving(d) /\ Committed(d) /\ Latest(d)
    BY DEF Order
  <1>1. /\ phase'[d] = "idle" /\ up'[d] = <<>> /\ down'[d] = <<>> /\ acking'[d] = {}
        /\ connected'[d] = FALSE /\ nonces'[d] = nonces[d] /\ applied'[d] = applied[d]
        /\ value'[d] = value[d] /\ mailbox'[d] = mailbox[d] /\ log' = log
    <2>1. phase'[d] = "idle" /\ up'[d] = <<>> /\ down'[d] = <<>>
      BY CloseFacts DEF Closing
    <2>2. acking'[d] = {} /\ connected'[d] = FALSE
      BY <1>0 DEF Closing, CloseConnection, ContactType, LinkType
    <2>. QED
      BY <2>1, <2>2 DEF Closing
  <1>2. Others(d)' = Others(d) /\ Unmarked(d)' = Unmarked(d)
    BY <1>1, SameLog DEF Unmarked
  <1>3. ToSet(<<>>) = {} /\ Ascending(<<>>)
    BY EmptySeq, Elements DEF Ascending
  <1>4. Marked(d)'
    BY <1>1, <1>2, <1>3 DEF Marked
  <1>5. Arriving(d)'
    BY <1>1, <1>2, <1>3 DEF Arriving
  <1>6. Committed(d)' /\ Latest(d)'
    BY <1>1, <1>2 DEF Committed, Latest
  <1>. QED
    BY <1>4, <1>5, <1>6 DEF Order
(* The commit is acknowledged: the own entry is the last one.               *)
LEMMA CommitAckOrder ==
    ASSUME ContactSyncAssumption, IndInv, NoSlow, NEW d \in Devices, Order(d),
           ReadCommitAck(d)
    PROVE  Order(d)'
  <1>0. UpdateType /\ LinkType /\ MessageType /\ ContactType /\ LogType
    BY Parts
  <1>. Marked(d) /\ Arriving(d) /\ Committed(d) /\ Latest(d)
    BY DEF Order
  <1>. DEFINE m == Head(down[d])
  <1>1. /\ phase[d] = "commit" /\ down[d] # <<>> /\ m.kind = "commitAck"
        /\ down'[d] = Tail(down[d]) /\ phase'[d] = "idle"
        /\ UNCHANGED <<acking, nonces, connected, log, mailbox, up>>
        /\ applied'[d] = applied[d] \union {m.of} /\ value'[d] = m.of
    BY <1>0, CommitAckFacts DEF Finish, Phase, Set, ContactType, LinkType, MessageType
  <1>2. /\ Others(d)' = Others(d) /\ Unmarked(d)' = Unmarked(d)
        /\ down[d] \in Seq(Answers) /\ Dialog(d)
    BY <1>0, <1>1, SameLog, Parts DEF Unmarked, MessageType
  <1>3. m \in ToSet(down[d])
    BY <1>1, <1>2, TailFacts
  <1>. HIDE DEF m
  <1>4. /\ m.of \in Nat /\ m.of \notin Others(d)
        /\ \A j \in Others(d) : j < m.of => j \in nonces[d]
        /\ \A i \in applied[d] : i < m.of /\ i \in Nat
    <2>1. m.of \in DOMAIN log /\ Owner[log[m.of].update] = d
      BY <1>1, <1>2, <1>3 DEF Dialog
    <2>2. m.of \in Nat /\ \A i \in applied[d] : i \in Nat
      BY <2>1, EntryNumbers
    <2>. QED
      BY <1>1, <1>3, <2>1, <2>2 DEF Committed, Others
  <1>5. \A j : Reflected(j) \in ToSet(down'[d]) <=> Reflected(j) \in ToSet(down[d])
    <2>1. \A j : Reflected(j).kind = "reflected"
      BY DEF Reflected, Msg
    <2>. QED
      BY <1>0, <1>1, <2>1, TakeOther DEF m
  <1>6. Ascending(down'[d])
    BY <1>1, <1>2, AscendingFacts DEF Arriving
  <1>7. Marked(d)'
    BY <1>1, <1>2, <1>4 DEF Marked
  <1>8. Arriving(d)'
    <2>1. Unmarked(d)' \subseteq ToSet(mailbox'[d])
      BY <1>1, <1>2 DEF Arriving
    <2>2. connected'[d] => \A j \in Unmarked(d)' :
            Reflected(j) \in ToSet(down'[d]) \/ <<j, TRUE>> \in acking'[d]
      BY <1>1, <1>2, <1>5 DEF Arriving
    <2>3. \A b \in acking'[d] : \A j \in Others(d)' : Reflected(j) \in ToSet(down'[d]) => b[1] < j
      BY <1>1, <1>2, <1>5 DEF Arriving
    <2>4. Ascending(down'[d])
      BY <1>6
    <2>5. \A p, q \in DOMAIN mailbox'[d] : p < q => mailbox'[d][p] < mailbox'[d][q]
      BY <1>1 DEF Arriving
    <2>. QED
      BY <2>1, <2>2, <2>3, <2>4, <2>5 DEF Arriving
  <1>9. \A i \in applied'[d] : i <= m.of
    BY <1>1, <1>4
  <1>10. Committed(d)' /\ Latest(d)'
    BY <1>1, <1>9 DEF Committed, Latest
  <1>. QED
    BY <1>7, <1>8, <1>10 DEF Order
(* A new connection: the mailbox is sent, in its order.                     *)
LEMMA ReconnectOrder ==
    ASSUME ContactSyncAssumption, IndInv, NoSlow, NEW d \in Devices, Order(d),
           Reconnect(d)
    PROVE  Order(d)'
  <1>0. UpdateType /\ LinkType /\ MessageType /\ ContactType /\ LogType
    BY Parts
  <1>. Marked(d) /\ Arriving(d) /\ Committed(d) /\ Latest(d)
    BY DEF Order
  <1>1. /\ ~connected[d] /\ Offline(d)
        /\ UNCHANGED <<applied, value, nonces, acking, log, mailbox, up, phase, holder>>
        /\ down'[d] = [i \in DOMAIN mailbox[d] |-> Reflected(mailbox[d][i])]
    BY <1>0, Parts DEF Reconnect, contactVars, reflectedVars, mediatorVars, MessageType
  <1>2. /\ Others(d)' = Others(d) /\ Unmarked(d)' = Unmarked(d)
        /\ acking[d] = {} /\ phase[d] = "idle"
    BY <1>1, SameLog DEF Unmarked, Offline
  <1>3. DOMAIN down'[d] = DOMAIN mailbox[d]
        /\ \A i \in DOMAIN mailbox[d] : down'[d][i] = Reflected(mailbox[d][i])
    BY <1>1
  <1>4. \A j \in ToSet(mailbox[d]) : Reflected(j) \in ToSet(down'[d])
    BY <1>3 DEF ToSet
  <1>5. Ascending(down'[d])
    <2>1. \A j : Reflected(j).of = j
      BY DEF Reflected, Msg
    <2>2. \A p, q \in DOMAIN mailbox[d] : p < q => mailbox[d][p] < mailbox[d][q]
      BY DEF Arriving
    <2>3. \A p \in DOMAIN down'[d] : p \in DOMAIN mailbox[d] /\ down'[d][p].of = mailbox[d][p]
      BY <1>3, <2>1
    <2>. QED
      BY <2>2, <2>3 DEF Ascending
  <1>6. Marked(d)'
    BY <1>1, <1>2 DEF Marked
  <1>7. Arriving(d)'
    BY <1>1, <1>2, <1>4, <1>5 DEF Arriving
  <1>8. Committed(d)'
    BY <1>1, <1>2 DEF Committed
  <1>9. Latest(d)'
    BY <1>1, <1>2, <1>4 DEF Latest, Arriving
  <1>. QED
    BY <1>6, <1>7, <1>8, <1>9 DEF Order
(* An acknowledgement, in the order of arrival: what was reflected before is *)
(* marked already.                                                          *)
LEMMA AcknowledgeOrder ==
    ASSUME ContactSyncAssumption, IndInv, NoSlow, NEW d \in Devices, Order(d),
           NEW a \in acking[d], Acknowledge(d, a[1], a[2])
    PROVE  Order(d)'
  <1>0. UpdateType /\ LinkType /\ MessageType /\ ContactType /\ LogType
    BY Parts
  <1>. Marked(d) /\ Arriving(d) /\ Committed(d) /\ Latest(d)
    BY DEF Order
  <1>1. /\ UNCHANGED <<applied, value, connected, log, mailbox, down, phase, holder>>
        /\ Write(d, Msg("ack", a[1]))
        /\ acking' = [acking EXCEPT ![d] = @ \ {<<a[1], a[2]>>}]
        /\ nonces' = [nonces EXCEPT ![d] = IF a[2] THEN @ \union {a[1]} ELSE @]
        /\ \A b \in acking[d] : b[1] < a[1] => log[b[1]].update \in Slow
    BY DEF Acknowledge, mediatorVars, linkVars
  <1>2. /\ connected[d] /\ a[1] \in Nat /\ a[1] \in Others(d) /\ a[2] \in BOOLEAN
        /\ \A b \in acking[d] : b[1] \in DOMAIN log
    <2>1. Offline(d)
      BY Parts
    <2>2. a \in Nat \X BOOLEAN
      BY <1>0 DEF ContactType
    <2>. QED
      BY <1>0, <2>1, <2>2, EntryNumbers DEF Offline, LinkType
  <1>3. acking'[d] = acking[d] \ {<<a[1], a[2]>>}
        /\ nonces'[d] = IF a[2] THEN nonces[d] \union {a[1]} ELSE nonces[d]
    BY <1>0, <1>1 DEF ContactType
  <1>4. \A b \in acking[d] : ~(b[1] < a[1])
    BY <1>1, <1>2 DEF NoSlow
  <1>5. Others(d)' = Others(d) /\ \A k \in Unmarked(d)' : k \in Unmarked(d) /\ ~(a[2] /\ k = a[1])
    BY <1>1, <1>3, SameLog DEF Unmarked
  <1>6. \A j \in Others(d) : j < a[1] => j \in nonces[d]
    <2>1. SUFFICES ASSUME NEW j \in Others(d), j < a[1], j \notin nonces[d]
                   PROVE  FALSE
      OBVIOUS
    <2>2. j \in Nat /\ ~(a[1] < j)
      BY <1>2, <2>1, EntryNumbers
    <2>3. Reflected(j) \notin ToSet(down[d])
      BY <2>2 DEF Arriving
    <2>4. <<j, TRUE>> \in acking[d]
      BY <1>2, <2>1, <2>3 DEF Arriving, Unmarked
    <2>5. \A t : t = <<j, TRUE>> => t[1] = j
      OBVIOUS
    <2>. QED
      BY <1>4, <2>1, <2>4, <2>5
  <1>7. \A m \in ToSet(up'[d]) : m.kind = "ack" => m \in ToSet(up[d]) \/ m.of = a[1]
    <2>1. up[d] \in Seq(Requests) /\ Msg("ack", a[1]) \in Requests /\ Msg("ack", a[1]).of = a[1]
      BY <1>0, <1>2 DEF MessageType, Requests, Msg
    <2>2. up'[d] = Append(up[d], Msg("ack", a[1]))
      BY <1>0, <1>1 DEF Write, MessageType
    <2>3. ToSet(up'[d]) = ToSet(up[d]) \union {Msg("ack", a[1])}
      BY <2>1, <2>2, AppendFacts
    <2>. QED
      BY <2>1, <2>3
  <1>8. a[1] \in nonces'[d] /\ nonces[d] \subseteq nonces'[d]
    BY <1>2, <1>3 DEF Marked
  <1>9. Marked(d)'
    <2>1. \A k \in nonces'[d] : \A j \in Others(d) : j < k => j \in nonces'[d]
      BY <1>3, <1>6, <1>8 DEF Marked
    <2>2. \A i \in applied'[d] \ Others(d) : \A j \in Others(d) : j < i => j \in nonces'[d]
      BY <1>1, <1>8 DEF Marked
    <2>3. \A b \in acking'[d] : b[2] \/ b[1] \in nonces'[d]
      BY <1>3, <1>8 DEF Marked
    <2>4. \A m \in ToSet(up'[d]) : m.kind = "ack" => m.of \in nonces'[d]
      BY <1>7, <1>8 DEF Marked
    <2>. QED
      BY <1>5, <2>1, <2>2, <2>3, <2>4 DEF Marked
  <1>10. Arriving(d)'
    <2>1. \A k \in Unmarked(d)' : Reflected(k) \in ToSet(down[d]) \/ <<k, TRUE>> \in acking'[d]
      <3>1. SUFFICES ASSUME NEW k \in Unmarked(d)', <<k, TRUE>> \in acking[d]
                     PROVE  <<k, TRUE>> # <<a[1], a[2]>>
        BY <1>2, <1>3, <1>5 DEF Arriving
      <3>2. k # a[1] \/ ~a[2]
        BY <1>5
      <3>. QED
        BY <1>2, <3>2
    <2>2. Unmarked(d)' \subseteq Unmarked(d)
      BY <1>5
    <2>3. Unmarked(d)' \subseteq ToSet(mailbox'[d])
      BY <1>1, <2>2 DEF Arriving
    <2>4. connected'[d] => \A j \in Unmarked(d)' :
            Reflected(j) \in ToSet(down'[d]) \/ <<j, TRUE>> \in acking'[d]
      BY <1>1, <2>1
    <2>5. \A b \in acking'[d] : \A j \in Others(d)' : Reflected(j) \in ToSet(down'[d]) => b[1] < j
      BY <1>1, <1>3, <1>5 DEF Arriving
    <2>6. Ascending(down'[d])
      BY <1>1 DEF Arriving
    <2>7. \A p, q \in DOMAIN mailbox'[d] : p < q => mailbox'[d][p] < mailbox'[d][q]
      BY <1>1 DEF Arriving
    <2>. QED
      BY <2>3, <2>4, <2>5, <2>6, <2>7 DEF Arriving
  <1>11. Committed(d)'
    <2>1. Unmarked(d) = {} => Unmarked(d)' = {}
      BY <1>5
    <2>. QED
      BY <1>1, <1>5, <1>8, <2>1 DEF Committed
  <1>12. Latest(d)'
    <2>1. \A k \in Unmarked(d) : Reflected(k) \in ToSet(down[d]) => k \in Unmarked(d)'
      <3>1. SUFFICES ASSUME NEW k \in Unmarked(d), Reflected(k) \in ToSet(down[d])
                     PROVE  k \in Unmarked(d)'
        OBVIOUS
      <3>2. k \in Others(d) /\ k \notin nonces[d]
        BY DEF Unmarked
      <3>3. a[1] < k /\ k \in Nat
        BY <3>1, <3>2, EntryNumbers DEF Arriving
      <3>4. k # a[1]
        BY <1>2, <3>3
      <3>. QED
        BY <1>3, <1>5, <3>2, <3>4 DEF Unmarked
    <2>. QED
      BY <1>1, <1>2, <2>1 DEF Latest
  <1>. QED
    BY <1>9, <1>10, <1>11, <1>12 DEF Order
(* The step of another device: an entry of it, later than all others.       *)
LEMMA ElsewhereOrder ==
    ASSUME ContactSyncAssumption, IndInv, NoSlow, NEW d \in Devices, NEW e \in Devices \ {d},
           Order(e), Elsewhere(d, e)
    PROVE  Order(e)'
  <1>0. LogType /\ MessageType
    BY Parts
  <1>. Marked(e) /\ Arriving(e) /\ Committed(e) /\ Latest(e)
    BY DEF Order
  <1>1. /\ SameEntriesOf(e) /\ phase'[e] = phase[e] /\ up'[e] = up[e]
        /\ (holder' = e <=> holder = e)
    BY DEF Elsewhere, Same, SameContact, SameEntriesOf
  <1>2. CASE Ends(e)
    <2>1. Bare("ended") \in Answers /\ Bare("ended").kind = "ended"
      BY MessageTypes DEF Bare, Msg
    <2>2. Calm(e)
      BY <1>1, <1>2, <2>1 DEF Ends, Calm
    <2>. QED
      BY <2>2, CalmOrder
  <1>3. CASE Reflects(d, e)
    <2>1. PICK n \in Nat : n = Len(log) + 1
      BY <1>0 DEF LogType
    <2>2. /\ Others(e)' = Others(e) \union {n} /\ mailbox'[e] = Append(mailbox[e], n)
          /\ holder' # e /\ n \notin Others(e)
      <3>1. PICK new \in [update : Updates, seen : SUBSET Nat] :
               Owner[new.update] = d /\ log' = Append(log, new)
        BY <1>3 DEF Reflects
      <3>2. Others(e)' = Others(e) \union {n} /\ n \notin DOMAIN log
        BY <1>0, <2>1, <3>1, OwnEntry
      <3>. QED
        BY <1>1, <1>3, <2>1, <3>2 DEF Reflects, Others
    <2>3. /\ \A j \in Others(e) \union nonces[e] \union applied[e] : j \in Nat /\ j < n
          /\ \A a \in acking[e] : a[1] \in Nat /\ a[1] < n
          /\ \A j \in ToSet(mailbox[e]) : j < n
          /\ \A m \in ToSet(down[e]) : m.kind = "reflected" => m.of < n
          /\ \A m \in ToSet(down[e]) : m.kind = "commitAck" /\ phase[e] = "commit" => ~(n < m.of)
          /\ nonces[e] \subseteq Others(e)
      <3>1. \A j \in DOMAIN log : j \in Nat /\ j < n
        BY <2>1, EntryNumbers
      <3>2. \A m \in ToSet(down[e]) : m.kind = "commitAck" /\ phase[e] = "commit" => m.of \in DOMAIN log
        BY Parts DEF Dialog
      <3>3. \A m \in ToSet(down[e]) : m.kind = "commitAck" /\ phase[e] = "commit" => ~(n < m.of)
        BY <3>1, <3>2
      <3>. QED
        BY <3>1, <3>3, EntryNumbers
    <2>4. /\ down[e] \in Seq(Answers) /\ mailbox[e] \in Seq(Nat)
          /\ Reflected(n) \in Answers /\ Reflected(n).kind = "reflected" /\ Reflected(n).of = n
          /\ Bare("ended") \in Answers /\ Bare("ended").kind = "ended"
      BY <1>0, MessageTypes DEF MessageType, LogType, Reflected, Bare, Msg, Answers
    <2>5. /\ ToSet(mailbox'[e]) = ToSet(mailbox[e]) \union {n}
          /\ \A p, q \in DOMAIN mailbox'[e] : p < q => mailbox'[e][p] < mailbox'[e][q]
      <3>1. ToSet(Append(mailbox[e], n)) = ToSet(mailbox[e]) \union {n}
        BY <2>4, AppendFacts
      <3>2. \A p, q \in DOMAIN Append(mailbox[e], n) :
               p < q => Append(mailbox[e], n)[p] < Append(mailbox[e], n)[q]
        BY <2>3, <2>4, MailboxFacts DEF Arriving
      <3>. QED
        BY <2>2, <3>1, <3>2
    <2>6. /\ Ascending(down'[e])
          /\ ~connected[e] => down'[e] = down[e]
          /\ connected[e] => Reflected(n) \in ToSet(down'[e])
          /\ \A m \in ToSet(down[e]) : m \in ToSet(down'[e])
          /\ \A m \in ToSet(down'[e]) :
                m.kind \in {"reflected", "commitAck"} => m \in ToSet(down[e]) \/ m = Reflected(n)
          /\ Follows(down'[e], {"reflected"}, {"commitAck"})
             => Follows(down[e], {"reflected"}, {"commitAck"})
      <3>1. CASE ~connected[e]
        BY <1>3, <3>1 DEF Reflects, Arriving
      <3>2. CASE connected[e]
        <4>1. PICK s \in Seq(Answers) : s = Append(down[e], Reflected(n))
          <5>1. Append(down[e], Reflected(n)) \in Seq(Answers)
            BY <2>4, AppendFacts
          <5>. QED
            BY <5>1
        <4>2. down'[e] = Append(s, Bare("ended"))
          BY <1>3, <2>1, <3>2, <4>1 DEF Reflects
        <4>3. /\ ToSet(s) = ToSet(down[e]) \union {Reflected(n)}
              /\ ToSet(down'[e]) = ToSet(s) \union {Bare("ended")}
          <5>1. ToSet(Append(down[e], Reflected(n))) = ToSet(down[e]) \union {Reflected(n)}
            BY <2>4, AppendFacts
          <5>2. ToSet(Append(s, Bare("ended"))) = ToSet(s) \union {Bare("ended")}
            BY <2>4, AppendFacts
          <5>. QED
            BY <4>1, <4>2, <5>1, <5>2
        <4>4. Ascending(s)
          BY <2>3, <2>4, <4>1, AscendingFacts DEF Arriving
        <4>5. Ascending(down'[e])
          BY <2>4, <4>1, <4>2, <4>4, AscendingFacts
        <4>6. Follows(s, {"reflected"}, {"commitAck"}) => Follows(down[e], {"reflected"}, {"commitAck"})
          BY <2>4, <4>1, AppendFollows
        <4>7. Follows(down'[e], {"reflected"}, {"commitAck"}) => Follows(s, {"reflected"}, {"commitAck"})
          <5>1. ~Follows(Append(s, Bare("ended")), {"reflected"}, {"commitAck"})
                \/ Follows(s, {"reflected"}, {"commitAck"})
            BY <2>4, AppendFollows
          <5>. QED
            BY <4>2, <5>1
        <4>. QED
          BY <2>4, <3>2, <4>3, <4>5, <4>6, <4>7
      <3>. QED
        BY <3>1, <3>2
    <2>7. Unmarked(e)' = Unmarked(e) \union {n}
      BY <1>1, <2>2, <2>3 DEF Unmarked, SameEntriesOf
    <2>8. Marked(e)'
      <3>1. \A k \in nonces[e] : ~(n < k)
        BY <2>3
      <3>2. \A i \in applied[e] : ~(n < i)
        BY <2>3
      <3>3. \A i \in applied'[e] \ Others(e)' : i \in applied[e] \ Others(e)
        BY <1>1, <2>2 DEF SameEntriesOf
      <3>. QED
        BY <1>1, <2>2, <3>1, <3>2, <3>3 DEF Marked, SameEntriesOf
    <2>9. Arriving(e)'
      <3>1. Unmarked(e)' \subseteq ToSet(mailbox'[e])
        BY <2>5, <2>7 DEF Arriving
      <3>2. connected'[e] => \A j \in Unmarked(e)' :
               Reflected(j) \in ToSet(down'[e]) \/ <<j, TRUE>> \in acking'[e]
        BY <1>1, <2>6, <2>7 DEF Arriving, SameEntriesOf
      <3>3. \A a \in acking'[e] : \A j \in Others(e)' : Reflected(j) \in ToSet(down'[e]) => a[1] < j
        <4>1. SUFFICES ASSUME NEW a \in acking[e], NEW j \in Others(e),
                              Reflected(j) \in ToSet(down'[e])
                       PROVE  a[1] < j
          BY <1>1, <2>2, <2>3 DEF SameEntriesOf
        <4>2. Reflected(j).kind = "reflected" /\ Reflected(j).of = j
          BY DEF Reflected, Msg
        <4>3. Reflected(j) \in ToSet(down[e])
          BY <2>2, <2>4, <2>6, <4>1, <4>2
        <4>. QED
          BY <4>3 DEF Arriving
      <3>. QED
        BY <2>5, <2>6, <3>1, <3>2, <3>3 DEF Arriving
    <2>10. Committed(e)'
      <3>1. SUFFICES ASSUME phase[e] = "commit"
                     PROVE  /\ ~Follows(down'[e], {"reflected"}, {"commitAck"})
                            /\ \A m \in ToSet(down'[e]) : m.kind = "commitAck" =>
                                  /\ \A j \in Others(e)' : j < m.of => j \in nonces[e]
                                  /\ \A i \in applied[e] : i < m.of
        BY <1>1, <2>2 DEF Committed, SameEntriesOf
      <3>2. ~Follows(down'[e], {"reflected"}, {"commitAck"})
        BY <2>6, <3>1 DEF Committed
      <3>3. ASSUME NEW m \in ToSet(down'[e]), m.kind = "commitAck"
            PROVE  /\ \A j \in Others(e)' : j < m.of => j \in nonces[e]
                   /\ \A i \in applied[e] : i < m.of
        <4>1. m \in ToSet(down[e])
          BY <2>4, <2>6, <3>3
        <4>. QED
          BY <2>2, <2>3, <3>1, <3>3, <4>1 DEF Committed
      <3>. QED
        BY <3>2, <3>3
    <2>11. Latest(e)'
      BY <1>1, <2>6, <2>7 DEF Latest, SameEntriesOf
    <2>. QED
      BY <2>8, <2>9, <2>10, <2>11 DEF Order
  <1>. QED
    BY <1>2, <1>3 DEF Elsewhere

(* No step leaves the order.                                                *)
LEMMA OrderStep ==
    ASSUME ContactSyncAssumption, IndInv, OrderInv, [Next]_vars
    PROVE  OrderInv'
  <1>1. CASE UNCHANGED vars
    <2>1. UNCHANGED <<applied, value, acking, nonces, phase, connected, holder, log, mailbox, up, down>>
      BY <1>1 DEF vars, contactVars, reflectedVars, taskVars, linkVars, mediatorVars
    <2>2. \A d \in Devices : Others(d)' = Others(d) /\ Unmarked(d)' = Unmarked(d)
      BY <2>1 DEF Others, Unmarked
    <2>3. ASSUME NEW d \in Devices, Order(d)
          PROVE  Order(d)'
      BY <2>1, <2>2, <2>3 DEF Order, Marked, Arriving, Committed, Latest
    <2>. QED
      BY <2>1, <2>3 DEF OrderInv, NoSlow
  <1>2. CASE Next
    <2>1. SUFFICES ASSUME NoSlow'
                   PROVE  \A e \in Devices : Order(e)'
      BY DEF OrderInv
    <2>2. PICK d \in Devices : DeviceStep(d)
      BY <1>2, EveryStep
    <2>3. LogType
      BY Parts
    <2>4. \A j \in DOMAIN log : j \in DOMAIN log' /\ log'[j] = log[j]
      BY <2>2, <2>3, LogStep, OwnEntry
    <2>5. NoSlow
      BY <2>1, <2>4 DEF NoSlow
    <2>6. \A e \in Devices : Order(e)
      BY <2>5 DEF OrderInv
    <2>7. Order(d)'
      <3>1. Kinds(d)
        BY <2>2, <2>5, EveryKind
      <3>. QED
        BY <2>5, <2>6, <3>1, CalmOrder, ApplyOrder, RemoveOrder, CommitOrder, CloseOrder,
           CommitAckOrder, ReconnectOrder, AcknowledgeOrder DEF Kinds
    <2>8. ASSUME NEW e \in Devices \ {d}
          PROVE  Order(e)'
      BY <2>2, <2>5, <2>6, OtherDevices, ElsewhereOrder
    <2>. QED
      BY <2>7, <2>8
  <1>. QED
    BY <1>1, <1>2

(* At first there is nothing to be in order. *)
LEMMA InitialOrder ==
    ASSUME ContactSyncAssumption, Init
    PROVE  OrderInv
  <1>1. /\ \A d \in Devices : /\ applied[d] = {} /\ acking[d] = {} /\ nonces[d] = {}
                              /\ phase[d] = "idle" /\ mailbox[d] = <<>> /\ up[d] = <<>>
                              /\ down[d] = <<>>
        /\ log = <<>>
    BY DEF Init, Everywhere
  <1>2. ToSet(<<>>) = {} /\ DOMAIN <<>> = {} /\ Ascending(<<>>)
    BY EmptySeq, Elements DEF Ascending
  <1>3. \A d \in Devices : Others(d) = {} /\ Unmarked(d) = {}
    BY <1>1 DEF Others, Unmarked
  <1>4. ASSUME NEW d \in Devices
        PROVE  Marked(d) /\ Arriving(d) /\ Committed(d) /\ Latest(d)
    <2>1. Marked(d)
      BY <1>1, <1>2, <1>3 DEF Marked
    <2>2. Arriving(d)
      BY <1>1, <1>2, <1>3 DEF Arriving
    <2>3. Committed(d) /\ Latest(d)
      BY <1>1 DEF Committed, Latest
    <2>. QED
      BY <2>1, <2>2, <2>3
  <1>. QED
    BY <1>4 DEF OrderInv, Order

(* When nothing is under way, a device has whatever the others committed,   *)
(* and, without pictures, the last value it knows of.                       *)
LEMMA NothingDiverges ==
    ASSUME ContactSyncAssumption, IndInv, OrderInv
    PROVE  ConvergesUnlessMissed
  <1>1. SUFFICES ASSUME Quiet, NEW d \in Devices
                 PROVE  /\ Confirmed(d) \subseteq applied[d] \union missed[d]
                        /\ \/ \E i \in DOMAIN log : log[i].update \in Slow
                           \/ \A i \in Confirmed(d) : i <= value[d]
    BY DEF ConvergesUnlessMissed
  <1>2. /\ Entries(d) /\ mailbox[d] = <<>> /\ ToSet(<<>>) = {}
        /\ downloads[d] = {} /\ orphans[d] = {}
    BY <1>1, Parts, EmptySeq, Elements DEF Quiet
  <1>3. Confirmed(d) \subseteq applied[d] \union missed[d]
    BY <1>2 DEF Entries, Got, Others, Confirmed
  <1>4. ASSUME NoSlow
        PROVE  \A i \in Confirmed(d) : i <= value[d]
    <2>1. Arriving(d) /\ Latest(d)
      BY <1>4 DEF OrderInv, Order
    <2>2. Unmarked(d) = {}
      BY <1>2, <2>1 DEF Arriving
    <2>3. missed[d] = {}
      BY <1>2, <1>4 DEF Entries, Others, NoSlow
    <2>. QED
      BY <1>3, <2>1, <2>2, <2>3 DEF Latest
  <1>. QED
    BY <1>3, <1>4 DEF NoSlow

-----------------------------------------------------------------------------
(* Theorems *)

(* The inductive invariant holds at first. *)
LEMMA Initially ==
    ASSUME ContactSyncAssumption, Init
    PROVE  IndInv
  <1>1. /\ \A d \in Devices : /\ lock[d] = <<>> /\ applied[d] = {} /\ value[d] = 0 /\ downloads[d] = {}
                              /\ orphans[d] = {} /\ acking[d] = {} /\ nonces[d] = {} /\ tasks[d] = <<>>
                              /\ missed[d] = {}
                              /\ running[d] = None /\ phase[d] = "idle" /\ codec[d] = <<>>
                              /\ backlog[d] = <<>> /\ connected[d] = TRUE /\ mailbox[d] = <<>>
                              /\ up[d] = <<>> /\ down[d] = <<>>
        /\ \A u \in Updates : status[u] = "new" /\ seenAtStart[u] = {}
        /\ holder = None /\ staged = <<>> /\ log = <<>> /\ stale = {} /\ losses = 0
    BY DEF Init, Everywhere
  <1>2. ToSet(<<>>) = {} /\ \A K, L : ~Has(<<>>, K) /\ ~Follows(<<>>, K, L)
    BY EmptySeq, Elements DEF Has, Follows
  <1>3. TypeOK
    BY EmptySeq DEF Init, Everywhere, TypeOK, ContactSyncAssumption
  <1>4. DOMAIN log = {} /\ \A d \in Devices : Others(d) = {}
    BY <1>1 DEF Others
  <1>5. \A u \in Updates : InLine(u) /\ Noted(u)
    BY <1>1, <1>2, OwnerType DEF InLine, Noted
  <1>6. \A d \in Devices : Offline(d) /\ Line(d) /\ Runs(d) /\ Backlog(d)
    BY <1>1, <1>2, OwnerType DEF Offline, Line, Runs, Backlog
  <1>7. \A d \in Devices : Dialog(d) /\ ReadAll(d) /\ Covered(d)
    BY <1>1, <1>2, OwnerType DEF Dialog, ReadAll, Inside, Covered
  <1>8. \A d \in Devices : Entries(d)
    BY <1>1, <1>2, <1>4 DEF Entries
  <1>9. NothingMissedSinceLock
    BY <1>4 DEF NothingMissedSinceLock
  <1>. QED
    BY <1>1, <1>3, <1>5, <1>6, <1>7, <1>8, <1>9 DEF IndInv

(* Every step keeps it. *)
LEMMA Inductive ==
    ASSUME ContactSyncAssumption, IndInv, [Next]_vars
    PROVE  IndInv'
  <1>1. CASE UNCHANGED vars
    <2>1. UNCHANGED <<status, stale, seenAtStart, lock, applied, value, downloads, orphans, acking,
                      nonces, missed, tasks, running, phase, codec, backlog, connected, losses, holder,
                      staged, log, mailbox, up, down>>
      BY <1>1 DEF vars, updateVars, contactVars, reflectedVars, taskVars, linkVars, mediatorVars
    <2>2. \A d \in Devices : Others(d)' = Others(d) /\ Got(d)' = Got(d) /\ Inside(d)' = Inside(d)
      BY <2>1 DEF Others, Got, Inside
    <2>3. TypeOK'
      BY <2>1 DEF IndInv, TypeOK
    <2>4. \A u \in Updates : (InLine(u) /\ Noted(u))'
      BY <2>1, Parts DEF InLine, Noted
    <2>5. \A d \in Devices : (Offline(d) /\ Line(d) /\ Runs(d) /\ Backlog(d))'
      BY <2>1, Parts DEF Offline, Line, Runs, Backlog
    <2>6. \A d \in Devices : Dialog(d)'
      BY <2>1, Parts DEF Dialog
    <2>7. \A d \in Devices : Entries(d)'
      BY <2>1, <2>2, Parts DEF Entries
    <2>8. \A d \in Devices : ReadAll(d)' /\ Covered(d)'
      BY <2>1, <2>2, Parts DEF ReadAll, Covered
    <2>9. NothingMissedSinceLock' /\ (holder = None => staged = <<>>)'
      BY <2>1 DEF IndInv, NothingMissedSinceLock
    <2>. QED
      BY <2>3, <2>4, <2>5, <2>6, <2>7, <2>8, <2>9 DEF IndInv
  <1>2. CASE Next
    <2>1. PICK d \in Devices : DeviceStep(d)
      BY <1>2, EveryStep
    <2>2. TypeOK'
      BY <1>2, UpdateTypeStep, LineTypeStep, LinkTypeStep, MessageTypeStep, ContactTypeStep,
         LogTypeStep, TypeParts
    <2>3. /\ Offline(d)' /\ Runs(d)' /\ Backlog(d)' /\ Locked(d)' /\ Dialog(d)'
          /\ Entries(d)' /\ ReadAll(d)' /\ OwnNoted(d)' /\ Covered(d)'
      BY <2>1, OfflineStep, RunsStep, BacklogStep, LockedStep, DialogStep, EntriesStep, ReadStep,
         NotedStep, CoveredStep
    <2>4. \A e \in Devices \ {d} :
             /\ Offline(e)' /\ Runs(e)' /\ Backlog(e)' /\ Locked(e)' /\ Dialog(e)'
             /\ Entries(e)' /\ ReadAll(e)' /\ OwnNoted(e)' /\ Covered(e)'
      <3>1. SUFFICES ASSUME NEW e \in Devices \ {d}
                     PROVE  /\ Offline(e)' /\ Runs(e)' /\ Backlog(e)' /\ Locked(e)' /\ Dialog(e)'
                            /\ Entries(e)' /\ ReadAll(e)' /\ OwnNoted(e)' /\ Covered(e)'
        OBVIOUS
      <3>2. Elsewhere(d, e)
        BY <2>1, OtherDevices
      <3>. QED
        BY <3>2, ElsewhereLocal, ElsewhereDialog, ElsewhereEntries, ElsewhereRead, ElsewhereSeen
    <2>5. (holder = None => staged = <<>>)'
      BY <2>1, StagedStep
    <2>6. NothingMissedSinceLock'
      BY <2>1, NothingOverwritten
    <2>7. \A e \in Devices :
             /\ Offline(e)' /\ Runs(e)' /\ Backlog(e)' /\ Locked(e)' /\ Dialog(e)'
             /\ Entries(e)' /\ ReadAll(e)' /\ OwnNoted(e)' /\ Covered(e)'
      BY <2>3, <2>4
    <2>8. \A e \in Devices : /\ (Offline(e) /\ Line(e) /\ Runs(e) /\ Backlog(e))'
                             /\ (Dialog(e) /\ Entries(e) /\ ReadAll(e) /\ Covered(e))'
      BY <2>7 DEF Locked
    <2>9. \A u \in Updates : (InLine(u) /\ Noted(u))'
      BY <2>7, OwnerType DEF Locked, OwnNoted
    <2>. QED
      BY <2>2, <2>5, <2>6, <2>8, <2>9 DEF IndInv
  <1>. QED
    BY <1>1, <1>2

(* The inductive invariant holds in every behaviour. *)
THEOREM Invariance == Spec => []IndInv
  <1>1. Init => IndInv
    BY ContactSyncAssumption, Initially
  <1>2. IndInv /\ [Next]_vars => IndInv'
    BY ContactSyncAssumption, Inductive
  <1>. QED
    BY <1>1, <1>2, PTL DEF Spec

(* Every variable keeps to the values it was made for. *)
THEOREM TypeCorrect == Spec => []TypeOK
  <1>1. IndInv => TypeOK
    BY DEF IndInv
  <1>. QED
    BY <1>1, Invariance, PTL

(* By the time an update got the lock of its contact, the contact had seen  *)
(* everything the other devices committed before it, pictures apart:        *)
(* reflected entries precede the acknowledgement of the lock, and whoever   *)
(* has applied one after the version was noted does not execute.            *)
THEOREM NothingMissedAlways == Spec => []NothingMissedSinceLock
  <1>1. IndInv => NothingMissedSinceLock
    BY DEF IndInv
  <1>. QED
    BY <1>1, Invariance, PTL

(* Whatever was committed arrives, and the last of it stays: once nothing   *)
(* is under way, a device misses only what it was not told of itself, and   *)
(* the pictures it could not download.                                      *)
THEOREM ConvergesAlways == Spec => []ConvergesUnlessMissed
  <1>1. Init => IndInv /\ OrderInv
    BY ContactSyncAssumption, Initially, InitialOrder
  <1>2. IndInv /\ OrderInv /\ [Next]_vars => IndInv' /\ OrderInv'
    BY ContactSyncAssumption, Inductive, OrderStep
  <1>3. IndInv /\ OrderInv => ConvergesUnlessMissed
    BY ContactSyncAssumption, NothingDiverges
  <1>. QED
    BY <1>1, <1>2, <1>3, PTL DEF Spec

(* The comment in transaction is right: when the lock is acknowledged, the  *)
(* backlog of the task has been read.                                       *)
THEOREM NoPendingBacklogAlways == Spec => []NoPendingBacklog
  <1>1. IndInv => NoPendingBacklog
    BY Parts DEF Backlog, NoPendingBacklog
  <1>. QED
    BY <1>1, Invariance, PTL

=============================================================================

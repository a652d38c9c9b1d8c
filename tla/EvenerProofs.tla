---------------------------- MODULE EvenerProofs ----------------------------
(***************************************************************************)
(* The Evener collector, for every tree of threads, any number of changes  *)
(* at the hub, lost connections and reads that time out: its index is that *)
(* of the hub whenever nothing is under way, its rows are a sound table    *)
(* with every thread under the one that started it, and a refresh that is  *)
(* accepted brings the rows in line with the hub.                          *)
(***************************************************************************)
EXTENDS EvenerCollector, RegistryTableProofs, SequenceTheorems

-----------------------------------------------------------------------------
(***************************************************************************)
(* The invariant.                                                          *)
(***************************************************************************)
\* Messages.  A closing takes more than the thread it names, and a changed
\* tier is told without its thread: whoever hears either asks for a refresh.
NoticeKind == {"started", "running", "status", "completed", "failed", "closed", "invalidated"}
Listing == UNION {[D -> Thread] : D \in SUBSET Session}
Message == [kind : NoticeKind, thread : Session, raw : Raw]
           \cup [kind : {"refreshReply"}, thread : Session \cup {Null}, answer : Listing \cup Thread \cup {Null}]
           \cup [kind : {"liveReply"}, thread : Session, answer : Thread \cup {Null}]
IsNotice(m) == m.kind \in NoticeKind
IsReply(m) == m.kind = "refreshReply"
Alarm(m) == m.kind \in {"closed", "invalidated"}
Tells(m, s) == IsNotice(m) /\ (Alarm(m) \/ m.thread = s)
IsTold(s) == \E i \in DOMAIN wire : Tells(wire[i], s)
Superseded(i) == \E j \in DOMAIN wire : i < j /\ Tells(wire[j], wire[i].thread)

HubInv == hub \in [Session -> Thread] /\ HubValid

\* What the last message about a thread says of it is so.
LastWord(m, s) == /\ IsNotice(m) => m.kind \in {"started", "status"} /\ m.raw = hub[s].raw
                  /\ m.kind = "liveReply" /\ m.answer # Null => m.answer.raw = hub[s].raw
WireInv == /\ wire \in Seq(Message)
           /\ conn \in {"down", "up"}
           /\ conn = "down" => wire = <<>> /\ timer = "off" /\ \A s \in Session : live[s] = Null
           /\ \A i \in DOMAIN wire :
                 ~IsReply(wire[i]) /\ ~Alarm(wire[i]) /\ ~Superseded(i) => LastWord(wire[i], wire[i].thread)

\* A refresh is answered once, is over before the next is due, and reads
\* every thread with its parent.
UpClosed(S) == \A s \in S : IsChild(s) => ParentOf[s] \in S
IsEntry(e) == e = [raw |-> e.raw, failed |-> e.failed, registered |-> e.registered, cleaned |-> e.cleaned]
Known(idx) == /\ DOMAIN idx \subseteq Session /\ idx = [s \in DOMAIN idx |-> idx[s]]
              /\ \A s \in DOMAIN idx : IsEntry(idx[s])
IsRefresh(r) == /\ r = [step |-> r.step, candidate |-> r.candidate, todo |-> r.todo, archived |-> r.archived,
                        stale |-> r.stale, call |-> r.call, at |-> r.at, answer |-> r.answer]
                /\ r.step \in {"list", "read", "place"} /\ r.call \in {"asked", "taken", "sent"}
                /\ Known(r.candidate) /\ UpClosed(DOMAIN r.candidate)
                /\ r.todo \subseteq DOMAIN r.candidate /\ (r.step = "list" => r.archived = {})
IsAnswer(r, at, answer) ==
    IF r.step = "list" THEN at = Null /\ answer \in Listing /\ UpClosed(DOMAIN answer)
    ELSE at \in r.todo /\ answer \in Thread \cup {Null}
Replied == \E i \in DOMAIN wire : IsReply(wire[i])
Refreshing == refresh # NoRefresh
RefreshInv ==
    /\ Replied => Refreshing
    /\ Refreshing =>
         /\ IsRefresh(refresh) /\ conn = "up" /\ timer # "interval"
         /\ refresh.call = "taken" => IsAnswer(refresh, refresh.at, refresh.answer)
         /\ Replied => refresh.call = "sent"
         /\ \A i, j \in DOMAIN wire : IsReply(wire[i]) /\ IsReply(wire[j]) => i = j
         /\ \A i \in DOMAIN wire : IsReply(wire[i]) => IsAnswer(refresh, wire[i].thread, wire[i].answer)

\* A refresh that will hear of a change before its next answer is given up.
\* What any other has gathered is right of every thread not told about since.
Doomed == \/ refresh.stale
          \/ \E i \in DOMAIN wire : /\ IsNotice(wire[i])
                                    /\ \A j \in DOMAIN wire : IsReply(wire[j]) => i < j
GatheredRight(r, s) ==
    /\ IF s \in DOMAIN r.candidate THEN r.candidate[s].raw = hub[s].raw ELSE hub[s].raw = "closed"
    /\ Above[s] \cap r.archived # {} => s \notin Visible
    /\ r.step = "place" /\ s \in DOMAIN r.candidate \ r.todo /\ hub[s].archived => s \in r.archived
AnswerRight(r, s, at, answer) ==
    /\ r.step = "list" => IF s \in DOMAIN answer THEN answer[s].raw = hub[s].raw ELSE hub[s].raw = "closed"
    /\ r.step = "read" /\ answer # Null /\ s = at => answer.raw = hub[s].raw
    /\ r.step = "place" /\ answer # Null /\ answer.archived /\ at \in Above[s] => s \notin Visible
    /\ r.step = "place" /\ answer # Null /\ s = at /\ hub[s].archived => answer.archived
GatherInv == Refreshing /\ ~Doomed => \A s \in Session : ~IsTold(s) =>
    /\ refresh.step # "list" => GatheredRight(refresh, s)
    /\ refresh.call = "taken" => AnswerRight(refresh, s, refresh.at, refresh.answer)
    /\ \A i \in DOMAIN wire : IsReply(wire[i]) => AnswerRight(refresh, s, wire[i].thread, wire[i].answer)

\* Once a refresh is accepted the index is right of every thread not told
\* about since.
IndexRight(s) == IF s \in DOMAIN index THEN index[s].raw = hub[s].raw ELSE s \notin Visible
IndexInv == /\ Known(index)
            /\ timer = "interval" => \A s \in Session : ~IsTold(s) => IndexRight(s)

EvenerInv == HubInv /\ WireInv /\ RefreshInv /\ GatherInv /\ IndexInv

-----------------------------------------------------------------------------
(***************************************************************************)
(* The wire.                                                               *)
(***************************************************************************)
\* What is appended comes after what was there, at known places.
LEMMA Appended ==
    ASSUME WireInv, NEW ns \in Seq(Message), wire' = wire \o ns
    PROVE  /\ wire' \in Seq(Message) /\ Len(wire) \in Nat
           /\ \A i \in DOMAIN wire : i \in DOMAIN wire' /\ wire'[i] = wire[i] /\ i \in Nat /\ i <= Len(wire)
           /\ \A k \in DOMAIN ns : /\ k \in Nat /\ 0 < k /\ Len(wire) + k \in DOMAIN wire'
                                   /\ wire'[Len(wire) + k] = ns[k]
           /\ \A i \in DOMAIN wire' : i \in DOMAIN wire \/ \E k \in DOMAIN ns : i = Len(wire) + k
<1>1. wire \in Seq(Message)
  BY DEF WireInv
<1>2. wire' \in Seq(Message) /\ Len(wire') = Len(wire) + Len(ns) /\ Len(wire) \in Nat /\ Len(ns) \in Nat
  BY <1>1
<1>3. DOMAIN wire = 1..Len(wire) /\ DOMAIN ns = 1..Len(ns) /\ DOMAIN wire' = 1..(Len(wire) + Len(ns))
  BY <1>1, <1>2
<1>4. \A i \in 1..Len(wire) : wire'[i] = wire[i]
  BY <1>1
<1>5. \A k \in 1..Len(ns) : wire'[Len(wire) + k] = ns[k]
  BY <1>1
<1>6. \A i \in 1..(Len(wire) + Len(ns)) : i \in 1..Len(wire) \/ \E k \in 1..Len(ns) : i = Len(wire) + k
  <2> SUFFICES ASSUME NEW i \in 1..(Len(wire) + Len(ns)), i \notin 1..Len(wire)
               PROVE  \E k \in 1..Len(ns) : i = Len(wire) + k
    OBVIOUS
  <2>1. i - Len(wire) \in 1..Len(ns) /\ i = Len(wire) + (i - Len(wire))
    BY <1>2
  <2> QED BY <2>1
<1>7. \A i \in DOMAIN wire : i \in DOMAIN wire' /\ wire'[i] = wire[i] /\ i \in Nat /\ i <= Len(wire)
  BY <1>2, <1>3, <1>4
<1>8. \A k \in DOMAIN ns : /\ k \in Nat /\ 0 < k /\ Len(wire) + k \in DOMAIN wire'
                          /\ wire'[Len(wire) + k] = ns[k]
  BY <1>2, <1>3, <1>5
<1>9. \A i \in DOMAIN wire' : i \in DOMAIN wire \/ \E k \in DOMAIN ns : i = Len(wire) + k
  BY <1>3, <1>6
<1> QED BY <1>2, <1>7, <1>8, <1>9

\* The head is gone, the rest moved up by one.
LEMMA Shifted ==
    ASSUME WireInv, wire # <<>>, wire' = Tail(wire)
    PROVE  /\ wire' \in Seq(Message) /\ Head(wire) = wire[1] /\ wire[1] \in Message
           /\ 1 \in DOMAIN wire /\ \A i \in DOMAIN wire : i \in Nat /\ 1 <= i
           /\ \A i \in DOMAIN wire' : i \in Nat /\ i + 1 \in DOMAIN wire /\ wire'[i] = wire[i + 1]
           /\ \A i \in DOMAIN wire : i = 1 \/ (i - 1 \in DOMAIN wire' /\ wire'[i - 1] = wire[i])
<1>1. wire \in Seq(Message)
  BY DEF WireInv
<1>2. /\ wire' \in Seq(Message) /\ Len(wire') = Len(wire) - 1 /\ Len(wire) \in Nat /\ Len(wire) >= 1
      /\ Head(wire) = wire[1] /\ wire[1] \in Message
      /\ \A i \in 1..(Len(wire) - 1) : wire'[i] = wire[i + 1]
  BY <1>1
<1>3. DOMAIN wire = 1..Len(wire) /\ DOMAIN wire' = 1..(Len(wire) - 1)
  BY <1>1, <1>2
<1> QED BY <1>2, <1>3

\* The hub changes and tells so: what it tells last of a thread is how the
\* thread is now, and of a thread it does not tell about nothing is new.
LEMMA HubTells ==
    ASSUME EvenerInv, NEW ns \in Seq(Message), Told(ns), UNCHANGED collector, HubInv',
           \A k \in DOMAIN ns : IsNotice(ns[k]),
           \A k \in DOMAIN ns : \/ Alarm(ns[k])
                                \/ LastWord(ns[k], ns[k].thread)'
                                \/ \E l \in DOMAIN ns : k < l /\ Tells(ns[l], ns[k].thread),
           \A s \in Session : (\A k \in DOMAIN ns : ~Tells(ns[k], s)) =>
               /\ hub'[s].raw = hub[s].raw /\ (s \in Visible' => s \in Visible)
               /\ hub'[s].archived => hub[s].archived
    PROVE  EvenerInv'
<1>a. CASE conn = "down"
  <2>1. /\ wire' = wire /\ wire = <<>> /\ timer = "off"
        /\ UNCHANGED <<conn, index, live, refresh, again, timer, rows>>
    BY <1>a DEF EvenerInv, WireInv, Told, collector
  <2>2. ~Refreshing /\ ~Refreshing' /\ ~Replied /\ ~Replied'
    BY <1>a, <2>1 DEF EvenerInv, RefreshInv, Refreshing, Replied
  <2>3. WireInv'
    BY <2>1 DEF EvenerInv, WireInv
  <2>4. RefreshInv' /\ GatherInv'
    BY <2>2 DEF RefreshInv, GatherInv
  <2>5. IndexInv'
    BY <2>1 DEF EvenerInv, IndexInv
  <2> QED BY <2>3, <2>4, <2>5 DEF EvenerInv
<1> SUFFICES ASSUME conn # "down" PROVE EvenerInv'
  BY <1>a
<1>b. wire' = wire \o ns
  BY DEF Told
<1>1. /\ wire' \in Seq(Message) /\ Len(wire) \in Nat
      /\ \A i \in DOMAIN wire : i \in DOMAIN wire' /\ wire'[i] = wire[i] /\ i \in Nat /\ i <= Len(wire)
      /\ \A k \in DOMAIN ns : /\ k \in Nat /\ 0 < k /\ Len(wire) + k \in DOMAIN wire'
                              /\ wire'[Len(wire) + k] = ns[k]
      /\ \A i \in DOMAIN wire' : i \in DOMAIN wire \/ \E k \in DOMAIN ns : i = Len(wire) + k
  BY <1>b, Appended DEF EvenerInv
<1>2. UNCHANGED <<conn, index, live, refresh, again, timer, rows>>
  BY DEF collector
<1>3. \A i \in DOMAIN wire, k \in DOMAIN ns : i < Len(wire) + k
  BY <1>1
<1>4. \A k, l \in DOMAIN ns : k < l => Len(wire) + k < Len(wire) + l
  BY <1>1
<1>5. \A i \in DOMAIN wire' : IsReply(wire'[i]) => i \in DOMAIN wire /\ wire'[i] = wire[i]
  BY <1>1 DEF IsReply, IsNotice, NoticeKind
<1>6. ASSUME NEW s \in Session, ~IsTold(s)'
      PROVE  /\ ~IsTold(s) /\ hub'[s].raw = hub[s].raw /\ (s \in Visible' => s \in Visible)
             /\ hub'[s].archived => hub[s].archived
             /\ \A k \in DOMAIN ns : ~Tells(ns[k], s)
  BY <1>1, <1>6 DEF IsTold
<1>7. WireInv'
  <2>1. ASSUME NEW i \in DOMAIN wire', ~IsReply(wire'[i]), ~Alarm(wire'[i]), ~Superseded(i)'
        PROVE  LastWord(wire[i], wire[i].thread)'
    <3>1. CASE i \in DOMAIN wire
      <4>1. wire'[i] = wire[i] /\ ~Superseded(i)
        BY <1>1, <2>1, <3>1 DEF Superseded
      <4>2. \A k \in DOMAIN ns : ~Tells(ns[k], wire[i].thread)
        BY <1>1, <1>3, <2>1, <3>1, <4>1 DEF Superseded
      <4>3. LastWord(wire[i], wire[i].thread)
        BY <2>1, <3>1, <4>1 DEF EvenerInv, WireInv
      <4>4. wire[i].thread \in Session
        <5>1. wire'[i] \in Message
          BY <1>1
        <5> QED BY <2>1, <4>1, <5>1 DEF Message, IsReply
      <4> QED BY <4>1, <4>2, <4>3, <4>4 DEF LastWord
    <3>2. ASSUME NEW k \in DOMAIN ns, i = Len(wire) + k PROVE LastWord(wire[i], wire[i].thread)'
      <4>1. wire'[i] = ns[k]
        BY <1>1, <3>2
      <4>2. \A l \in DOMAIN ns : ~(k < l /\ Tells(ns[l], ns[k].thread))
        BY <1>1, <1>4, <2>1, <3>2, <4>1 DEF Superseded
      <4> QED BY <2>1, <4>1, <4>2
    <3> QED BY <1>1, <3>1, <3>2
  <2> QED BY <1>1, <1>2, <2>1 DEF WireInv, EvenerInv
<1>8. RefreshInv'
  BY <1>1, <1>2, <1>5 DEF EvenerInv, RefreshInv, Refreshing, Replied
<1>9. GatherInv'
  <2> SUFFICES ASSUME Refreshing', ~Doomed', NEW s \in Session, ~IsTold(s)'
               PROVE  (/\ refresh.step # "list" => GatheredRight(refresh, s)
                       /\ refresh.call = "taken" => AnswerRight(refresh, s, refresh.at, refresh.answer)
                       /\ \A i \in DOMAIN wire : IsReply(wire[i]) =>
                              AnswerRight(refresh, s, wire[i].thread, wire[i].answer))'
    BY DEF GatherInv
  <2>1. Refreshing /\ ~Doomed
    BY <1>1, <1>2, <1>5 DEF Refreshing, Replied, Doomed
  <2>2. /\ refresh.step # "list" => GatheredRight(refresh, s)
        /\ refresh.call = "taken" => AnswerRight(refresh, s, refresh.at, refresh.answer)
        /\ \A i \in DOMAIN wire : IsReply(wire[i]) => AnswerRight(refresh, s, wire[i].thread, wire[i].answer)
    BY <1>6, <2>1 DEF EvenerInv, GatherInv
  <2> QED BY <1>2, <1>5, <1>6, <2>2 DEF GatheredRight, AnswerRight
<1>10. IndexInv'
  BY <1>2, <1>6 DEF EvenerInv, IndexInv, IndexRight
<1> QED BY <1>7, <1>8, <1>9, <1>10 DEF EvenerInv

\* What the hub and the wire alone decide stays with them.
LEMMA WireKept ==
    ASSUME UNCHANGED <<hub, wire>>
    PROVE  /\ Visible' = Visible /\ (HubInv => HubInv')
           /\ WireInv /\ UNCHANGED <<conn, timer, live>> => WireInv'
           /\ \A s \in Session : IsTold(s)' <=> IsTold(s)
           /\ Replied' <=> Replied
BY DEF Visible, HubInv, HubValid, WireInv, Superseded, LastWord, IsTold, Replied

\* What a thread's tree looks like from above and from below.
LEMMA TreeFacts ==
    /\ \A s \in Session : s \in Above[s] /\ Above[s] \subseteq Session
    /\ \A s \in Session : IsChild(s) => /\ ParentOf[s] \in Session /\ ParentOf[s] \in Above[s]
                                        /\ Above[ParentOf[s]] \subseteq Above[s]
    /\ \A s \in Session : \A x \in Above[s] : Above[x] \subseteq Above[s]
<1>1. \A s \in Session : Above[s] = Ancestry(Lineage, s)
  BY DEF Above
<1>2. \A s \in Session : IsChild(s) => /\ ParentOf[s] \in Session
                                       /\ s \in DOMAIN Lineage /\ Lineage[s] = ParentOf[s]
  BY EvenerAssumption DEF IsChild, Lineage, Children, Restrict
<1>3. \A s \in Session : s \in Above[s] /\ Above[s] \subseteq Session
  BY <1>1 DEF Ancestry
<1>4. \A s \in Session : \A x \in Above[s] : Above[x] \subseteq Above[s]
  BY <1>1, <1>3 DEF Ancestry
<1>5. ASSUME NEW s \in Session, IsChild(s) PROVE ParentOf[s] \in Above[s]
  BY <1>1, <1>2, <1>3, <1>5 DEF Ancestry, ClosedUp
<1> QED BY <1>2, <1>3, <1>4, <1>5

\* An opened thread has an open parent, and is told of last.
LEMMA OpenThreadInv ==
    ASSUME EvenerInv, NEW s \in Session, NEW raw \in {"idle", "active"}, OpenThread(s, raw)
    PROVE  EvenerInv'
<1>1. PICK ns : ns = <<[kind |-> "started", thread |-> s, raw |-> raw]>>
  OBVIOUS
<1>2. /\ hub' = [hub EXCEPT ![s].raw = raw] /\ hub \in [Session -> Thread] /\ HubValid
      /\ hub[s].raw = "closed" /\ (IsChild(s) => hub[ParentOf[s]].raw # "closed")
      /\ UNCHANGED collector
  BY DEF OpenThread, HubChange, EvenerInv, HubInv
<1>3. /\ hub' \in [Session -> Thread] /\ hub'[s].raw = raw /\ hub'[s].archived = hub[s].archived
      /\ \A x \in Session \ {s} : hub'[x] = hub[x]
  BY <1>2 DEF Thread, Raw
<1>4. Told(ns)
  BY <1>1, <1>3 DEF OpenThread, Notice
<1>5. HubInv'
  BY <1>2, <1>3, TreeFacts DEF HubInv, HubValid
<1>6. ns \in Seq(Message) /\ DOMAIN ns = {1} /\ ns[1] = [kind |-> "started", thread |-> s, raw |-> raw]
  BY <1>1 DEF Message, NoticeKind, Raw
<1>7. \A x \in Session : x # s => (x \in Visible' => x \in Visible)
  BY <1>2, <1>3, TreeFacts DEF Visible
<1> QED BY <1>2, <1>3, <1>4, <1>5, <1>6, <1>7, HubTells DEF IsNotice, NoticeKind, Alarm, LastWord, Tells

\* A turn that brings an archived thread back makes everyone told.
LEMMA StartTurnInv ==
    ASSUME EvenerInv, NEW s \in Session, StartTurn(s)
    PROVE  EvenerInv'
<1>1. PICK ns : ns = <<[kind |-> "running", thread |-> s, raw |-> "active"],
                       [kind |-> "status", thread |-> s, raw |-> "active"]>>
                     \o IF hub[s].archived THEN <<[kind |-> "invalidated", thread |-> s, raw |-> "active"]>>
                        ELSE <<>>
  OBVIOUS
<1>2. /\ hub' = [hub EXCEPT ![s].raw = "active", ![s].archived = FALSE]
      /\ hub \in [Session -> Thread] /\ HubValid /\ hub[s].raw = "idle"
      /\ UNCHANGED collector
  BY DEF StartTurn, HubChange, EvenerInv, HubInv
<1>3. /\ hub' \in [Session -> Thread] /\ hub'[s] = [raw |-> "active", archived |-> FALSE]
      /\ \A x \in Session \ {s} : hub'[x] = hub[x]
  BY <1>2 DEF Thread, Raw
<1>4. Told(ns)
  BY <1>1, <1>3 DEF StartTurn, Notice
<1>5. HubInv'
  BY <1>2, <1>3, TreeFacts DEF HubInv, HubValid
<1>6. CASE ~hub[s].archived
  <2>1. /\ ns \in Seq(Message) /\ DOMAIN ns = {1, 2}
        /\ ns[1] = [kind |-> "running", thread |-> s, raw |-> "active"]
        /\ ns[2] = [kind |-> "status", thread |-> s, raw |-> "active"]
    BY <1>1, <1>6 DEF Message, NoticeKind, Raw
  <2>2. \A x \in Session : x # s => (x \in Visible' => x \in Visible)
    BY <1>2, <1>3, <1>6, TreeFacts DEF Visible
  <2>3. \A k \in DOMAIN ns : IsNotice(ns[k])
    BY <2>1 DEF IsNotice, NoticeKind
  <2>4. \A k \in DOMAIN ns : \/ Alarm(ns[k])
                              \/ LastWord(ns[k], ns[k].thread)'
                              \/ \E l \in DOMAIN ns : k < l /\ Tells(ns[l], ns[k].thread)
    BY <1>3, <2>1 DEF IsNotice, NoticeKind, LastWord, Tells
  <2>5. \A x \in Session : (\A k \in DOMAIN ns : ~Tells(ns[k], x)) =>
            hub'[x].raw = hub[x].raw /\ (x \in Visible' => x \in Visible)
    BY <1>3, <2>1, <2>2 DEF Tells, IsNotice, NoticeKind
  <2> QED BY <1>2, <1>4, <1>5, <2>1, <2>3, <2>4, <2>5, HubTells
<1>7. CASE hub[s].archived
  <2>1. /\ ns \in Seq(Message) /\ DOMAIN ns = {1, 2, 3}
        /\ ns[1] = [kind |-> "running", thread |-> s, raw |-> "active"]
        /\ ns[2] = [kind |-> "status", thread |-> s, raw |-> "active"]
        /\ ns[3] = [kind |-> "invalidated", thread |-> s, raw |-> "active"]
    BY <1>1, <1>7 DEF Message, NoticeKind, Raw
  <2>2. \A k \in DOMAIN ns : IsNotice(ns[k])
    BY <2>1 DEF IsNotice, NoticeKind
  <2>3. \A x \in Session : Tells(ns[3], x)
    BY <2>1 DEF Tells, IsNotice, NoticeKind, Alarm
  <2>4. \A k \in DOMAIN ns : \/ Alarm(ns[k])
                              \/ LastWord(ns[k], ns[k].thread)'
                              \/ \E l \in DOMAIN ns : k < l /\ Tells(ns[l], ns[k].thread)
    BY <2>1, <2>3 DEF Alarm
  <2>5. \A x \in Session : (\A k \in DOMAIN ns : ~Tells(ns[k], x)) =>
            hub'[x].raw = hub[x].raw /\ (x \in Visible' => x \in Visible)
    BY <2>1, <2>3
  <2> QED BY <1>2, <1>4, <1>5, <2>1, <2>2, <2>4, <2>5, HubTells
<1> QED BY <1>6, <1>7

\* A turn ends with a status: the outcome before it is not the last word.
LEMMA EndTurnInv ==
    ASSUME EvenerInv, NEW s \in Session, NEW outcome \in {"completed", "failed"}, EndTurn(s, outcome)
    PROVE  EvenerInv'
<1>1. PICK ns : ns = <<[kind |-> outcome, thread |-> s, raw |-> "idle"],
                       [kind |-> "status", thread |-> s, raw |-> "idle"]>>
  OBVIOUS
<1>2. /\ hub' = [hub EXCEPT ![s].raw = "idle"]
      /\ hub \in [Session -> Thread] /\ HubValid /\ hub[s].raw = "active"
      /\ UNCHANGED collector
  BY DEF EndTurn, HubChange, EvenerInv, HubInv
<1>3. /\ hub' \in [Session -> Thread] /\ hub'[s].raw = "idle" /\ hub'[s].archived = hub[s].archived
      /\ \A x \in Session \ {s} : hub'[x] = hub[x]
  BY <1>2 DEF Thread, Raw
<1>4. Told(ns)
  BY <1>1, <1>3 DEF EndTurn, Notice
<1>5. HubInv'
  BY <1>2, <1>3, TreeFacts DEF HubInv, HubValid
<1>6. /\ ns \in Seq(Message) /\ DOMAIN ns = {1, 2}
      /\ ns[1] = [kind |-> outcome, thread |-> s, raw |-> "idle"]
      /\ ns[2] = [kind |-> "status", thread |-> s, raw |-> "idle"]
  BY <1>1 DEF Message, NoticeKind, Raw
<1>7. \A x \in Session : x # s => (x \in Visible' => x \in Visible)
  BY <1>2, <1>3, TreeFacts DEF Visible
<1> QED BY <1>2, <1>3, <1>4, <1>5, <1>6, <1>7, HubTells DEF IsNotice, NoticeKind, Alarm, LastWord, Tells

\* Closing takes the whole tree: what it leaves open keeps its parent.
LEMMA CloseThreadInv ==
    ASSUME EvenerInv, NEW s \in Session, NEW kind \in {"closed", "status"}, CloseThread(s, kind)
    PROVE  EvenerInv'
<1>1. PICK ns : ns = <<[kind |-> kind, thread |-> s, raw |-> "closed"]>>
  OBVIOUS
<1>2. /\ hub' = [x \in Session |-> IF x \in Below(s) THEN [raw |-> "closed", archived |-> FALSE] ELSE hub[x]]
      /\ hub \in [Session -> Thread] /\ HubValid
      /\ kind = "status" => \A x \in Below(s) \ {s} : hub[x].raw = "closed"
      /\ UNCHANGED collector
  BY DEF CloseThread, HubChange, EvenerInv, HubInv
<1>3. s \in Below(s) /\ (\A x \in Session : x \in Below(s) <=> s \in Above[x])
  BY TreeFacts DEF Below
<1>4. /\ hub' \in [Session -> Thread] /\ hub'[s].raw = "closed"
      /\ \A x \in Below(s) : hub'[x].raw = "closed" /\ ~hub'[x].archived
      /\ \A x \in Session \ Below(s) : hub'[x] = hub[x]
  <2>1. Below(s) \subseteq Session /\ [raw |-> "closed", archived |-> FALSE] \in Thread
    BY DEF Below, Thread, Raw
  <2>2. \A x \in Session : hub'[x] = IF x \in Below(s) THEN [raw |-> "closed", archived |-> FALSE] ELSE hub[x]
    BY <1>2
  <2>3. hub' \in [Session -> Thread]
    BY <1>2, <2>1
  <2> QED BY <1>3, <2>1, <2>2, <2>3
<1>5. Told(ns)
  BY <1>1, <1>3, <1>4 DEF CloseThread, Notice
<1>6. HubInv'
  BY <1>2, <1>3, <1>4, TreeFacts DEF HubInv, HubValid
<1>7. ns \in Seq(Message) /\ DOMAIN ns = {1} /\ ns[1] = [kind |-> kind, thread |-> s, raw |-> "closed"]
  BY <1>1 DEF Message, NoticeKind, Raw
<1>8. \A x \in Session : x \in Visible' => x \in Visible
  BY <1>3, <1>4, TreeFacts DEF Visible
<1>9. kind = "status" => \A x \in Session : x # s => hub'[x].raw = hub[x].raw
  BY <1>2, <1>4
<1> QED BY <1>2, <1>4, <1>5, <1>6, <1>7, <1>8, <1>9, HubTells
        DEF IsNotice, NoticeKind, Alarm, LastWord, Tells

\* An archived root takes its tree off the board, and everyone is told.
LEMMA ArchiveInv ==
    ASSUME EvenerInv, NEW s \in Session, Archive(s)
    PROVE  EvenerInv'
<1>1. PICK ns : ns = <<[kind |-> "invalidated", thread |-> s, raw |-> "idle"]>>
  OBVIOUS
<1>2. /\ hub' = [hub EXCEPT ![s].archived = TRUE]
      /\ hub \in [Session -> Thread] /\ HubValid /\ hub[s].raw = "idle" /\ ~IsChild(s)
      /\ UNCHANGED collector
  BY DEF Archive, HubChange, EvenerInv, HubInv
<1>3. /\ hub' \in [Session -> Thread] /\ hub'[s].raw = "idle" /\ hub'[s].archived
      /\ \A x \in Session \ {s} : hub'[x] = hub[x]
  BY <1>2 DEF Thread, Raw
<1>4. Told(ns)
  BY <1>1, <1>3 DEF Archive, Notice
<1>5. HubInv'
  BY <1>2, <1>3, TreeFacts DEF HubInv, HubValid
<1>6. ns \in Seq(Message) /\ DOMAIN ns = {1} /\ ns[1] = [kind |-> "invalidated", thread |-> s, raw |-> "idle"]
  BY <1>1 DEF Message, NoticeKind, Raw
<1> QED BY <1>2, <1>3, <1>4, <1>5, <1>6, HubTells DEF IsNotice, NoticeKind, Alarm, LastWord, Tells

-----------------------------------------------------------------------------
(***************************************************************************)
(* Answers on their way.                                                   *)
(***************************************************************************)
\* The hub takes its answer, or will not place a root: the answer is right of
\* every thread at that moment.
LEMMA TakeAnswerInv ==
    ASSUME EvenerInv, TakeAnswer \/ RefusePlace
    PROVE  EvenerInv'
<1>1. /\ UNCHANGED <<hub, wire, conn, index, live, timer>> /\ refresh # NoRefresh
      /\ refresh.call = "asked" /\ IsRefresh(refresh) /\ conn = "up" /\ timer # "interval" /\ ~Replied
      /\ hub \in [Session -> Thread] /\ HubValid
  BY DEF TakeAnswer, RefusePlace, Fault, EvenerInv, HubInv, RefreshInv, Refreshing
<1>2. PICK at \in IF refresh.step = "list" THEN {Null} ELSE refresh.todo :
        \E answer \in IF refresh.step = "list" THEN {Listed} ELSE Reads(at) \cup {Null} :
           refresh' = [refresh EXCEPT !.call = "taken", !.at = at, !.answer = answer]
  <2>1. CASE TakeAnswer
    BY <2>1 DEF TakeAnswer
  <2>2. CASE RefusePlace
    BY <2>2 DEF RefusePlace
  <2> QED BY <2>1, <2>2
<1>3. PICK answer \in IF refresh.step = "list" THEN {Listed} ELSE Reads(at) \cup {Null} :
        refresh' = [refresh EXCEPT !.call = "taken", !.at = at, !.answer = answer]
  BY <1>2
<1>4. refresh' = [step |-> refresh.step, candidate |-> refresh.candidate, todo |-> refresh.todo,
                  archived |-> refresh.archived, stale |-> refresh.stale, call |-> "taken",
                  at |-> at, answer |-> answer]
  BY <1>1, <1>3 DEF IsRefresh
<1>5. IsRefresh(refresh')
  BY <1>1, <1>4 DEF IsRefresh
<1>6. IsAnswer(refresh', at, answer) /\ \A s \in Session : AnswerRight(refresh', s, at, answer)
  <2>1. CASE refresh.step = "list"
    <3>1. at = Null /\ answer = Listed /\ refresh'.step = "list"
      BY <1>4, <2>1
    <3>2. /\ DOMAIN Listed = {s \in Session : hub[s].raw # "closed"}
          /\ \A s \in DOMAIN Listed : Listed[s] = hub[s]
      BY DEF Listed, Restrict
    <3>3. Listed \in Listing
      <4>1. Listed \in [DOMAIN Listed -> Thread] /\ DOMAIN Listed \in SUBSET Session
        BY <1>1 DEF Listed, Restrict
      <4> QED BY <4>1 DEF Listing
    <3>4. UpClosed(DOMAIN Listed)
      BY <1>1, <3>2, TreeFacts DEF UpClosed, HubValid
    <3> QED BY <3>1, <3>2, <3>3, <3>4 DEF IsAnswer, AnswerRight
  <2>2. CASE refresh.step # "list"
    <3>1. at \in refresh.todo /\ answer \in Reads(at) \cup {Null} /\ refresh'.step # "list" /\ refresh'.todo = refresh.todo
      BY <1>4, <2>2
    <3>2. at \in Session
      BY <1>1, <3>1 DEF IsRefresh, Known
    <3>3. answer = hub[at] \/ answer = Null
      BY <3>1 DEF Reads
    <3>4. hub[at] \in Thread
      BY <1>1, <3>2
    <3>5. \A s \in Session : AnswerRight(refresh', s, at, answer)
      BY <3>1, <3>3 DEF AnswerRight, Visible
    <3> QED BY <3>1, <3>3, <3>4, <3>5 DEF IsAnswer
  <2> QED BY <2>1, <2>2
<1>7. refresh' # NoRefresh
  BY <1>5 DEF IsRefresh, NoRefresh
<1>8. HubInv' /\ WireInv'
  BY <1>1, WireKept DEF EvenerInv
<1>9. ~Replied'
  BY <1>1 DEF Replied
<1>10. RefreshInv'
  BY <1>1, <1>4, <1>5, <1>6, <1>9 DEF RefreshInv, Refreshing, Replied
<1>11. GatherInv'
  <2> SUFFICES ASSUME ~Doomed', NEW s \in Session, ~IsTold(s)'
               PROVE  /\ refresh'.step # "list" => GatheredRight(refresh, s)'
                      /\ AnswerRight(refresh, s, refresh.at, refresh.answer)'
    BY <1>9 DEF GatherInv, Replied
  <2>1. ~Doomed /\ ~IsTold(s) /\ Refreshing
    BY <1>1, <1>4 DEF Doomed, IsTold, Refreshing
  <2>2. refresh.step # "list" => GatheredRight(refresh, s)
    BY <2>1 DEF EvenerInv, GatherInv
  <2>3. refresh'.step # "list" => GatheredRight(refresh, s)'
    BY <1>1, <1>4, <2>2, WireKept DEF GatheredRight
  <2> QED BY <1>1, <1>4, <1>6, <2>3, WireKept DEF AnswerRight
<1>12. IndexInv'
  BY <1>1 DEF EvenerInv, IndexInv
<1> QED BY <1>8, <1>10, <1>11, <1>12 DEF EvenerInv

\* An answer put on the wire tells of no change.
LEMMA AnswerPut ==
    ASSUME EvenerInv, NEW m \in Message, ~IsNotice(m), LastWord(m, m.thread), wire' = Append(wire, m),
           UNCHANGED <<hub, conn>>, conn = "up"
    PROVE  /\ HubInv' /\ WireInv' /\ Visible' = Visible
           /\ \A s \in Session : IsTold(s)' <=> IsTold(s)
           /\ \A i \in DOMAIN wire : i \in DOMAIN wire' /\ wire'[i] = wire[i]
           /\ \E k \in DOMAIN wire' : /\ wire'[k] = m /\ \A i \in DOMAIN wire : i < k
                                      /\ \A i \in DOMAIN wire' : i \in DOMAIN wire \/ i = k
<1>1. PICK ns : ns = <<m>>
  OBVIOUS
<1>2. WireInv /\ wire \in Seq(Message)
  BY DEF EvenerInv, WireInv
<1>3. ns \in Seq(Message) /\ DOMAIN ns = {1} /\ ns[1] = m /\ wire' = wire \o ns
  BY <1>1, <1>2
<1>4. /\ wire' \in Seq(Message) /\ Len(wire) \in Nat
      /\ \A i \in DOMAIN wire : i \in DOMAIN wire' /\ wire'[i] = wire[i] /\ i \in Nat /\ i <= Len(wire)
      /\ \A k \in DOMAIN ns : /\ k \in Nat /\ 0 < k /\ Len(wire) + k \in DOMAIN wire'
                              /\ wire'[Len(wire) + k] = ns[k]
      /\ \A i \in DOMAIN wire' : i \in DOMAIN wire \/ \E k \in DOMAIN ns : i = Len(wire) + k
  BY <1>2, <1>3, Appended
<1>5. PICK k : k = Len(wire) + 1
  OBVIOUS
<1>6. /\ k \in DOMAIN wire' /\ wire'[k] = m /\ (\A i \in DOMAIN wire : i < k)
      /\ \A i \in DOMAIN wire' : i \in DOMAIN wire \/ i = k
  BY <1>3, <1>4, <1>5
<1>7. \A s \in Session : IsTold(s)' <=> IsTold(s)
  BY <1>4, <1>6 DEF IsTold, Tells
<1>8. HubInv' /\ Visible' = Visible
  BY DEF EvenerInv, HubInv, HubValid, Visible
<1>9. ASSUME NEW i \in DOMAIN wire', ~IsReply(wire'[i]), ~Alarm(wire'[i]), ~Superseded(i)'
      PROVE  LastWord(wire[i], wire[i].thread)'
  <2>1. CASE i = k
    BY <1>6, <2>1 DEF LastWord
  <2>2. CASE i # k
    <3>1. i \in DOMAIN wire /\ wire'[i] = wire[i]
      BY <1>4, <1>6, <2>2
    <3>2. ~Superseded(i)
      BY <1>4, <1>9, <3>1 DEF Superseded
    <3>3. LastWord(wire[i], wire[i].thread)
      BY <1>2, <1>9, <3>1, <3>2 DEF WireInv
    <3> QED BY <3>1, <3>3 DEF LastWord
  <2> QED BY <2>1, <2>2
<1>10. WireInv'
  BY <1>2, <1>4, <1>9 DEF WireInv
<1> QED BY <1>4, <1>6, <1>7, <1>8, <1>10

\* A taken answer is sent as it was taken, behind what has happened since.
LEMMA SendAnswerInv ==
    ASSUME EvenerInv, SendAnswer
    PROVE  EvenerInv'
<1>1. PICK m : m = [kind |-> "refreshReply", thread |-> refresh.at, answer |-> refresh.answer]
  OBVIOUS
<1>2. /\ UNCHANGED <<hub, conn, index, live, timer>> /\ refresh.call = "taken"
      /\ IsRefresh(refresh) /\ conn = "up" /\ timer # "interval" /\ ~Replied
      /\ IsAnswer(refresh, refresh.at, refresh.answer) /\ wire' = Append(wire, m)
  BY <1>1 DEF SendAnswer, EvenerInv, RefreshInv, Refreshing
<1>3. refresh' = [step |-> refresh.step, candidate |-> refresh.candidate, todo |-> refresh.todo,
                  archived |-> refresh.archived, stale |-> refresh.stale, call |-> "sent",
                  at |-> Null, answer |-> Null]
  BY <1>2 DEF SendAnswer, IsRefresh
<1>4. IsRefresh(refresh') /\ refresh' # NoRefresh
  BY <1>2, <1>3 DEF IsRefresh, NoRefresh
<1>5. m \in Message /\ ~IsNotice(m) /\ IsReply(m) /\ LastWord(m, m.thread)
  <2>1. refresh.at \in Session \cup {Null} /\ refresh.answer \in Listing \cup Thread \cup {Null}
    BY <1>2 DEF IsAnswer, IsRefresh, Known
  <2> QED BY <1>1, <2>1 DEF Message, IsNotice, NoticeKind, IsReply, LastWord
<1>6. /\ HubInv' /\ WireInv' /\ Visible' = Visible
      /\ \A s \in Session : IsTold(s)' <=> IsTold(s)
      /\ \A i \in DOMAIN wire : i \in DOMAIN wire' /\ wire'[i] = wire[i]
      /\ \E k \in DOMAIN wire' : /\ wire'[k] = m /\ \A i \in DOMAIN wire : i < k
                                 /\ \A i \in DOMAIN wire' : i \in DOMAIN wire \/ i = k
  BY <1>2, <1>5, AnswerPut
<1>7. PICK k \in DOMAIN wire' : /\ wire'[k] = m /\ \A i \in DOMAIN wire : i < k
                                /\ \A i \in DOMAIN wire' : i \in DOMAIN wire \/ i = k
  BY <1>6
<1>8. \A i \in DOMAIN wire' : IsReply(wire'[i]) => i = k
  BY <1>2, <1>6, <1>7 DEF Replied
<1>9. RefreshInv'
  <2>1. IsAnswer(refresh', m.thread, m.answer)
    BY <1>1, <1>2, <1>3 DEF IsAnswer
  <2>2. \A i \in DOMAIN wire' : IsReply(wire'[i]) => IsAnswer(refresh', wire'[i].thread, wire'[i].answer)
    BY <1>7, <1>8, <2>1
  <2> QED BY <1>2, <1>3, <1>4, <1>8, <2>2 DEF RefreshInv, Refreshing, Replied
<1>10. GatherInv'
  <2> SUFFICES ASSUME ~Doomed', NEW s \in Session, ~IsTold(s)'
               PROVE  /\ refresh'.step # "list" => GatheredRight(refresh, s)'
                      /\ AnswerRight(refresh, s, m.thread, m.answer)'
    BY <1>1, <1>3, <1>7, <1>8 DEF GatherInv
  <2>1. ~Doomed /\ ~IsTold(s) /\ Refreshing
    <3>1. \A i \in DOMAIN wire : ~IsNotice(wire[i])
      BY <1>6, <1>7, <1>8 DEF Doomed
    <3> QED BY <1>2, <1>3, <1>6, <3>1 DEF Doomed, SendAnswer, Refreshing
  <2>2. /\ refresh.step # "list" => GatheredRight(refresh, s)
        /\ AnswerRight(refresh, s, refresh.at, refresh.answer)
    BY <1>2, <2>1 DEF EvenerInv, GatherInv
  <2> QED BY <1>1, <1>2, <1>3, <1>6, <2>2 DEF GatheredRight, AnswerRight
<1>11. IndexInv'
  BY <1>2 DEF EvenerInv, IndexInv
<1> QED BY <1>6, <1>9, <1>10, <1>11 DEF EvenerInv

\* A read of subscribeLive is answered at once: the hub says what is so.
LEMMA AnswerLiveInv ==
    ASSUME EvenerInv, NEW s \in Session, AnswerLive(s)
    PROVE  EvenerInv'
<1>1. /\ UNCHANGED <<hub, conn, index, refresh, timer>> /\ live[s] # Null
      /\ hub[s] \in Thread
  BY DEF AnswerLive, EvenerInv, HubInv
<1>2. PICK answer \in Reads(s) :
        wire' = Append(wire, [kind |-> "liveReply", thread |-> s, answer |-> answer])
  BY DEF AnswerLive
<1>3. PICK m : m = [kind |-> "liveReply", thread |-> s, answer |-> answer]
  OBVIOUS
<1>4. conn = "up"
  BY <1>1 DEF EvenerInv, WireInv
<1>5. m \in Message /\ ~IsNotice(m) /\ ~IsReply(m) /\ LastWord(m, m.thread)
  <2>1. answer = hub[s] \/ answer = Null
    BY <1>2 DEF Reads
  <2> QED BY <1>1, <1>3, <2>1 DEF Message, IsNotice, NoticeKind, IsReply, LastWord
<1>6. /\ HubInv' /\ WireInv' /\ Visible' = Visible
      /\ \A x \in Session : IsTold(x)' <=> IsTold(x)
      /\ \A i \in DOMAIN wire : i \in DOMAIN wire' /\ wire'[i] = wire[i]
      /\ \E k \in DOMAIN wire' : /\ wire'[k] = m /\ \A i \in DOMAIN wire : i < k
                                 /\ \A i \in DOMAIN wire' : i \in DOMAIN wire \/ i = k
  BY <1>1, <1>2, <1>3, <1>4, <1>5, AnswerPut
<1>7. \A i \in DOMAIN wire' : IsReply(wire'[i]) => i \in DOMAIN wire /\ wire'[i] = wire[i]
  BY <1>5, <1>6
<1>8. RefreshInv'
  BY <1>1, <1>6, <1>7 DEF EvenerInv, RefreshInv, Refreshing, Replied
<1>9. GatherInv'
  <2> SUFFICES ASSUME Refreshing', ~Doomed', NEW x \in Session, ~IsTold(x)'
               PROVE  (/\ refresh.step # "list" => GatheredRight(refresh, x)
                       /\ refresh.call = "taken" => AnswerRight(refresh, x, refresh.at, refresh.answer)
                       /\ \A i \in DOMAIN wire : IsReply(wire[i]) =>
                              AnswerRight(refresh, x, wire[i].thread, wire[i].answer))'
    BY DEF GatherInv
  <2>1. Refreshing /\ ~Doomed
    BY <1>1, <1>6, <1>7 DEF Refreshing, Doomed
  <2>2. /\ refresh.step # "list" => GatheredRight(refresh, x)
        /\ refresh.call = "taken" => AnswerRight(refresh, x, refresh.at, refresh.answer)
        /\ \A i \in DOMAIN wire : IsReply(wire[i]) => AnswerRight(refresh, x, wire[i].thread, wire[i].answer)
    BY <1>6, <2>1 DEF EvenerInv, GatherInv
  <2> QED BY <1>1, <1>6, <1>7, <2>2 DEF GatheredRight, AnswerRight
<1>10. IndexInv'
  BY <1>1, <1>6 DEF EvenerInv, IndexInv, IndexRight
<1> QED BY <1>6, <1>8, <1>9, <1>10 DEF EvenerInv

-----------------------------------------------------------------------------
(***************************************************************************)
(* Timers and the connection.                                              *)
(***************************************************************************)
\* A request of the list starts out with nothing gathered.
LEMMA StartRefreshInv ==
    ASSUME EvenerInv, UNCHANGED <<hub, wire, index, live>>, conn' = "up", timer' = "off",
           IF refresh # NoRefresh THEN UNCHANGED refresh
           ELSE refresh' = [step |-> "list", candidate |-> Empty, todo |-> {}, archived |-> {},
                            stale |-> FALSE, call |-> "asked", at |-> Null, answer |-> Null]
    PROVE  EvenerInv'
<1>1. HubInv' /\ WireInv'
  BY WireKept DEF EvenerInv, WireInv, HubInv, HubValid, LastWord, Superseded
<1>2. IndexInv'
  BY DEF EvenerInv, IndexInv
<1>3. CASE refresh # NoRefresh
  <2>1. UNCHANGED refresh
    BY <1>3
  <2>2. RefreshInv'
    BY <2>1, WireKept DEF EvenerInv, RefreshInv, Refreshing
  <2>3. GatherInv'
    BY <2>1, WireKept DEF EvenerInv, GatherInv, Refreshing, Doomed, GatheredRight, AnswerRight
  <2> QED BY <1>1, <1>2, <2>2, <2>3 DEF EvenerInv
<1>4. CASE refresh = NoRefresh
  <2>1. refresh' = [step |-> "list", candidate |-> Empty, todo |-> {}, archived |-> {},
                    stale |-> FALSE, call |-> "asked", at |-> Null, answer |-> Null]
    BY <1>4
  <2>2. ~Replied'
    BY <1>4, WireKept DEF EvenerInv, RefreshInv, Refreshing
  <2>3. IsRefresh(refresh')
    <3>1. Known(Empty) /\ DOMAIN Empty = {}
      BY DEF Known, Empty
    <3> QED BY <2>1, <3>1 DEF IsRefresh, UpClosed
  <2>4. RefreshInv'
    BY <2>1, <2>2, <2>3 DEF RefreshInv, Replied
  <2>5. GatherInv'
    BY <2>1, <2>2 DEF GatherInv, Replied
  <2> QED BY <1>1, <1>2, <2>4, <2>5 DEF EvenerInv
<1> QED BY <1>3, <1>4

\* The timer is off while a connection is down: a refresh starts on a live one.
LEMMA FireRefreshTimerInv ==
    ASSUME EvenerInv, FireRefreshTimer
    PROVE  EvenerInv'
<1>1. UNCHANGED <<hub, wire>> /\ timer # "off" /\ conn = "up"
  BY DEF FireRefreshTimer, EvenerInv, WireInv
<1>2. PICK w \in {StartRefresh([Now EXCEPT !.timer = "off"])} :
        /\ conn' = w.conn /\ index' = w.index /\ live' = w.live /\ refresh' = w.refresh /\ timer' = w.timer
  BY DEF FireRefreshTimer, Enter
<1>3. /\ conn' = conn /\ index' = index /\ live' = live /\ timer' = "off"
      /\ IF refresh # NoRefresh THEN UNCHANGED refresh
         ELSE refresh' = [step |-> "list", candidate |-> Empty, todo |-> {}, archived |-> {},
                          stale |-> FALSE, call |-> "asked", at |-> Null, answer |-> Null]
  BY <1>2 DEF StartRefresh, Now
<1> QED BY <1>1, <1>3, StartRefreshInv

\* A new connection starts with a refresh and an empty wire.
LEMMA ConnectInv ==
    ASSUME EvenerInv, Connect
    PROVE  EvenerInv'
<1>1. UNCHANGED <<hub, wire>> /\ conn = "down" /\ timer = "off"
  BY DEF Connect, EvenerInv, WireInv
<1>2. PICK w \in {StartRefresh([Now EXCEPT !.conn = "up"])} :
        /\ conn' = w.conn /\ index' = w.index /\ live' = w.live /\ refresh' = w.refresh /\ timer' = w.timer
  BY DEF Connect, Enter
<1>3. /\ conn' = "up" /\ index' = index /\ live' = live /\ timer' = timer
      /\ IF refresh # NoRefresh THEN UNCHANGED refresh
         ELSE refresh' = [step |-> "list", candidate |-> Empty, todo |-> {}, archived |-> {},
                          stale |-> FALSE, call |-> "asked", at |-> Null, answer |-> Null]
  BY <1>2 DEF StartRefresh, Now
<1> QED BY <1>1, <1>3, StartRefreshInv

\* A dead connection leaves the index and nothing else.
LEMMA DisconnectedInv ==
    ASSUME EvenerInv, UNCHANGED <<hub, index>>, wire' = <<>>, conn' = "down", timer' = "off",
           refresh' = NoRefresh, live' = [s \in Session |-> Null]
    PROVE  EvenerInv'
<1>1. HubInv' /\ WireInv'
  BY DEF EvenerInv, HubInv, HubValid, WireInv
<1>2. RefreshInv' /\ GatherInv'
  BY DEF RefreshInv, GatherInv, Refreshing, Replied
<1>3. IndexInv'
  BY DEF EvenerInv, IndexInv
<1> QED BY <1>1, <1>2, <1>3 DEF EvenerInv

\* Nothing outlives the connection.
LEMMA LoseConnectionInv ==
    ASSUME EvenerInv, LoseConnection
    PROVE  EvenerInv'
<1>1. PICK w \in {Disconnected(Now)} :
        /\ conn' = w.conn /\ index' = w.index /\ live' = w.live /\ refresh' = w.refresh /\ timer' = w.timer
  BY DEF LoseConnection, Enter
<1>2. /\ conn' = "down" /\ index' = index /\ live' = [s \in Session |-> Null] /\ refresh' = NoRefresh
      /\ timer' = "off"
  BY <1>1 DEF Disconnected, Now
<1> QED BY <1>2, DisconnectedInv DEF LoseConnection, Fault

\* A read that times out asks for a refresh.
LEMMA LiveReadTimesOutInv ==
    ASSUME EvenerInv, NEW s \in Session, LiveReadTimesOut(s)
    PROVE  EvenerInv'
<1>1. PICK w \in {ScheduleRefresh([Now EXCEPT !.live[s] = Null], "now")} :
        /\ conn' = w.conn /\ index' = w.index /\ live' = w.live /\ refresh' = w.refresh /\ timer' = w.timer
  BY DEF LiveReadTimesOut, Enter
<1>2. UNCHANGED <<hub, wire, conn, index, refresh>> /\ timer' = "now" /\ conn # "down"
  BY <1>1 DEF LiveReadTimesOut, Fault, ScheduleRefresh, Now, EvenerInv, WireInv
<1>3. HubInv' /\ WireInv'
  BY <1>2, WireKept DEF EvenerInv, WireInv, HubInv, HubValid, LastWord, Superseded
<1>4. RefreshInv'
  BY <1>2, WireKept DEF EvenerInv, RefreshInv, Refreshing
<1>5. GatherInv'
  BY <1>2, WireKept DEF EvenerInv, GatherInv, Refreshing, Doomed, GatheredRight, AnswerRight
<1>6. IndexInv'
  BY <1>2 DEF EvenerInv, IndexInv
<1> QED BY <1>3, <1>4, <1>5, <1>6 DEF EvenerInv

\* Nothing is known and nothing is due before the first connection.
LEMMA InitInv ==
    ASSUME Init
    PROVE  EvenerInv
<1>1. HubInv /\ WireInv
  BY DEF Init, HubInv, WireInv
<1>2. RefreshInv /\ GatherInv
  BY DEF Init, RefreshInv, GatherInv, Refreshing, Replied
<1>3. IndexInv
  BY DEF Init, IndexInv, Known, Empty
<1> QED BY <1>1, <1>2, <1>3 DEF EvenerInv

-----------------------------------------------------------------------------
(***************************************************************************)
(* The handlers: what each does to the index, and that it does nothing to  *)
(* the connection and the refresh.                                         *)
(***************************************************************************)
IsState(w) == w = [conn |-> w.conn, index |-> w.index, subscribed |-> w.subscribed, rooted |-> w.rooted,
                   live |-> w.live, refresh |-> w.refresh, again |-> w.again, timer |-> w.timer,
                   rows |-> w.rows]
Held(v, w) == IsState(v) /\ v.conn = w.conn /\ v.refresh = w.refresh /\ v.timer = w.timer
SameRaw(idx, old, s) == /\ s \in DOMAIN idx <=> s \in DOMAIN old
                        /\ s \in DOMAIN old => idx[s].raw = old[s].raw
\* The index after holds of thread s that it is raw, and of others what it did.
Placed(v, w, s, raw) == /\ Held(v, w) /\ Known(v.index)
                        /\ s \in DOMAIN v.index /\ v.index[s].raw = raw
                        /\ \A x \in Session \ {s} : SameRaw(v.index, w.index, x)

\* An entry put into the index is the only one that changes.
LEMMA PutPlaces ==
    ASSUME NEW w, IsState(w), Known(w.index), NEW s \in Session, NEW e, IsEntry(e), NEW tbl
    PROVE  Placed(Put(w, s, e, tbl), w, s, e.raw)
<1>0. PICK v : v = Put(w, s, e, tbl)
  OBVIOUS
<1>a. v = [conn |-> w.conn, index |-> Insert(w.index, s, e), subscribed |-> w.subscribed,
           rooted |-> w.rooted, live |-> w.live, refresh |-> w.refresh, again |-> w.again,
           timer |-> w.timer, rows |-> tbl]
  BY <1>0 DEF IsState, Put
<1>1. IsState(v) /\ v.conn = w.conn /\ v.refresh = w.refresh /\ v.timer = w.timer
  BY <1>a DEF IsState
<1>2. v.index = [x \in DOMAIN w.index \cup {s} |-> IF x = s THEN e ELSE w.index[x]]
  BY <1>a DEF Insert
<1>3. Known(v.index)
  BY <1>2 DEF Known
<1>4. s \in DOMAIN v.index /\ v.index[s] = e
  BY <1>2
<1>5. \A x \in Session \ {s} : SameRaw(v.index, w.index, x)
  BY <1>2 DEF SameRaw
<1> QED BY <1>0, <1>1, <1>3, <1>4, <1>5 DEF Placed, Held

\* A child that leaves the board stays in the index as it is.
LEMMA CleanupPlaces ==
    ASSUME NEW w, IsState(w), Known(w.index), NEW s \in Session, NEW e, IsEntry(e)
    PROVE  Placed(Cleanup(w, s, e), w, s, e.raw)
<1>0. PICK d : d = [e EXCEPT !.registered = FALSE, !.cleaned = TRUE]
  OBVIOUS
<1>a. d = [raw |-> e.raw, failed |-> e.failed, registered |-> FALSE, cleaned |-> TRUE]
  BY <1>0 DEF IsEntry
<1>1. IsEntry(d) /\ d.raw = e.raw
  BY <1>a DEF IsEntry
<1>2. Cleanup(w, s, e) = Put(w, s, d, IF e.cleaned THEN w.rows ELSE SubagentStop(w.rows, s))
  BY <1>0 DEF Cleanup
<1> QED BY <1>1, <1>2, PutPlaces

\* A hydrated thread keeps its status, whatever becomes of its row.
LEMMA HydratePlaces ==
    ASSUME NEW w, IsState(w), Known(w.index), NEW s \in Session, NEW e, IsEntry(e), NEW liveStart
    PROVE  Placed(HydrateState(w, s, e, liveStart), w, s, e.raw)
<1>0. PICK on, off, back : /\ on = [e EXCEPT !.registered = TRUE]
                           /\ off = [e EXCEPT !.registered = FALSE]
                           /\ back = [e EXCEPT !.registered = TRUE, !.cleaned = FALSE]
  OBVIOUS
<1>a. /\ on = [raw |-> e.raw, failed |-> e.failed, registered |-> TRUE, cleaned |-> e.cleaned]
      /\ off = [raw |-> e.raw, failed |-> e.failed, registered |-> FALSE, cleaned |-> e.cleaned]
      /\ back = [raw |-> e.raw, failed |-> e.failed, registered |-> TRUE, cleaned |-> FALSE]
  BY <1>0 DEF IsEntry
<1>1. /\ IsEntry(on) /\ on.raw = e.raw /\ IsEntry(off) /\ off.raw = e.raw
      /\ IsEntry(back) /\ back.raw = e.raw
  BY <1>a DEF IsEntry
<1>2. \A tbl : /\ Placed(Put(w, s, e, tbl), w, s, e.raw) /\ Placed(Put(w, s, on, tbl), w, s, e.raw)
               /\ Placed(Put(w, s, off, tbl), w, s, e.raw) /\ Placed(Put(w, s, back, tbl), w, s, e.raw)
  BY <1>1, PutPlaces
<1>3. Placed(HydrateChild(w, s, e), w, s, e.raw)
  <2>1. CASE ~ParentRegistered(w.index, s) \/ EffectiveStatus(e) = "idle"
    BY <2>1, CleanupPlaces DEF HydrateChild
  <2>2. CASE ~(~ParentRegistered(w.index, s) \/ EffectiveStatus(e) = "idle") /\ e.registered
    BY <1>0, <1>2, <2>2 DEF HydrateChild
  <2>3. CASE ~(~ParentRegistered(w.index, s) \/ EffectiveStatus(e) = "idle") /\ ~e.registered
    BY <1>0, <1>2, <2>3 DEF HydrateChild
  <2> QED BY <2>1, <2>2, <2>3
<1>4. Placed(HydrateRoot(w, s, e, liveStart), w, s, e.raw)
  BY <1>0, <1>2 DEF HydrateRoot
<1>5. CASE e.raw = "closed"
  BY <1>0, <1>2, <1>5 DEF HydrateState
<1>6. CASE e.raw # "closed"
  BY <1>3, <1>4, <1>6 DEF HydrateState
<1> QED BY <1>5, <1>6

\* The index does not change when it lets go of its objects,
LEMMA LetGoHolds ==
    ASSUME NEW w, IsState(w), NEW S
    PROVE  Held(LetGo(w, S), w) /\ LetGo(w, S).index = w.index
BY DEF IsState, LetGo, Held

\* nor when the keys of the whole chains are remembered;
LEMMA RememberHolds ==
    ASSUME NEW w, IsState(w)
    PROVE  Held(Remember(w), w) /\ Remember(w).index = w.index
BY DEF IsState, Remember, Held

\* what is forgotten leaves it, the rest stays.
LEMMA ForgetHolds ==
    ASSUME NEW w, IsState(w), Known(w.index), NEW S
    PROVE  /\ Held(Forget(w, S), w) /\ Known(Forget(w, S).index)
           /\ DOMAIN Forget(w, S).index = DOMAIN w.index \ S
           /\ \A x \in DOMAIN w.index \ S : Forget(w, S).index[x] = w.index[x]
<1>0. PICK u, v : /\ u = LetGo(w, S)
                  /\ v = [u EXCEPT !.index = Restrict(@, DOMAIN @ \ S), !.subscribed = @ \ S, !.rooted = @ \ S]
  OBVIOUS
<1>1. Held(u, w) /\ u.index = w.index
  BY <1>0, LetGoHolds
<1>a. v = [conn |-> u.conn, index |-> Restrict(u.index, DOMAIN u.index \ S), subscribed |-> u.subscribed \ S,
           rooted |-> u.rooted \ S, live |-> u.live, refresh |-> u.refresh, again |-> u.again,
           timer |-> u.timer, rows |-> u.rows]
  BY <1>0, <1>1 DEF Held, IsState
<1>2. Held(v, w) /\ v.index = [x \in DOMAIN w.index \ S |-> w.index[x]]
  BY <1>1, <1>a DEF Held, IsState, Restrict
<1>3. Forget(w, S) = v
  BY <1>0 DEF Forget
<1> QED BY <1>2, <1>3 DEF Known

\* What the hydration of the candidate keeps: the threads and their status.
Preserved(v, w) == Held(v, w) /\ Known(v.index) /\ \A s \in Session : SameRaw(v.index, w.index, s)

\* One turn of a sweep loses no thread and changes no status.
LEMMA DeriveStateKeeps ==
    ASSUME NEW w, NEW x, Preserved(x.w, w), NEW s
    PROVE  Preserved(DeriveState(x, s).w, w)
<1>1. CASE s \in x.done \/ s \notin DOMAIN x.w.index \/ (IsChild(s) /\ ~ParentRegistered(x.w.index, s))
  BY <1>1 DEF DeriveState
<1>2. CASE ~(s \in x.done \/ s \notin DOMAIN x.w.index \/ (IsChild(s) /\ ~ParentRegistered(x.w.index, s)))
  <2>1. PICK v : v = HydrateState(x.w, s, x.w.index[s], FALSE)
    OBVIOUS
  <2>2. DeriveState(x, s).w = v
    BY <1>2, <2>1 DEF DeriveState
  <2>3. s \in Session /\ s \in DOMAIN x.w.index /\ IsEntry(x.w.index[s]) /\ IsState(x.w) /\ Known(x.w.index)
    BY <1>2 DEF Preserved, Held, Known
  <2>4. Placed(v, x.w, s, x.w.index[s].raw)
    BY <2>1, <2>3, HydratePlaces
  <2>5. Held(v, w) /\ Known(v.index)
    BY <2>4 DEF Placed, Preserved, Held
  <2>6. \A y \in Session : SameRaw(v.index, w.index, y)
    BY <2>3, <2>4 DEF Placed, Preserved, SameRaw
  <2> QED BY <2>2, <2>5, <2>6 DEF Preserved
<1> QED BY <1>1, <1>2

\* The order in which the sweeps visit the threads, and how many visits.
Visit(order, n) == (SetToSeq(Session \ Children) \o order)[((n - 1) % Cardinality(Session)) + 1]
Turns == Cardinality(Session) * Cardinality(Session)

\* The sweeps are a recursion over as many numbers as they have turns.  It has
\* a value, since a shortest prefix without one has a shorter with one.
LEMMA SweepsUnfold ==
    ASSUME NEW w, NEW order
    PROVE  /\ Turns \in Nat
           /\ \E sweep : /\ DeriveCandidateEvents(w, order) = sweep[Turns].w
                         /\ sweep[0] = [w |-> w, done |-> {}]
                         /\ \A n \in 1..Turns : sweep[n] = DeriveState(sweep[n - 1], Visit(order, n))
<1> DEFINE N == Turns
           Turn(n, x) == DeriveState(x, Visit(order, n))
           start == [w |-> w, done |-> {}]
           Is(f, m) == f = [n \in 0..m |-> IF n = 0 THEN start ELSE Turn(n, f[n - 1])]
           Sweep == CHOOSE f : Is(f, N)
<1>1. N \in Nat
  <2>1. PICK size \in Nat : size = Cardinality(Session)
    BY SessionAssumption, FS_CardinalityType
  <2> QED BY <2>1 DEF Turns
<1>2. DeriveCandidateEvents(w, order) = Sweep[N].w
  BY DEF DeriveCandidateEvents, Visit, Turns
<1> HIDE DEF N, Turn, start
<1>5. \E f : Is(f, N)
  <2> DEFINE good == {m \in 0..N : \E f : Is(f, m)}
  <2>1. 0 \in good
    <3>1. Is([n \in 0..0 |-> start], 0)
      OBVIOUS
    <3> HIDE DEF Is
    <3>2. \E f : Is(f, 0)
      BY <3>1
    <3> QED BY <1>1, <3>2
  <2>2. ASSUME NEW m \in 1..N, m - 1 \in good PROVE m \in good
    <3>1. PICK f : Is(f, m - 1)
      BY <2>2
    <3>2. PICK g : g = [n \in 0..m |-> IF n = m THEN Turn(m, f[m - 1]) ELSE f[n]]
      OBVIOUS
    <3>3. ASSUME NEW n \in 0..m PROVE g[n] = IF n = 0 THEN start ELSE Turn(n, g[n - 1])
      <4>1. CASE n = m
        <5>1. m - 1 \in 0..m /\ m - 1 # m /\ m \in 0..m /\ m # 0
          BY <1>1
        <5>2. g[m] = Turn(m, f[m - 1]) /\ g[m - 1] = f[m - 1]
          BY <3>2, <5>1
        <5> QED BY <4>1, <5>1, <5>2
      <4>2. CASE n # m /\ n # 0
        <5>1. n \in 0..(m - 1) /\ n - 1 \in 0..m /\ n - 1 # m
          BY <1>1, <4>2
        <5>2. g[n] = f[n] /\ g[n - 1] = f[n - 1]
          BY <3>2, <4>2, <5>1
        <5>3. f[n] = Turn(n, f[n - 1])
          BY <3>1, <4>2, <5>1
        <5> QED BY <4>2, <5>2, <5>3
      <4>3. CASE n # m /\ n = 0
        <5>1. 0 \in 0..(m - 1) /\ 0 \in 0..m
          BY <1>1
        <5> QED BY <3>1, <3>2, <4>3, <5>1
      <4> QED BY <4>1, <4>2, <4>3
    <3>4. Is(g, m)
      BY <3>2, <3>3
    <3>5. m \in 0..N
      BY <1>1
    <3> QED BY <3>4, <3>5
  <2>3. 0..N \subseteq good
    <3> HIDE DEF good
    <3> QED BY <1>1, <2>1, <2>2, Stepwise
  <2> QED BY <1>1, <2>3
<1>6. Is(Sweep, N)
  BY <1>5
<1> HIDE DEF Sweep
<1>7. \A n \in 0..N : Sweep[n] = IF n = 0 THEN start ELSE Turn(n, Sweep[n - 1])
  BY <1>6
<1>8. Sweep[0] = start /\ \A n \in 1..N : Sweep[n] = Turn(n, Sweep[n - 1])
  BY <1>1, <1>7
<1> QED BY <1>1, <1>2, <1>8 DEF N, Turn, start

\* No turn is the first to lose a thread.
LEMMA SweepsKeep ==
    ASSUME NEW w, IsState(w), Known(w.index), NEW order
    PROVE  Preserved(DeriveCandidateEvents(w, order), w)
<1>1. PICK sweep : /\ DeriveCandidateEvents(w, order) = sweep[Turns].w
                   /\ sweep[0] = [w |-> w, done |-> {}]
                   /\ \A n \in 1..Turns : sweep[n] = DeriveState(sweep[n - 1], Visit(order, n))
  BY SweepsUnfold
<1> DEFINE kept == {n \in 0..Turns : Preserved(sweep[n].w, w)}
<1>2. Turns \in Nat
  BY SweepsUnfold
<1>3. 0 \in kept
  BY <1>1, <1>2 DEF Preserved, Held, SameRaw
<1>4. ASSUME NEW n \in 1..Turns, n - 1 \in kept PROVE n \in kept
  <2>1. PICK x : x = sweep[n - 1]
    OBVIOUS
  <2>2. sweep[n] = DeriveState(x, Visit(order, n)) /\ Preserved(x.w, w)
    BY <1>1, <1>4, <2>1
  <2>3. Preserved(DeriveState(x, Visit(order, n)).w, w)
    BY <2>2, DeriveStateKeeps
  <2>4. Preserved(sweep[n].w, w)
    BY <2>2, <2>3
  <2>5. n \in 0..Turns
    BY <1>2
  <2> QED BY <2>4, <2>5
<1>5. Turns \in kept
  <2>1. 0..Turns \subseteq kept
    <3> HIDE DEF kept
    <3> QED BY <1>2, <1>3, <1>4, Stepwise
  <2> QED BY <1>2, <2>1
<1> QED BY <1>1, <1>5

\* What a notification does to the index: nothing to other threads, and what
\* it says to its own; or it brings the next refresh forward, which one that
\* takes more than the thread it names always does.
Effect(v, w, m) ==
    /\ v.conn = w.conn /\ v.refresh = w.refresh /\ Known(v.index)
    /\ \/ v.timer = "now"
       \/ /\ ~Alarm(m) /\ v.timer = w.timer
          /\ \A s \in Session \ {m.thread} : SameRaw(v.index, w.index, s)
          /\ m.kind \in {"started", "status"} =>
                IF m.thread \in DOMAIN v.index THEN v.index[m.thread].raw = m.raw ELSE m.raw = "closed"

\* A started thread is put into the index with its status.
LEMMA StartedEffect ==
    ASSUME NEW w, IsState(w), Known(w.index), NEW m, NEW s \in Session, m.thread = s, ~Alarm(m),
           NEW raw, m.raw = raw
    PROVE  Effect(HandleStarted(w, s, raw), w, m)
<1>1. PICK e, u, v, r, d :
        /\ e = ParseThread([raw |-> raw], Previous(w.index, s))
        /\ u = LetGo(w, DOMAIN w.index) /\ v = HydrateState(u, s, e, TRUE) /\ r = Remember(v)
        /\ d = [r EXCEPT !.live[s] = [own |-> Null, answered |-> FALSE]]
  OBVIOUS
<1>2. IsEntry(e) /\ e.raw = raw
  BY <1>1 DEF ParseThread, IsEntry
<1>3. Held(u, w) /\ u.index = w.index
  BY <1>1, LetGoHolds
<1>4. Placed(v, u, s, raw)
  BY <1>1, <1>2, <1>3, HydratePlaces DEF Held
<1>5. Held(r, v) /\ r.index = v.index
  BY <1>1, <1>4, RememberHolds DEF Placed, Held
<1>6. d.conn = r.conn /\ d.refresh = r.refresh /\ d.index = r.index /\ d.timer = r.timer
  BY <1>1, <1>5 DEF Held, IsState
<1>7. Effect(r, w, m) /\ Effect(d, w, m)
  BY <1>3, <1>4, <1>5, <1>6 DEF Effect, Placed, Held, SameRaw
<1>8. HandleStarted(w, s, raw) = IF s \in w.subscribed THEN r ELSE d
  BY <1>1 DEF HandleStarted
<1> QED BY <1>7, <1>8

\* A status is put into the index, or takes a closed root out of it.
LEMMA StatusEffect ==
    ASSUME NEW w, IsState(w), Known(w.index), NEW m, NEW s \in DOMAIN w.index, m.thread = s,
           ~Alarm(m), NEW raw, m.raw = raw
    PROVE  Effect(HandleStatus(w, s, raw), w, m)
<1>1. PICK e, u : /\ e = [w.index[s] EXCEPT !.raw = raw, !.failed = @ /\ raw # "active"]
                  /\ u = [w EXCEPT !.rows = SessionEnd(@, s)]
  OBVIOUS
<1>2. s \in Session /\ IsEntry(w.index[s])
  BY DEF Known
<1>3. e = [raw |-> raw, failed |-> w.index[s].failed /\ raw # "active",
           registered |-> w.index[s].registered, cleaned |-> w.index[s].cleaned]
  BY <1>1, <1>2 DEF IsEntry
<1>4. IsEntry(e) /\ e.raw = raw
  BY <1>3 DEF IsEntry
<1>5. u = [conn |-> w.conn, index |-> w.index, subscribed |-> w.subscribed, rooted |-> w.rooted,
           live |-> w.live, refresh |-> w.refresh, again |-> w.again, timer |-> w.timer,
           rows |-> SessionEnd(w.rows, s)]
  BY <1>1 DEF IsState
<1>6. IsState(u) /\ u.index = w.index /\ u.conn = w.conn /\ u.refresh = w.refresh /\ u.timer = w.timer
  BY <1>5 DEF IsState
<1>7. \A v : Placed(v, w, s, raw) => Effect(v, w, m)
  BY DEF Placed, Held, Effect
<1>8. /\ Effect(Cleanup(w, s, e), w, m) /\ Effect(HydrateState(w, s, e, TRUE), w, m)
      /\ \A tbl : Effect(Put(w, s, e, tbl), w, m)
  BY <1>2, <1>4, <1>7, CleanupPlaces, HydratePlaces, PutPlaces
<1>9. raw = "closed" => Effect(Forget(u, {s}), w, m)
  <2>1. /\ Held(Forget(u, {s}), u) /\ Known(Forget(u, {s}).index)
        /\ DOMAIN Forget(u, {s}).index = DOMAIN u.index \ {s}
        /\ \A x \in DOMAIN u.index \ {s} : Forget(u, {s}).index[x] = u.index[x]
    BY <1>6, ForgetHolds
  <2> QED BY <1>6, <2>1 DEF Effect, Held, SameRaw
<1>10. HandleStatus(w, s, raw) = IF IsChild(s) /\ EffectiveStatus(e) = "idle" THEN Cleanup(w, s, e)
                                 ELSE IF IsChild(s) /\ ~e.registered THEN HydrateState(w, s, e, TRUE)
                                 ELSE IF raw = "closed" THEN Forget(u, {s})
                                 ELSE IF raw = "active" THEN Put(w, s, e, ApplyStatusEvent(w.rows, s, "Activity", 0))
                                 ELSE Put(w, s, e, StatusObserved(w.rows, s, EffectiveStatus(e), 0))
  BY <1>1 DEF HandleStatus
<1> QED BY <1>8, <1>9, <1>10

\* The notices of a turn are followed by a status: what they say does not
\* matter, as long as they say it of their thread only.
LEMMA TurnEffect ==
    ASSUME NEW w, IsState(w), Known(w.index), NEW m, NEW s \in DOMAIN w.index, m.thread = s,
           m.kind \in {"running", "completed", "failed"}, NEW outcome
    PROVE  Effect(HandleRunning(w, s), w, m) /\ Effect(HandleTerminal(w, s, outcome), w, m)
<1>1. PICK e, f, d : /\ e = [w.index[s] EXCEPT !.raw = "active", !.failed = FALSE]
                     /\ f = [w.index[s] EXCEPT !.failed = TRUE, !.raw = "idle"]
                     /\ d = [w.index[s] EXCEPT !.failed = FALSE]
  OBVIOUS
<1>2. s \in Session /\ IsEntry(w.index[s])
  BY DEF Known
<1>3. /\ e = [raw |-> "active", failed |-> FALSE,
              registered |-> w.index[s].registered, cleaned |-> w.index[s].cleaned]
      /\ f = [raw |-> "idle", failed |-> TRUE,
              registered |-> w.index[s].registered, cleaned |-> w.index[s].cleaned]
      /\ d = [raw |-> w.index[s].raw, failed |-> FALSE,
              registered |-> w.index[s].registered, cleaned |-> w.index[s].cleaned]
  BY <1>1, <1>2 DEF IsEntry
<1>4. IsEntry(e) /\ IsEntry(f) /\ IsEntry(d)
  BY <1>3 DEF IsEntry
<1>5. \A v, raw : Placed(v, w, s, raw) => Effect(v, w, m)
  BY DEF Placed, Held, Effect, Alarm
<1>6. /\ Effect(HydrateState(w, s, e, TRUE), w, m) /\ Effect(Cleanup(w, s, w.index[s]), w, m)
      /\ \A tbl : /\ Effect(Put(w, s, e, tbl), w, m) /\ Effect(Put(w, s, f, tbl), w, m)
                  /\ Effect(Put(w, s, d, tbl), w, m)
  BY <1>2, <1>4, <1>5, CleanupPlaces, HydratePlaces, PutPlaces
<1> QED BY <1>1, <1>6 DEF HandleRunning, HandleTerminal

\* A closing always asks for a refresh.
LEMMA ClosedEffect ==
    ASSUME NEW w, IsState(w), Known(w.index), NEW m, NEW s
    PROVE  Effect(HandleClosed(w, s), w, m)
<1> DEFINE gone == IF IsChild(s) THEN {s} ELSE Descendants(w, s)
           stops == DeleteRows(w.rows, {x \in gone : ~w.index[x].cleaned} \ TopLevel(w.rows))
           ends == IF IsChild(s) THEN stops ELSE SessionEnd(stops, s)
<1>1. HandleClosed(w, s) = ScheduleRefresh(Forget([w EXCEPT !.rows = ends], gone \cup {s}), "now")
  BY DEF HandleClosed
<1> HIDE DEF gone, ends
<1>2. PICK u, v, d : u = [w EXCEPT !.rows = ends] /\ v = Forget(u, gone \cup {s}) /\ d = [v EXCEPT !.timer = "now"]
  OBVIOUS
<1>3. u = [conn |-> w.conn, index |-> w.index, subscribed |-> w.subscribed, rooted |-> w.rooted,
           live |-> w.live, refresh |-> w.refresh, again |-> w.again, timer |-> w.timer, rows |-> ends]
  BY <1>2 DEF IsState
<1>4. IsState(u) /\ u.index = w.index /\ u.conn = w.conn /\ u.refresh = w.refresh
  BY <1>3 DEF IsState
<1>5. Held(v, u) /\ Known(v.index)
  BY <1>2, <1>4, ForgetHolds
<1>6. d.conn = w.conn /\ d.refresh = w.refresh /\ d.index = v.index /\ d.timer = "now"
  BY <1>2, <1>4, <1>5 DEF Held, IsState
<1>7. HandleClosed(w, s) = d
  BY <1>1, <1>2 DEF ScheduleRefresh
<1> QED BY <1>5, <1>6, <1>7 DEF Effect

\* Every notification has the effect stated, known thread or not.
LEMMA NoticeEffect ==
    ASSUME NEW w, IsState(w), Known(w.index), NEW m \in Message, IsNotice(m)
    PROVE  Effect(HandleNotification(w, m), w, m)
<1>1. PICK s \in Session : m.thread = s
  BY DEF Message, IsNotice, NoticeKind
<1>2. m.kind \in NoticeKind
  BY DEF IsNotice
<1>3. PICK d : d = [w EXCEPT !.timer = "now"]
  OBVIOUS
<1>4. d.conn = w.conn /\ d.refresh = w.refresh /\ d.index = w.index /\ d.timer = "now"
  BY <1>3 DEF IsState
<1>5. Effect(ScheduleRefresh(w, "now"), w, m)
  BY <1>3, <1>4 DEF ScheduleRefresh, Effect
<1>6. CASE m.kind = "started"
  BY <1>1, <1>6, StartedEffect DEF HandleNotification, Alarm
<1>7. CASE m.kind = "invalidated"
  BY <1>5, <1>7 DEF HandleNotification
<1>8. CASE m.kind \notin {"started", "invalidated"} /\ s \notin DOMAIN w.index
  BY <1>1, <1>5, <1>8 DEF HandleNotification
<1>9. CASE m.kind = "status" /\ s \in DOMAIN w.index
  BY <1>1, <1>9, StatusEffect DEF HandleNotification, Alarm
<1>10. CASE m.kind = "running" /\ s \in DOMAIN w.index
  BY <1>1, <1>10, TurnEffect DEF HandleNotification
<1>11. CASE m.kind = "closed" /\ s \in DOMAIN w.index
  BY <1>1, <1>11, ClosedEffect DEF HandleNotification
<1>12. CASE m.kind \in {"completed", "failed"} /\ s \in DOMAIN w.index
  BY <1>1, <1>12, TurnEffect DEF HandleNotification
<1> QED BY <1>2, <1>6, <1>7, <1>8, <1>9, <1>10, <1>11, <1>12 DEF NoticeKind

-----------------------------------------------------------------------------
(***************************************************************************)
(* Deliveries.                                                             *)
(***************************************************************************)
\* A delivery leaves the rest of the wire as it was; whoever is told no more
\* heard last of itself in the message delivered.
LEMMA Delivered ==
    ASSUME EvenerInv, wire # <<>>, wire' = Tail(wire), UNCHANGED <<hub, conn>>
    PROVE  /\ HubInv' /\ WireInv' /\ Visible' = Visible
           /\ \A s \in Session : /\ IsTold(s)' => IsTold(s)
                                 /\ IsTold(s) => IsTold(s)' \/ Tells(wire[1], s)
           /\ \A s \in Session : wire[1].thread = s /\ ~IsTold(s)' => ~Superseded(1)
<1>1. /\ wire' \in Seq(Message) /\ 1 \in DOMAIN wire /\ \A i \in DOMAIN wire : i \in Nat /\ 1 <= i
      /\ \A i \in DOMAIN wire' : i \in Nat /\ i + 1 \in DOMAIN wire /\ wire'[i] = wire[i + 1]
      /\ \A i \in DOMAIN wire : i = 1 \/ (i - 1 \in DOMAIN wire' /\ wire'[i - 1] = wire[i])
  BY Shifted DEF EvenerInv
<1>2. HubInv' /\ Visible' = Visible /\ conn = "up"
  BY DEF EvenerInv, HubInv, HubValid, Visible, WireInv
<1>3. \A s \in Session : /\ IsTold(s)' => IsTold(s)
                         /\ IsTold(s) => IsTold(s)' \/ Tells(wire[1], s)
  <2> SUFFICES ASSUME NEW s \in Session
               PROVE  /\ IsTold(s)' => IsTold(s)
                      /\ IsTold(s) => IsTold(s)' \/ Tells(wire[1], s)
    OBVIOUS
  <2>1. \A i \in DOMAIN wire' : Tells(wire'[i], s) => \E j \in DOMAIN wire : Tells(wire[j], s)
    BY <1>1
  <2>2. \A j \in DOMAIN wire : Tells(wire[j], s) => j = 1 \/ \E i \in DOMAIN wire' : Tells(wire'[i], s)
    BY <1>1
  <2> QED BY <2>1, <2>2 DEF IsTold
<1>4. \A s \in Session : wire[1].thread = s /\ ~IsTold(s)' => ~Superseded(1)
  <2> SUFFICES ASSUME NEW j \in DOMAIN wire, 1 < j, Tells(wire[j], wire[1].thread)
               PROVE  \E i \in DOMAIN wire' : Tells(wire'[i], wire[1].thread)
    BY DEF Superseded, IsTold, Tells
  <2>1. j # 1
    OBVIOUS
  <2> QED BY <1>1, <2>1
<1>5. ASSUME NEW i \in DOMAIN wire', ~IsReply(wire'[i]), ~Alarm(wire'[i]), ~Superseded(i)'
      PROVE  LastWord(wire[i], wire[i].thread)'
  <2>1. i \in Nat /\ i + 1 \in DOMAIN wire /\ wire'[i] = wire[i + 1]
    BY <1>1
  <2>2. ASSUME Superseded(i + 1) PROVE FALSE
    <3>1. PICK j \in DOMAIN wire : i + 1 < j /\ Tells(wire[j], wire[i + 1].thread)
      BY <2>2 DEF Superseded
    <3>2. j \in Nat /\ j # 1
      BY <1>1, <2>1, <3>1
    <3>3. j - 1 \in DOMAIN wire' /\ wire'[j - 1] = wire[j] /\ i < j - 1
      BY <1>1, <2>1, <3>1, <3>2
    <3> QED BY <1>5, <2>1, <3>1, <3>3 DEF Superseded
  <2>3. LastWord(wire[i + 1], wire[i + 1].thread)
    BY <1>5, <2>1, <2>2 DEF EvenerInv, WireInv
  <2> QED BY <2>1, <2>3 DEF LastWord
<1>6. WireInv'
  BY <1>1, <1>2, <1>5 DEF WireInv
<1> QED BY <1>2, <1>3, <1>4, <1>6

\* Replies keep their order, and a notice ahead of them stays ahead.
LEMMA RepliesShift ==
    ASSUME EvenerInv, wire # <<>>, wire' = Tail(wire)
    PROVE  /\ Replied' => Replied
           /\ \A i \in DOMAIN wire' : i \in Nat /\ i + 1 \in DOMAIN wire /\ wire'[i] = wire[i + 1]
           /\ (\A i, j \in DOMAIN wire : IsReply(wire[i]) /\ IsReply(wire[j]) => i = j) =>
                 (\A i, j \in DOMAIN wire' : IsReply(wire'[i]) /\ IsReply(wire'[j]) => i = j)
           /\ ~IsNotice(wire[1]) /\ Doomed /\ UNCHANGED refresh => Doomed'
<1>1. /\ 1 \in DOMAIN wire /\ \A i \in DOMAIN wire : i \in Nat /\ 1 <= i
      /\ \A i \in DOMAIN wire' : i \in Nat /\ i + 1 \in DOMAIN wire /\ wire'[i] = wire[i + 1]
      /\ \A i \in DOMAIN wire : i = 1 \/ (i - 1 \in DOMAIN wire' /\ wire'[i - 1] = wire[i])
  BY Shifted DEF EvenerInv
<1>2. Replied' => Replied
  BY <1>1 DEF Replied
<1>3. ASSUME \A i, j \in DOMAIN wire : IsReply(wire[i]) /\ IsReply(wire[j]) => i = j,
             NEW i \in DOMAIN wire', NEW j \in DOMAIN wire', IsReply(wire'[i]), IsReply(wire'[j])
      PROVE  i = j
  <2>1. i + 1 = j + 1 /\ i \in Nat /\ j \in Nat
    BY <1>1, <1>3
  <2> QED BY <2>1
<1>4. ASSUME ~IsNotice(wire[1]), NEW i \in DOMAIN wire, IsNotice(wire[i]),
             \A j \in DOMAIN wire : IsReply(wire[j]) => i < j
      PROVE  \E k \in DOMAIN wire' : /\ IsNotice(wire'[k])
                                     /\ \A j \in DOMAIN wire' : IsReply(wire'[j]) => k < j
  <2>1. i - 1 \in DOMAIN wire' /\ wire'[i - 1] = wire[i] /\ i \in Nat
    BY <1>1, <1>4
  <2>2. ASSUME NEW j \in DOMAIN wire', IsReply(wire'[j]) PROVE i - 1 < j
    <3>1. j \in Nat /\ j + 1 \in DOMAIN wire /\ IsReply(wire[j + 1])
      BY <1>1, <2>2
    <3>2. i < j + 1
      BY <1>4, <3>1
    <3> QED BY <2>1, <3>1, <3>2
  <2> QED BY <1>4, <2>1, <2>2
<1>5. ~IsNotice(wire[1]) /\ Doomed /\ UNCHANGED refresh => Doomed'
  BY <1>4 DEF Doomed
<1> QED BY <1>1, <1>2, <1>3, <1>5

\* A notification makes a refresh under way stale, and is otherwise right of
\* the thread it is about if it is the last about it.
LEMMA DeliverNoticeInv ==
    ASSUME EvenerInv, Deliver, IsNotice(Head(wire))
    PROVE  EvenerInv'
<1>1. PICK m : m = wire[1]
  OBVIOUS
<1>2. /\ wire # <<>> /\ UNCHANGED hub /\ Head(wire) = m /\ m \in Message
  BY <1>1, Shifted DEF Deliver, EvenerInv, WireInv
<1>3. IsNotice(m) /\ m.kind \notin {"refreshReply", "liveReply"}
  BY <1>2 DEF IsNotice, NoticeKind
<1>4. PICK v, w : /\ v = InvalidateRefreshGeneration(Now) /\ w = HandleNotification(v, m)
                  /\ conn' = w.conn /\ index' = w.index /\ refresh' = w.refresh /\ timer' = w.timer
                  /\ live' = w.live
  <2>1. PICK order \in Orders : Enter(HandleMessage(Now, m, order))
    BY <1>2 DEF Deliver
  <2>2. HandleMessage(Now, m, order) = HandleNotification(InvalidateRefreshGeneration(Now), m)
    BY <1>3 DEF HandleMessage
  <2> QED BY <2>1, <2>2 DEF Enter
<1>5. /\ IsState(v) /\ v.conn = conn /\ v.index = index
      /\ IF refresh = NoRefresh THEN v.refresh = NoRefresh /\ v.timer = timer
         ELSE v.refresh = [refresh EXCEPT !.stale = TRUE] /\ v.timer = "now"
  <2>1. CASE refresh = NoRefresh
    BY <1>4, <2>1 DEF InvalidateRefreshGeneration, Now, IsState
  <2>2. CASE refresh # NoRefresh
    <3>1. v = [conn |-> conn, index |-> index, subscribed |-> subscribed, rooted |-> rooted, live |-> live,
               refresh |-> [refresh EXCEPT !.stale = TRUE], again |-> again, timer |-> "now", rows |-> rows]
      BY <1>4, <2>2 DEF InvalidateRefreshGeneration, ScheduleRefresh, Now
    <3> QED BY <2>2, <3>1 DEF IsState
  <2> QED BY <2>1, <2>2
<1>6. Effect(w, v, m)
  BY <1>2, <1>3, <1>4, <1>5, NoticeEffect DEF EvenerInv, IndexInv
<1>7. conn' = conn /\ refresh' = v.refresh /\ Known(index')
  BY <1>4, <1>5, <1>6 DEF Effect
<1>8. conn = "up"
  BY <1>2 DEF EvenerInv, WireInv
<1>9. wire' = Tail(wire)
  BY <1>7, <1>8 DEF Deliver
<1>10. /\ HubInv' /\ WireInv' /\ Visible' = Visible
       /\ \A s \in Session : /\ IsTold(s)' => IsTold(s)
                             /\ IsTold(s) => IsTold(s)' \/ Tells(m, s)
       /\ \A s \in Session : m.thread = s /\ ~IsTold(s)' => ~Superseded(1)
  BY <1>1, <1>2, <1>7, <1>9, Delivered
<1>11. CASE refresh = NoRefresh
  <2>1. refresh' = NoRefresh /\ ~Replied'
    BY <1>2, <1>5, <1>7, <1>9, <1>11, RepliesShift DEF EvenerInv, RefreshInv, Refreshing
  <2>2. RefreshInv' /\ GatherInv'
    BY <2>1 DEF RefreshInv, GatherInv, Refreshing
  <2>3. ASSUME timer' = "interval", NEW s \in Session, ~IsTold(s)' PROVE IndexRight(s)'
    <3>1. /\ timer = "interval" /\ ~Alarm(m)
          /\ \A x \in Session \ {m.thread} : SameRaw(index', index, x)
          /\ m.kind \in {"started", "status"} =>
                IF m.thread \in DOMAIN index' THEN index'[m.thread].raw = m.raw ELSE m.raw = "closed"
      BY <1>4, <1>5, <1>6, <1>11, <2>3 DEF Effect
    <3>2. CASE s # m.thread
      <4>1. ~IsTold(s)
        BY <1>10, <2>3, <3>1, <3>2 DEF Tells
      <4>2. IndexRight(s)
        BY <3>1, <4>1 DEF EvenerInv, IndexInv
      <4> QED BY <1>2, <1>10, <3>1, <3>2, <4>2 DEF IndexRight, SameRaw
    <3>3. CASE s = m.thread
      <4>1. ~Superseded(1)
        BY <1>10, <2>3, <3>3
      <4>2. 1 \in DOMAIN wire
        BY <1>2, <1>9, Shifted DEF EvenerInv
      <4>3. LastWord(m, s)
        BY <1>1, <1>3, <3>1, <3>3, <4>1, <4>2 DEF EvenerInv, WireInv, IsReply
      <4>4. m.kind \in {"started", "status"} /\ m.raw = hub[s].raw
        BY <1>3, <4>3 DEF LastWord
      <4>5. m.raw = "closed" => s \notin Visible
        BY <4>4 DEF Visible
      <4> QED BY <1>2, <1>10, <3>1, <3>3, <4>4, <4>5 DEF IndexRight
    <3> QED BY <3>2, <3>3
  <2>4. IndexInv'
    BY <1>7, <2>3 DEF IndexInv
  <2> QED BY <1>10, <2>2, <2>4 DEF EvenerInv
<1>12. CASE refresh # NoRefresh
  <2>1. timer' = "now"
    BY <1>4, <1>5, <1>6, <1>12 DEF Effect
  <2>2. IsRefresh(refresh) /\ (Replied => refresh.call = "sent")
        /\ (refresh.call = "taken" => IsAnswer(refresh, refresh.at, refresh.answer))
        /\ (\A i, j \in DOMAIN wire : IsReply(wire[i]) /\ IsReply(wire[j]) => i = j)
        /\ \A i \in DOMAIN wire : IsReply(wire[i]) => IsAnswer(refresh, wire[i].thread, wire[i].answer)
    BY <1>12 DEF EvenerInv, RefreshInv, Refreshing
  <2>3. refresh' = [step |-> refresh.step, candidate |-> refresh.candidate, todo |-> refresh.todo,
                    archived |-> refresh.archived, stale |-> TRUE, call |-> refresh.call,
                    at |-> refresh.at, answer |-> refresh.answer]
    BY <1>5, <1>7, <1>12, <2>2 DEF IsRefresh
  <2>4. IsRefresh(refresh') /\ refresh' # NoRefresh
    BY <2>2, <2>3 DEF IsRefresh, NoRefresh
  <2>5. \A at, answer : IsAnswer(refresh, at, answer) => IsAnswer(refresh', at, answer)
    BY <2>3 DEF IsAnswer
  <2>6. /\ Replied' => Replied
        /\ \A i \in DOMAIN wire' : i + 1 \in DOMAIN wire /\ wire'[i] = wire[i + 1]
        /\ \A i, j \in DOMAIN wire' : IsReply(wire'[i]) /\ IsReply(wire'[j]) => i = j
    BY <1>2, <1>9, <2>2, RepliesShift
  <2>7. \A i \in DOMAIN wire' : IsReply(wire'[i]) => IsAnswer(refresh', wire'[i].thread, wire'[i].answer)
    BY <2>2, <2>5, <2>6
  <2>8. refresh'.call = "taken" => IsAnswer(refresh', refresh'.at, refresh'.answer)
    BY <2>2, <2>3, <2>5
  <2>9. RefreshInv'
    <3>1. conn' = "up" /\ timer' # "interval" /\ (Replied' => refresh'.call = "sent") /\ Refreshing'
      BY <1>7, <1>8, <2>1, <2>2, <2>3, <2>4, <2>6 DEF Refreshing
    <3> QED BY <2>4, <2>6, <2>7, <2>8, <3>1 DEF RefreshInv
  <2>10. Doomed'
    BY <2>3 DEF Doomed
  <2>11. GatherInv' /\ IndexInv'
    BY <1>7, <2>1, <2>10 DEF GatherInv, IndexInv
  <2> QED BY <1>10, <2>9, <2>11 DEF EvenerInv
<1> QED BY <1>11, <1>12

\* What an answer of subscribeLive does to the index: nothing, or it puts its
\* thread there as the answer says.
LEMMA LiveEffect ==
    ASSUME EvenerInv, NEW m, NEW s \in Session, m.thread = s, NEW w, w = HandleLiveReply(Now, m)
    PROVE  /\ w.conn = conn /\ w.refresh = refresh /\ Known(w.index)
           /\ w.timer = "now" \/ w.timer = timer
           /\ \/ w.index = index
              \/ /\ m.answer # Null /\ s \in DOMAIN w.index /\ w.index[s].raw = m.answer.raw
                 /\ \A x \in Session \ {s} : SameRaw(w.index, index, x)
<1>0. Known(index)
  BY DEF EvenerInv, IndexInv
<1>1. PICK own, done, sub :
        /\ own = IF Now.live[s].own = Null THEN Now.index[s] ELSE Now.live[s].own
        /\ done = [Now EXCEPT !.live[s] = Null]
        /\ sub = [done EXCEPT !.subscribed = @ \cup {s}]
  OBVIOUS
<1>2. done = [conn |-> conn, index |-> index, subscribed |-> subscribed, rooted |-> rooted,
              live |-> [live EXCEPT ![s] = Null], refresh |-> refresh, again |-> again, timer |-> timer,
              rows |-> rows]
  BY <1>1 DEF Now
<1>3. /\ IsState(done) /\ done.conn = conn /\ done.index = index /\ done.refresh = refresh
      /\ done.timer = timer
  BY <1>2 DEF IsState
<1>4. /\ IsState(sub) /\ sub.conn = conn /\ sub.index = index /\ sub.refresh = refresh
      /\ sub.timer = timer
  <2>1. sub = [conn |-> done.conn, index |-> done.index, subscribed |-> done.subscribed \cup {s},
               rooted |-> done.rooted, live |-> done.live, refresh |-> done.refresh,
               again |-> done.again, timer |-> done.timer, rows |-> done.rows]
    BY <1>1, <1>3 DEF IsState
  <2> QED BY <1>3, <2>1 DEF IsState
<1>5. CASE live[s] = Null
  <2>1. w = Now
    BY <1>5 DEF HandleLiveReply, Now
  <2> QED BY <1>0, <2>1 DEF Now
<1>6. CASE live[s] # Null /\ m.answer = Null
  <2>1. PICK d : d = [done EXCEPT !.timer = "now"]
    OBVIOUS
  <2>2. d.conn = conn /\ d.refresh = refresh /\ d.index = index /\ d.timer = "now"
    BY <1>2, <2>1
  <2>3. w = d
    BY <1>1, <1>6, <2>1 DEF HandleLiveReply, ScheduleRefresh, Now
  <2> QED BY <1>0, <2>2, <2>3
<1>7. CASE live[s] # Null /\ m.answer # Null
  <2>1. PICK e : e = ParseThread(m.answer, own)
    OBVIOUS
  <2>2. IsEntry(e) /\ e.raw = m.answer.raw
    BY <2>1 DEF ParseThread, IsEntry
  <2>3. w = HydrateState(sub, s, e, FALSE)
    BY <1>1, <1>7, <2>1 DEF HandleLiveReply, Now
  <2>4. Placed(w, sub, s, m.answer.raw)
    BY <1>0, <1>4, <2>2, <2>3, HydratePlaces
  <2> QED BY <1>4, <1>7, <2>4 DEF Placed, Held
<1> QED BY <1>5, <1>6, <1>7

\* A late answer of subscribeLive that nothing on the wire overtakes is right.
LEMMA DeliverLiveInv ==
    ASSUME EvenerInv, Deliver, Head(wire).kind = "liveReply"
    PROVE  EvenerInv'
<1>1. PICK m, s : m = wire[1] /\ s = m.thread
  OBVIOUS
<1>2. /\ wire # <<>> /\ UNCHANGED hub /\ Head(wire) = m /\ m \in Message /\ 1 \in DOMAIN wire
  BY <1>1, Shifted DEF Deliver, EvenerInv, WireInv
<1>3. m.kind = "liveReply" /\ ~IsNotice(m) /\ ~IsReply(m) /\ ~Alarm(m) /\ s \in Session
  BY <1>1, <1>2 DEF IsNotice, NoticeKind, IsReply, Alarm, Message
<1>4. PICK w : /\ w = HandleLiveReply(Now, m)
               /\ conn' = w.conn /\ index' = w.index /\ refresh' = w.refresh /\ timer' = w.timer
               /\ live' = w.live
  <2>1. PICK order \in Orders : Enter(HandleMessage(Now, m, order))
    BY <1>2 DEF Deliver
  <2>2. HandleMessage(Now, m, order) = HandleLiveReply(Now, m)
    BY <1>3 DEF HandleMessage
  <2> QED BY <2>1, <2>2 DEF Enter
<1>5. /\ w.conn = conn /\ w.refresh = refresh /\ Known(w.index)
      /\ w.timer = "now" \/ w.timer = timer
      /\ \/ w.index = index
         \/ /\ m.answer # Null /\ s \in DOMAIN w.index /\ w.index[s].raw = m.answer.raw
            /\ \A x \in Session \ {s} : SameRaw(w.index, index, x)
  BY <1>1, <1>3, <1>4, LiveEffect
<1>6. conn = "up"
  BY <1>2 DEF EvenerInv, WireInv
<1>7. wire' = Tail(wire) /\ UNCHANGED <<conn, refresh>>
  BY <1>4, <1>5, <1>6 DEF Deliver
<1>8. /\ HubInv' /\ WireInv' /\ Visible' = Visible
      /\ \A x \in Session : IsTold(x)' <=> IsTold(x)
      /\ \A x \in Session : m.thread = x /\ ~IsTold(x)' => ~Superseded(1)
  BY <1>1, <1>2, <1>3, <1>7, Delivered DEF Tells
<1>9. /\ Replied' => Replied
      /\ \A i \in DOMAIN wire' : i + 1 \in DOMAIN wire /\ wire'[i] = wire[i + 1]
      /\ (\A i, j \in DOMAIN wire : IsReply(wire[i]) /\ IsReply(wire[j]) => i = j) =>
             (\A i, j \in DOMAIN wire' : IsReply(wire'[i]) /\ IsReply(wire'[j]) => i = j)
      /\ Doomed => Doomed'
  BY <1>1, <1>2, <1>3, <1>7, RepliesShift
<1>10. RefreshInv'
  <2>1. Replied' => Refreshing'
    BY <1>7, <1>9 DEF EvenerInv, RefreshInv, Refreshing
  <2> SUFFICES ASSUME Refreshing'
      PROVE  (/\ IsRefresh(refresh) /\ conn = "up" /\ timer # "interval"
              /\ refresh.call = "taken" => IsAnswer(refresh, refresh.at, refresh.answer)
              /\ Replied => refresh.call = "sent"
              /\ \A i, j \in DOMAIN wire : IsReply(wire[i]) /\ IsReply(wire[j]) => i = j
              /\ \A i \in DOMAIN wire : IsReply(wire[i]) => IsAnswer(refresh, wire[i].thread, wire[i].answer))'
    BY <2>1 DEF RefreshInv
  <2>2. /\ IsRefresh(refresh) /\ conn = "up" /\ timer # "interval"
        /\ refresh.call = "taken" => IsAnswer(refresh, refresh.at, refresh.answer)
        /\ Replied => refresh.call = "sent"
        /\ \A i, j \in DOMAIN wire : IsReply(wire[i]) /\ IsReply(wire[j]) => i = j
        /\ \A i \in DOMAIN wire : IsReply(wire[i]) => IsAnswer(refresh, wire[i].thread, wire[i].answer)
    BY <1>7 DEF EvenerInv, RefreshInv, Refreshing
  <2> QED BY <1>4, <1>5, <1>7, <1>9, <2>2
<1>11. GatherInv'
  <2> SUFFICES ASSUME Refreshing', ~Doomed', NEW x \in Session, ~IsTold(x)'
               PROVE  (/\ refresh.step # "list" => GatheredRight(refresh, x)
                       /\ refresh.call = "taken" => AnswerRight(refresh, x, refresh.at, refresh.answer)
                       /\ \A i \in DOMAIN wire : IsReply(wire[i]) =>
                              AnswerRight(refresh, x, wire[i].thread, wire[i].answer))'
    BY DEF GatherInv
  <2>1. Refreshing /\ ~Doomed /\ ~IsTold(x)
    BY <1>7, <1>8, <1>9 DEF Refreshing
  <2>2. /\ refresh.step # "list" => GatheredRight(refresh, x)
        /\ refresh.call = "taken" => AnswerRight(refresh, x, refresh.at, refresh.answer)
        /\ \A i \in DOMAIN wire : IsReply(wire[i]) => AnswerRight(refresh, x, wire[i].thread, wire[i].answer)
    BY <2>1 DEF EvenerInv, GatherInv
  <2> QED BY <1>2, <1>7, <1>8, <1>9, <2>2 DEF GatheredRight, AnswerRight
<1>12. ASSUME timer' = "interval", NEW x \in Session, ~IsTold(x)' PROVE IndexRight(x)'
  <2>1. IndexRight(x)
    BY <1>4, <1>5, <1>8, <1>12 DEF EvenerInv, IndexInv
  <2>2. CASE index' = index
    BY <1>2, <1>8, <2>1, <2>2 DEF IndexRight
  <2>3. CASE index' # index /\ x # s
    BY <1>2, <1>4, <1>5, <1>8, <2>1, <2>3 DEF IndexRight, SameRaw
  <2>4. CASE index' # index /\ x = s
    <3>1. m.answer # Null /\ s \in DOMAIN index' /\ index'[s].raw = m.answer.raw
      BY <1>4, <1>5, <2>4
    <3>2. ~Superseded(1)
      BY <1>1, <1>8, <1>12, <2>4
    <3>3. LastWord(m, s)
      BY <1>1, <1>2, <1>3, <3>2 DEF EvenerInv, WireInv
    <3> QED BY <1>2, <1>3, <2>4, <3>1, <3>3 DEF IndexRight, LastWord
  <2> QED BY <2>2, <2>3, <2>4
<1>13. IndexInv'
  BY <1>4, <1>5, <1>12 DEF IndexInv
<1> QED BY <1>8, <1>10, <1>11, <1>13 DEF EvenerInv

\* An accepted candidate is the index, less what is below an archived root.
KeptOf(r) == {s \in DOMAIN r.candidate : Above[s] \cap r.archived = {}}
Accepted(v, w) ==
    /\ v.conn = w.conn /\ v.refresh = NoRefresh /\ Known(v.index)
    /\ \A s \in Session : /\ s \in DOMAIN v.index <=> s \in KeptOf(w.refresh)
                          /\ s \in DOMAIN v.index => v.index[s].raw = w.refresh.candidate[s].raw
\* Accepting hydrates the whole candidate and loses none of it.
LEMMA AcceptAccepts ==
    ASSUME NEW w, IsState(w), Known(w.index), IsRefresh(w.refresh), NEW order
    PROVE  Accepted(AcceptCandidate(w, order), w)
<1>1. PICK u, adopted, swept, derived, synced, due, done :
        /\ u = LetGo(w, DOMAIN w.index)
        /\ adopted = [u EXCEPT !.index = Restrict(w.refresh.candidate, KeptOf(w.refresh)),
                               !.subscribed = KeptOf(w.refresh)]
        /\ swept = DeriveCandidateEvents(adopted, order)
        /\ derived = Remember(swept)
        /\ synced = [derived EXCEPT !.rows = ReconcileEvener(@, w.refresh.archived, ActiveChildren(derived.index)),
                                    !.refresh = NoRefresh, !.again = FALSE]
        /\ due = IF w.again THEN "now" ELSE "interval"
        /\ done = [synced EXCEPT !.timer = due]
  OBVIOUS
<1>2. AcceptCandidate(w, order) = done
  BY <1>1 DEF AcceptCandidate, ScheduleRefresh, KeptOf
<1>3. Held(u, w) /\ u.index = w.index
  BY <1>1, LetGoHolds
<1>4. adopted = [conn |-> u.conn, index |-> Restrict(w.refresh.candidate, KeptOf(w.refresh)),
                 subscribed |-> KeptOf(w.refresh), rooted |-> u.rooted, live |-> u.live,
                 refresh |-> u.refresh, again |-> u.again, timer |-> u.timer, rows |-> u.rows]
  BY <1>1, <1>3 DEF Held, IsState
<1>5. /\ IsState(adopted) /\ adopted.conn = w.conn
      /\ adopted.index = [s \in KeptOf(w.refresh) |-> w.refresh.candidate[s]]
  BY <1>3, <1>4 DEF IsState, Held, Restrict
<1>6. /\ Known(adopted.index) /\ DOMAIN adopted.index = KeptOf(w.refresh)
      /\ \A s \in KeptOf(w.refresh) : adopted.index[s].raw = w.refresh.candidate[s].raw
  BY <1>5 DEF KeptOf, Known, IsRefresh
<1>7. Preserved(swept, adopted)
  BY <1>1, <1>5, <1>6, SweepsKeep
<1>8. Held(derived, swept) /\ derived.index = swept.index
  BY <1>1, <1>7, RememberHolds DEF Preserved, Held
<1>9. synced = [conn |-> derived.conn, index |-> derived.index, subscribed |-> derived.subscribed,
                rooted |-> derived.rooted, live |-> derived.live, refresh |-> NoRefresh, again |-> FALSE,
                timer |-> derived.timer,
                rows |-> ReconcileEvener(derived.rows, w.refresh.archived, ActiveChildren(derived.index))]
  BY <1>1, <1>8 DEF Held, IsState
<1>10. /\ IsState(synced) /\ synced.conn = derived.conn /\ synced.index = derived.index
       /\ synced.refresh = NoRefresh
  BY <1>9 DEF IsState
<1>11. done.conn = derived.conn /\ done.index = derived.index /\ done.refresh = NoRefresh
  BY <1>1, <1>10 DEF IsState
<1>12. done.conn = w.conn /\ Known(done.index)
  BY <1>5, <1>7, <1>8, <1>11 DEF Preserved, Held
<1>13. ASSUME NEW s \in Session
       PROVE  /\ s \in DOMAIN done.index <=> s \in KeptOf(w.refresh)
              /\ s \in DOMAIN done.index => done.index[s].raw = w.refresh.candidate[s].raw
  BY <1>6, <1>7, <1>8, <1>11 DEF Preserved, SameRaw
<1> QED BY <1>2, <1>11, <1>12, <1>13 DEF Accepted

\* What has been gathered is asked on about, or accepted: it is never given up
\* for a child without its parent.
AsksOn(v, w) ==
    /\ IsState(v) /\ v.index = w.index /\ v.rows = w.rows /\ v.live = w.live
    /\ v.conn = w.conn /\ v.timer = w.timer /\ IsRefresh(v.refresh)
    /\ v.refresh.call = "asked" /\ v.refresh.step # "list" /\ v.refresh.candidate = w.refresh.candidate
    /\ v.refresh.archived = w.refresh.archived
    /\ \/ v.refresh.step = w.refresh.step /\ v.refresh.todo = w.refresh.todo
       \/ v.refresh.step = "place" /\ v.refresh.todo = DOMAIN w.refresh.candidate \ Children
\* Nothing is left to ask: every root has been placed, or there is none.
Complete(r) == r.todo = {} /\ (r.step = "place" \/ DOMAIN r.candidate \ Children = {})
\* A gathered candidate is whole: the next request follows, or the index.
LEMMA AdvanceSteps ==
    ASSUME NEW w, IsState(w), Known(w.index), IsRefresh(w.refresh), w.refresh.step # "list", NEW order
    PROVE  \/ AsksOn(Advance(w, order), w)
           \/ Advance(w, order) = AcceptCandidate(w, order) /\ Complete(w.refresh)
<1>1. PICK r, roots : r = w.refresh /\ roots = DOMAIN r.candidate \ Children
  OBVIOUS
<1>2. ASSUME NEW step \in {"read", "place"}, NEW todo, todo \subseteq DOMAIN r.candidate,
             (step = r.step /\ todo = r.todo) \/ (step = "place" /\ todo = roots)
      PROVE  AsksOn(Asking(w, step, todo), w)
  <2>1. PICK v : v = Asking(w, step, todo)
    OBVIOUS
  <2>2. PICK q : q = [[[r EXCEPT !.step = step] EXCEPT !.todo = todo] EXCEPT !.call = "asked"]
    OBVIOUS
  <2>3. q = [step |-> step, candidate |-> r.candidate, todo |-> todo, archived |-> r.archived,
             stale |-> r.stale, call |-> "asked", at |-> r.at, answer |-> r.answer]
    BY <1>1, <2>2 DEF IsRefresh
  <2>4. v = [conn |-> w.conn, index |-> w.index, subscribed |-> w.subscribed, rooted |-> w.rooted,
             live |-> w.live, refresh |-> q, again |-> w.again, timer |-> w.timer, rows |-> w.rows]
    BY <1>1, <2>1, <2>2 DEF Asking, IsState
  <2>5. IsRefresh(q)
    BY <1>1, <1>2, <2>3 DEF IsRefresh
  <2>6. AsksOn(v, w)
    BY <1>1, <1>2, <2>3, <2>4, <2>5 DEF AsksOn, IsState
  <2> QED BY <2>1, <2>6
<1>3. roots \subseteq DOMAIN r.candidate /\ r.todo \subseteq DOMAIN r.candidate /\ r.step \in {"read", "place"}
  BY <1>1 DEF IsRefresh
<1>4. ~\E s \in DOMAIN r.candidate \cap Children : ParentOf[s] \notin DOMAIN r.candidate
  BY <1>1 DEF IsRefresh, UpClosed, Children
<1>5. Advance(w, order) = IF r.todo # {} THEN Asking(w, r.step, r.todo)
                          ELSE IF r.step = "place" THEN AcceptCandidate(w, order)
                          ELSE IF roots = {} THEN AcceptCandidate(w, order)
                          ELSE Asking(w, "place", roots)
  BY <1>1, <1>4 DEF Advance
<1>6. AsksOn(Asking(w, r.step, r.todo), w) /\ AsksOn(Asking(w, "place", roots), w)
  BY <1>2, <1>3
<1> QED BY <1>1, <1>5, <1>6 DEF Complete

\* What the refresh has gathered once it has read an answer.
Gathered(r, step, candidate, todo, archived) ==
    [step |-> step, candidate |-> candidate, todo |-> todo, archived |-> archived,
     stale |-> r.stale, call |-> r.call, at |-> r.at, answer |-> r.answer]
Parsed(answer) == [x \in DOMAIN answer |-> ParseThread(answer[x], Previous(index, x))]
Reparsed(r, m) == [r.candidate EXCEPT ![m.thread] = ParseThread(m.answer, r.candidate[m.thread])]
Read(r, m) ==
    CASE r.step = "list"  -> Gathered(r, "read", Parsed(m.answer), DOMAIN m.answer, r.archived)
      [] r.step = "read"  -> Gathered(r, "read", Reparsed(r, m), r.todo \ {m.thread}, r.archived)
      [] r.step = "place" -> Gathered(r, "place", r.candidate, r.todo \ {m.thread},
                                      IF m.answer.archived THEN r.archived \cup {m.thread} ELSE r.archived)

\* Reading a right answer into right findings keeps them right.
LEMMA ReadRight ==
    ASSUME HubInv, NEW r, IsRefresh(r), NEW m, m.answer # Null, IsAnswer(r, m.thread, m.answer)
    PROVE  /\ IsRefresh(Read(r, m)) /\ Read(r, m).step # "list"
           /\ \A s \in Session : /\ r.step # "list" => GatheredRight(r, s)
                                 /\ AnswerRight(r, s, m.thread, m.answer)
                                 => GatheredRight(Read(r, m), s)
<1>1. PICK q : q = Read(r, m)
  OBVIOUS
<1>2. CASE r.step = "list"
  <2>1. q = Gathered(r, "read", Parsed(m.answer), DOMAIN m.answer, r.archived)
    BY <1>1, <1>2 DEF Read
  <2>2. m.answer \in Listing /\ UpClosed(DOMAIN m.answer)
    BY <1>2 DEF IsAnswer
  <2>3. DOMAIN m.answer \subseteq Session
    BY <2>2 DEF Listing
  <2>4. PICK c : c = Parsed(m.answer)
    OBVIOUS
  <2>5. /\ DOMAIN c = DOMAIN m.answer /\ c = [x \in DOMAIN c |-> c[x]]
        /\ \A x \in DOMAIN c : IsEntry(c[x]) /\ c[x].raw = m.answer[x].raw
    BY <2>4 DEF Parsed, ParseThread, IsEntry
  <2>6. IsRefresh(q) /\ q.step = "read" /\ q.candidate = c /\ q.archived = {}
    BY <1>2, <2>1, <2>2, <2>3, <2>4, <2>5 DEF IsRefresh, Gathered, Known
  <2>7. \A s \in Session : AnswerRight(r, s, m.thread, m.answer) => GatheredRight(q, s)
    BY <1>2, <2>5, <2>6 DEF AnswerRight, GatheredRight
  <2> QED BY <1>1, <2>6, <2>7
<1>3. CASE r.step = "read"
  <2>1. q = Gathered(r, "read", Reparsed(r, m), r.todo \ {m.thread}, r.archived)
    BY <1>1, <1>3 DEF Read
  <2>2. m.thread \in DOMAIN r.candidate /\ r.todo \subseteq DOMAIN r.candidate
    BY <1>3 DEF IsAnswer, IsRefresh
  <2>3. PICK c : c = Reparsed(r, m)
    OBVIOUS
  <2>4. /\ DOMAIN c = DOMAIN r.candidate /\ c = [x \in DOMAIN c |-> c[x]]
        /\ c[m.thread] = ParseThread(m.answer, r.candidate[m.thread])
        /\ \A x \in DOMAIN c : x # m.thread => c[x] = r.candidate[x]
    BY <2>2, <2>3 DEF Reparsed
  <2>5. IsEntry(c[m.thread]) /\ c[m.thread].raw = m.answer.raw
    BY <2>4 DEF ParseThread, IsEntry
  <2>6. IsRefresh(q) /\ q.step = "read" /\ q.candidate = c /\ q.archived = r.archived
    BY <1>3, <2>1, <2>2, <2>3, <2>4, <2>5 DEF IsRefresh, Gathered, Known
  <2>7. ASSUME NEW s \in Session, GatheredRight(r, s), AnswerRight(r, s, m.thread, m.answer)
        PROVE  GatheredRight(q, s)
    <3>1. s \in DOMAIN c => c[s].raw = hub[s].raw
      BY <1>3, <2>4, <2>5, <2>7 DEF GatheredRight, AnswerRight
    <3> QED BY <2>4, <2>6, <2>7, <3>1 DEF GatheredRight
  <2> QED BY <1>1, <1>3, <2>6, <2>7
<1>4. CASE r.step = "place"
  <2>1. q = Gathered(r, "place", r.candidate, r.todo \ {m.thread},
                     IF m.answer.archived THEN r.archived \cup {m.thread} ELSE r.archived)
    BY <1>1, <1>4 DEF Read
  <2>2. /\ IsRefresh(q) /\ q.step = "place" /\ q.candidate = r.candidate /\ q.todo = r.todo \ {m.thread}
        /\ q.archived = IF m.answer.archived THEN r.archived \cup {m.thread} ELSE r.archived
    BY <1>4, <2>1 DEF IsRefresh, Gathered
  <2>3. ASSUME NEW s \in Session, GatheredRight(r, s), AnswerRight(r, s, m.thread, m.answer)
        PROVE  GatheredRight(q, s)
    <3>1. Above[s] \cap q.archived # {} => s \notin Visible
      BY <1>4, <2>2, <2>3 DEF GatheredRight, AnswerRight
    <3>2. s \in DOMAIN q.candidate \ q.todo /\ hub[s].archived => s \in q.archived
      BY <1>4, <2>2, <2>3 DEF GatheredRight, AnswerRight
    <3> QED BY <2>2, <2>3, <3>1, <3>2 DEF GatheredRight
  <2> QED BY <1>1, <1>4, <2>2, <2>3
<1> QED BY <1>2, <1>3, <1>4 DEF IsRefresh

\* A step of the refresh reads its answer and advances.
LEMMA StepReads ==
    ASSUME NEW m, NEW order, IsRefresh(refresh)
    PROVE  RefreshStep(Now, m, order) = Advance([Now EXCEPT !.refresh = Read(refresh, m)], order)
<1>1. Now.refresh = refresh /\ Now.index = index
  BY DEF Now
<1>2. CASE refresh.step = "list"
  <2>1. PICK q : q = [refresh EXCEPT !.step = "read", !.candidate = Parsed(m.answer), !.todo = DOMAIN m.answer]
    OBVIOUS
  <2>2. q = Read(refresh, m)
    <3>1. q = [step |-> "read", candidate |-> Parsed(m.answer), todo |-> DOMAIN m.answer,
               archived |-> refresh.archived, stale |-> refresh.stale, call |-> refresh.call,
               at |-> refresh.at, answer |-> refresh.answer]
      BY <2>1 DEF IsRefresh
    <3> QED BY <1>2, <3>1 DEF Read, Gathered
  <2>3. RefreshStep(Now, m, order) = Advance([Now EXCEPT !.refresh = q], order)
    <3>1. DOMAIN Parsed(m.answer) = DOMAIN m.answer
      BY DEF Parsed
    <3>2. Parsed(m.answer) = [x \in DOMAIN m.answer |-> ParseThread(m.answer[x], Previous(Now.index, x))]
      BY <1>1 DEF Parsed
    <3> QED BY <1>1, <1>2, <2>1, <3>1, <3>2 DEF RefreshStep
  <2> QED BY <2>2, <2>3
<1>3. CASE refresh.step = "read"
  <2>1. PICK q : q = [refresh EXCEPT !.candidate[m.thread] = ParseThread(m.answer, @), !.todo = @ \ {m.thread}]
    OBVIOUS
  <2>2. q = Read(refresh, m)
    <3>1. q = [step |-> refresh.step, candidate |-> Reparsed(refresh, m), todo |-> refresh.todo \ {m.thread},
               archived |-> refresh.archived, stale |-> refresh.stale, call |-> refresh.call,
               at |-> refresh.at, answer |-> refresh.answer]
      BY <2>1 DEF IsRefresh, Reparsed
    <3> QED BY <1>3, <3>1 DEF Read, Gathered
  <2> QED BY <1>1, <1>3, <2>1, <2>2 DEF RefreshStep
<1>4. CASE refresh.step = "place"
  <2>1. PICK q : q = [refresh EXCEPT !.todo = @ \ {m.thread},
                                     !.archived = IF m.answer.archived THEN @ \cup {m.thread} ELSE @]
    OBVIOUS
  <2>2. q = Read(refresh, m)
    <3>1. q = [step |-> refresh.step, candidate |-> refresh.candidate, todo |-> refresh.todo \ {m.thread},
               archived |-> IF m.answer.archived THEN refresh.archived \cup {m.thread} ELSE refresh.archived,
               stale |-> refresh.stale, call |-> refresh.call, at |-> refresh.at, answer |-> refresh.answer]
      BY <2>1 DEF IsRefresh
    <3> QED BY <1>4, <3>1 DEF Read, Gathered
  <2> QED BY <1>1, <1>4, <2>1, <2>2 DEF RefreshStep
<1> QED BY <1>2, <1>3, <1>4 DEF IsRefresh

\* An answer of a refresh comes when no notice is ahead of it: unless the
\* refresh is stale it is right of every thread not told about since.
LEMMA DeliverReplyInv ==
    ASSUME EvenerInv, Deliver, IsReply(Head(wire))
    PROVE  EvenerInv'
<1>1. PICK m : m = wire[1]
  OBVIOUS
<1>2. /\ wire # <<>> /\ UNCHANGED hub /\ Head(wire) = m /\ m \in Message /\ 1 \in DOMAIN wire
      /\ \A i \in DOMAIN wire : i \in Nat /\ 1 <= i
  BY <1>1, Shifted DEF Deliver, EvenerInv, WireInv
<1>3. m.kind = "refreshReply" /\ IsReply(m) /\ ~IsNotice(m) /\ Replied
  BY <1>1, <1>2 DEF IsReply, IsNotice, NoticeKind, Replied
<1>4. /\ IsRefresh(refresh) /\ conn = "up" /\ timer # "interval" /\ refresh.call = "sent" /\ Refreshing
      /\ \A i \in DOMAIN wire : IsReply(wire[i]) => i = 1
      /\ IsAnswer(refresh, m.thread, m.answer)
  BY <1>1, <1>2, <1>3 DEF EvenerInv, RefreshInv
<1>5. PICK order \in Orders : Enter(HandleRefreshReply(Now, m, order))
  BY <1>2, <1>3 DEF Deliver, HandleMessage
<1>6. PICK w : /\ w = HandleRefreshReply(Now, m, order)
               /\ conn' = w.conn /\ index' = w.index /\ refresh' = w.refresh /\ timer' = w.timer
               /\ live' = w.live
  BY <1>5 DEF Enter
<1>7. Known(index) /\ Now.index = index /\ Now.refresh = refresh /\ Now.conn = conn /\ Now.timer = timer
  BY DEF EvenerInv, IndexInv, Now
<1>8. ASSUME conn' = conn
      PROVE  /\ wire' = Tail(wire) /\ HubInv' /\ WireInv' /\ Visible' = Visible /\ ~Replied'
             /\ \A s \in Session : IsTold(s)' <=> IsTold(s)
  <2>1. wire' = Tail(wire)
    BY <1>4, <1>8 DEF Deliver
  <2>2. /\ HubInv' /\ WireInv' /\ Visible' = Visible
        /\ \A s \in Session : IsTold(s)' <=> IsTold(s)
    BY <1>1, <1>2, <1>3, <1>8, <2>1, Delivered DEF Tells
  <2>3. \A i \in DOMAIN wire' : i \in Nat /\ i + 1 \in DOMAIN wire /\ wire'[i] = wire[i + 1] /\ 1 <= i
    BY <1>2, <2>1, Shifted DEF EvenerInv
  <2>4. ~Replied'
    <3> SUFFICES ASSUME NEW i \in DOMAIN wire', IsReply(wire'[i]) PROVE FALSE
      BY DEF Replied
    <3>1. i + 1 = 1 /\ i \in Nat /\ 1 <= i
      BY <1>4, <2>3
    <3> QED BY <3>1
  <2> QED BY <2>1, <2>2, <2>4
<1>9. CASE m.answer = Null /\ refresh.step # "place"
  <2>1. w = Disconnected(Now)
    BY <1>6, <1>7, <1>9 DEF HandleRefreshReply
  <2>2. /\ conn' = "down" /\ index' = index /\ live' = [s \in Session |-> Null] /\ refresh' = NoRefresh
        /\ timer' = "off"
    BY <1>6, <2>1 DEF Disconnected, Now
  <2> QED BY <1>2, <2>2, DisconnectedInv DEF Deliver
<1>10. CASE (m.answer # Null \/ refresh.step = "place") /\ (refresh.stale \/ m.answer = Null)
  <2>1. PICK due \in {"now", "retry"} : w = Abandon(Now, due)
    BY <1>6, <1>7, <1>10 DEF HandleRefreshReply
  <2>2. conn' = conn /\ index' = index /\ refresh' = NoRefresh /\ timer' = due
    BY <1>6, <2>1 DEF Abandon, ScheduleRefresh, Now
  <2>3. RefreshInv' /\ GatherInv'
    BY <1>8, <2>2 DEF RefreshInv, GatherInv, Refreshing
  <2>4. IndexInv'
    BY <1>7, <2>2 DEF IndexInv
  <2> QED BY <1>8, <2>2, <2>3, <2>4 DEF EvenerInv
<1>11. CASE m.answer # Null /\ ~refresh.stale
  <2>1. PICK q, v : q = Read(refresh, m) /\ v = [Now EXCEPT !.refresh = q]
    OBVIOUS
  <2>2. w = Advance(v, order)
    BY <1>4, <1>6, <1>7, <1>11, <2>1, StepReads DEF HandleRefreshReply
  <2>3. v = [conn |-> conn, index |-> index, subscribed |-> subscribed, rooted |-> rooted, live |-> live,
             refresh |-> q, again |-> again, timer |-> timer, rows |-> rows]
    BY <2>1 DEF Now
  <2>4. IsState(v) /\ v.conn = conn /\ v.index = index /\ v.timer = timer /\ v.refresh = q
    BY <2>3 DEF IsState
  <2>5. ~Doomed
    <3>1. \A i \in DOMAIN wire : ~(i < 1)
      BY <1>2
    <3> QED BY <1>1, <1>2, <1>3, <1>11, <3>1 DEF Doomed
  <2>6. /\ IsRefresh(q) /\ q.step # "list"
        /\ \A s \in Session : /\ refresh.step # "list" => GatheredRight(refresh, s)
                              /\ AnswerRight(refresh, s, m.thread, m.answer)
                              => GatheredRight(q, s)
    BY <1>4, <1>11, <2>1, ReadRight DEF EvenerInv
  <2>7. \A s \in Session : ~IsTold(s) => GatheredRight(q, s)
    <3> SUFFICES ASSUME NEW s \in Session, ~IsTold(s) PROVE GatheredRight(q, s)
      OBVIOUS
    <3>1. /\ refresh.step # "list" => GatheredRight(refresh, s)
          /\ AnswerRight(refresh, s, m.thread, m.answer)
      BY <1>1, <1>2, <1>3, <1>4, <2>5 DEF EvenerInv, GatherInv
    <3> QED BY <2>6, <3>1
  <2>8. AsksOn(w, v) \/ Accepted(w, v)
    BY <1>7, <2>2, <2>4, <2>6, AdvanceSteps, AcceptAccepts
  <2>9. conn' = conn
    BY <1>6, <2>4, <2>8 DEF AsksOn, Accepted
  <2>10. /\ HubInv' /\ WireInv' /\ Visible' = Visible /\ ~Replied'
         /\ \A s \in Session : IsTold(s)' <=> IsTold(s)
    BY <1>8, <2>9
  <2>11. CASE AsksOn(w, v)
    <3>1. /\ index' = index /\ timer' = timer /\ IsRefresh(refresh') /\ refresh'.call = "asked"
          /\ refresh'.candidate = q.candidate /\ refresh'.archived = q.archived
          /\ \/ refresh'.step = q.step /\ refresh'.todo = q.todo
             \/ refresh'.step = "place" /\ refresh'.todo = DOMAIN q.candidate \ Children
      BY <1>6, <2>4, <2>11 DEF AsksOn
    <3>2. RefreshInv'
      BY <1>4, <2>9, <2>10, <3>1 DEF RefreshInv, Replied
    <3>3. \A s \in Session : ~IsTold(s)' => GatheredRight(refresh, s)'
      <4> SUFFICES ASSUME NEW s \in Session, ~IsTold(s)' PROVE GatheredRight(refresh, s)'
        OBVIOUS
      <4>1. GatheredRight(q, s)
        BY <2>7, <2>10
      <4>2. s \in Children => ~hub[s].archived
        BY DEF EvenerInv, HubInv, HubValid, Children
      <4> QED BY <1>2, <2>10, <3>1, <4>1, <4>2 DEF GatheredRight
    <3>4. GatherInv'
      BY <2>10, <3>1, <3>3 DEF GatherInv, Replied
    <3>5. IndexInv'
      BY <1>4, <1>7, <3>1 DEF IndexInv
    <3> QED BY <2>10, <3>2, <3>4, <3>5 DEF EvenerInv
  <2>12. CASE Accepted(w, v)
    <3>1. /\ refresh' = NoRefresh /\ Known(index')
          /\ \A s \in Session : /\ s \in DOMAIN index' <=> s \in KeptOf(q)
                                /\ s \in DOMAIN index' => index'[s].raw = q.candidate[s].raw
      BY <1>6, <2>4, <2>12 DEF Accepted
    <3>2. RefreshInv' /\ GatherInv'
      BY <2>10, <3>1 DEF RefreshInv, GatherInv, Refreshing
    <3>3. ASSUME NEW s \in Session, ~IsTold(s)' PROVE IndexRight(s)'
      <4>1. GatheredRight(q, s)
        BY <2>7, <2>10, <3>3
      <4>2. CASE s \in KeptOf(q)
        BY <1>2, <3>1, <4>1, <4>2 DEF GatheredRight, IndexRight, KeptOf
      <4>3. CASE s \notin KeptOf(q)
        <5>1. s \notin Visible
          BY <4>1, <4>3 DEF GatheredRight, KeptOf, Visible
        <5> QED BY <2>10, <3>1, <4>3, <5>1 DEF IndexRight
      <4> QED BY <4>2, <4>3
    <3>4. IndexInv'
      BY <3>1, <3>3 DEF IndexInv
    <3> QED BY <2>10, <3>2, <3>4 DEF EvenerInv
  <2> QED BY <2>8, <2>11, <2>12
<1> QED BY <1>9, <1>10, <1>11

-----------------------------------------------------------------------------
\* Every step of the hub and of the collector keeps the invariant.
LEMMA EvenerStep ==
    ASSUME EvenerInv, [Next]_vars
    PROVE  EvenerInv'
<1>1. CASE HubStep
  BY <1>1, OpenThreadInv, StartTurnInv, EndTurnInv, CloseThreadInv, ArchiveInv DEF HubStep
<1>2. CASE Deliver
  <2>1. Head(wire) \in Message
    BY <1>2, Shifted DEF Deliver, EvenerInv, WireInv
  <2>2. IsNotice(Head(wire)) \/ IsReply(Head(wire)) \/ Head(wire).kind = "liveReply"
    BY <2>1 DEF Message, IsNotice, IsReply
  <2> QED BY <1>2, <2>2, DeliverNoticeInv, DeliverReplyInv, DeliverLiveInv
<1>3. CASE UNCHANGED vars
  <2>1. UNCHANGED <<hub, wire, conn, index, live, refresh, timer>>
    BY <1>3 DEF vars, collector
  <2>2. HubInv' /\ WireInv'
    BY <2>1, WireKept DEF EvenerInv
  <2>3. RefreshInv'
    BY <2>1, WireKept DEF EvenerInv, RefreshInv, Refreshing
  <2>4. GatherInv'
    BY <2>1, WireKept DEF EvenerInv, GatherInv, Refreshing, Doomed, GatheredRight, AnswerRight
  <2>5. IndexInv'
    BY <2>1, WireKept DEF EvenerInv, IndexInv, IndexRight
  <2> QED BY <2>2, <2>3, <2>4, <2>5 DEF EvenerInv
<1> QED BY <1>1, <1>2, <1>3, TakeAnswerInv, SendAnswerInv, AnswerLiveInv, FireRefreshTimerInv, ConnectInv,
           LoseConnectionInv, LiveReadTimesOutInv DEF Next

\* However refreshes, notifications and late answers interleave, at rest the
\* collector knows every thread of the board, and no other as open, with the
\* status the hub has: what assertRefreshGeneration is there for.
THEOREM IndexStaysCurrent == Spec => []IndexIsCurrent
<1>1. EvenerInv => IndexIsCurrent
  <2> SUFFICES ASSUME EvenerInv, Quiet
               PROVE  /\ Visible \subseteq DOMAIN index
                      /\ \A s \in DOMAIN index : index[s].raw # "closed" => index[s].raw = hub[s].raw
    BY DEF IndexIsCurrent
  <2>1. wire = <<>> /\ timer = "interval"
    BY DEF Quiet
  <2>2. \A s \in Session : ~IsTold(s)
    BY <2>1 DEF IsTold
  <2>3. \A s \in Session : IndexRight(s)
    BY <2>1, <2>2 DEF EvenerInv, IndexInv
  <2>4. Visible \subseteq Session /\ DOMAIN index \subseteq Session
    BY DEF Visible, EvenerInv, IndexInv, Known
  <2> QED BY <2>3, <2>4 DEF IndexRight
<1>2. Init => EvenerInv
  BY InitInv
<1>3. EvenerInv /\ [Next]_vars => EvenerInv'
  BY EvenerStep
<1> QED BY <1>1, <1>2, <1>3, PTL DEF Spec

-----------------------------------------------------------------------------
(***************************************************************************)
(* Trees and rows. A child is below its parent at the hub and in the       *)
(* registry; a statement about a thread reaches what is below it and       *)
(* nothing else.                                                           *)
(***************************************************************************)
\* The lineage links each child to the thread that started it.
LEMMA LineageIs ==
    /\ DOMAIN Lineage = Children /\ Children \subseteq Session
    /\ \A s \in Children : Lineage[s] = ParentOf[s] /\ ParentOf[s] \in Session
    /\ \A s \in Session : s \in Children <=> ParentOf[s] # Null
  BY EvenerAssumption DEF Lineage, Children, IsChild, Restrict

\* No thread is above its own parent: the threads between the two would be
\* closed under parents.
LEMMA LineageChains == Chains(Lineage)
<1> SUFFICES ASSUME NEW s \in Children, s \in Ancestry(Lineage, ParentOf[s]) PROVE FALSE
  BY LineageIs DEF Chains
<1> DEFINE p == ParentOf[s]
           S == {x \in Ancestry(Lineage, p) : s \in Ancestry(Lineage, x)}
<1>1. p \in Session /\ p \in S /\ S \in SUBSET Session
  BY LineageIs, AncestrySelf DEF Ancestry
<1>2. ASSUME NEW x \in S PROVE ParentOf[x] \in S
  <2>1. x \in Session /\ s \in Ancestry(Lineage, x) /\ x \in Ancestry(Lineage, p)
    BY <1>2 DEF Ancestry
  <2>2. x \in Children
    <3> SUFFICES ASSUME x \notin Children PROVE FALSE
      OBVIOUS
    <3>1. ClosedUp(Lineage, {x})
      BY LineageIs DEF ClosedUp
    <3>2. s = x
      BY <2>1, <3>1, AncestryWithin
    <3> QED BY <3>2
  <2>3. ParentOf[x] \in Session /\ ParentOf[x] \in Ancestry(Lineage, p) /\ Lineage[x] = ParentOf[x]
    BY <2>1, <2>2, LineageIs, AncestryStep
  <2>4. s \in Ancestry(Lineage, ParentOf[x])
    <3>1. CASE s = x
      <4>1. s \in Ancestry(Lineage, p)
        OBVIOUS
      <4> QED BY <3>1, <4>1
    <3>2. CASE s # x
      <4> DEFINE X == {x} \cup Ancestry(Lineage, ParentOf[x])
      <4>1. X \in SUBSET Session
        BY <2>1 DEF Ancestry
      <4>2. ASSUME NEW y \in X \cap DOMAIN Lineage PROVE Lineage[y] \in X
        <5>1. CASE y = x
          BY <2>3, <5>1, AncestrySelf
        <5>2. CASE y \in Ancestry(Lineage, ParentOf[x])
          <6>1. Lineage[y] \in Session
            BY LineageIs
          <6> QED BY <5>2, <6>1, AncestryStep
        <5> QED BY <5>1, <5>2
      <4>3. Ancestry(Lineage, x) \subseteq X
        <5>1. ClosedUp(Lineage, X) /\ x \in X
          BY <4>2 DEF ClosedUp
        <5> HIDE DEF X
        <5> QED BY <4>1, <5>1, AncestryWithin
      <4> QED BY <2>1, <3>2, <4>3
    <3> QED BY <3>1, <3>2
  <2> QED BY <2>3, <2>4
<1>3. S # {}
  BY <1>1
<1> HIDE DEF S
<1> QED BY <1>1, <1>2, <1>3, EvenerAssumption

\* What is above a thread: itself, and what is above its parent.
LEMMA AboveUnfolds ==
    /\ \A s \in Session \ Children : Above[s] = {s}
    /\ \A s \in Children : /\ Above[s] = {s} \cup Above[ParentOf[s]]
                           /\ s \notin Above[ParentOf[s]] /\ ParentOf[s] \in Session
<1>1. \A s \in Session : Above[s] = Ancestry(Lineage, s)
  BY DEF Above
<1>2. ASSUME NEW s \in Session \ Children PROVE Above[s] = {s}
  BY <1>1, LineageIs, LineageChains, AncestryUnfold, AncestrySelf
<1>3. ASSUME NEW s \in Children
      PROVE  /\ Above[s] = {s} \cup Above[ParentOf[s]]
             /\ s \notin Above[ParentOf[s]] /\ ParentOf[s] \in Session
  <2>1. s \in Session /\ s \in DOMAIN Lineage /\ Lineage[s] = ParentOf[s] /\ ParentOf[s] \in Session
    BY LineageIs
  <2>2. \A x \in Above[s] : x # s => x \in Above[ParentOf[s]]
    BY <1>1, <2>1, LineageChains, AncestryUnfold
  <2>3. Above[ParentOf[s]] \subseteq Above[s] /\ s \in Above[s]
    BY <1>1, <2>1, AncestryOfParent, AncestrySelf
  <2>4. s \notin Above[ParentOf[s]]
    BY <1>1, <2>1, LineageChains DEF Chains
  <2> QED BY <2>1, <2>2, <2>3, <2>4
<1> QED BY <1>2, <1>3

\* What is closed under parents holds all above its members.
LEMMA AboveWithin ==
    ASSUME NEW X \in SUBSET Session, \A x \in X \cap Children : ParentOf[x] \in X, NEW s \in X
    PROVE  Above[s] \subseteq X
<1>1. ClosedUp(Lineage, X)
  BY LineageIs DEF ClosedUp
<1>2. Above[s] = Ancestry(Lineage, s)
  BY DEF Above
<1> QED BY <1>1, <1>2, AncestryWithin

\* The rows the collector makes: every thread under its parent, none of an
\* agent of Paseo.
OfThreads(tbl) == Sound(tbl) /\ \A s \in DOMAIN tbl : tbl[s].parent = ParentOf[s] /\ tbl[s].origin = Null

\* A statement about s reaches s and what is below it, and no other row.
Local(new, tbl, s) ==
    /\ OfThreads(new)
    /\ \A x \in Session : s \notin Above[x] =>
          /\ x \in DOMAIN new <=> x \in DOMAIN tbl
          /\ x \in DOMAIN tbl => new[x] = tbl[x]

\* The rows of threads: the roots are at the top, a child is linked to its
\* parent, and all above a row have rows.
LEMMA RowsStand ==
    ASSUME NEW tbl, OfThreads(tbl)
    PROVE  /\ DOMAIN tbl \subseteq Session /\ TopLevel(tbl) = DOMAIN tbl \ Children
           /\ DOMAIN NativeParent(tbl) = DOMAIN tbl \cap Children
           /\ \A s \in DOMAIN tbl \cap Children : NativeParent(tbl)[s] = ParentOf[s] /\ ParentOf[s] \in DOMAIN tbl
           /\ \A s \in DOMAIN tbl : Above[s] \subseteq DOMAIN tbl /\ tbl[s] \in Row
<1>1. DOMAIN tbl \subseteq Session /\ \A s \in DOMAIN tbl : tbl[s] \in Row
  BY RowOf DEF OfThreads, Sound, IsTable
<1>2. TopLevel(tbl) = DOMAIN tbl \ Children
  BY <1>1, LineageIs DEF TopLevel, OfThreads
<1>3. DOMAIN NativeParent(tbl) = DOMAIN tbl \cap Children
  BY <1>2 DEF NativeParent
<1>4. \A s \in DOMAIN tbl \cap Children : NativeParent(tbl)[s] = ParentOf[s] /\ ParentOf[s] \in DOMAIN tbl
  BY <1>2 DEF NativeParent, OfThreads, Sound, ParentsValid
<1>5. \A s \in DOMAIN tbl : Above[s] \subseteq DOMAIN tbl
  BY <1>1, <1>4, AboveWithin
<1> QED BY <1>1, <1>2, <1>3, <1>4, <1>5

\* Above a row are the same threads in the table as at the hub.
LEMMA RowsAbove ==
    ASSUME NEW tbl, OfThreads(tbl), NEW s \in Session
    PROVE  /\ Ancestry(NativeParent(tbl), s) \subseteq Above[s]
           /\ s \in DOMAIN tbl => Ancestry(NativeParent(tbl), s) = Above[s]
<1> DEFINE edge == NativeParent(tbl)
<1>1. DOMAIN edge = DOMAIN tbl \cap Children /\ \A x \in DOMAIN edge : edge[x] = ParentOf[x]
  BY RowsStand
<1>2. Above[s] \subseteq Session /\ s \in Above[s]
      /\ \A x \in Above[s] \cap Children : ParentOf[x] \in Above[s]
  BY TreeFacts, LineageIs DEF Children
<1>3. ClosedUp(edge, Above[s])
  BY <1>1, <1>2 DEF ClosedUp
<1>4. Ancestry(edge, s) \subseteq Above[s]
  BY <1>2, <1>3, AncestryWithin
<1>5. ASSUME s \in DOMAIN tbl PROVE Above[s] \subseteq Ancestry(edge, s)
  <2> DEFINE X == Ancestry(edge, s) \cap DOMAIN tbl
  <2>1. X \in SUBSET Session /\ s \in X
    BY <1>5, AncestrySelf, RowsStand
  <2>2. ASSUME NEW x \in X \cap Children PROVE ParentOf[x] \in X
    <3>1. x \in DOMAIN edge /\ edge[x] = ParentOf[x] /\ ParentOf[x] \in DOMAIN tbl /\ ParentOf[x] \in Session
      BY <1>1, RowsStand
    <3> QED BY <3>1, AncestryStep
  <2> HIDE DEF X
  <2>3. Above[s] \subseteq X
    BY <2>1, <2>2, AboveWithin
  <2> QED BY <2>3 DEF X
<1> QED BY <1>4, <1>5

\* A deletion takes what it names and what is below.
LEMMA DeleteTakes ==
    ASSUME NEW tbl, OfThreads(tbl), NEW gone, NEW new, new = DeleteRows(tbl, gone)
    PROVE  /\ OfThreads(new)
           /\ \A x \in Session : x \in DOMAIN new <=> x \in DOMAIN tbl /\ Above[x] \cap gone = {}
           /\ \A x \in DOMAIN new : new[x] = tbl[x]
<1>1. new = [x \in DOMAIN tbl \ Cascade(tbl, gone) |-> tbl[x]]
  BY DEF DeleteRows, Restrict
<1>2. \A x \in DOMAIN tbl : x \in Cascade(tbl, gone) <=> Above[x] \cap gone # {}
  BY RowsAbove, RowsStand DEF Cascade
<1>3. Sound(new)
  BY DeleteRowsSound DEF OfThreads
<1>4. /\ \A x \in Session : x \in DOMAIN new <=> x \in DOMAIN tbl /\ Above[x] \cap gone = {}
      /\ DOMAIN new \subseteq DOMAIN tbl /\ \A x \in DOMAIN new : new[x] = tbl[x]
  BY <1>1, <1>2
<1>5. OfThreads(new)
  BY <1>3, <1>4 DEF OfThreads
<1> QED BY <1>4, <1>5

\* To delete the row of a thread is about that thread.
LEMMA DeleteOne ==
    ASSUME NEW tbl, OfThreads(tbl), NEW s \in Session
    PROVE  Local(DeleteRows(tbl, {s}), tbl, s) /\ s \notin DOMAIN DeleteRows(tbl, {s})
<1>1. PICK new : new = DeleteRows(tbl, {s})
  OBVIOUS
<1>2. /\ OfThreads(new) /\ \A x \in DOMAIN new : new[x] = tbl[x]
      /\ \A x \in Session : x \in DOMAIN new <=> x \in DOMAIN tbl /\ Above[x] \cap {s} = {}
  BY <1>1, DeleteTakes
<1>3. \A x \in Session : s \notin Above[x] => Above[x] \cap {s} = {}
  OBVIOUS
<1>4. s \in Above[s]
  BY TreeFacts
<1>5. Local(new, tbl, s)
  BY <1>2, <1>3 DEF Local
<1> QED BY <1>1, <1>2, <1>4, <1>5

\* A child that stops leaves the table with all below it.
LEMMA StopTakes ==
    ASSUME NEW tbl, OfThreads(tbl), NEW s \in Session
    PROVE  Local(SubagentStop(tbl, s), tbl, s) /\ (s \in Children => s \notin DOMAIN SubagentStop(tbl, s))
<1>1. CASE s \in DOMAIN tbl \ TopLevel(tbl)
  <2>1. SubagentStop(tbl, s) = DeleteRows(tbl, {s})
    BY <1>1 DEF SubagentStop
  <2> QED BY <1>1, <2>1, DeleteOne
<1>2. CASE s \notin DOMAIN tbl \ TopLevel(tbl)
  <2>1. SubagentStop(tbl, s) = tbl
    BY <1>2 DEF SubagentStop
  <2> QED BY <1>2, <2>1, RowsStand DEF Local
<1> QED BY <1>1, <1>2

\* Without agents there are no links, and an ended session is a tree of its
\* own.
LEMMA EndTakes ==
    ASSUME NEW tbl, OfThreads(tbl), NEW s \in Session
    PROVE  Local(SessionEnd(tbl, s), tbl, s)
<1>1. CASE s \notin TopLevel(tbl)
  <2>1. SessionEnd(tbl, s) = tbl
    BY <1>1 DEF SessionEnd
  <2> QED BY <2>1 DEF Local
<1>2. CASE s \in TopLevel(tbl)
  <2> DEFINE links == PaseoLinks(HintedLineage(tbl, NoHints))
  <2>1. DOMAIN links = {}
    <3>1. DOMAIN HintedLineage(tbl, NoHints) = {}
      BY DEF HintedLineage, StoredLineage, NoHints, TopLevel, OfThreads
    <3>2. DOMAIN UniqueLinks(HintedLineage(tbl, NoHints)) = {}
      BY <3>1 DEF UniqueLinks
    <3> QED BY <3>2 DEF PaseoLinks, Restrict
  <2> HIDE DEF links
  <2>2. \A x \in Session : Ancestry(links, x) = {x}
    <3> TAKE x \in Session
    <3>1. ClosedUp(links, {x})
      BY <2>1 DEF ClosedUp
    <3> QED BY <3>1, AncestryWithin, AncestrySelf
  <2>3. PaseoSubtree(tbl, s, NoHints) = {s}
    BY <2>2 DEF PaseoSubtree, links
  <2>4. SessionEnd(tbl, s) = DeleteRows(tbl, {s})
    BY <1>2, <2>3 DEF SessionEnd, DeletePaseoSubtree
  <2> QED BY <2>4, DeleteOne
<1> QED BY <1>1, <1>2

\* A table that rewrites a row of s in place, or adds one, keeps the others.
Rewrites(new, tbl, s) ==
    /\ OfThreads(new) /\ DOMAIN tbl \subseteq DOMAIN new /\ DOMAIN new \subseteq DOMAIN tbl \cup {s}
    /\ \A x \in DOMAIN tbl : x # s => new[x] = tbl[x]

\* A row rewritten or added is a statement about its thread.
LEMMA RewritesLocal ==
    ASSUME NEW tbl, NEW new, NEW s \in Session, Rewrites(new, tbl, s)
    PROVE  Local(new, tbl, s)
  BY TreeFacts DEF Rewrites, Local

\* Sound rows stay rows of threads when the row of s keeps its parent and its
\* origin.
LEMMA InPlace ==
    ASSUME NEW tbl, OfThreads(tbl), NEW s, NEW new, Sound(new), DOMAIN new = DOMAIN tbl,
           \A x \in DOMAIN tbl : x # s => new[x] = tbl[x],
           s \in DOMAIN tbl => new[s].parent = tbl[s].parent /\ new[s].origin = tbl[s].origin
    PROVE  Rewrites(new, tbl, s)
  BY DEF OfThreads, Rewrites

\* A status observed is the status of the row, and nothing else changes.
LEMMA StatusTakes ==
    ASSUME NEW tbl, OfThreads(tbl), NEW s \in Session, NEW status \in Status,
           NEW new, new = StatusObserved(tbl, s, status, 0)
    PROVE  Rewrites(new, tbl, s) /\ DOMAIN new = DOMAIN tbl /\ (s \in DOMAIN tbl => new[s].status = status)
<1>1. new = [x \in DOMAIN tbl |-> IF x \in {s} THEN IF tbl[x].status = status THEN tbl[x]
                                                     ELSE StatusRow(tbl[x], status, 0)
                                  ELSE tbl[x]]
  BY DEF StatusObserved, Rewrite
<1>2. Sound(new)
  BY StatusObservedSound DEF OfThreads
<1>3. s \in DOMAIN tbl => /\ new[s].parent = tbl[s].parent /\ new[s].origin = tbl[s].origin
                          /\ new[s].status = status
  <2>1. PICK row : row = tbl[s]
    OBVIOUS
  <2>2. SUFFICES ASSUME s \in DOMAIN tbl PROVE /\ new[s].parent = row.parent /\ new[s].origin = row.origin
                                                /\ new[s].status = status
    BY <2>1
  <2>3. row \in Row
    BY <2>1, <2>2, RowsStand
  <2>4. /\ StatusRow(row, status, 0).parent = row.parent /\ StatusRow(row, status, 0).origin = row.origin
        /\ StatusRow(row, status, 0).status = status
    BY <2>3 DEF StatusRow, Row
  <2>5. new[s] = IF row.status = status THEN row ELSE StatusRow(row, status, 0)
    BY <1>1, <2>1, <2>2
  <2> QED BY <2>4, <2>5
<1>4. DOMAIN new = DOMAIN tbl /\ \A x \in DOMAIN tbl : x # s => new[x] = tbl[x]
  BY <1>1
<1> QED BY <1>2, <1>3, <1>4, InPlace

\* An event rewrites the row of its thread.
LEMMA EventTakes ==
    ASSUME NEW tbl, OfThreads(tbl), NEW s \in Session, NEW kind \in {"Activity", "Stop", "StopFailure"},
           NEW new, new = ApplyStatusEvent(tbl, s, kind, 0)
    PROVE  Rewrites(new, tbl, s)
<1>1. new = [x \in DOMAIN tbl |-> IF x \in {s} THEN AfterStatusEvent(tbl[x], kind, 0) ELSE tbl[x]]
  BY DEF ApplyStatusEvent, Rewrite
<1>2. Sound(new)
  BY ApplyStatusEventSound DEF OfThreads, StatusEvent
<1>3. ASSUME s \in DOMAIN tbl PROVE new[s].parent = tbl[s].parent /\ new[s].origin = tbl[s].origin
  <2>1. new[s] = AfterStatusEvent(tbl[s], kind, 0) /\ tbl[s] \in Row
    BY <1>1, <1>3, RowsStand
  <2>2. PICK row : row = tbl[s]
    OBVIOUS
  <2>3. \A st : StatusRow(row, st, 0).parent = row.parent /\ StatusRow(row, st, 0).origin = row.origin
    BY <2>1, <2>2 DEF StatusRow, Row
  <2>4. Stopped(row, 0).parent = row.parent /\ Stopped(row, 0).origin = row.origin
    BY <2>1, <2>2 DEF Stopped, StatusRow, Row
  <2>5. Failed(row, 0).parent = row.parent /\ Failed(row, 0).origin = row.origin
    BY <2>1, <2>2 DEF Failed, StatusRow, Row
  <2> QED BY <2>1, <2>2, <2>3, <2>4, <2>5 DEF AfterStatusEvent
<1>4. DOMAIN new = DOMAIN tbl /\ \A x \in DOMAIN tbl : x # s => new[x] = tbl[x]
  BY <1>1
<1> QED BY <1>2, <1>3, <1>4, InPlace

\* A root's session is there once it starts or is observed.
LEMMA SessionTakes ==
    ASSUME NEW tbl, OfThreads(tbl), NEW s \in Session \ Children,
           NEW new, new = SessionStart(tbl, s, Null, 0) \/ new = SessionObserved(tbl, s, Null, 0)
    PROVE  Rewrites(new, tbl, s) /\ s \in DOMAIN new
<1>1. Sound(new)
  BY SessionStartSound, SessionObservedSound DEF OfThreads
<1>2. CASE s \in DOMAIN tbl
  <2>1. DOMAIN new = DOMAIN tbl /\ \A x \in DOMAIN tbl : x # s => new[x] = tbl[x]
    BY <1>2 DEF SessionStart, SessionObserved, Rewrite
  <2>2. tbl[s] \in Row
    BY <1>2, RowsStand
  <2>3. PICK row : row = tbl[s]
    OBVIOUS
  <2>4. Restarted(row, Null, 0).parent = row.parent /\ Restarted(row, Null, 0).origin = row.origin
    BY <2>2, <2>3 DEF Restarted, StatusRow, Row
  <2>5. [row EXCEPT !.origin = row.origin].parent = row.parent
        /\ [row EXCEPT !.origin = row.origin].origin = row.origin
    BY <2>2, <2>3 DEF Row
  <2>6. s \in TopLevel(tbl)
    BY <1>2, RowsStand
  <2>7. new[s] = Restarted(row, Null, 0) \/ new[s] = [row EXCEPT !.origin = row.origin]
    BY <1>2, <2>3, <2>6 DEF SessionStart, SessionObserved, Rewrite
  <2>8. new[s].parent = tbl[s].parent /\ new[s].origin = tbl[s].origin
    BY <2>3, <2>4, <2>5, <2>7
  <2> QED BY <1>1, <1>2, <2>1, <2>8, InPlace
<1>3. CASE s \notin DOMAIN tbl
  <2> DEFINE row == NewRow(Null, LowestFreeSlot(tbl), Null, 0)
  <2>1. new = [x \in DOMAIN tbl \cup {s} |-> IF x = s THEN row ELSE tbl[x]]
    BY <1>3 DEF SessionStart, SessionObserved, Insert
  <2>2. row.parent = ParentOf[s] /\ row.origin = Null
    BY LineageIs DEF NewRow
  <2> HIDE DEF row
  <2>3. OfThreads(new)
    BY <1>1, <2>1, <2>2 DEF OfThreads
  <2> QED BY <2>1, <2>3 DEF Rewrites
<1> QED BY <1>2, <1>3

\* A child's row is there once it starts under a parent that has one.
LEMMA SubagentTakes ==
    ASSUME NEW tbl, OfThreads(tbl), NEW s \in Children,
           NEW new, new = SubagentStart(tbl, s, ParentOf[s], 0)
    PROVE  Rewrites(new, tbl, s) /\ (ParentOf[s] \in DOMAIN tbl => s \in DOMAIN new)
<1>0. s \in Session /\ ParentOf[s] \in Session /\ ProviderOf[ParentOf[s]] = ProviderOf[s]
  BY LineageIs, EvenerAssumption
<1>1. Sound(new)
  BY <1>0, SubagentStartSound DEF OfThreads
<1>2. ParentOf[s] \in DOMAIN tbl => ValidProspectiveParent(tbl, s, ParentOf[s])
  <2>1. s \notin Above[ParentOf[s]]
    BY AboveUnfolds
  <2>2. Ancestry(NativeParent(tbl), ParentOf[s]) \subseteq Above[ParentOf[s]]
    BY <1>0, RowsAbove
  <2> QED BY <2>1, <2>2 DEF ValidProspectiveParent
<1>3. CASE ~ValidProspectiveParent(tbl, s, ParentOf[s])
  BY <1>2, <1>3 DEF SubagentStart, Rewrites
<1>4. CASE ValidProspectiveParent(tbl, s, ParentOf[s]) /\ s \in DOMAIN tbl
  <2>1. new = [x \in DOMAIN tbl |-> IF x \in {s} \ TopLevel(tbl)
                  THEN [StatusRow(tbl[x], "idle", 0) EXCEPT !.parent = ParentOf[s]] ELSE tbl[x]]
    BY <1>4 DEF SubagentStart, Rewrite
  <2>2. tbl[s] \in Row /\ tbl[s].parent = ParentOf[s]
    BY <1>4, RowsStand DEF OfThreads
  <2>3. PICK row : row = tbl[s]
    OBVIOUS
  <2>4. [StatusRow(row, "idle", 0) EXCEPT !.parent = ParentOf[s]].parent = ParentOf[s]
        /\ [StatusRow(row, "idle", 0) EXCEPT !.parent = ParentOf[s]].origin = row.origin
    BY <2>2, <2>3 DEF StatusRow, Row
  <2>5. new[s].parent = tbl[s].parent /\ new[s].origin = tbl[s].origin
    BY <1>4, <2>1, <2>2, <2>3, <2>4
  <2>6. DOMAIN new = DOMAIN tbl /\ \A x \in DOMAIN tbl : x # s => new[x] = tbl[x]
    BY <2>1
  <2> QED BY <1>1, <1>4, <2>5, <2>6, InPlace
<1>5. CASE ValidProspectiveParent(tbl, s, ParentOf[s]) /\ s \notin DOMAIN tbl
  <2> DEFINE row == NewRow(ParentOf[s], Null, Null, 0)
  <2>1. new = [x \in DOMAIN tbl \cup {s} |-> IF x = s THEN row ELSE tbl[x]]
    BY <1>5 DEF SubagentStart, Insert
  <2>2. row.parent = ParentOf[s] /\ row.origin = Null
    BY DEF NewRow
  <2> HIDE DEF row
  <2>3. OfThreads(new)
    BY <1>1, <2>1, <2>2 DEF OfThreads
  <2> QED BY <2>1, <2>3 DEF Rewrites
<1> QED BY <1>3, <1>4, <1>5

-----------------------------------------------------------------------------
(***************************************************************************)
(* The collector's state as it should be, and what hydrating one thread    *)
(* does to it.                                                             *)
(***************************************************************************)
\* An entry of a thread: a child's is never marked failed.  A read holds one,
\* or the thread is in the index.
EntryOf(s) == {e \in Entry : s \in Children => ~e.failed}
EntriesRight(idx) == DOMAIN idx \subseteq Session /\ \A s \in DOMAIN idx : idx[s] \in EntryOf(s)
ReadRightOf(r, idx, s) == /\ r = [own |-> r.own, answered |-> r.answered]
                          /\ IF r.own = Null THEN s \in DOMAIN idx ELSE r.own \in EntryOf(s)
Sane(w) == /\ IsState(w) /\ EntriesRight(w.index) /\ OfThreads(w.rows)
           /\ w.live = [s \in Session |-> w.live[s]]
           /\ \A s \in Session : w.live[s] # Null => ReadRightOf(w.live[s], w.index, s)

\* The flags the handlers set keep an entry one of its thread, and its status
\* says whether it works.
LEMMA FlagsMatter ==
    ASSUME NEW s, NEW e \in EntryOf(s)
    PROVE  /\ e # Null /\ IsEntry(e) /\ EffectiveStatus(e) \in Status
           /\ [e EXCEPT !.registered = TRUE] \in EntryOf(s) /\ [e EXCEPT !.registered = FALSE] \in EntryOf(s)
           /\ [e EXCEPT !.registered = FALSE, !.cleaned = TRUE] \in EntryOf(s)
           /\ [e EXCEPT !.registered = TRUE, !.cleaned = FALSE] \in EntryOf(s)
           /\ s \in Children => EffectiveStatus(e) = IF e.raw = "active" THEN "working" ELSE "idle"
           /\ EffectiveStatus(e) = "working" <=> e.raw = "active"
<1>1. e \in Entry /\ (s \in Children => ~e.failed)
  BY DEF EntryOf
<1>2. e # Null
  BY <1>1, EntryAssumption
<1>3. IsEntry(e)
  BY <1>1 DEF Entry, IsEntry
<1>4. EffectiveStatus(e) \in Status /\ (EffectiveStatus(e) = "working" <=> e.raw = "active")
  BY DEF EffectiveStatus, Status
<1>5. s \in Children => EffectiveStatus(e) = IF e.raw = "active" THEN "working" ELSE "idle"
  BY <1>1 DEF EffectiveStatus
<1>6. /\ [e EXCEPT !.registered = TRUE] \in EntryOf(s) /\ [e EXCEPT !.registered = FALSE] \in EntryOf(s)
      /\ [e EXCEPT !.registered = FALSE, !.cleaned = TRUE] \in EntryOf(s)
      /\ [e EXCEPT !.registered = TRUE, !.cleaned = FALSE] \in EntryOf(s)
  BY <1>1 DEF EntryOf, Entry
<1> QED BY <1>2, <1>3, <1>4, <1>5, <1>6

\* A state with an entry and the rows of one thread replaced.
LEMMA PutSane ==
    ASSUME NEW w, Sane(w), NEW s \in Session, NEW e \in EntryOf(s), NEW tbl, OfThreads(tbl)
    PROVE  Sane(Put(w, s, e, tbl))
<1>0. PICK v : v = Put(w, s, e, tbl)
  OBVIOUS
<1>1. v = [conn |-> w.conn, index |-> Insert(w.index, s, e), subscribed |-> w.subscribed,
           rooted |-> w.rooted, live |-> w.live, refresh |-> w.refresh, again |-> w.again,
           timer |-> w.timer, rows |-> tbl]
  BY <1>0 DEF Sane, IsState, Put
<1>2. /\ IsState(v) /\ v.live = w.live /\ v.rows = tbl
      /\ v.index = [x \in DOMAIN w.index \cup {s} |-> IF x = s THEN e ELSE w.index[x]]
  BY <1>1 DEF IsState, Insert
<1>3. EntriesRight(v.index) /\ DOMAIN w.index \subseteq DOMAIN v.index
  BY <1>2 DEF Sane, EntriesRight
<1>4. \A x \in Session : v.live[x] # Null => ReadRightOf(v.live[x], v.index, x)
  BY <1>2, <1>3 DEF Sane, ReadRightOf
<1> QED BY <1>0, <1>2, <1>3, <1>4 DEF Sane

\* What a handler does that concerns one thread.
Puts(v, w, s, raw) ==
    \E e \in EntryOf(s), tbl \in {v.rows} : v = Put(w, s, e, tbl) /\ e.raw = raw /\ Local(tbl, w.rows, s)

\* An entry put with rows that are about its thread.
LEMMA PutsOne ==
    ASSUME NEW w, IsState(w), NEW s, NEW e \in EntryOf(s), NEW tbl, Local(tbl, w.rows, s), NEW raw, raw = e.raw
    PROVE  Puts(Put(w, s, e, tbl), w, s, raw) /\ Put(w, s, e, tbl).rows = tbl
<1>1. PICK v : v = Put(w, s, e, tbl)
  OBVIOUS
<1>2. v.rows = tbl
  BY <1>1 DEF Put, IsState
<1> QED BY <1>1, <1>2 DEF Puts

\* What a handler puts for a thread leaves the state as it should be.
LEMMA PutsSane ==
    ASSUME NEW w, Sane(w), NEW s \in Session, NEW v, NEW raw, Puts(v, w, s, raw)
    PROVE  Sane(v)
  BY PutSane DEF Puts, Local

\* A child that leaves the board.
LEMMA CleanupPuts ==
    ASSUME NEW w, Sane(w), NEW s \in Children, NEW e \in EntryOf(s)
    PROVE  Puts(Cleanup(w, s, e), w, s, e.raw)
<1>1. PICK d : d = [e EXCEPT !.registered = FALSE, !.cleaned = TRUE]
  OBVIOUS
<1>2. PICK tbl : tbl = IF e.cleaned THEN w.rows ELSE SubagentStop(w.rows, s)
  OBVIOUS
<1>3. d \in EntryOf(s) /\ d.raw = e.raw
  BY <1>1, FlagsMatter DEF EntryOf, Entry
<1>4. Local(tbl, w.rows, s)
  <2>1. Local(w.rows, w.rows, s)
    BY DEF Local, Sane
  <2> QED BY <1>2, <2>1, StopTakes, LineageIs DEF Sane
<1>5. Cleanup(w, s, e) = Put(w, s, d, tbl)
  BY <1>1, <1>2 DEF Cleanup
<1> QED BY <1>3, <1>4, <1>5, PutsOne DEF Sane

\* Nothing stands in the way of the thread's row: it is a root, or its parent
\* is taken to be registered and has a row, and so does the thread if it is.
Ready(w, s, e) == /\ e.raw # "closed"
                  /\ s \in Children => /\ e.raw = "active" /\ ParentRegistered(w.index, s)
                                       /\ ParentOf[s] \in DOMAIN w.rows
                                       /\ e.registered => s \in DOMAIN w.rows
InPlaceOf(v, w, s, e) == /\ v.index[s].registered /\ s \in DOMAIN v.rows
                         /\ v.rows[s].status = EffectiveStatus(e)
                         /\ Rewrites(v.rows, w.rows, s)

\* A child is hydrated: put on the board when nothing stands in the way.
LEMMA HydrateChildPuts ==
    ASSUME NEW w, Sane(w), NEW s \in Children, NEW e \in EntryOf(s)
    PROVE  /\ Puts(HydrateChild(w, s, e), w, s, e.raw)
           /\ Ready(w, s, e) => InPlaceOf(HydrateChild(w, s, e), w, s, e)
<1>0. s \in Session /\ IsState(w) /\ OfThreads(w.rows) /\ EffectiveStatus(e) \in Status
  BY LineageIs, FlagsMatter DEF Sane
<1>1. CASE ~ParentRegistered(w.index, s) \/ EffectiveStatus(e) = "idle"
  <2>1. ~Ready(w, s, e)
    BY <1>1 DEF Ready, EffectiveStatus
  <2> QED BY <1>1, <2>1, CleanupPuts DEF HydrateChild
<1>2. CASE ~(~ParentRegistered(w.index, s) \/ EffectiveStatus(e) = "idle") /\ e.registered
  <2>1. PICK tbl : tbl = StatusObserved(w.rows, s, EffectiveStatus(e), 0)
    OBVIOUS
  <2>2. Rewrites(tbl, w.rows, s) /\ DOMAIN tbl = DOMAIN w.rows /\ (s \in DOMAIN w.rows => tbl[s].status = EffectiveStatus(e))
    BY <1>0, <2>1, StatusTakes
  <2>3. PICK v : v = Put(w, s, e, tbl)
    OBVIOUS
  <2>4. Puts(v, w, s, e.raw) /\ v.rows = tbl
    BY <1>0, <2>2, <2>3, RewritesLocal, PutsOne
  <2>5. v.index[s] = e
    BY <1>0, <2>3 DEF Put, IsState, Insert
  <2>6. HydrateChild(w, s, e) = v
    BY <1>2, <2>1, <2>3 DEF HydrateChild
  <2> QED BY <1>2, <2>2, <2>4, <2>5, <2>6 DEF Ready, InPlaceOf
<1>3. CASE ~(~ParentRegistered(w.index, s) \/ EffectiveStatus(e) = "idle") /\ ~e.registered
  <2>1. PICK d, mid, tbl : /\ d = [e EXCEPT !.registered = TRUE, !.cleaned = FALSE]
                           /\ mid = SubagentStart(w.rows, s, ParentOf[s], 0)
                           /\ tbl = StatusObserved(mid, s, EffectiveStatus(e), 0)
    OBVIOUS
  <2>2. Rewrites(mid, w.rows, s) /\ (ParentOf[s] \in DOMAIN w.rows => s \in DOMAIN mid)
    BY <1>0, <2>1, SubagentTakes
  <2>3. Rewrites(tbl, mid, s) /\ DOMAIN tbl = DOMAIN mid /\ (s \in DOMAIN mid => tbl[s].status = EffectiveStatus(e))
    BY <1>0, <2>1, <2>2, StatusTakes DEF Rewrites
  <2>4. Rewrites(tbl, w.rows, s)
    BY <2>2, <2>3 DEF Rewrites
  <2>5. PICK v : v = Put(w, s, d, tbl)
    OBVIOUS
  <2>6. d \in EntryOf(s) /\ d.raw = e.raw /\ d.registered
    BY <2>1, FlagsMatter DEF EntryOf, Entry
  <2>7. Puts(v, w, s, e.raw) /\ v.rows = tbl
    BY <1>0, <2>4, <2>5, <2>6, RewritesLocal, PutsOne
  <2>8. v.index[s] = d
    BY <1>0, <2>5 DEF Put, IsState, Insert
  <2>9. HydrateChild(w, s, e) = v
    BY <1>3, <2>1, <2>5 DEF HydrateChild
  <2> QED BY <2>2, <2>3, <2>4, <2>6, <2>7, <2>8, <2>9 DEF Ready, InPlaceOf
<1> QED BY <1>1, <1>2, <1>3

\* A root is hydrated: put on the board.
LEMMA HydrateRootPuts ==
    ASSUME NEW w, Sane(w), NEW s \in Session \ Children, NEW e \in EntryOf(s), NEW liveStart
    PROVE  /\ Puts(HydrateRoot(w, s, e, liveStart), w, s, e.raw)
           /\ InPlaceOf(HydrateRoot(w, s, e, liveStart), w, s, e)
<1>0. IsState(w) /\ OfThreads(w.rows) /\ EffectiveStatus(e) \in Status
  BY FlagsMatter DEF Sane
<1>1. PICK d, mid, tbl : /\ d = [e EXCEPT !.registered = TRUE]
                         /\ mid = IF liveStart THEN SessionStart(w.rows, s, Null, 0)
                                  ELSE SessionObserved(w.rows, s, Null, 0)
                         /\ tbl = StatusObserved(mid, s, EffectiveStatus(e), 0)
  OBVIOUS
<1>2. Rewrites(mid, w.rows, s) /\ s \in DOMAIN mid
  BY <1>0, <1>1, SessionTakes
<1>3. Rewrites(tbl, mid, s) /\ DOMAIN tbl = DOMAIN mid /\ (s \in DOMAIN mid => tbl[s].status = EffectiveStatus(e))
  BY <1>0, <1>1, <1>2, StatusTakes DEF Rewrites
<1>4. Rewrites(tbl, w.rows, s)
  BY <1>2, <1>3 DEF Rewrites
<1>5. PICK v : v = Put(w, s, d, tbl)
  OBVIOUS
<1>6. d \in EntryOf(s) /\ d.raw = e.raw /\ d.registered
  BY <1>1, FlagsMatter DEF EntryOf, Entry
<1>7. Puts(v, w, s, e.raw) /\ v.rows = tbl
  BY <1>0, <1>4, <1>5, <1>6, RewritesLocal, PutsOne
<1>8. v.index[s] = d
  BY <1>0, <1>5 DEF Put, IsState, Insert
<1>9. HydrateRoot(w, s, e, liveStart) = v
  BY <1>1, <1>5 DEF HydrateRoot
<1> QED BY <1>2, <1>3, <1>4, <1>6, <1>7, <1>8, <1>9 DEF InPlaceOf

\* A thread is hydrated.
LEMMA HydratePuts ==
    ASSUME NEW w, Sane(w), NEW s \in Session, NEW e \in EntryOf(s), NEW liveStart
    PROVE  /\ Puts(HydrateState(w, s, e, liveStart), w, s, e.raw)
           /\ Ready(w, s, e) => InPlaceOf(HydrateState(w, s, e, liveStart), w, s, e)
<1>1. CASE e.raw = "closed"
  <2>1. PICK d, tbl : d = [e EXCEPT !.registered = FALSE] /\ tbl = EndEvent(w.rows, s)
    OBVIOUS
  <2>2. d \in EntryOf(s) /\ d.raw = e.raw
    BY <2>1, FlagsMatter DEF EntryOf, Entry
  <2>3. Local(tbl, w.rows, s)
    BY <2>1, StopTakes, EndTakes DEF Sane, EndEvent
  <2>4. HydrateState(w, s, e, liveStart) = Put(w, s, d, tbl)
    BY <1>1, <2>1 DEF HydrateState
  <2> QED BY <1>1, <2>2, <2>3, <2>4, PutsOne DEF Sane, Ready
<1>2. CASE e.raw # "closed" /\ IsChild(s)
  <2>1. s \in Children /\ HydrateState(w, s, e, liveStart) = HydrateChild(w, s, e)
    BY <1>2 DEF Children, HydrateState
  <2> QED BY <2>1, HydrateChildPuts
<1>3. CASE e.raw # "closed" /\ ~IsChild(s)
  <2>1. s \in Session \ Children /\ HydrateState(w, s, e, liveStart) = HydrateRoot(w, s, e, liveStart)
    BY <1>3 DEF Children, HydrateState
  <2> QED BY <2>1, HydrateRootPuts
<1> QED BY <1>1, <1>2, <1>3

-----------------------------------------------------------------------------
(***************************************************************************)
(* The sweeps over a candidate (deriveCandidateEvents). A thread of the    *)
(* board is put in place in the sweep of its depth at the latest, after    *)
(* the thread above it.                                                    *)
(***************************************************************************)
\* An injection of as many numbers as a set has members names them all.
LEMMA ListsAll ==
    ASSUME NEW S, IsFiniteSet(S), NEW f \in [1..Cardinality(S) -> S], IsInjective(f)
    PROVE  f \in Seq(S) /\ Len(f) = Cardinality(S) /\ \A s \in S : \E i \in 1..Len(f) : f[i] = s
<1>1. PICK n \in Nat : n = Cardinality(S)
  BY FS_CardinalityType
<1>2. f \in Seq(S) /\ Len(f) = n
  BY <1>1
<1>3. f \in Injection(1..n, S)
  BY <1>1 DEF Injection
<1>4. IsFiniteSet(1..n) /\ Cardinality(1..n) = n
  BY <1>1, FS_Interval
<1>5. f \in Surjection(1..n, S)
  BY <1>1, <1>3, <1>4, FS_Injection
<1> QED BY <1>1, <1>2, <1>5 DEF Surjection

\* Where a list names each thread, no child before a root.
RootsBefore(place, list, size) ==
    /\ place \in [Session -> 1..size]
    /\ \A s \in Session :
          /\ list[place[s]] = s
          /\ \A n \in 1..size : n <= place[s] /\ s \notin Children => list[n] \notin Children

\* The order visits every thread once in a sweep, the roots first.
LEMMA RootsFirst ==
    ASSUME NEW order \in Orders, NEW size, size = Cardinality(Session)
    PROVE  /\ size \in Nat
           /\ \E place : RootsBefore(place, SetToSeq(Session \ Children) \o order, size)
<1> DEFINE R == Session \ Children
<1>1. /\ IsFiniteSet(Session) /\ IsFiniteSet(R) /\ IsFiniteSet(Children)
      /\ Cardinality(R) \in Nat /\ Cardinality(Children) \in Nat
      /\ size \in Nat /\ size = Cardinality(R) + Cardinality(Children)
  <2>1. IsFiniteSet(Session) /\ Children \subseteq Session /\ Session \cap Children = Children
    BY SessionAssumption, LineageIs
  <2>2. IsFiniteSet(Children) /\ IsFiniteSet(R) /\ Cardinality(R) = size - Cardinality(Children)
    <3>1. IsFiniteSet(Children)
      BY <2>1, FS_Subset
    <3>2. IsFiniteSet(R) /\ Cardinality(R) = Cardinality(Session) - Cardinality(Session \cap Children)
      BY <2>1, FS_Difference
    <3> QED BY <2>1, <3>1, <3>2
  <2>3. size \in Nat /\ Cardinality(R) \in Nat /\ Cardinality(Children) \in Nat
    BY <2>1, <2>2, FS_CardinalityType
  <2> QED BY <2>1, <2>2, <2>3
<1>2. PICK first : first = SetToSeq(R)
  OBVIOUS
<1>3. first \in [1..Cardinality(R) -> R] /\ IsInjective(first)
  <2>1. \E f \in [1..Cardinality(R) -> R] : IsInjective(f)
    <3>1. ExistsBijection(1..Cardinality(R), R)
      <4> HIDE DEF R
      <4> QED BY <1>1, FS_CardinalityType
    <3> QED BY <3>1 DEF ExistsBijection, Bijection, Injection
  <2> QED BY <1>2, <2>1 DEF SetToSeq
<1>4. order \in [1..Cardinality(Children) -> Children] /\ IsInjective(order)
  <2>1. order \in [1..Cardinality(Children) -> Children]
        /\ \A i, j \in 1..Cardinality(Children) : i # j => order[i] # order[j]
    BY DEF Orders, SetToSeqs
  <2> QED BY <2>1 DEF IsInjective
<1> HIDE DEF R
<1>5. /\ first \in Seq(R) /\ Len(first) = Cardinality(R)
      /\ \A s \in R : \E i \in 1..Len(first) : first[i] = s
      /\ order \in Seq(Children) /\ Len(order) = Cardinality(Children)
      /\ \A s \in Children : \E i \in 1..Len(order) : order[i] = s
  BY <1>1, <1>3, <1>4, ListsAll
<1>6. PICK list : list = first \o order
  OBVIOUS
<1>7. R \cup Children = Session /\ R \cap Children = {}
  BY LineageIs DEF R
<1>8. /\ \A i \in 1..Len(first) : i \in 1..size /\ list[i] = first[i]
      /\ \A i \in 1..Len(order) : Len(first) + i \in 1..size /\ list[Len(first) + i] = order[i]
  <2>1. first \in Seq(Session) /\ order \in Seq(Session)
    BY <1>5, <1>7
  <2>2. \A i \in 1..(Len(first) + Len(order)) : list[i] = IF i <= Len(first) THEN first[i] ELSE order[i - Len(first)]
    BY <1>6, <2>1, ConcatProperties
  <2>3. \A i \in 1..Len(first) : i \in 1..size
    BY <1>1, <1>5
  <2>4. \A i \in 1..Len(order) : /\ Len(first) + i \in 1..size /\ ~(Len(first) + i <= Len(first))
                                 /\ (Len(first) + i) - Len(first) = i
    BY <1>1, <1>5
  <2>5. \A i \in 1..Len(first) : i <= Len(first)
    BY <1>1, <1>5
  <2>6. size = Len(first) + Len(order)
    BY <1>1, <1>5
  <2> QED BY <2>2, <2>3, <2>4, <2>5, <2>6
<1>9. \A s \in Session : \E i \in 1..size : list[i] = s /\ (s \notin Children => i \in 1..Len(first))
  <2> SUFFICES ASSUME NEW s \in Session
               PROVE  \E i \in 1..size : list[i] = s /\ (s \notin Children => i \in 1..Len(first))
    OBVIOUS
  <2>1. CASE s \in Children
    <3>1. PICK i \in 1..Len(order) : order[i] = s
      BY <1>5, <2>1
    <3>2. Len(first) + i \in 1..size /\ list[Len(first) + i] = s
      BY <1>8, <3>1
    <3> QED BY <2>1, <3>2
  <2>2. CASE s \notin Children
    <3>1. PICK i \in 1..Len(first) : first[i] = s
      BY <1>5, <1>7, <2>2
    <3> QED BY <1>8, <3>1
  <2> QED BY <2>1, <2>2
<1>10. PICK place \in [Session -> 1..size] :
         \A s \in Session : list[place[s]] = s /\ (s \notin Children => place[s] \in 1..Len(first))
  <2>1. PICK p : p = [s \in Session |-> CHOOSE i \in 1..size : list[i] = s /\ (s \notin Children => i \in 1..Len(first))]
    OBVIOUS
  <2> QED BY <1>9, <2>1
<1>11. \A s \in Session : \A n \in 1..size : n <= place[s] /\ s \notin Children => list[n] \notin Children
  <2> SUFFICES ASSUME NEW s \in Session, NEW n \in 1..size, n <= place[s], s \notin Children
               PROVE  list[n] \notin Children
    OBVIOUS
  <2>1. n \in 1..Len(first)
    BY <1>1, <1>5, <1>10
  <2>2. first[n] \in R
    BY <1>3, <1>5, <2>1
  <2> QED BY <1>7, <1>8, <2>1, <2>2
<1>12. RootsBefore(place, list, size)
  BY <1>10, <1>11 DEF RootsBefore
<1>13. list = SetToSeq(Session \ Children) \o order
  BY <1>2, <1>6 DEF R
<1> QED BY <1>1, <1>12, <1>13

\* The threads of the board in a candidate: whole trees, and a child that is
\* taken to be registered has a row.
Wanted(G, w) == /\ G \subseteq DOMAIN w.index \cap Session /\ UpClosed(G)
                /\ \A s \in G : /\ w.index[s].raw # "closed"
                                /\ s \in Children => /\ w.index[s].raw = "active"
                                                     /\ w.index[s].registered => s \in DOMAIN w.rows
Stands(v, s) == /\ v.index[s].registered /\ s \in DOMAIN v.rows
                /\ v.rows[s].status = "working" <=> v.index[s].raw = "active"
Swept(x, G, w) == /\ Preserved(x.w, w) /\ Sane(x.w)
                  /\ \A s \in G : IF s \in x.done THEN Stands(x.w, s)
                                  ELSE s \in Children /\ x.w.index[s].registered => s \in DOMAIN x.w.rows

\* A statement about a thread that is not above another leaves it alone.
LEMMA LocalElsewhere ==
    ASSUME NEW new, NEW tbl, NEW t, Local(new, tbl, t), NEW s \in Session, t \notin Above[s]
    PROVE  /\ s \in DOMAIN new <=> s \in DOMAIN tbl
           /\ s \in DOMAIN tbl => new[s] = tbl[s]
  BY DEF Local

\* A turn puts its thread in place when its parent is, and disturbs no thread
\* of the board: it is above none that has a row, unless it is one itself.
LEMMA TurnSweeps ==
    ASSUME NEW w, NEW G, Wanted(G, w), NEW x, Swept(x, G, w), NEW t,
           t \in G \cap Children /\ ParentOf[t] \notin Children => ParentOf[t] \in x.done,
           NEW y, y = DeriveState(x, t)
    PROVE  /\ Swept(y, G, w) /\ x.done \subseteq y.done
           /\ t \in G /\ (t \in Children => ParentOf[t] \in x.done) => t \in y.done
<1>0. /\ G \subseteq Session /\ G \subseteq DOMAIN x.w.index
      /\ \A s \in G : x.w.index[s].raw = w.index[s].raw
      /\ \A s \in G \cap Children : ParentOf[s] \in G
      /\ DOMAIN x.w.index \subseteq Session
  <2>1. G \subseteq DOMAIN w.index /\ \A s \in Session : SameRaw(x.w.index, w.index, s)
    BY DEF Wanted, Swept, Preserved
  <2>2. DOMAIN x.w.index \subseteq Session
    BY DEF Swept, Sane, EntriesRight
  <2>3. \A s \in G \cap Children : ParentOf[s] \in G
    BY DEF Wanted, UpClosed, Children
  <2>4. G \subseteq Session
    BY DEF Wanted
  <2> QED BY <2>1, <2>2, <2>3, <2>4 DEF SameRaw
<1>1. CASE t \in x.done \/ t \notin DOMAIN x.w.index \/ (IsChild(t) /\ ~ParentRegistered(x.w.index, t))
  <2>1. y = x
    BY <1>1 DEF DeriveState
  <2>2. ASSUME t \in G, t \in Children => ParentOf[t] \in x.done, t \notin x.done PROVE FALSE
    <3>1. t \in Children /\ ~ParentRegistered(x.w.index, t)
      BY <1>0, <1>1, <2>2 DEF Children
    <3>2. ParentOf[t] \in G /\ ParentOf[t] \in x.done
      BY <1>0, <2>2, <3>1
    <3> QED BY <1>0, <3>1, <3>2 DEF Swept, Stands, ParentRegistered
  <2> QED BY <2>1, <2>2
<1>2. CASE ~(t \in x.done \/ t \notin DOMAIN x.w.index \/ (IsChild(t) /\ ~ParentRegistered(x.w.index, t)))
  <2>1. PICK e, v : e = x.w.index[t] /\ v = HydrateState(x.w, t, e, FALSE)
    OBVIOUS
  <2>2. y.w = v /\ y.done = x.done \cup {t}
    BY <1>2, <2>1 DEF DeriveState
  <2>3. t \in Session /\ e \in EntryOf(t) /\ Sane(x.w)
    BY <1>0, <1>2, <2>1 DEF Swept, Sane, EntriesRight
  <2>4. Puts(v, x.w, t, e.raw) /\ (Ready(x.w, t, e) => InPlaceOf(v, x.w, t, e))
    BY <2>1, <2>3, HydratePuts
  <2>5. Sane(v)
    BY <2>3, <2>4, PutsSane
  <2>6. Preserved(v, w)
    BY <2>2, DeriveStateKeeps DEF Swept
  <2>7. Local(v.rows, x.w.rows, t)
    BY <2>4 DEF Puts
  <2>8. v.index[t].raw = e.raw /\ \A s \in DOMAIN x.w.index : s # t => v.index[s] = x.w.index[s]
    <3>1. PICK d, tbl : v = Put(x.w, t, d, tbl) /\ d.raw = e.raw
      BY <2>4 DEF Puts
    <3>2. v.index = Insert(x.w.index, t, d)
      BY <2>3, <3>1 DEF Put, Sane, IsState
    <3> QED BY <3>1, <3>2 DEF Insert
  <2>9. t \in G => InPlaceOf(v, x.w, t, e)
    <3> SUFFICES ASSUME t \in G PROVE Ready(x.w, t, e)
      BY <2>4
    <3>1. e.raw # "closed" /\ (t \in Children => e.raw = "active")
      BY <1>0, <2>1 DEF Wanted
    <3>2. t \in Children => ParentRegistered(x.w.index, t) /\ (e.registered => t \in DOMAIN x.w.rows)
      BY <1>2, <2>1 DEF Swept, Children
    <3>3. t \in Children => ParentOf[t] \in DOMAIN x.w.rows
      <4> SUFFICES ASSUME t \in Children PROVE ParentOf[t] \in DOMAIN x.w.rows
        OBVIOUS
      <4>1. ParentOf[t] \in G
        BY <1>0
      <4>2. CASE ParentOf[t] \in x.done
        BY <4>1, <4>2 DEF Swept, Stands
      <4>3. CASE ParentOf[t] \notin x.done
        <5>1. ParentOf[t] \in Children
          BY <4>3
        <5>2. x.w.index[ParentOf[t]].registered
          BY <3>2 DEF ParentRegistered
        <5> QED BY <4>1, <4>3, <5>1, <5>2 DEF Swept
      <4> QED BY <4>2, <4>3
    <3> QED BY <3>1, <3>2, <3>3 DEF Ready
  <2>10. ASSUME NEW s \in G
         PROVE  IF s \in y.done THEN Stands(v, s)
                ELSE s \in Children /\ v.index[s].registered => s \in DOMAIN v.rows
    <3>1. CASE s = t
      <4>1. v.rows[t].status = EffectiveStatus(e) /\ v.index[t].registered /\ t \in DOMAIN v.rows
        BY <2>9, <2>10, <3>1 DEF InPlaceOf
      <4>2. EffectiveStatus(e) = "working" <=> e.raw = "active"
        BY <2>3, FlagsMatter
      <4> QED BY <2>2, <2>8, <3>1, <4>1, <4>2 DEF Stands
    <3>2. CASE s # t
      <4>1. v.index[s] = x.w.index[s]
        BY <1>0, <2>8, <3>2
      <4>2. /\ s \in DOMAIN v.rows <=> s \in DOMAIN x.w.rows
            /\ s \in DOMAIN x.w.rows => v.rows[s] = x.w.rows[s]
        <5>1. CASE t \in G
          BY <2>9, <3>2, <5>1 DEF InPlaceOf, Rewrites
        <5>2. CASE t \notin G
          <6>1. Above[s] \subseteq G
            BY <1>0, AboveWithin
          <6>2. t \notin Above[s] /\ s \in Session
            BY <1>0, <5>2, <6>1
          <6> QED BY <2>7, <6>2, LocalElsewhere
        <5> QED BY <5>1, <5>2
      <4> QED BY <2>2, <3>2, <4>1, <4>2 DEF Swept, Stands
    <3> QED BY <3>1, <3>2
  <2>11. Swept(y, G, w)
    BY <2>2, <2>5, <2>6, <2>10 DEF Swept
  <2> QED BY <2>2, <2>11
<1> QED BY <1>1, <1>2

\* When a thread is visited with its parent done: in the sweep of its depth.
Depth(s) == Cardinality(Above[s])

LEMMA Depths ==
    ASSUME NEW s \in Session
    PROVE  /\ Depth(s) \in 1..Cardinality(Session)
           /\ s \notin Children => Depth(s) = 1
           /\ s \in Children => Depth(s) = Depth(ParentOf[s]) + 1 /\ Depth(ParentOf[s]) \in Nat
<1>0. IsFiniteSet(Session) /\ Cardinality(Session) \in Nat
  BY SessionAssumption, FS_CardinalityType
<1>1. \A x \in Session : /\ IsFiniteSet(Above[x]) /\ Cardinality(Above[x]) <= Cardinality(Session)
                         /\ Cardinality(Above[x]) \in Nat /\ Cardinality(Above[x]) # 0
  <2> TAKE x \in Session
  <2>1. Above[x] \in SUBSET Session /\ Above[x] # {}
    BY TreeFacts
  <2>2. IsFiniteSet(Above[x]) /\ Cardinality(Above[x]) <= Cardinality(Session)
    BY <1>0, <2>1, FS_Subset
  <2> QED BY <2>1, <2>2, FS_CardinalityType, FS_EmptySet
<1>2. s \notin Children => Depth(s) = 1
  BY AboveUnfolds, FS_Singleton DEF Depth
<1>3. ASSUME s \in Children PROVE Depth(s) = Depth(ParentOf[s]) + 1 /\ Depth(ParentOf[s]) \in Nat
  <2>1. /\ Above[s] = Above[ParentOf[s]] \cup {s} /\ s \notin Above[ParentOf[s]]
        /\ ParentOf[s] \in Session
    BY <1>3, AboveUnfolds
  <2>2. IsFiniteSet(Above[ParentOf[s]]) /\ Cardinality(Above[ParentOf[s]]) \in Nat
    BY <1>1, <2>1
  <2>3. Cardinality(Above[ParentOf[s]] \cup {s}) = Cardinality(Above[ParentOf[s]]) + 1
    BY <2>1, <2>2, FS_AddElement
  <2> QED BY <2>1, <2>2, <2>3 DEF Depth
<1> QED BY <1>0, <1>1, <1>2, <1>3 DEF Depth

\* The sweeps register every thread of the board and put its row in place.
LEMMA SweepsShow ==
    ASSUME NEW w, Sane(w), Known(w.index), NEW order \in Orders, NEW G, Wanted(G, w)
    PROVE  /\ Sane(DeriveCandidateEvents(w, order)) /\ Preserved(DeriveCandidateEvents(w, order), w)
           /\ \A s \in G : Stands(DeriveCandidateEvents(w, order), s)
<1>1. PICK size \in Nat : size = Cardinality(Session)
  BY SessionAssumption, FS_CardinalityType
<1>0. PICK place : RootsBefore(place, SetToSeq(Session \ Children) \o order, size)
  BY <1>1, RootsFirst
<1>2. /\ place \in [Session -> 1..size]
      /\ \A s \in Session :
            /\ (SetToSeq(Session \ Children) \o order)[place[s]] = s
            /\ \A n \in 1..size : n <= place[s] /\ s \notin Children =>
                                     (SetToSeq(Session \ Children) \o order)[n] \notin Children
  BY <1>0 DEF RootsBefore
<1>3. PICK sweep : /\ DeriveCandidateEvents(w, order) = sweep[Turns].w
                   /\ sweep[0] = [w |-> w, done |-> {}]
                   /\ \A n \in 1..Turns : sweep[n] = DeriveState(sweep[n - 1], Visit(order, n))
  BY SweepsUnfold
<1>4. Turns \in Nat /\ Turns = size * size
  BY <1>1, SweepsUnfold DEF Turns
<1> DEFINE due(s) == (Depth(s) - 1) * size + place[s]
           right == {n \in 0..Turns : /\ Swept(sweep[n], G, w)
                                      /\ \A s \in G : due(s) <= n => s \in sweep[n].done}
<1>5. G \subseteq Session
  BY DEF Wanted
<1>6. \A s \in Session : /\ Depth(s) \in 1..size /\ place[s] \in 1..size
                         /\ (Depth(s) - 1) * size \in Nat /\ due(s) \in Nat /\ due(s) >= 1
                         /\ due(s) <= Depth(s) * size /\ Depth(s) * size <= Turns
  <2> TAKE s \in Session
  <2>1. PICK d \in 1..size : d = Depth(s)
    BY <1>1, Depths
  <2>2. d \in Nat /\ d - 1 \in Nat /\ d <= size
    BY <1>1, <2>1
  <2>3. (d - 1) * size \in Nat /\ d * size <= size * size
    BY <1>1, <2>2, MoreTimes
  <2>4. d * size = (d - 1) * size + size
    BY <1>1, <2>2
  <2>5. place[s] \in 1..size
    BY <1>2
  <2> QED BY <1>1, <1>4, <2>1, <2>3, <2>4, <2>5
<1>7. \A s \in Session : s \in Children =>
         /\ ParentOf[s] \in Session /\ due(ParentOf[s]) <= due(s) - 1
         /\ ParentOf[s] \notin Children => due(ParentOf[s]) = place[ParentOf[s]]
  <2> SUFFICES ASSUME NEW s \in Children
               PROVE  /\ ParentOf[s] \in Session /\ due(ParentOf[s]) <= due(s) - 1
                      /\ ParentOf[s] \notin Children => due(ParentOf[s]) = place[ParentOf[s]]
    OBVIOUS
  <2>1. s \in Session /\ ParentOf[s] \in Session
    BY LineageIs
  <2>2. Depth(ParentOf[s]) = Depth(s) - 1
    <3>1. Depth(s) = Depth(ParentOf[s]) + 1 /\ Depth(ParentOf[s]) \in Nat
      BY <2>1, Depths
    <3> QED BY <3>1
  <2>3. due(ParentOf[s]) <= (Depth(s) - 1) * size
    BY <1>6, <2>1, <2>2
  <2>4. ParentOf[s] \notin Children => Depth(ParentOf[s]) = 1
    BY <2>1, Depths
  <2>5. due(ParentOf[s]) \in Nat /\ due(s) = (Depth(s) - 1) * size + place[s]
        /\ (Depth(s) - 1) * size \in Nat /\ place[s] \in 1..size
    BY <1>6, <2>1
  <2>6. due(ParentOf[s]) <= due(s) - 1
    <3> HIDE DEF due
    <3> QED BY <1>1, <2>3, <2>5
  <2>7. ParentOf[s] \notin Children => due(ParentOf[s]) = place[ParentOf[s]]
    <3>1. place[ParentOf[s]] \in Nat /\ 0 * size = 0
      BY <1>1, <1>2, <2>1
    <3> QED BY <2>4, <3>1
  <2> QED BY <2>1, <2>6, <2>7
<1> HIDE DEF due
<1>8. 0 \in right
  <2>1. Swept(sweep[0], G, w)
    BY <1>3 DEF Swept, Preserved, Held, Sane, SameRaw, Wanted
  <2>2. \A s \in G : ~(due(s) <= 0)
    BY <1>5, <1>6
  <2> QED BY <1>4, <2>1, <2>2
<1>9. ASSUME NEW n \in 1..Turns, n - 1 \in right PROVE n \in right
  <2>1. PICK x, y, t : x = sweep[n - 1] /\ y = sweep[n] /\ t = Visit(order, n)
    OBVIOUS
  <2>2. Swept(x, G, w) /\ y = DeriveState(x, t) /\ \A s \in G : due(s) <= n - 1 => s \in x.done
    BY <1>3, <1>9, <2>1
  <2>3. n \in Nat /\ n - 1 \in Nat /\ size # 0
    BY <1>1, <1>4
  <2>4. t = (SetToSeq(Session \ Children) \o order)[((n - 1) % size) + 1]
    BY <1>1, <2>1 DEF Visit
  <2>5. ASSUME t \in G \cap Children, ParentOf[t] \notin Children PROVE ParentOf[t] \in x.done
    <3>1. ParentOf[t] \in Session /\ ParentOf[t] \in G /\ due(ParentOf[t]) = place[ParentOf[t]]
      BY <1>5, <1>7, <2>5 DEF Wanted, UpClosed, Children
    <3>2. place[ParentOf[t]] <= n - 1
      <4>1. SUFFICES ASSUME n <= place[ParentOf[t]] PROVE FALSE
        BY <1>1, <1>2, <2>3, <3>1
      <4>2. n \in 1..size
        BY <1>1, <1>2, <2>3, <3>1, <4>1
      <4>3. (n - 1) % size = n - 1
        <5>1. (0 * size + (n - 1)) % size = n - 1
          <6>1. n - 1 \in 0..(size - 1)
            BY <1>1, <2>3, <4>2
          <6> QED BY <1>1, <2>3, <6>1, Remainder
        <5>2. 0 * size + (n - 1) = n - 1
          BY <1>1, <2>3
        <5> QED BY <5>1, <5>2
      <4>4. t = (SetToSeq(Session \ Children) \o order)[n]
        <5>1. ((n - 1) % size) + 1 = (n - 1) + 1
          BY <4>3
        <5>2. (n - 1) + 1 = n
          BY <2>3
        <5> QED BY <2>4, <5>1, <5>2
      <4> QED BY <1>2, <2>5, <3>1, <4>1, <4>2, <4>4
    <3> QED BY <2>2, <3>1, <3>2
  <2>6. /\ Swept(y, G, w) /\ x.done \subseteq y.done
        /\ t \in G /\ (t \in Children => ParentOf[t] \in x.done) => t \in y.done
    BY <2>2, <2>5, TurnSweeps
  <2>7. ASSUME NEW s \in G, due(s) <= n PROVE s \in y.done
    <3>1. CASE due(s) <= n - 1
      BY <2>2, <2>6, <3>1
    <3>2. CASE ~(due(s) <= n - 1)
      <4>1. due(s) = n /\ s \in Session
        BY <1>5, <1>6, <2>3, <2>7, <3>2
      <4>2. t = s
        <5>1. PICK d \in Nat : d = Depth(s) - 1
          BY <1>1, <1>6, <4>1
        <5>2. place[s] - 1 \in 0..(size - 1) /\ place[s] \in Nat
          BY <1>1, <1>6, <4>1
        <5>3. n = (d * size) + place[s] /\ d * size \in Nat
          BY <1>1, <1>6, <4>1, <5>1 DEF due
        <5>4. n - 1 = (d * size) + (place[s] - 1)
          BY <2>3, <5>2, <5>3
        <5>5. ((d * size) + (place[s] - 1)) % size = place[s] - 1
          BY <1>1, <2>3, <5>2, Remainder
        <5>6. ((n - 1) % size) + 1 = place[s]
          <6>1. (n - 1) % size = place[s] - 1
            BY <5>4, <5>5
          <6>2. ((n - 1) % size) + 1 = (place[s] - 1) + 1
            BY <6>1
          <6>3. (place[s] - 1) + 1 = place[s]
            BY <5>2
          <6> QED BY <6>2, <6>3
        <5> QED BY <1>2, <2>4, <4>1, <5>6
      <4>3. s \in Children => ParentOf[s] \in G /\ due(ParentOf[s]) <= n - 1
        BY <1>7, <4>1 DEF Wanted, UpClosed, Children
      <4> QED BY <2>2, <2>6, <2>7, <4>2, <4>3
    <3> QED BY <3>1, <3>2
  <2>8. n \in 0..Turns
    BY <1>4
  <2> QED BY <2>1, <2>6, <2>7, <2>8
<1>10. Turns \in right
  <2>1. 0..Turns \subseteq right
    <3> HIDE DEF right
    <3> QED BY <1>4, <1>8, <1>9, Stepwise
  <2> QED BY <1>4, <2>1
<1>11. Swept(sweep[Turns], G, w) /\ \A s \in G : s \in sweep[Turns].done
  <2>1. \A s \in G : due(s) <= Turns
    <3> TAKE s \in G
    <3>1. due(s) <= Depth(s) * size /\ Depth(s) * size <= Turns /\ Depth(s) \in 1..size /\ due(s) \in Nat
      BY <1>5, <1>6
    <3>2. Depth(s) * size \in Nat
      BY <1>1, <3>1
    <3> QED BY <1>4, <3>1, <3>2
  <2> QED BY <1>10, <2>1
<1> QED BY <1>3, <1>11 DEF Swept

-----------------------------------------------------------------------------
(***************************************************************************)
(* Every handler leaves the state as it should be.                         *)
(***************************************************************************)
\* Only the index, the rows and the reads matter.
LEMMA SaneSame ==
    ASSUME NEW w, Sane(w), NEW v, IsState(v), v.index = w.index, v.rows = w.rows, v.live = w.live
    PROVE  Sane(v)
  BY DEF Sane

\* To ask for a refresh, or to give one up, is about none of them.
LEMMA ScheduleSane ==
    ASSUME NEW w, Sane(w), NEW due
    PROVE  Sane(ScheduleRefresh(w, due)) /\ Sane(InvalidateRefreshGeneration(w))
<1>1. ASSUME NEW u, Sane(u), NEW d PROVE Sane(ScheduleRefresh(u, d))
  <2>1. PICK v : v = [u EXCEPT !.timer = d]
    OBVIOUS
  <2>2. v = [conn |-> u.conn, index |-> u.index, subscribed |-> u.subscribed, rooted |-> u.rooted,
             live |-> u.live, refresh |-> u.refresh, again |-> u.again, timer |-> d, rows |-> u.rows]
    BY <1>1, <2>1 DEF Sane, IsState
  <2>3. IsState(v) /\ v.index = u.index /\ v.rows = u.rows /\ v.live = u.live
    BY <2>2 DEF IsState
  <2> QED BY <1>1, <2>1, <2>3, SaneSame DEF ScheduleRefresh
<1>2. PICK r, v : r = [w.refresh EXCEPT !.stale = TRUE] /\ v = [w EXCEPT !.refresh = r]
  OBVIOUS
<1>3. v = [conn |-> w.conn, index |-> w.index, subscribed |-> w.subscribed, rooted |-> w.rooted,
           live |-> w.live, refresh |-> r, again |-> w.again, timer |-> w.timer, rows |-> w.rows]
  BY <1>2 DEF Sane, IsState
<1>4. IsState(v) /\ v.index = w.index /\ v.rows = w.rows /\ v.live = w.live
  BY <1>3 DEF IsState
<1>5. Sane(v)
  BY <1>4, SaneSame
<1>6. InvalidateRefreshGeneration(w) = IF w.refresh = NoRefresh THEN w ELSE ScheduleRefresh(v, "now")
  BY <1>2 DEF InvalidateRefreshGeneration
<1> QED BY <1>1, <1>5, <1>6

\* A read holds on to its object when the index lets go of it.
LEMMA LetGoSane ==
    ASSUME NEW w, Sane(w), NEW S
    PROVE  /\ Sane(LetGo(w, S)) /\ LetGo(w, S).index = w.index /\ LetGo(w, S).rows = w.rows
           /\ \A s \in Session : s \in S /\ LetGo(w, S).live[s] # Null =>
                                     ReadRightOf(LetGo(w, S).live[s], Empty, s)
<1>1. PICK reads : reads = [s \in Session |->
        IF s \in S /\ w.live[s] # Null /\ w.live[s].own = Null THEN [w.live[s] EXCEPT !.own = w.index[s]]
        ELSE w.live[s]]
  OBVIOUS
<1>2. PICK v : v = [w EXCEPT !.live = reads]
  OBVIOUS
<1>3. v = [conn |-> w.conn, index |-> w.index, subscribed |-> w.subscribed, rooted |-> w.rooted,
           live |-> reads, refresh |-> w.refresh, again |-> w.again, timer |-> w.timer, rows |-> w.rows]
  BY <1>2 DEF Sane, IsState
<1>4. IsState(v) /\ v.index = w.index /\ v.rows = w.rows /\ v.live = reads
  BY <1>3 DEF IsState
<1>5. LetGo(w, S) = v
  <2>1. w.live = [s \in Session |-> w.live[s]]
    BY DEF Sane
  <2> QED BY <1>1, <1>2, <2>1 DEF LetGo
<1>6. ASSUME NEW s \in Session
      PROVE  /\ reads[s] # Null => ReadRightOf(reads[s], w.index, s)
             /\ s \in S /\ reads[s] # Null => ReadRightOf(reads[s], Empty, s)
  <2>1. w.live[s] # Null => ReadRightOf(w.live[s], w.index, s)
    BY DEF Sane
  <2>2. CASE s \in S /\ w.live[s] # Null /\ w.live[s].own = Null
    <3>1. w.index[s] \in EntryOf(s) /\ w.index[s] # Null
      BY <2>1, <2>2, EntryAssumption DEF ReadRightOf, Sane, EntriesRight, EntryOf
    <3>2. reads[s] = [own |-> w.index[s], answered |-> w.live[s].answered]
      BY <1>1, <2>1, <2>2 DEF ReadRightOf
    <3> QED BY <3>1, <3>2 DEF ReadRightOf
  <2>3. CASE ~(s \in S /\ w.live[s] # Null /\ w.live[s].own = Null)
    BY <1>1, <2>1, <2>3 DEF ReadRightOf
  <2> QED BY <2>2, <2>3
<1>7. reads = [s \in Session |-> reads[s]]
  BY <1>1
<1> QED BY <1>4, <1>5, <1>6, <1>7 DEF Sane

\* The index may be another one when every read has its own object, or its
\* thread stays.
LEMMA ReplaceSane ==
    ASSUME NEW w, Sane(w), NEW v, IsState(v), v.rows = w.rows, v.live = w.live, EntriesRight(v.index),
           \A s \in Session : w.live[s] # Null => ReadRightOf(w.live[s], v.index, s)
    PROVE  Sane(v)
  BY DEF Sane

\* Threads leave the index; a read of one keeps its object.
LEMMA ForgetSane ==
    ASSUME NEW w, Sane(w), NEW S
    PROVE  Sane(Forget(w, S))
<1>0. PICK u, v : /\ u = LetGo(w, S)
                  /\ v = [u EXCEPT !.index = Restrict(@, DOMAIN @ \ S), !.subscribed = @ \ S, !.rooted = @ \ S]
  OBVIOUS
<1>1. /\ Sane(u) /\ u.index = w.index /\ u.rows = w.rows
      /\ \A s \in Session : s \in S /\ u.live[s] # Null => ReadRightOf(u.live[s], Empty, s)
  BY <1>0, LetGoSane
<1>2. v = [conn |-> u.conn, index |-> Restrict(u.index, DOMAIN u.index \ S), subscribed |-> u.subscribed \ S,
           rooted |-> u.rooted \ S, live |-> u.live, refresh |-> u.refresh, again |-> u.again,
           timer |-> u.timer, rows |-> u.rows]
  BY <1>0, <1>1 DEF Sane, IsState
<1>3. /\ IsState(v) /\ v.rows = u.rows /\ v.live = u.live
      /\ v.index = [x \in DOMAIN u.index \ S |-> u.index[x]]
  BY <1>2 DEF IsState, Restrict
<1>4. EntriesRight(v.index)
  BY <1>1, <1>3 DEF Sane, EntriesRight
<1>5. ASSUME NEW s \in Session, u.live[s] # Null PROVE ReadRightOf(u.live[s], v.index, s)
  <2>1. ReadRightOf(u.live[s], u.index, s)
    BY <1>1, <1>5 DEF Sane
  <2>2. CASE s \in S
    <3>1. ReadRightOf(u.live[s], Empty, s)
      BY <1>1, <1>5, <2>2
    <3> QED BY <3>1 DEF ReadRightOf, Empty
  <2>3. CASE s \notin S
    BY <1>3, <2>1, <2>3 DEF ReadRightOf
  <2> QED BY <2>2, <2>3
<1>6. Sane(v)
  BY <1>1, <1>3, <1>4, <1>5, ReplaceSane
<1> QED BY <1>0, <1>6 DEF Forget

\* To remember what is below a root is about none of them.
LEMMA RememberSane ==
    ASSUME NEW w, Sane(w)
    PROVE  Sane(Remember(w)) /\ Remember(w).index = w.index /\ Remember(w).rows = w.rows
<1>1. PICK v : v = Remember(w)
  OBVIOUS
<1>2. v = [conn |-> w.conn, index |-> w.index, subscribed |-> w.subscribed,
           rooted |-> (w.rooted \cap DOMAIN w.index) \cup WholeChain(w.index),
           live |-> w.live, refresh |-> w.refresh, again |-> w.again, timer |-> w.timer, rows |-> w.rows]
  BY <1>1 DEF Sane, IsState, Remember
<1>3. IsState(v) /\ v.index = w.index /\ v.rows = w.rows /\ v.live = w.live
  BY <1>2 DEF IsState
<1> QED BY <1>1, <1>3, SaneSame

\* A read begins over the index, or ends.
LEMMA ReadSane ==
    ASSUME NEW w, Sane(w), NEW s \in Session, NEW r, r = Null \/ ReadRightOf(r, w.index, s)
    PROVE  Sane([w EXCEPT !.live[s] = r]) /\ [w EXCEPT !.live[s] = r].index = w.index
<1>1. PICK v, reads : v = [w EXCEPT !.live[s] = r] /\ reads = [w.live EXCEPT ![s] = r]
  OBVIOUS
<1>2. v = [conn |-> w.conn, index |-> w.index, subscribed |-> w.subscribed, rooted |-> w.rooted,
           live |-> reads, refresh |-> w.refresh, again |-> w.again, timer |-> w.timer, rows |-> w.rows]
  BY <1>1 DEF Sane, IsState
<1>3. IsState(v) /\ v.index = w.index /\ v.rows = w.rows /\ v.live = reads
  BY <1>2 DEF IsState
<1>4. /\ reads = [x \in Session |-> reads[x]] /\ reads[s] = r
      /\ \A x \in Session : x # s => reads[x] = w.live[x]
  <2>1. w.live = [x \in Session |-> w.live[x]]
    BY DEF Sane
  <2> QED BY <1>1, <2>1
<1>5. \A x \in Session : reads[x] # Null => ReadRightOf(reads[x], w.index, x)
  BY <1>4 DEF Sane
<1> QED BY <1>1, <1>3, <1>4, <1>5 DEF Sane

\* What is parsed over an entry, or over nothing, is an entry.
LEMMA ParseSane ==
    ASSUME NEW s, NEW thread, thread.raw \in Raw
    PROVE  /\ \A e \in EntryOf(s) : ParseThread(thread, e) \in EntryOf(s) /\ ParseThread(thread, e).raw = thread.raw
           /\ \A idx : EntriesRight(idx) => ParseThread(thread, Previous(idx, s)) \in EntryOf(s)
<1>1. \A e \in EntryOf(s) : ParseThread(thread, e) \in EntryOf(s) /\ ParseThread(thread, e).raw = thread.raw
  BY DEF EntryOf, Entry, ParseThread
<1>2. ParseThread(thread, Unknown) \in EntryOf(s)
  BY DEF EntryOf, Entry, ParseThread, Unknown
<1> QED BY <1>1, <1>2 DEF Previous, EntriesRight

\* A started thread is hydrated and read.
LEMMA StartedSane ==
    ASSUME NEW w, Sane(w), NEW s \in Session, NEW raw \in Raw
    PROVE  Sane(HandleStarted(w, s, raw))
<1>1. PICK e, u, v, r, d :
        /\ e = ParseThread([raw |-> raw], Previous(w.index, s))
        /\ u = LetGo(w, DOMAIN w.index) /\ v = HydrateState(u, s, e, TRUE) /\ r = Remember(v)
        /\ d = [r EXCEPT !.live[s] = [own |-> Null, answered |-> FALSE]]
  OBVIOUS
<1>2. e \in EntryOf(s)
  BY <1>1, ParseSane DEF Sane
<1>3. Sane(u)
  BY <1>1, LetGoSane
<1>4. Puts(v, u, s, e.raw)
  BY <1>1, <1>2, <1>3, HydratePuts
<1>5. Sane(v) /\ s \in DOMAIN v.index
  <2>1. Sane(v)
    BY <1>3, <1>4, PutsSane
  <2>2. PICK a, tbl : v = Put(u, s, a, tbl)
    BY <1>4 DEF Puts
  <2>3. v.index = Insert(u.index, s, a)
    BY <1>3, <2>2 DEF Put, Sane, IsState
  <2> QED BY <2>1, <2>3 DEF Insert
<1>6. Sane(r) /\ r.index = v.index
  BY <1>1, <1>5, RememberSane
<1>7. Sane(d)
  BY <1>1, <1>5, <1>6, ReadSane DEF ReadRightOf
<1>8. HandleStarted(w, s, raw) = IF s \in w.subscribed THEN r ELSE d
  BY <1>1 DEF HandleStarted
<1> QED BY <1>6, <1>7, <1>8

\* Rows of threads may be replaced by others.
LEMMA RowsSane ==
    ASSUME NEW w, Sane(w), NEW tbl, OfThreads(tbl)
    PROVE  Sane([w EXCEPT !.rows = tbl])
<1>1. PICK v : v = [w EXCEPT !.rows = tbl]
  OBVIOUS
<1>2. v = [conn |-> w.conn, index |-> w.index, subscribed |-> w.subscribed, rooted |-> w.rooted,
           live |-> w.live, refresh |-> w.refresh, again |-> w.again, timer |-> w.timer, rows |-> tbl]
  BY <1>1 DEF Sane, IsState
<1>3. IsState(v) /\ v.index = w.index /\ v.rows = tbl /\ v.live = w.live
  BY <1>2 DEF IsState
<1> QED BY <1>1, <1>3 DEF Sane

\* A status is put, or takes its thread off the board.
LEMMA StatusSane ==
    ASSUME NEW w, Sane(w), NEW s \in DOMAIN w.index, NEW raw \in Raw
    PROVE  Sane(HandleStatus(w, s, raw))
<1>1. PICK e, u : /\ e = [w.index[s] EXCEPT !.raw = raw, !.failed = @ /\ raw # "active"]
                  /\ u = [w EXCEPT !.rows = SessionEnd(@, s)]
  OBVIOUS
<1>2. s \in Session /\ w.index[s] \in EntryOf(s) /\ OfThreads(w.rows)
  BY DEF Sane, EntriesRight
<1>3. e \in EntryOf(s)
  BY <1>1, <1>2 DEF EntryOf, Entry
<1>4. Sane(HydrateState(w, s, e, TRUE)) /\ (IsChild(s) => Sane(Cleanup(w, s, e)))
  BY <1>2, <1>3, HydratePuts, CleanupPuts, PutsSane DEF Children
<1>5. Sane(Forget(u, {s}))
  <2>1. PICK tbl : tbl = SessionEnd(w.rows, s)
    OBVIOUS
  <2>2. OfThreads(tbl) /\ u = [w EXCEPT !.rows = tbl]
    BY <1>1, <1>2, <2>1, EndTakes DEF Local
  <2> QED BY <2>2, RowsSane, ForgetSane
<1>6. Sane(Put(w, s, e, ApplyStatusEvent(w.rows, s, "Activity", 0)))
  BY <1>2, <1>3, EventTakes, PutSane DEF Rewrites
<1>7. Sane(Put(w, s, e, StatusObserved(w.rows, s, EffectiveStatus(e), 0)))
  <2>1. PICK st, tbl : st = EffectiveStatus(e) /\ tbl = StatusObserved(w.rows, s, st, 0)
    OBVIOUS
  <2>2. st \in Status
    BY <1>3, <2>1, FlagsMatter
  <2>3. OfThreads(tbl)
    BY <1>2, <2>1, <2>2, StatusTakes DEF Rewrites
  <2> QED BY <1>2, <1>3, <2>1, <2>3, PutSane
<1>8. HandleStatus(w, s, raw) = IF IsChild(s) /\ EffectiveStatus(e) = "idle" THEN Cleanup(w, s, e)
                                 ELSE IF IsChild(s) /\ ~e.registered THEN HydrateState(w, s, e, TRUE)
                                 ELSE IF raw = "closed" THEN Forget(u, {s})
                                 ELSE IF raw = "active" THEN Put(w, s, e, ApplyStatusEvent(w.rows, s, "Activity", 0))
                                 ELSE Put(w, s, e, StatusObserved(w.rows, s, EffectiveStatus(e), 0))
  BY <1>1 DEF HandleStatus
<1> QED BY <1>4, <1>5, <1>6, <1>7, <1>8

\* A turn begins, or ends.
LEMMA TurnSane ==
    ASSUME NEW w, Sane(w), NEW s \in DOMAIN w.index, NEW outcome
    PROVE  Sane(HandleRunning(w, s)) /\ Sane(HandleTerminal(w, s, outcome))
<1>1. PICK e, f, d : /\ e = [w.index[s] EXCEPT !.raw = "active", !.failed = FALSE]
                     /\ f = [w.index[s] EXCEPT !.failed = TRUE, !.raw = "idle"]
                     /\ d = [w.index[s] EXCEPT !.failed = FALSE]
  OBVIOUS
<1>2. s \in Session /\ w.index[s] \in EntryOf(s) /\ OfThreads(w.rows)
  BY DEF Sane, EntriesRight
<1>3. e \in EntryOf(s) /\ d \in EntryOf(s) /\ (s \notin Children => f \in EntryOf(s))
  BY <1>1, <1>2 DEF EntryOf, Entry, Raw
<1>4. /\ Sane(HydrateState(w, s, e, TRUE)) /\ (s \in Children => Sane(Cleanup(w, s, w.index[s])))
  BY <1>2, <1>3, HydratePuts, CleanupPuts, PutsSane
<1>5. \A kind \in {"Activity", "Stop", "StopFailure"} : OfThreads(ApplyStatusEvent(w.rows, s, kind, 0))
  BY <1>2, EventTakes DEF Rewrites
<1>6. /\ Sane(Put(w, s, e, ApplyStatusEvent(w.rows, s, "Activity", 0)))
      /\ Sane(Put(w, s, d, ApplyStatusEvent(w.rows, s, "Stop", 0)))
      /\ s \notin Children => Sane(Put(w, s, f, ApplyStatusEvent(w.rows, s, "StopFailure", 0)))
  BY <1>2, <1>3, <1>5, PutSane
<1>7. IsChild(s) <=> s \in Children
  BY <1>2 DEF Children
<1> QED BY <1>1, <1>4, <1>6, <1>7 DEF HandleRunning, HandleTerminal

\* A thread is closed with what is below it.
LEMMA ClosedSane ==
    ASSUME NEW w, Sane(w), NEW s \in Session
    PROVE  Sane(HandleClosed(w, s))
<1>1. PICK gone, stops, ends :
        /\ gone = IF IsChild(s) THEN {s} ELSE Descendants(w, s)
        /\ stops = DeleteRows(w.rows, {x \in gone : ~w.index[x].cleaned} \ TopLevel(w.rows))
        /\ ends = IF IsChild(s) THEN stops ELSE SessionEnd(stops, s)
  OBVIOUS
<1>2. OfThreads(stops)
  BY <1>1, DeleteTakes DEF Sane
<1>3. OfThreads(ends)
  BY <1>1, <1>2, EndTakes DEF Local
<1>4. HandleClosed(w, s) = ScheduleRefresh(Forget([w EXCEPT !.rows = ends], gone \cup {s}), "now")
  BY <1>1 DEF HandleClosed
<1> QED BY <1>3, <1>4, RowsSane, ForgetSane, ScheduleSane

\* Every notification leaves the state as it should be.
LEMMA NotificationSane ==
    ASSUME NEW w, Sane(w), NEW m \in Message, IsNotice(m)
    PROVE  Sane(HandleNotification(w, m))
<1>1. m.thread \in Session /\ m.raw \in Raw /\ m.kind \in NoticeKind
  BY DEF Message, IsNotice, NoticeKind
<1>2. PICK s \in Session : m.thread = s
  BY <1>1
<1>3. CASE m.kind = "started"
  BY <1>1, <1>2, <1>3, StartedSane DEF HandleNotification
<1>4. CASE m.kind = "invalidated"
  BY <1>4, ScheduleSane DEF HandleNotification
<1>5. CASE m.kind \notin {"started", "invalidated"} /\ s \notin DOMAIN w.index
  BY <1>2, <1>5, ScheduleSane DEF HandleNotification
<1>6. CASE m.kind = "status" /\ s \in DOMAIN w.index
  BY <1>1, <1>2, <1>6, StatusSane DEF HandleNotification
<1>7. CASE m.kind = "running" /\ s \in DOMAIN w.index
  BY <1>2, <1>7, TurnSane DEF HandleNotification
<1>8. CASE m.kind = "closed" /\ s \in DOMAIN w.index
  BY <1>2, <1>8, ClosedSane DEF HandleNotification
<1>9. CASE m.kind \in {"completed", "failed"} /\ s \in DOMAIN w.index
  BY <1>2, <1>9, TurnSane DEF HandleNotification
<1> QED BY <1>1, <1>3, <1>4, <1>5, <1>6, <1>7, <1>8, <1>9 DEF NoticeKind

\* So does an answer of subscribeLive, late as it may be.
LEMMA LiveSane ==
    ASSUME NEW w, Sane(w), NEW m, m.thread \in Session, m.answer \in Thread \cup {Null}
    PROVE  Sane(HandleLiveReply(w, m))
<1>1. PICK s \in Session : s = m.thread
  OBVIOUS
<1>2. PICK own, done, u : /\ own = IF w.live[s].own = Null THEN w.index[s] ELSE w.live[s].own
                          /\ done = [w EXCEPT !.live[s] = Null]
                          /\ u = [done EXCEPT !.subscribed = @ \cup {s}]
  OBVIOUS
<1>3. HandleLiveReply(w, m) = IF w.live[s] = Null THEN w
                              ELSE IF m.answer = Null THEN ScheduleRefresh(done, "now")
                              ELSE HydrateState(u, s, ParseThread(m.answer, own), FALSE)
  BY <1>1, <1>2 DEF HandleLiveReply
<1>4. Sane(done)
  BY <1>2, ReadSane
<1>5. Sane(u)
  <2>1. u = [conn |-> done.conn, index |-> done.index, subscribed |-> done.subscribed \cup {s},
             rooted |-> done.rooted, live |-> done.live, refresh |-> done.refresh, again |-> done.again,
             timer |-> done.timer, rows |-> done.rows]
    BY <1>2, <1>4 DEF Sane, IsState
  <2>2. IsState(u) /\ u.index = done.index /\ u.rows = done.rows /\ u.live = done.live
    BY <2>1 DEF IsState
  <2> QED BY <1>4, <2>2, SaneSame
<1>6. CASE w.live[s] # Null /\ m.answer # Null
  <2>1. own \in EntryOf(s)
    BY <1>2, <1>6 DEF Sane, ReadRightOf, EntriesRight
  <2>2. m.answer.raw \in Raw
    BY <1>6 DEF Thread
  <2>3. ParseThread(m.answer, own) \in EntryOf(s)
    BY <2>1, <2>2, ParseSane
  <2> QED BY <1>3, <1>5, <1>6, <2>3, HydratePuts, PutsSane
<1>7. CASE ~(w.live[s] # Null /\ m.answer # Null)
  BY <1>3, <1>4, <1>7, ScheduleSane
<1> QED BY <1>6, <1>7

-----------------------------------------------------------------------------
(***************************************************************************)
(* A refresh is accepted (acceptCandidate).                                *)
(***************************************************************************)
\* Bringing the rows in line takes the archived roots, and every child that
\* is not active, with what is below each.
LEMMA ReconcileTakes ==
    ASSUME NEW tbl, OfThreads(tbl), NEW archived \in SUBSET Session, NEW active \in SUBSET Session,
           NEW new, new = ReconcileEvener(tbl, archived, active)
    PROVE  /\ OfThreads(new) /\ \A s \in DOMAIN new : new[s] = tbl[s]
           /\ \A s \in DOMAIN new : s \in DOMAIN tbl /\ s \notin archived \ Children /\ (s \in Children => s \in active)
           /\ \A s \in DOMAIN tbl : /\ Above[s] \cap archived = {}
                                    /\ Above[s] \cap Children \subseteq active
                                    => s \in DOMAIN new
<1>1. PICK mid, gone, idle : /\ gone = archived \cap EvenerRows(tbl) \cap TopLevel(tbl)
                             /\ mid = DeleteRows(tbl, gone)
                             /\ idle = (EvenerRows(mid) \ TopLevel(mid)) \ active
  OBVIOUS
<1>2. new = DeleteRows(mid, idle)
  BY <1>1, EntryAssumption DEF ReconcileEvener, DropArchivedRoots, KeepActiveChildren
<1>3. \A t : OfThreads(t) => EvenerRows(t) = DOMAIN t /\ DOMAIN t \subseteq Session /\ TopLevel(t) = DOMAIN t \ Children
  <2> SUFFICES ASSUME NEW t, OfThreads(t) PROVE EvenerRows(t) = DOMAIN t /\ DOMAIN t \subseteq Session /\ TopLevel(t) = DOMAIN t \ Children
    OBVIOUS
  <2>1. DOMAIN t \subseteq Session /\ TopLevel(t) = DOMAIN t \ Children
    BY RowsStand
  <2> QED BY <2>1, EvenerAssumption DEF EvenerRows
<1>4. /\ OfThreads(mid) /\ \A s \in DOMAIN mid : mid[s] = tbl[s]
      /\ \A s \in Session : s \in DOMAIN mid <=> s \in DOMAIN tbl /\ Above[s] \cap gone = {}
  BY <1>1, DeleteTakes
<1>5. /\ OfThreads(new) /\ \A s \in DOMAIN new : new[s] = mid[s]
      /\ \A s \in Session : s \in DOMAIN new <=> s \in DOMAIN mid /\ Above[s] \cap idle = {}
  BY <1>2, <1>4, DeleteTakes
<1>6. gone = (archived \cap DOMAIN tbl) \ Children /\ idle = (DOMAIN mid \cap Children) \ active
  BY <1>1, <1>3, <1>4
<1>7. ASSUME NEW s \in DOMAIN new
      PROVE  s \in DOMAIN mid /\ s \in DOMAIN tbl /\ s \notin archived \ Children /\ (s \in Children => s \in active)
  <2>1. s \in Session /\ s \in Above[s]
    BY <1>3, <1>5, TreeFacts
  <2> QED BY <1>4, <1>5, <1>6, <2>1
<1>8. ASSUME NEW s \in DOMAIN tbl, Above[s] \cap archived = {}, Above[s] \cap Children \subseteq active
      PROVE  s \in DOMAIN new
  BY <1>3, <1>4, <1>5, <1>6, <1>8
<1> QED BY <1>4, <1>5, <1>7, <1>8

\* A state whose fields are replaced.
LEMMA Refitted ==
    ASSUME NEW w, IsState(w), NEW v, NEW tbl,
           v = [w EXCEPT !.rows = tbl, !.refresh = NoRefresh, !.again = FALSE]
    PROVE  v = [conn |-> w.conn, index |-> w.index, subscribed |-> w.subscribed,
                rooted |-> w.rooted, live |-> w.live, refresh |-> NoRefresh,
                again |-> FALSE, timer |-> w.timer, rows |-> tbl]
BY DEF IsState

LEMMA Retimed ==
    ASSUME NEW w, IsState(w), NEW v, NEW due, v = [w EXCEPT !.timer = due]
    PROVE  v = [conn |-> w.conn, index |-> w.index, subscribed |-> w.subscribed,
                rooted |-> w.rooted, live |-> w.live, refresh |-> w.refresh,
                again |-> w.again, timer |-> due, rows |-> w.rows]
BY DEF IsState

\* An accepted candidate and the rows: no child that is idle or below an
\* archived root is left, no archived root, and the threads of the board that
\* were not missed are there.
LEMMA AcceptShows ==
    ASSUME NEW w, Sane(w), IsRefresh(w.refresh), EntriesRight(w.refresh.candidate),
           w.refresh.archived \subseteq Session, NEW order \in Orders,
           NEW G, G \subseteq KeptOf(w.refresh), UpClosed(G),
           \A s \in G : /\ w.refresh.candidate[s].raw # "closed"
                        /\ s \in Children => /\ w.refresh.candidate[s].raw = "active"
                                             /\ w.refresh.candidate[s].registered => s \in DOMAIN w.rows,
           NEW done, done = AcceptCandidate(w, order)
    PROVE  /\ Sane(done)
           /\ \A s \in G : /\ s \in DOMAIN done.rows
                           /\ done.rows[s].status = "working" <=> w.refresh.candidate[s].raw = "active"
           /\ \A s \in DOMAIN done.rows : /\ s \notin w.refresh.archived \ Children
                                          /\ s \in Children => /\ s \in KeptOf(w.refresh)
                                                               /\ w.refresh.candidate[s].raw = "active"
<1>1. PICK r, u, adopted, swept, derived, active, tbl, synced, due :
        /\ r = w.refresh /\ u = LetGo(w, DOMAIN w.index)
        /\ adopted = [u EXCEPT !.index = Restrict(r.candidate, KeptOf(r)), !.subscribed = KeptOf(r)]
        /\ swept = DeriveCandidateEvents(adopted, order)
        /\ derived = Remember(swept)
        /\ active = ActiveChildren(derived.index)
        /\ tbl = ReconcileEvener(derived.rows, r.archived, active)
        /\ synced = [derived EXCEPT !.rows = ReconcileEvener(@, r.archived, ActiveChildren(derived.index)),
                                    !.refresh = NoRefresh, !.again = FALSE]
        /\ due = IF w.again THEN "now" ELSE "interval"
  OBVIOUS
<1>2. done = [synced EXCEPT !.timer = due]
  BY <1>1 DEF AcceptCandidate, ScheduleRefresh, KeptOf
<1>3. /\ Sane(u) /\ u.index = w.index /\ u.rows = w.rows
      /\ \A s \in Session : s \in DOMAIN w.index /\ u.live[s] # Null => ReadRightOf(u.live[s], Empty, s)
  BY <1>1, LetGoSane
<1>4. adopted = [conn |-> u.conn, index |-> Restrict(r.candidate, KeptOf(r)),
                 subscribed |-> KeptOf(r), rooted |-> u.rooted, live |-> u.live,
                 refresh |-> u.refresh, again |-> u.again, timer |-> u.timer, rows |-> u.rows]
  BY <1>1, <1>3 DEF Sane, IsState
<1>5. /\ IsState(adopted) /\ adopted.rows = w.rows /\ adopted.live = u.live
      /\ adopted.index = [s \in KeptOf(r) |-> r.candidate[s]]
  BY <1>3, <1>4 DEF IsState, Restrict
<1>6. KeptOf(r) \subseteq DOMAIN r.candidate /\ DOMAIN r.candidate \subseteq Session
  BY <1>1 DEF KeptOf, EntriesRight
<1>7. /\ EntriesRight(adopted.index) /\ Known(adopted.index) /\ DOMAIN adopted.index = KeptOf(r)
      /\ \A s \in KeptOf(r) : adopted.index[s] = r.candidate[s]
  BY <1>1, <1>5, <1>6 DEF Known, IsRefresh, EntriesRight
<1>8. Sane(adopted)
  <2>1. ASSUME NEW s \in Session, u.live[s] # Null PROVE ReadRightOf(u.live[s], adopted.index, s)
    <3>1. CASE s \in DOMAIN w.index
      BY <1>3, <2>1, <3>1 DEF ReadRightOf, Empty
    <3>2. CASE s \notin DOMAIN w.index
      BY <1>3, <2>1, <3>2 DEF Sane, ReadRightOf
    <3> QED BY <3>1, <3>2
  <2> QED BY <1>3, <1>5, <1>7, <2>1, ReplaceSane
<1>9. Wanted(G, adopted)
  BY <1>1, <1>5, <1>6, <1>7 DEF Wanted
<1>10. Sane(swept) /\ Preserved(swept, adopted) /\ \A s \in G : Stands(swept, s)
  BY <1>1, <1>7, <1>8, <1>9, SweepsShow
<1>11. Sane(derived) /\ derived.index = swept.index /\ derived.rows = swept.rows
  BY <1>1, <1>10, RememberSane
<1>12. /\ DOMAIN derived.index = KeptOf(r)
       /\ \A s \in KeptOf(r) : derived.index[s].raw = r.candidate[s].raw /\ derived.index[s] \in EntryOf(s)
  <2>1. DOMAIN derived.index \subseteq Session
    BY <1>11 DEF Sane, EntriesRight
  <2>2. \A s \in Session : SameRaw(derived.index, adopted.index, s)
    BY <1>10, <1>11 DEF Preserved
  <2> QED BY <1>6, <1>7, <1>11, <2>1, <2>2 DEF SameRaw, Sane, EntriesRight
<1>13. /\ active \subseteq Session /\ active \subseteq KeptOf(r)
       /\ \A s \in Children : s \in active => r.candidate[s].raw = "active"
       /\ \A s \in G \cap Children : s \in active
  <2>1. active = {s \in KeptOf(r) : /\ IsChild(s) /\ derived.index[s].registered
                                    /\ EffectiveStatus(derived.index[s]) # "idle"}
    BY <1>1, <1>12 DEF ActiveChildren
  <2>2. \A s \in KeptOf(r) \cap Children :
           EffectiveStatus(derived.index[s]) = IF derived.index[s].raw = "active" THEN "working" ELSE "idle"
    BY <1>12, FlagsMatter
  <2>3. \A s \in KeptOf(r) : IsChild(s) <=> s \in Children
    BY <1>6 DEF Children
  <2>4. \A s \in G \cap Children : s \in KeptOf(r) /\ r.candidate[s].raw = "active" /\ derived.index[s].registered
    BY <1>1, <1>10, <1>11 DEF Stands
  <2> QED BY <1>6, <1>12, <2>1, <2>2, <2>3, <2>4
<1>14. /\ OfThreads(tbl) /\ \A s \in DOMAIN tbl : tbl[s] = derived.rows[s]
       /\ \A s \in DOMAIN tbl : s \notin r.archived \ Children /\ (s \in Children => s \in active)
       /\ \A s \in DOMAIN derived.rows : /\ Above[s] \cap r.archived = {}
                                         /\ Above[s] \cap Children \subseteq active
                                         => s \in DOMAIN tbl
  <2>1. OfThreads(derived.rows) /\ r.archived \in SUBSET Session /\ active \in SUBSET Session
    BY <1>1, <1>11, <1>13 DEF Sane
  <2> QED BY <1>1, <2>1, ReconcileTakes
<1>15. done = [conn |-> derived.conn, index |-> derived.index, subscribed |-> derived.subscribed,
               rooted |-> derived.rooted, live |-> derived.live, refresh |-> NoRefresh, again |-> FALSE,
               timer |-> due, rows |-> tbl]
  <2>1. synced = [conn |-> derived.conn, index |-> derived.index, subscribed |-> derived.subscribed,
                  rooted |-> derived.rooted, live |-> derived.live, refresh |-> NoRefresh, again |-> FALSE,
                  timer |-> derived.timer, rows |-> tbl]
    <3>1. synced = [derived EXCEPT !.rows = tbl, !.refresh = NoRefresh, !.again = FALSE]
      BY <1>1
    <3>2. IsState(derived)
      BY <1>11 DEF Sane
    <3> QED BY <3>1, <3>2, Refitted
  <2>2. IsState(synced)
    BY <2>1 DEF IsState
  <2>3. done = [conn |-> synced.conn, index |-> synced.index, subscribed |-> synced.subscribed,
                rooted |-> synced.rooted, live |-> synced.live, refresh |-> synced.refresh,
                again |-> synced.again, timer |-> due, rows |-> synced.rows]
    BY <1>2, <2>2, Retimed
  <2> QED BY <2>1, <2>3
<1>16. IsState(done) /\ done.index = derived.index /\ done.live = derived.live /\ done.rows = tbl
  BY <1>15 DEF IsState
<1>17. Sane(done)
  BY <1>11, <1>14, <1>16 DEF Sane
<1>18. ASSUME NEW s \in G
       PROVE  s \in DOMAIN tbl /\ (tbl[s].status = "working" <=> r.candidate[s].raw = "active")
  <2>1. G \in SUBSET Session /\ s \in KeptOf(r) /\ s \in Session
    BY <1>1, <1>6
  <2>2. \A x \in G \cap Children : ParentOf[x] \in G
    BY DEF UpClosed, Children
  <2>3. Above[s] \subseteq G
    BY <2>1, <2>2, AboveWithin
  <2>4. s \in DOMAIN derived.rows /\ (derived.rows[s].status = "working" <=> derived.index[s].raw = "active")
    BY <1>10, <1>11 DEF Stands
  <2>5. Above[s] \cap r.archived = {} /\ Above[s] \cap Children \subseteq active
    <3>1. Above[s] \cap r.archived = {}
      BY <2>1 DEF KeptOf
    <3>2. \A x \in G \cap Children : x \in active
      BY <1>13
    <3> QED BY <2>3, <3>1, <3>2
  <2> QED BY <1>12, <1>14, <2>1, <2>4, <2>5
<1> QED BY <1>1, <1>13, <1>14, <1>16, <1>17, <1>18

-----------------------------------------------------------------------------
(***************************************************************************)
(* Every step, and the refresh that ends.                                  *)
(***************************************************************************)
\* What a refresh has found are entries of threads.
Finds(r) == r # NoRefresh => EntriesRight(r.candidate) /\ r.archived \subseteq Session
SaneInv == /\ EntriesRight(index) /\ OfThreads(rows) /\ Finds(refresh)
           /\ live = [s \in Session |-> live[s]]
           /\ \A s \in Session : live[s] # Null => ReadRightOf(live[s], index, s)

\* The variables are a state.
LEMMA NowSane == SaneInv => Sane(Now)
  BY DEF SaneInv, Sane, Now, IsState

\* To enter a state as it should be.
LEMMA Entered ==
    ASSUME NEW w, Sane(w), Finds(w.refresh), Enter(w)
    PROVE  SaneInv'
<1>1. index' = w.index /\ rows' = w.rows /\ refresh' = w.refresh /\ live' = w.live
  BY DEF Enter
<1>2. EntriesRight(index') /\ OfThreads(rows') /\ Finds(refresh')
  BY <1>1 DEF Sane
<1>3. live' = [s \in Session |-> live'[s]] /\ \A s \in Session : live'[s] # Null => ReadRightOf(live'[s], index', s)
  BY <1>1 DEF Sane
<1> QED BY <1>2, <1>3 DEF SaneInv

\* The hub answers: a refresh goes on, and a read keeps its object.
LEMMA AnswersSane ==
    ASSUME EvenerInv, SaneInv, TakeAnswer \/ RefusePlace \/ SendAnswer \/ \E s \in Session : AnswerLive(s)
    PROVE  SaneInv' /\ (refresh # NoRefresh => refresh' # NoRefresh)
<1>0. refresh # NoRefresh => IsRefresh(refresh) /\ Finds(refresh)
  BY DEF EvenerInv, RefreshInv, Refreshing, SaneInv
<1>1. CASE TakeAnswer \/ RefusePlace
  <2>1. PICK at, answer : refresh' = [refresh EXCEPT !.call = "taken", !.at = at, !.answer = answer]
    BY <1>1 DEF TakeAnswer, RefusePlace
  <2>2. refresh # NoRefresh /\ UNCHANGED <<index, rows, live>>
    BY <1>1 DEF TakeAnswer, RefusePlace
  <2>3. refresh' = [step |-> refresh.step, candidate |-> refresh.candidate, todo |-> refresh.todo,
                    archived |-> refresh.archived, stale |-> refresh.stale, call |-> "taken", at |-> at,
                    answer |-> answer]
    BY <1>0, <2>1, <2>2 DEF IsRefresh
  <2>4. Finds(refresh') /\ refresh' # NoRefresh
    BY <1>0, <2>2, <2>3 DEF Finds, NoRefresh, IsRefresh
  <2> QED BY <2>2, <2>4 DEF SaneInv
<1>2. CASE SendAnswer
  <2>1. refresh' = [refresh EXCEPT !.call = "sent", !.at = Null, !.answer = Null]
    BY <1>2 DEF SendAnswer
  <2>2. refresh # NoRefresh /\ UNCHANGED <<index, rows, live>>
    BY <1>2 DEF SendAnswer
  <2>3. refresh' = [step |-> refresh.step, candidate |-> refresh.candidate, todo |-> refresh.todo,
                    archived |-> refresh.archived, stale |-> refresh.stale, call |-> "sent", at |-> Null,
                    answer |-> Null]
    BY <1>0, <2>1, <2>2 DEF IsRefresh
  <2>4. Finds(refresh') /\ refresh' # NoRefresh
    BY <1>0, <2>2, <2>3 DEF Finds, NoRefresh, IsRefresh
  <2> QED BY <2>2, <2>4 DEF SaneInv
<1>3. CASE \E s \in Session : AnswerLive(s)
  <2>1. PICK s \in Session : AnswerLive(s)
    BY <1>3
  <2>2. UNCHANGED <<index, rows, refresh>> /\ live[s] # Null /\ live' = [live EXCEPT ![s].answered = TRUE]
    BY <2>1 DEF AnswerLive
  <2>3. live = [x \in Session |-> live[x]] /\ live[s] = [own |-> live[s].own, answered |-> live[s].answered]
    BY <2>2 DEF SaneInv, ReadRightOf
  <2>4. /\ live' = [x \in Session |-> live'[x]] /\ \A x \in Session : x # s => live'[x] = live[x]
        /\ live'[s] = [own |-> live[s].own, answered |-> TRUE]
    BY <2>2, <2>3
  <2>5. \A x \in Session : live'[x] # Null => ReadRightOf(live'[x], index, x)
    BY <2>2, <2>4 DEF SaneInv, ReadRightOf
  <2> QED BY <2>2, <2>4, <2>5 DEF SaneInv
<1> QED BY <1>1, <1>2, <1>3

\* A state that differs in what is due or asked for keeps its index and rows.
LEMMA StartSane ==
    ASSUME NEW w, Sane(w), Finds(w.refresh)
    PROVE  Sane(StartRefresh(w)) /\ Finds(StartRefresh(w).refresh)
<1>1. PICK q : q = [step |-> "list", candidate |-> Empty, todo |-> {}, archived |-> {},
                    stale |-> FALSE, call |-> "asked", at |-> Null, answer |-> Null]
  OBVIOUS
<1>2. Finds(q)
  BY <1>1 DEF Finds, EntriesRight, Empty
<1>3. PICK u, v : u = [w EXCEPT !.again = TRUE] /\ v = [w EXCEPT !.refresh = q]
  OBVIOUS
<1>4. /\ IsState(u) /\ u.index = w.index /\ u.rows = w.rows /\ u.live = w.live /\ u.refresh = w.refresh
      /\ IsState(v) /\ v.index = w.index /\ v.rows = w.rows /\ v.live = w.live /\ v.refresh = q
  BY <1>3 DEF Sane, IsState
<1>5. Sane(u) /\ Sane(v)
  BY <1>4, SaneSame
<1>6. StartRefresh(w) = IF w.refresh # NoRefresh THEN u ELSE v
  BY <1>1, <1>3 DEF StartRefresh
<1> QED BY <1>2, <1>4, <1>5, <1>6

\* A dead connection leaves the index and the rows.
LEMMA DisconnectedSane ==
    ASSUME NEW w, Sane(w)
    PROVE  Sane(Disconnected(w)) /\ Finds(Disconnected(w).refresh) /\ Disconnected(w).conn = "down"
<1>1. PICK v : v = Disconnected(w)
  OBVIOUS
<1>2. v = [conn |-> "down", index |-> w.index, subscribed |-> {}, rooted |-> w.rooted,
           live |-> [s \in Session |-> Null], refresh |-> NoRefresh, again |-> FALSE, timer |-> "off",
           rows |-> w.rows]
  BY <1>1 DEF Disconnected, Sane, IsState
<1>3. /\ IsState(v) /\ v.index = w.index /\ v.rows = w.rows /\ v.refresh = NoRefresh /\ v.conn = "down"
      /\ v.live = [s \in Session |-> Null]
  BY <1>2 DEF IsState
<1>4. Sane(v)
  BY <1>3 DEF Sane
<1> QED BY <1>1, <1>3, <1>4 DEF Finds

\* Timers and faults start and stop refreshes, but end none with success.
LEMMA TimersSane ==
    ASSUME EvenerInv, SaneInv,
           FireRefreshTimer \/ Connect \/ LoseConnection \/ \E s \in Session : LiveReadTimesOut(s)
    PROVE  SaneInv' /\ ~RefreshEnds
<1>0. Sane(Now) /\ Finds(Now.refresh) /\ Now.refresh = refresh
  BY NowSane DEF SaneInv, Now
<1>1. CASE FireRefreshTimer
  <2>1. PICK v : v = [Now EXCEPT !.timer = "off"]
    OBVIOUS
  <2>2. IsState(v) /\ v.index = index /\ v.rows = rows /\ v.live = live /\ v.refresh = refresh /\ v.timer = "off"
    BY <2>1 DEF Now, IsState
  <2>3. Sane(v) /\ Finds(v.refresh)
    BY <1>0, <2>2, SaneSame DEF Now
  <2>4. Sane(StartRefresh(v)) /\ Finds(StartRefresh(v).refresh) /\ Enter(StartRefresh(v))
    BY <1>1, <2>1, <2>3, StartSane DEF FireRefreshTimer
  <2>5. StartRefresh(v).timer = "off"
    BY <2>2 DEF StartRefresh, IsState
  <2>6. timer' = "off"
    BY <2>4, <2>5 DEF Enter
  <2> QED BY <2>4, <2>6, Entered DEF RefreshEnds
<1>2. CASE Connect
  <2>1. PICK v : v = [Now EXCEPT !.conn = "up"]
    OBVIOUS
  <2>2. IsState(v) /\ v.index = index /\ v.rows = rows /\ v.live = live /\ v.refresh = refresh
    BY <2>1 DEF Now, IsState
  <2>3. Sane(v) /\ Finds(v.refresh)
    BY <1>0, <2>2, SaneSame DEF Now
  <2>4. Sane(StartRefresh(v)) /\ Finds(StartRefresh(v).refresh) /\ Enter(StartRefresh(v))
    BY <1>2, <2>1, <2>3, StartSane DEF Connect
  <2>5. refresh = NoRefresh
    BY <1>2 DEF Connect, EvenerInv, RefreshInv, Refreshing
  <2> QED BY <2>4, <2>5, Entered DEF RefreshEnds
<1>3. CASE LoseConnection
  <2>1. Enter(Disconnected(Now))
    BY <1>3 DEF LoseConnection
  <2>2. conn' = "down"
    BY <1>0, <2>1, DisconnectedSane DEF Enter
  <2> QED BY <1>0, <2>1, <2>2, DisconnectedSane, Entered DEF RefreshEnds
<1>4. CASE \E s \in Session : LiveReadTimesOut(s)
  <2>1. PICK s \in Session : LiveReadTimesOut(s)
    BY <1>4
  <2>2. PICK v, w : v = [Now EXCEPT !.live[s] = Null] /\ w = [v EXCEPT !.timer = "now"]
    OBVIOUS
  <2>3. Sane(v) /\ v.refresh = refresh
    BY <1>0, <2>2, ReadSane DEF Now
  <2>4. Sane(w)
    BY <2>2, <2>3, ScheduleSane DEF ScheduleRefresh
  <2>5. w.refresh = refresh /\ w.timer = "now"
    BY <2>2, <2>3 DEF Sane, IsState
  <2>6. Enter(w)
    BY <2>1, <2>2 DEF LiveReadTimesOut, ScheduleRefresh
  <2>7. timer' = "now"
    BY <2>5, <2>6 DEF Enter
  <2> QED BY <1>0, <2>4, <2>5, <2>6, <2>7, Entered DEF RefreshEnds
<1> QED BY <1>1, <1>2, <1>3, <1>4

\* Between the answers of a refresh its end is far.
LEMMA NoticesSane ==
    ASSUME EvenerInv, SaneInv, Deliver, ~IsReply(Head(wire))
    PROVE  SaneInv' /\ (NothingToTell => ~RefreshEnds)
<1>1. PICK m : m = wire[1]
  OBVIOUS
<1>2. Head(wire) = m /\ m \in Message /\ 1 \in DOMAIN wire
  BY <1>1, Shifted DEF Deliver, EvenerInv, WireInv
<1>3. PICK order \in Orders : Enter(HandleMessage(Now, m, order))
  BY <1>2 DEF Deliver
<1>4. Sane(Now) /\ Finds(Now.refresh) /\ Now.refresh = refresh
  BY NowSane DEF SaneInv, Now
<1>5. IsNotice(m) \/ m.kind = "liveReply"
  BY <1>2 DEF Message, IsNotice, IsReply
<1>6. CASE IsNotice(m)
  <2>1. PICK v, w : v = InvalidateRefreshGeneration(Now) /\ w = HandleNotification(v, m)
    OBVIOUS
  <2>2. Enter(w)
    BY <1>3, <1>6, <2>1 DEF HandleMessage, IsNotice, NoticeKind
  <2>3. Sane(v)
    BY <1>4, <2>1, ScheduleSane
  <2>4. Sane(w)
    BY <1>2, <1>6, <2>1, <2>3, NotificationSane
  <2>5. /\ v.refresh = IF refresh = NoRefresh THEN refresh ELSE [refresh EXCEPT !.stale = TRUE]
        /\ Known(v.index)
    <3>0. Known(index)
      BY DEF EvenerInv, IndexInv
    <3>1. CASE refresh = NoRefresh
      BY <2>1, <3>0, <3>1 DEF InvalidateRefreshGeneration, Now
    <3>2. CASE refresh # NoRefresh
      BY <2>1, <3>0, <3>2 DEF InvalidateRefreshGeneration, ScheduleRefresh, Now
    <3> QED BY <3>0, <3>1, <3>2
  <2>6. Finds(v.refresh)
    <3>1. CASE refresh # NoRefresh
      <4>1. IsRefresh(refresh) /\ Finds(refresh)
        BY <1>4, <3>1 DEF EvenerInv, RefreshInv, Refreshing
      <4>2. v.refresh = [step |-> refresh.step, candidate |-> refresh.candidate, todo |-> refresh.todo,
                         archived |-> refresh.archived, stale |-> TRUE, call |-> refresh.call,
                         at |-> refresh.at, answer |-> refresh.answer]
        BY <2>5, <3>1, <4>1 DEF IsRefresh
      <4> QED BY <3>1, <4>1, <4>2 DEF Finds
    <3> QED BY <2>5, <3>1 DEF Finds
  <2>7. w.refresh = v.refresh
    BY <1>2, <1>6, <2>1, <2>3, <2>5, NoticeEffect DEF Effect, Sane
  <2>8. ~NothingToTell
    BY <1>1, <1>2, <1>6 DEF NothingToTell, IsNotice, NoticeKind
  <2> QED BY <2>2, <2>4, <2>6, <2>7, <2>8, Entered
<1>7. CASE m.kind = "liveReply"
  <2>1. PICK w : w = HandleLiveReply(Now, m)
    OBVIOUS
  <2>2. Enter(w) /\ m.thread \in Session /\ m.answer \in Thread \cup {Null}
    BY <1>2, <1>3, <1>7, <2>1 DEF HandleMessage, Message, NoticeKind
  <2>3. Sane(w)
    BY <1>4, <2>1, <2>2, LiveSane
  <2>4. w.refresh = refresh
    BY <2>1, <2>2, LiveEffect
  <2>5. refresh' = refresh
    BY <2>2, <2>4 DEF Enter
  <2> QED BY <1>4, <2>2, <2>3, <2>4, <2>5, Entered DEF RefreshEnds
<1> QED BY <1>5, <1>6, <1>7

\* What is read into the findings of a refresh are entries of threads.
LEMMA ReadFinds ==
    ASSUME EntriesRight(index), NEW r, IsRefresh(r), Finds(r), NEW m, m.answer # Null,
           IsAnswer(r, m.thread, m.answer)
    PROVE  Finds(Read(r, m)) /\ (r.step = "place" => Read(r, m).candidate = r.candidate)
<1>0. EntriesRight(r.candidate) /\ r.archived \subseteq Session /\ r.todo \subseteq DOMAIN r.candidate
  BY DEF Finds, IsRefresh, NoRefresh
<1>1. CASE r.step = "list"
  <2>1. PICK c : c = Parsed(m.answer)
    OBVIOUS
  <2>2. DOMAIN m.answer \subseteq Session /\ \A s \in DOMAIN m.answer : m.answer[s].raw \in Raw
    BY <1>1 DEF IsAnswer, Listing, Thread
  <2>3. DOMAIN c = DOMAIN m.answer /\ \A s \in DOMAIN c : c[s] = ParseThread(m.answer[s], Previous(index, s))
    BY <2>1 DEF Parsed
  <2>4. EntriesRight(c)
    BY <2>2, <2>3, ParseSane DEF EntriesRight
  <2> QED BY <1>0, <1>1, <2>1, <2>4 DEF Finds, Read, Gathered
<1>2. CASE r.step = "read"
  <2>1. PICK c : c = Reparsed(r, m)
    OBVIOUS
  <2>2. m.thread \in DOMAIN r.candidate /\ m.answer.raw \in Raw
    BY <1>0, <1>2 DEF IsAnswer, Thread
  <2>3. /\ DOMAIN c = DOMAIN r.candidate /\ \A s \in DOMAIN c : s # m.thread => c[s] = r.candidate[s]
        /\ c[m.thread] = ParseThread(m.answer, r.candidate[m.thread])
    BY <2>1, <2>2 DEF Reparsed
  <2>4. c[m.thread] \in EntryOf(m.thread)
    BY <1>0, <2>2, <2>3, ParseSane DEF EntriesRight
  <2>5. EntriesRight(c)
    BY <1>0, <2>3, <2>4 DEF EntriesRight
  <2> QED BY <1>0, <1>2, <2>1, <2>5 DEF Finds, Read, Gathered
<1>3. CASE r.step = "place"
  <2>1. m.thread \in Session
    BY <1>0, <1>3 DEF IsAnswer, EntriesRight
  <2> QED BY <1>0, <1>3, <2>1 DEF Finds, Read, Gathered
<1> QED BY <1>1, <1>2, <1>3 DEF IsRefresh

\* What every answer of the refresh together says, when nothing was told since.
Right(q) == /\ IsRefresh(q) /\ Finds(q) /\ Complete(q)
            /\ \A s \in Session : GatheredRight(q, s)

\* The candidate of a whole refresh that is right places every archived root.
LEMMA RightCandidate ==
    ASSUME HubInv, NEW q, Right(q)
    PROVE  /\ \A s \in Session : s \in KeptOf(q) /\ q.candidate[s].raw # "closed" => s \in Visible
           /\ \A s \in Visible : s \in KeptOf(q)
           /\ \A s \in Session \ Children : hub[s].archived => s \in q.archived
<1>1. /\ DOMAIN q.candidate \subseteq Session /\ UpClosed(DOMAIN q.candidate) /\ q.todo = {}
      /\ q.step = "place" \/ DOMAIN q.candidate \ Children = {}
  BY DEF Right, IsRefresh, Known, Complete
<1>2. \A s \in Session : /\ IF s \in DOMAIN q.candidate THEN q.candidate[s].raw = hub[s].raw
                            ELSE hub[s].raw = "closed"
                         /\ Above[s] \cap q.archived # {} => s \notin Visible
                         /\ q.step = "place" /\ s \in DOMAIN q.candidate /\ hub[s].archived => s \in q.archived
  BY <1>1 DEF Right, GatheredRight
<1>3. \A s \in Session : hub[s].archived => s \notin Children /\ hub[s].raw = "idle"
  BY DEF HubInv, HubValid, Children
<1>4. \A s \in Session \ Children : hub[s].archived => s \in q.archived
  BY <1>1, <1>2, <1>3
<1>5. ASSUME NEW s \in Session, s \in KeptOf(q), q.candidate[s].raw # "closed" PROVE s \in Visible
  <2>1. s \in DOMAIN q.candidate /\ Above[s] \cap q.archived = {}
    BY <1>5 DEF KeptOf
  <2>2. hub[s].raw # "closed"
    BY <1>2, <1>5, <2>1
  <2>3. \A x \in Above[s] : ~hub[x].archived
    BY <1>3, <1>4, <2>1, TreeFacts
  <2> QED BY <2>2, <2>3 DEF Visible
<1>6. \A s \in Visible : s \in KeptOf(q)
  BY <1>2 DEF Visible, KeptOf
<1> QED BY <1>4, <1>5, <1>6

\* Above a thread of the board that works or is not a child are such threads.
LEMMA BoardUpClosed ==
    ASSUME HubInv, NEW known
    PROVE  UpClosed({s \in Visible : Shown(s) /\ ~Missed(s, known)})
<1> SUFFICES ASSUME NEW s \in Visible, Shown(s), ~Missed(s, known), IsChild(s)
             PROVE  ParentOf[s] \in Visible /\ Shown(ParentOf[s]) /\ ~Missed(ParentOf[s], known)
  BY DEF UpClosed
<1>1. s \in Session /\ ParentOf[s] \in Session /\ Above[ParentOf[s]] \subseteq Above[s]
  BY TreeFacts DEF Visible
<1>2. hub[ParentOf[s]].raw # "closed"
  BY <1>1 DEF HubInv, HubValid, Visible
<1>3. ParentOf[s] \in Visible
  BY <1>1, <1>2 DEF Visible
<1>4. Shown(ParentOf[s])
  BY <1>1 DEF Shown
<1>5. ~Missed(ParentOf[s], known)
  BY <1>1 DEF Missed
<1> QED BY <1>3, <1>4, <1>5

\* When the candidate accepted is right, so are the rows it leaves.
LEMMA AcceptAgrees ==
    ASSUME HubInv, UNCHANGED hub, NEW q, Right(q), NEW v, Sane(v), v.refresh = q, v.rows = rows,
           NEW order \in Orders, rows' = AcceptCandidate(v, order).rows,
           NEW s \in Session, ~Missed(s, q.candidate)
    PROVE  Agrees(s)'
<1> DEFINE G == {x \in Visible : Shown(x) /\ ~Missed(x, q.candidate)}
<1>0. Visible' = Visible /\ (Shown(s)' <=> Shown(s)) /\ hub' = hub
  BY DEF Visible, Shown
<1>1. /\ IsRefresh(q) /\ EntriesRight(q.candidate) /\ q.archived \subseteq Session
      /\ DOMAIN q.candidate \subseteq Session
      /\ \A x \in DOMAIN q.candidate : x \in Session /\ q.candidate[x].raw = hub[x].raw
  <2>1. IsRefresh(q) /\ EntriesRight(q.candidate) /\ q.archived \subseteq Session
    BY DEF Right, Finds, IsRefresh, NoRefresh
  <2> QED BY <2>1 DEF Right, EntriesRight, GatheredRight
<1>2. /\ \A x \in Session : x \in KeptOf(q) /\ q.candidate[x].raw # "closed" => x \in Visible
      /\ \A x \in Visible : x \in KeptOf(q)
      /\ \A x \in Session \ Children : hub[x].archived => x \in q.archived
  BY RightCandidate
<1>3. UpClosed(G)
  BY BoardUpClosed
<1>4. G \subseteq KeptOf(q)
  BY <1>2
<1>5. ASSUME NEW x \in G
      PROVE  /\ q.candidate[x].raw # "closed"
             /\ x \in Children => /\ q.candidate[x].raw = "active"
                                  /\ q.candidate[x].registered => x \in DOMAIN rows
  <2>1. x \in Session /\ x \in Above[x] /\ hub[x].raw # "closed" /\ x \in DOMAIN q.candidate
        /\ q.candidate[x].raw = hub[x].raw
    BY <1>1, <1>4, TreeFacts DEF Visible, KeptOf
  <2>2. x \in Children => hub[x].raw = "active"
    BY <2>1 DEF Shown
  <2>3. x \in Children /\ q.candidate[x].registered => x \in DOMAIN rows
    BY <2>1 DEF Missed
  <2> QED BY <2>1, <2>2, <2>3
<1> HIDE DEF G
<1>6. PICK done : done = AcceptCandidate(v, order)
  OBVIOUS
<1>7. /\ Sane(done)
      /\ \A x \in G : /\ x \in DOMAIN done.rows
                      /\ done.rows[x].status = "working" <=> q.candidate[x].raw = "active"
      /\ \A x \in DOMAIN done.rows : /\ x \notin q.archived \ Children
                                     /\ x \in Children => x \in KeptOf(q) /\ q.candidate[x].raw = "active"
  BY <1>1, <1>3, <1>4, <1>5, <1>6, AcceptShows
<1>8. rows' = done.rows /\ OfThreads(rows')
  BY <1>6, <1>7 DEF Sane
<1>9. CASE s \in Visible /\ Shown(s)
  <2>1. s \in G
    BY <1>9 DEF G
  <2>2. q.candidate[s].raw = hub[s].raw
    BY <1>1, <1>4, <2>1 DEF KeptOf
  <2> QED BY <1>0, <1>7, <1>8, <1>9, <2>1, <2>2 DEF Agrees
<1>10. CASE ~(s \in Visible /\ Shown(s))
  <2> SUFFICES ASSUME IsChild(s) \/ hub[s].archived, s \in DOMAIN rows' PROVE FALSE
    BY <1>0, <1>10 DEF Agrees
  <2>1. \A x \in Above[s] \cap Children : x \in KeptOf(q) /\ q.candidate[x].raw = "active"
    BY <1>7, <1>8, RowsStand
  <2>2. \A x \in Above[s] \cap Children : hub[x].raw = "active"
    BY <1>1, <2>1 DEF KeptOf
  <2>3. Shown(s)
    BY <2>2 DEF Shown
  <2>4. CASE s \in Children
    <3>1. s \in Above[s]
      BY TreeFacts
    <3> QED BY <1>2, <1>10, <2>1, <2>3, <2>4, <3>1
  <2>5. CASE s \notin Children
    <3>1. hub[s].archived
      BY <2>5 DEF Children
    <3> QED BY <1>2, <1>7, <1>8, <2>5, <3>1
  <2> QED BY <2>4, <2>5
<1> QED BY <1>9, <1>10

\* An answer of a refresh keeps the rows sound; the last puts them right.
LEMMA RepliesSane ==
    ASSUME EvenerInv, SaneInv, Deliver, IsReply(Head(wire))
    PROVE  /\ SaneInv'
           /\ RefreshEnds /\ NothingToTell => \A s \in Session : Agrees(s)' \/ Missed(s, refresh.candidate)
<1>1. PICK m : m = wire[1]
  OBVIOUS
<1>2. /\ UNCHANGED hub /\ Head(wire) = m /\ m \in Message /\ 1 \in DOMAIN wire
      /\ \A i \in DOMAIN wire : i \in Nat /\ 1 <= i
  BY <1>1, Shifted DEF Deliver, EvenerInv, WireInv
<1>3. m.kind = "refreshReply" /\ IsReply(wire[1]) /\ Replied
  BY <1>1, <1>2 DEF IsReply, Replied
<1>4. IsRefresh(refresh) /\ Refreshing /\ IsAnswer(refresh, m.thread, m.answer)
  BY <1>1, <1>2, <1>3 DEF EvenerInv, RefreshInv
<1>5. PICK order \in Orders : Enter(HandleRefreshReply(Now, m, order))
  BY <1>2, <1>3 DEF Deliver, HandleMessage
<1>6. /\ Sane(Now) /\ Now.refresh = refresh /\ Now.rows = rows /\ Now.index = index
      /\ Finds(refresh) /\ EntriesRight(index) /\ Known(index)
  BY NowSane DEF SaneInv, Now, EvenerInv, IndexInv
<1>7. CASE m.answer = Null /\ refresh.step # "place"
  <2>1. Enter(Disconnected(Now))
    BY <1>5, <1>6, <1>7 DEF HandleRefreshReply
  <2>2. conn' = "down"
    BY <1>6, <2>1, DisconnectedSane DEF Enter
  <2> QED BY <1>6, <2>1, <2>2, DisconnectedSane, Entered DEF RefreshEnds
<1>8. CASE (m.answer # Null \/ refresh.step = "place") /\ (refresh.stale \/ m.answer = Null)
  <2>0. PICK due \in {"now", "retry"} : Enter(Abandon(Now, due))
    BY <1>5, <1>6, <1>8 DEF HandleRefreshReply
  <2>1. PICK v, w : v = [Now EXCEPT !.refresh = NoRefresh] /\ w = [v EXCEPT !.timer = due]
    OBVIOUS
  <2>2. Enter(w)
    BY <2>0, <2>1 DEF Abandon, ScheduleRefresh
  <2>3. IsState(v) /\ v.index = index /\ v.rows = rows /\ v.live = live /\ v.refresh = NoRefresh
    BY <2>1 DEF Now, IsState
  <2>4. Sane(v)
    BY <1>6, <2>3, SaneSame DEF Now
  <2>5. Sane(w)
    BY <2>1, <2>4, ScheduleSane DEF ScheduleRefresh
  <2>6. w.refresh = NoRefresh /\ w.timer = due
    BY <2>1, <2>3 DEF IsState
  <2>7. timer' # "interval"
    BY <2>0, <2>2, <2>6 DEF Enter
  <2> QED BY <2>2, <2>5, <2>6, <2>7, Entered DEF RefreshEnds, Finds
<1>9. CASE m.answer # Null /\ ~refresh.stale
  <2>1. PICK q, v, w : q = Read(refresh, m) /\ v = [Now EXCEPT !.refresh = q] /\ w = Advance(v, order)
    OBVIOUS
  <2>2. Enter(w)
    BY <1>4, <1>5, <1>6, <1>9, <2>1, StepReads DEF HandleRefreshReply
  <2>3. IsState(v) /\ v.index = index /\ v.rows = rows /\ v.live = live /\ v.refresh = q
    BY <2>1 DEF Now, IsState
  <2>4. Sane(v)
    BY <1>6, <2>3, SaneSame DEF Now
  <2>5. Finds(q) /\ IsRefresh(q) /\ q.step # "list" /\ q # NoRefresh
        /\ (refresh.step = "place" => q.candidate = refresh.candidate)
    <3>1. IsRefresh(q) /\ q.step # "list"
      BY <1>4, <1>9, <2>1, ReadRight DEF EvenerInv
    <3> QED BY <1>4, <1>6, <1>9, <2>1, <3>1, ReadFinds DEF IsRefresh, NoRefresh
  <2>6. AsksOn(w, v) \/ (w = AcceptCandidate(v, order) /\ Complete(q))
    BY <1>6, <2>1, <2>3, <2>5, AdvanceSteps
  <2>7. CASE AsksOn(w, v)
    <3>1. /\ IsState(w) /\ w.index = v.index /\ w.rows = v.rows /\ w.live = v.live
          /\ w.refresh.candidate = q.candidate /\ w.refresh.archived = q.archived /\ IsRefresh(w.refresh)
      BY <2>3, <2>7 DEF AsksOn
    <3>2. Sane(w)
      BY <2>4, <3>1, SaneSame
    <3>3. Finds(w.refresh)
      BY <2>5, <3>1 DEF Finds
    <3>4. refresh' # NoRefresh
      BY <2>2, <3>1 DEF Enter, IsRefresh, NoRefresh
    <3> QED BY <2>2, <3>2, <3>3, <3>4, Entered DEF RefreshEnds
  <2>8. CASE w = AcceptCandidate(v, order) /\ Complete(q)
    <3>1. /\ EntriesRight(q.candidate) /\ q.archived \subseteq Session
      BY <2>5 DEF Finds
    <3>2. Sane(w)
      <4> DEFINE none == {}
      <4>1. none \subseteq KeptOf(q) /\ UpClosed(none) /\ \A s \in none : FALSE
        BY DEF UpClosed
      <4> HIDE DEF none
      <4> QED BY <2>3, <2>4, <2>5, <2>8, <3>1, <4>1, AcceptShows
    <3>3. w.refresh = NoRefresh
      BY <1>6, <2>3, <2>5, <2>8, AcceptAccepts DEF Accepted
    <3>4. ASSUME NothingToTell, NEW s \in Session, ~Missed(s, refresh.candidate)
          PROVE  Agrees(s)'
      <4>1. ~Doomed /\ \A x \in Session : ~IsTold(x)
        <5>1. \A i \in DOMAIN wire : ~IsNotice(wire[i])
          BY <3>4 DEF NothingToTell, IsNotice, NoticeKind
        <5> QED BY <1>9, <5>1 DEF Doomed, IsTold, Tells
      <4>2. \A x \in Session : GatheredRight(q, x)
        <5> SUFFICES ASSUME NEW x \in Session PROVE GatheredRight(q, x)
          OBVIOUS
        <5>1. /\ refresh.step # "list" => GatheredRight(refresh, x)
              /\ AnswerRight(refresh, x, m.thread, m.answer)
          BY <1>1, <1>2, <1>3, <1>4, <4>1 DEF EvenerInv, GatherInv
        <5> QED BY <1>4, <1>9, <2>1, <5>1, ReadRight DEF EvenerInv
      <4>3. Right(q)
        BY <2>5, <2>8, <4>2 DEF Right
      <4>4. HubInv
        BY DEF EvenerInv
      <4>5. rows' = AcceptCandidate(v, order).rows
        BY <2>2, <2>8 DEF Enter
      <4>6. CASE refresh.step = "place"
        BY <1>2, <2>3, <2>4, <2>5, <3>4, <4>3, <4>4, <4>5, <4>6, AcceptAgrees
      <4>7. CASE refresh.step # "place"
        <5>1. DOMAIN q.candidate = {}
          <6>1. q.step # "place"
            BY <1>4, <2>1, <4>7 DEF Read, Gathered, IsRefresh
          <6>2. DOMAIN q.candidate \in SUBSET Session /\ DOMAIN q.candidate \subseteq Children
            BY <2>5, <2>8, <6>1 DEF Complete, IsRefresh, Known
          <6>3. \A x \in DOMAIN q.candidate : ParentOf[x] \in DOMAIN q.candidate
            BY <2>5, <6>2 DEF IsRefresh, UpClosed, Children
          <6> QED BY <6>2, <6>3, EvenerAssumption
        <5>2. ~Missed(s, q.candidate)
          BY <5>1 DEF Missed
        <5> QED BY <1>2, <2>3, <2>4, <2>5, <4>3, <4>4, <4>5, <5>2, AcceptAgrees
      <4> QED BY <4>6, <4>7
    <3> QED BY <2>2, <3>2, <3>3, <3>4, Entered DEF Finds
  <2> QED BY <2>6, <2>7, <2>8
<1> QED BY <1>7, <1>8, <1>9

\* Every step keeps the entries and the rows sound, and ends no refresh but
\* with its last answer.
LEMMA SaneStep ==
    ASSUME EvenerInv, SaneInv, [Next]_vars
    PROVE  /\ SaneInv'
           /\ RefreshEnds /\ NothingToTell => \A s \in Session : Agrees(s)' \/ Missed(s, refresh.candidate)
<1>1. CASE HubStep \/ UNCHANGED vars
  <2>1. UNCHANGED collector
    BY <1>1 DEF HubStep, OpenThread, StartTurn, EndTurn, CloseThread, Archive, HubChange, vars
  <2>2. UNCHANGED <<index, rows, live, refresh>>
    BY <2>1 DEF collector
  <2> QED BY <2>2 DEF SaneInv, RefreshEnds
<1>2. CASE TakeAnswer \/ RefusePlace \/ SendAnswer \/ \E s \in Session : AnswerLive(s)
  BY <1>2, AnswersSane DEF RefreshEnds
<1>3. CASE FireRefreshTimer \/ Connect \/ LoseConnection \/ \E s \in Session : LiveReadTimesOut(s)
  BY <1>3, TimersSane
<1>4. CASE Deliver
  BY <1>4, NoticesSane, RepliesSane
<1> QED BY <1>1, <1>2, <1>3, <1>4 DEF Next

\* At first there are no rows and no entries.
LEMMA SaneInit ==
    ASSUME Init
    PROVE  SaneInv
<1>1. index = Empty /\ rows = Empty /\ refresh = NoRefresh /\ live = [s \in Session |-> Null]
  BY DEF Init
<1>2. EntriesRight(Empty)
  BY DEF EntriesRight, Empty
<1>3. OfThreads(Empty)
  <2>1. Sound(Empty) /\ DOMAIN Empty = {}
    BY EmptySound DEF Empty
  <2> QED BY <2>1 DEF OfThreads
<1> QED BY <1>1, <1>2, <1>3 DEF SaneInv, Finds

\* Whatever the hub tells and however answers and notifications interleave,
\* the registry holds a sound table in which every row is under the thread
\* that started it: no notification, late answer or refresh leaves a child
\* without its parent, or under another.
THEOREM RowsFollowLineage == Spec => []OfThreads(rows)
<1>1. Init => EvenerInv /\ SaneInv
  BY InitInv, SaneInit
<1>2. EvenerInv /\ SaneInv /\ [Next]_vars => EvenerInv' /\ SaneInv'
  BY EvenerStep, SaneStep
<1>3. SaneInv => OfThreads(rows)
  BY DEF SaneInv
<1> QED BY <1>1, <1>2, <1>3, PTL DEF Spec

\* A refresh accepted while nothing is on its way (the reconciliation half of
\* onUpdate) leaves the rows of the hub's threads and no others, whatever the
\* collector and the registry held before; but for the children missed, whose
\* row a cascade took while their entry kept its flag `registered`.
THEOREM RefreshRights == Spec => RefreshPutsRight
<1>1. Init => EvenerInv /\ SaneInv
  BY InitInv, SaneInit
<1>2. EvenerInv /\ SaneInv /\ [Next]_vars => EvenerInv' /\ SaneInv'
  BY EvenerStep, SaneStep
<1>3. EvenerInv /\ SaneInv /\ [Next]_vars =>
         [RefreshEnds /\ NothingToTell => \A s \in Session : Agrees(s)' \/ Missed(s, refresh.candidate)]_vars
  BY SaneStep
<1> QED BY <1>1, <1>2, <1>3, PTL DEF Spec, RefreshPutsRight
=============================================================================

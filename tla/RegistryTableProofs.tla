------------------------ MODULE RegistryTableProofs ------------------------
(***************************************************************************)
(* What the mutations of RegistryTable preserve, for every table and every *)
(* set of identities: the rows stay rows, slots and parents stay what the  *)
(* schema demands, the native rows stay a forest, and an unviewed result   *)
(* never has a running expiry clock.                                       *)
(***************************************************************************)
EXTENDS RegistryTable, NaturalSetTheorems

Sound(tbl) == /\ IsTable(tbl)
              /\ SlotsValid(tbl) /\ ParentsValid(tbl)
              /\ Forest(tbl)
              /\ ClocksStopped(tbl)

-----------------------------------------------------------------------------
(***************************************************************************)
(* Rows.                                                                   *)
(***************************************************************************)

\* What a row keeps when a statement rewrites its fields in place.
Keeps(row, new) == /\ new \in Row
                   /\ new.parent = row.parent /\ new.slot = row.slot
                   /\ ClockStopped(row) => ClockStopped(new)

LEMMA KeepsSelf == ASSUME NEW row \in Row PROVE Keeps(row, row)
BY DEF Keeps

LEMMA KeepsTwice ==
    ASSUME NEW row, NEW mid, NEW new, Keeps(row, mid), Keeps(mid, new)
    PROVE  Keeps(row, new)
BY DEF Keeps

LEMMA StatusRowKeeps ==
    ASSUME NEW row \in Row, NEW status \in Status, NEW t \in Nat
    PROVE  Keeps(row, StatusRow(row, status, t))
BY DEF Keeps, StatusRow, Row, ClockStopped

LEMMA StoppedKeeps ==
    ASSUME NEW row \in Row, NEW t \in Nat
    PROVE  Keeps(row, Stopped(row, t))
<1>1. CASE row.bg
  BY <1>1, StatusRowKeeps DEF Stopped, Status
<1>2. CASE ~row.bg
  BY <1>2 DEF Keeps, Stopped, StatusRow, Row, Status, Stamp, ClockStopped
<1> QED BY <1>1, <1>2

LEMMA FailedKeeps ==
    ASSUME NEW row \in Row, NEW t \in Nat
    PROVE  Keeps(row, Failed(row, t))
BY DEF Keeps, Failed, StatusRow, Row, Status, Stamp, ClockStopped

LEMMA AfterStatusEventKeeps ==
    ASSUME NEW row \in Row, NEW kind \in StatusEvent, NEW t \in Nat
    PROVE  Keeps(row, AfterStatusEvent(row, kind, t))
<1>1. CASE kind \in {"Activity", "Attention"}
  BY <1>1, StatusRowKeeps DEF AfterStatusEvent, Status
<1>2. CASE kind = "Stop"
  BY <1>2, StoppedKeeps DEF AfterStatusEvent
<1>3. CASE kind = "StopFailure"
  BY <1>3, FailedKeeps DEF AfterStatusEvent
<1>4. CASE kind \in {"BackgroundWorkStarted", "BackgroundWorkCleared"}
  <2>1. AfterStatusEvent(row, kind, t)
          = [row EXCEPT !.bg = (kind = "BackgroundWorkStarted"), !.updated = t]
    BY <1>4 DEF AfterStatusEvent
  <2> QED BY <2>1 DEF Keeps, Row, ClockStopped
<1> QED BY <1>1, <1>2, <1>3, <1>4 DEF StatusEvent

LEMMA RestartedKeeps ==
    ASSUME NEW row \in Row, NEW origin \in Origin \cup {Null}, NEW t \in Nat
    PROVE  Keeps(row, Restarted(row, origin, t))
<1> DEFINE idle == StatusRow(row, "idle", t)
           kept == IF origin = Null THEN idle.origin ELSE origin
<1>1. Keeps(row, idle)
  BY StatusRowKeeps DEF Status
<1>2. kept \in Origin \cup {Null}
  BY <1>1 DEF Keeps, Row
<1>3. Restarted(row, origin, t)
        = [idle EXCEPT !.bg = FALSE, !.unread = Null, !.done = Null, !.viewed = Null,
                       !.ended = FALSE, !.origin = kept]
  BY DEF Restarted
<1> HIDE DEF idle, kept
<1>4. Keeps(idle, Restarted(row, origin, t))
  BY <1>1, <1>2, <1>3 DEF Keeps, Row, Stamp, ClockStopped
<1> QED BY <1>1, <1>4, KeepsTwice

LEMMA ViewedKeeps ==
    ASSUME NEW row \in Row, NEW at \in Nat
    PROVE  Keeps(row, Viewed(row, at))
BY DEF Keeps, Viewed, Row, Stamp, ClockStopped

LEMMA ReleasedKeeps ==
    ASSUME NEW row \in Row, NEW at \in Nat
    PROVE  /\ Keeps(row, Released(row, at))
           /\ Keeps(row, [Released(row, at) EXCEPT !.acked = at])
<1>1. Keeps(row, Released(row, at)) /\ Released(row, at).unread = Null
  BY DEF Keeps, Released, Row, Status, Stamp, ClockStopped
<1>2. Keeps(Released(row, at), [Released(row, at) EXCEPT !.acked = at])
  BY <1>1 DEF Keeps, Row, Stamp, ClockStopped
<1> QED BY <1>1, <1>2, KeepsTwice

LEMMA OriginKeeps ==
    ASSUME NEW row \in Row, NEW origin \in Origin \cup {Null}
    PROVE  Keeps(row, [row EXCEPT !.origin = origin])
BY DEF Keeps, Row, ClockStopped

LEMMA MirroredKeeps ==
    ASSUME NEW row \in Row, NEW r \in PaseoRecord
    PROVE  Keeps(row, Mirrored(row, r))
<1>1. Keeps(row, Flagged(row, r))
  <2>1. CASE FlagLands(row, r) /\ row.unread = Null
    <3>1. FlagTime(r) \in Stamp
      BY DEF FlagTime, PaseoRecord
    <3> DEFINE done == IF row.done = Null THEN FlagTime(r) ELSE row.done
    <3>2. done \in Stamp
      BY <3>1 DEF Row
    <3>3. Flagged(row, r) = [row EXCEPT !.unread = FlagTime(r), !.viewed = Null, !.done = done]
      BY <2>1 DEF Flagged, Row
    <3> HIDE DEF done
    <3> QED BY <3>1, <3>2, <3>3 DEF Keeps, Row, Stamp, ClockStopped
  <2>2. CASE ~(FlagLands(row, r) /\ row.unread = Null)
    BY <2>2, KeepsSelf DEF Flagged
  <2> QED BY <2>1, <2>2
<1>2. OriginOf(r) \in Origin
  BY DEF OriginOf, Origin, PaseoRecord
<1> QED BY <1>1, <1>2, OriginKeeps, KeepsTwice DEF Mirrored, Keeps

LEMMA SettledKeeps ==
    ASSUME NEW row \in Row, NEW r \in PaseoRecord, NEW bgCutoff
    PROVE  Keeps(row, Settled(row, r, bgCutoff))
<1>1. CASE ~Settles(row, r, bgCutoff)
  BY <1>1, KeepsSelf DEF Settled
<1>2. CASE Settles(row, r, bgCutoff)
  <2>1. r.updated \in Nat
    BY <1>2 DEF Settles, PaseoRecord, Stamp
  <2> DEFINE idle == [row EXCEPT !.status = "idle", !.statusSince = r.updated, !.bg = FALSE]
  <2>2. Keeps(row, idle)
    BY <2>1 DEF Keeps, Row, Status, ClockStopped
  <2>3. Keeps(row, [idle EXCEPT !.done = r.updated, !.unread = r.updated, !.viewed = Null])
    BY <2>1 DEF Keeps, Row, Status, Stamp, ClockStopped
  <2> QED BY <1>2, <2>2, <2>3 DEF Settled
<1> QED BY <1>1, <1>2

LEMMA LeftBehindKeeps ==
    ASSUME NEW row \in Row, NEW r \in PaseoRecord
    PROVE  Keeps(row, LeftBehind(row, r))
<1> DEFINE since == IF row.status # "idle" /\ r.updated # Null THEN r.updated
                                                              ELSE row.statusSince
<1>1. since \in Nat
  BY DEF Row, PaseoRecord, Stamp
<1>2. LeftBehind(row, r) = [row EXCEPT !.origin = Null, !.status = "idle", !.bg = FALSE,
                                       !.statusSince = since]
  BY DEF LeftBehind, Row
<1> HIDE DEF since
<1> QED BY <1>1, <1>2 DEF Keeps, Row, Status, ClockStopped

-----------------------------------------------------------------------------
(***************************************************************************)
(* Upward reachability.                                                    *)
(***************************************************************************)
LEMMA AncestrySelf == ASSUME NEW edge, NEW s \in Session PROVE s \in Ancestry(edge, s)
BY DEF Ancestry

LEMMA AncestryStep ==
    ASSUME NEW edge, NEW s, NEW x \in Ancestry(edge, s), x \in DOMAIN edge, edge[x] \in Session
    PROVE  edge[x] \in Ancestry(edge, s)
BY DEF Ancestry, ClosedUp

\* What the parent reaches, the child reaches.
LEMMA AncestryOfParent ==
    ASSUME NEW edge, NEW s \in DOMAIN edge, NEW x \in Ancestry(edge, edge[s])
    PROVE  x \in Ancestry(edge, s)
BY DEF Ancestry, ClosedUp

\* Whatever holds s and is closed under the edges holds all that s reaches.
LEMMA AncestryWithin ==
    ASSUME NEW edge, NEW s, NEW X \in SUBSET Session, s \in X, ClosedUp(edge, X)
    PROVE  Ancestry(edge, s) \subseteq X
  BY DEF Ancestry

\* An edge function on identities whose walks never return.
Chains(edge) == /\ DOMAIN edge \subseteq Session
                /\ \A s \in DOMAIN edge : edge[s] \in Session /\ s \notin Ancestry(edge, edge[s])

LEMMA AncestryClosed ==
    ASSUME NEW edge, Chains(edge), NEW s
    PROVE  Ancestry(edge, s) \subseteq Session /\ ClosedUp(edge, Ancestry(edge, s))
  BY DEF Ancestry, ClosedUp, Chains

LEMMA AncestryTransitive ==
    ASSUME NEW edge, Chains(edge), NEW s, NEW y \in Ancestry(edge, s), NEW x \in Ancestry(edge, y)
    PROVE  x \in Ancestry(edge, s)
  BY AncestryClosed, AncestryWithin

\* One step of the walk.
LEMMA AncestryUnfold ==
    ASSUME NEW edge, Chains(edge), NEW s \in Session, NEW x \in Ancestry(edge, s), x # s
    PROVE  s \in DOMAIN edge /\ x \in Ancestry(edge, edge[s])
<1>1. s \in DOMAIN edge
  <2>1. SUFFICES ASSUME s \notin DOMAIN edge PROVE FALSE
    OBVIOUS
  <2>2. ClosedUp(edge, {s})
    BY <2>1 DEF ClosedUp
  <2> QED BY <2>2, AncestryWithin
<1>2. edge[s] \in Session /\ edge[s] \in Ancestry(edge, edge[s])
  BY <1>1, AncestrySelf DEF Chains
<1> DEFINE X == {s} \cup Ancestry(edge, edge[s])
<1>3. X \in SUBSET Session /\ ClosedUp(edge, X)
  BY <1>2, AncestryClosed DEF ClosedUp
<1>4. Ancestry(edge, s) \subseteq X
  BY <1>3, AncestryWithin
<1> QED BY <1>1, <1>4

-----------------------------------------------------------------------------
(***************************************************************************)
(* Tables.                                                                 *)
(***************************************************************************)

LEMMA RowOf == ASSUME NEW tbl, IsTable(tbl), NEW s \in DOMAIN tbl PROVE tbl[s] \in Row
BY DEF IsTable

\* A row is a root or names its parent.
LEMMA ParentOfRow ==
    ASSUME NEW tbl, IsTable(tbl), NEW s \in DOMAIN tbl
    PROVE  /\ s \in Session
           /\ s \in TopLevel(tbl) <=> tbl[s].parent = Null
           /\ s \notin TopLevel(tbl) => tbl[s].parent \in Session
           /\ tbl[s].parent \in Session => s \in DOMAIN NativeParent(tbl)
BY RowOf, NullAssumption DEF IsTable, TopLevel, NativeParent, Row

LEMMA EmptySound == ASSUME NEW tbl, DOMAIN tbl = {}, tbl = [s \in {} |-> Null] PROVE Sound(tbl)
BY DEF Sound, IsTable, SlotsValid, ParentsValid, Forest, ClocksStopped, TopLevel

\* A statement that rewrites rows in place and keeps what Keeps names.
LEMMA RewriteSound ==
    ASSUME NEW tbl, Sound(tbl), NEW new, new = [s \in DOMAIN tbl |-> new[s]],
           \A s \in DOMAIN tbl : Keeps(tbl[s], new[s])
    PROVE  Sound(new)
<1>1. DOMAIN new = DOMAIN tbl
  OBVIOUS
<1>2. TopLevel(new) = TopLevel(tbl)
  BY <1>1 DEF TopLevel, Keeps
<1>3. IsTable(new)
  BY <1>1 DEF Sound, IsTable, Keeps
<1>4. SlotsValid(new)
  BY <1>1, <1>2 DEF Sound, SlotsValid, Keeps, TopLevel
<1>5. ParentsValid(new)
  BY <1>1, <1>2 DEF Sound, ParentsValid, Keeps
<1>6. Forest(new)
  <2> SUFFICES ASSUME NEW S \in SUBSET DOMAIN new, S # {}
               PROVE  \E s \in S : new[s].parent \notin S
    BY DEF Forest
  <2>1. PICK s \in S : tbl[s].parent \notin S
    BY <1>1 DEF Sound, Forest
  <2> QED BY <1>1, <2>1 DEF Keeps
<1>7. ClocksStopped(new)
  BY <1>1 DEF Sound, ClocksStopped, Keeps
<1> QED BY <1>3, <1>4, <1>5, <1>6, <1>7 DEF Sound

\* A deletion and its cascade: no survivor loses its parent.
LEMMA DeleteRowsSound ==
    ASSUME NEW tbl, Sound(tbl), NEW gone
    PROVE  Sound(DeleteRows(tbl, gone))
<1> DEFINE D == DOMAIN tbl \ Cascade(tbl, gone)
           new == DeleteRows(tbl, gone)
<1>1. new = [s \in D |-> tbl[s]] /\ D \subseteq DOMAIN tbl
  BY DEF DeleteRows, Restrict
<1>2. IsTable(new) /\ DOMAIN new = D
  BY <1>1 DEF Sound, IsTable
<1>3. \A s \in D : s \in TopLevel(new) <=> s \in TopLevel(tbl)
  BY <1>1 DEF TopLevel
<1>4. TopLevel(new) \subseteq TopLevel(tbl)
  BY <1>1 DEF TopLevel
<1> HIDE DEF new
<1>5. SlotsValid(new)
  BY <1>1, <1>2, <1>3, <1>4 DEF Sound, SlotsValid, TopLevel
<1>6. ASSUME NEW s \in D, s \notin TopLevel(tbl) PROVE tbl[s].parent \in D
  <2>1. tbl[s].parent \in DOMAIN tbl /\ s \in DOMAIN NativeParent(tbl)
        /\ NativeParent(tbl)[s] = tbl[s].parent
    BY <1>1, <1>6 DEF Sound, ParentsValid, NativeParent
  <2>2. SUFFICES ASSUME NEW x \in gone, x \in Ancestry(NativeParent(tbl), tbl[s].parent)
                 PROVE  FALSE
    BY <2>1 DEF Cascade
  <2>3. x \in Ancestry(NativeParent(tbl), s)
    BY <2>1, <2>2, AncestryOfParent
  <2> QED BY <1>1, <2>3 DEF Cascade
<1>7. ParentsValid(new)
  BY <1>1, <1>2, <1>3, <1>6 DEF Sound, ParentsValid
<1>8. Forest(new)
  BY <1>1, <1>2 DEF Sound, Forest
<1>9. ClocksStopped(new)
  BY <1>1, <1>2 DEF Sound, ClocksStopped
<1> QED BY <1>2, <1>5, <1>7, <1>8, <1>9 DEF Sound, new

\* With C rows, one of the first C + 1 slots is free.
LEMMA SomeSlotFree ==
    ASSUME NEW tbl, Sound(tbl)
    PROVE  \E n \in 1..(Cardinality(DOMAIN tbl) + 1) : n \notin UsedSlots(tbl)
<1> DEFINE C == Cardinality(DOMAIN tbl)
           owner == [n \in 1..(C + 1) |-> CHOOSE s \in TopLevel(tbl) : tbl[s].slot = n]
<1>1. IsFiniteSet(DOMAIN tbl) /\ C \in Nat
  BY SessionAssumption, FS_Subset, FS_CardinalityType DEF Sound, IsTable
<1>2. IsFiniteSet(TopLevel(tbl)) /\ Cardinality(TopLevel(tbl)) <= C
      /\ Cardinality(TopLevel(tbl)) \in Nat
  BY <1>1, FS_Subset, FS_CardinalityType DEF TopLevel
<1>3. IsFiniteSet(1..(C + 1)) /\ Cardinality(1..(C + 1)) = C + 1
  BY <1>1, FS_Interval
<1>4. SUFFICES ASSUME \A n \in 1..(C + 1) : n \in UsedSlots(tbl) PROVE FALSE
  OBVIOUS
<1>5. \A n \in 1..(C + 1) : owner[n] \in TopLevel(tbl) /\ tbl[owner[n]].slot = n
  BY <1>4 DEF UsedSlots
<1>6. owner \in [1..(C + 1) -> TopLevel(tbl)]
  BY <1>5
<1> HIDE DEF C, owner
<1>7. \E x, y \in 1..(C + 1) : x # y /\ owner[x] = owner[y]
  BY <1>1, <1>2, <1>3, <1>6, FS_PigeonHole
<1> QED BY <1>5, <1>7

LEMMA FreeSlot ==
    ASSUME NEW tbl, Sound(tbl)
    PROVE  /\ LowestFreeSlot(tbl) \in Nat /\ LowestFreeSlot(tbl) >= 1
           /\ LowestFreeSlot(tbl) <= Cardinality(DOMAIN tbl) + 1
           /\ LowestFreeSlot(tbl) \notin UsedSlots(tbl)
<1> DEFINE C == Cardinality(DOMAIN tbl)
           free == {n \in 1..(C + 1) : n \notin UsedSlots(tbl)}
<1>1. C \in Nat
  BY SessionAssumption, FS_Subset, FS_CardinalityType DEF Sound, IsTable
<1>2. PICK n \in free : \A m \in free : n <= m
  <2>1. free \in SUBSET Nat /\ free # {}
    BY <1>1, SomeSlotFree
  <2> HIDE DEF free
  <2> QED BY <2>1, LeastElement
<1>3. \A m \in 1..(n - 1) : m \in UsedSlots(tbl)
  BY <1>1, <1>2
<1>4. \E k \in 1..(C + 1) : k \notin UsedSlots(tbl) /\ \A m \in 1..(k - 1) : m \in UsedSlots(tbl)
  BY <1>2, <1>3
<1>5. /\ LowestFreeSlot(tbl) \in 1..(C + 1)
      /\ LowestFreeSlot(tbl) \notin UsedSlots(tbl)
  BY <1>4 DEF LowestFreeSlot
<1> QED BY <1>1, <1>5

\* A new root takes a slot of its own.
LEMMA InsertRootSound ==
    ASSUME NEW tbl, Sound(tbl), NEW s \in Session, s \notin DOMAIN tbl,
           NEW row \in Row, row.parent = Null, ClockStopped(row),
           row.slot \in Nat, row.slot >= 1, row.slot \notin UsedSlots(tbl)
    PROVE  Sound(Insert(tbl, s, row))
<1> DEFINE new == Insert(tbl, s, row)
<1>1. /\ DOMAIN new = DOMAIN tbl \cup {s}
      /\ new[s] = row
      /\ \A x \in DOMAIN tbl : new[x] = tbl[x]
      /\ new = [x \in DOMAIN new |-> new[x]]
  BY DEF Insert
<1> HIDE DEF new
<1>2. IsTable(new)
  BY <1>1 DEF Sound, IsTable
<1>3. TopLevel(new) = TopLevel(tbl) \cup {s}
  BY <1>1 DEF TopLevel
<1>4. SlotsValid(new)
  <2>1. \A x \in TopLevel(tbl) : tbl[x].slot # row.slot
    BY DEF UsedSlots
  <2> QED BY <1>1, <1>3, <2>1 DEF Sound, SlotsValid, TopLevel
<1>5. ParentsValid(new)
  BY <1>1, <1>3 DEF Sound, ParentsValid
<1>6. Forest(new)
  <2> SUFFICES ASSUME NEW S \in SUBSET DOMAIN new, S # {},
                      \A x \in S : new[x].parent \in S
               PROVE  FALSE
    BY DEF Forest
  <2>1. s \notin S
    BY <1>1, <1>2, NullAssumption DEF IsTable
  <2> QED BY <1>1, <2>1 DEF Sound, Forest
<1>7. ClocksStopped(new)
  BY <1>1 DEF Sound, ClocksStopped
<1> QED BY <1>2, <1>4, <1>5, <1>6, <1>7 DEF Sound, new

\* A new subagent hangs under a row of its provider.
LEMMA InsertChildSound ==
    ASSUME NEW tbl, Sound(tbl), NEW s \in Session, s \notin DOMAIN tbl,
           NEW row \in Row, row.parent \in DOMAIN tbl, ClockStopped(row), row.slot = Null,
           ProviderOf[row.parent] = ProviderOf[s]
    PROVE  Sound(Insert(tbl, s, row))
<1> DEFINE new == Insert(tbl, s, row)
<1>1. /\ DOMAIN new = DOMAIN tbl \cup {s}
      /\ new[s] = row
      /\ \A x \in DOMAIN tbl : new[x] = tbl[x]
      /\ new = [x \in DOMAIN new |-> new[x]]
  BY DEF Insert
<1> HIDE DEF new
<1>2. IsTable(new)
  BY <1>1 DEF Sound, IsTable
<1>3. TopLevel(new) = TopLevel(tbl)
  BY <1>1, NullAssumption DEF Sound, IsTable, TopLevel
<1>4. SlotsValid(new)
  BY <1>1, <1>3 DEF Sound, SlotsValid, TopLevel
<1>5. ParentsValid(new)
  BY <1>1, <1>3 DEF Sound, ParentsValid
<1>6. Forest(new)
  <2> SUFFICES ASSUME NEW S \in SUBSET DOMAIN new, S # {},
                      \A x \in S : new[x].parent \in S
               PROVE  FALSE
    BY DEF Forest
  <2> DEFINE T == S \ {s}
  <2>1. T \subseteq DOMAIN tbl /\ T # {}
    BY <1>1
  <2>2. ASSUME NEW x \in T PROVE tbl[x].parent \in T
    <3>1. x \in DOMAIN tbl /\ tbl[x].parent \in S
      BY <1>1, <2>1
    <3>2. x \notin TopLevel(tbl)
      BY <1>1, <3>1, NullAssumption DEF TopLevel, Sound, IsTable
    <3>3. tbl[x].parent # s
      BY <3>1, <3>2 DEF Sound, ParentsValid
    <3> QED BY <3>1, <3>3
  <2> QED BY <2>1, <2>2 DEF Sound, Forest
<1>7. ClocksStopped(new)
  BY <1>1 DEF Sound, ClocksStopped
<1> QED BY <1>2, <1>4, <1>5, <1>6, <1>7 DEF Sound, new

\* Hanging a subagent under a row that is not below it: a set of rows closed
\* under the new parents would yield one closed under the old parents, its
\* members above the new parent.
LEMMA ReparentSound ==
    ASSUME NEW tbl, Sound(tbl), NEW child \in DOMAIN tbl \ TopLevel(tbl),
           NEW parent \in DOMAIN tbl, child \notin Ancestry(NativeParent(tbl), parent),
           ProviderOf[parent] = ProviderOf[child],
           NEW new, new = [s \in DOMAIN tbl |-> new[s]],
           \A s \in DOMAIN tbl \ {child} : new[s] = tbl[s],
           new[child] \in Row, new[child].parent = parent,
           new[child].slot = tbl[child].slot, ClockStopped(new[child])
    PROVE  Sound(new)
<1>1. DOMAIN new = DOMAIN tbl
  OBVIOUS
<1>2. IsTable(new)
  BY <1>1 DEF Sound, IsTable
<1>3. TopLevel(new) = TopLevel(tbl)
  BY <1>1, NullAssumption DEF Sound, IsTable, TopLevel
<1>4. SlotsValid(new)
  BY <1>1, <1>3 DEF Sound, SlotsValid, TopLevel
<1>5. ParentsValid(new)
  BY <1>1, <1>3 DEF Sound, ParentsValid
<1>6. Forest(new)
  <2> SUFFICES ASSUME NEW S \in SUBSET DOMAIN new, S # {},
                      \A x \in S : new[x].parent \in S
               PROVE  FALSE
    BY DEF Forest
  <2>1. CASE child \notin S
    BY <1>1, <2>1 DEF Sound, Forest
  <2>2. CASE child \in S
    <3> DEFINE T == S \cap Ancestry(NativeParent(tbl), parent)
    <3>1. parent \in T /\ T \subseteq DOMAIN tbl /\ child \notin T
      BY <1>1, <2>2, AncestrySelf DEF Sound, IsTable
    <3>2. ASSUME NEW x \in T PROVE tbl[x].parent \in T
      <4>1. x \in DOMAIN tbl /\ tbl[x].parent \in S /\ tbl[x].parent \in Session
        BY <1>1, <3>1 DEF Sound, IsTable
      <4>2. x \in DOMAIN NativeParent(tbl) /\ NativeParent(tbl)[x] = tbl[x].parent
        BY <4>1, NullAssumption DEF NativeParent, TopLevel
      <4>3. tbl[x].parent \in Ancestry(NativeParent(tbl), parent)
        BY <4>1, <4>2, AncestryStep
      <4> QED BY <4>1, <4>3
    <3> QED BY <3>1, <3>2 DEF Sound, Forest
  <2> QED BY <2>1, <2>2
<1>7. ClocksStopped(new)
  BY <1>1 DEF Sound, ClocksStopped
<1> QED BY <1>2, <1>4, <1>5, <1>6, <1>7 DEF Sound

-----------------------------------------------------------------------------
(***************************************************************************)
(* The mutations.                                                          *)
(***************************************************************************)
LEMMA SessionStartSound ==
    ASSUME NEW tbl, Sound(tbl), NEW s \in Session,
           NEW origin \in Origin \cup {Null}, NEW t \in Nat
    PROVE  Sound(SessionStart(tbl, s, origin, t))
<1>1. CASE s \in DOMAIN tbl
  <2> DEFINE new == SessionStart(tbl, s, origin, t)
  <2>1. new = [x \in DOMAIN tbl |-> IF x \in {s} \cap TopLevel(tbl)
                                    THEN Restarted(tbl[x], origin, t) ELSE tbl[x]]
    BY <1>1 DEF SessionStart, Rewrite
  <2>2. \A x \in DOMAIN tbl : Keeps(tbl[x], new[x])
    BY <2>1, RowOf, RestartedKeeps, KeepsSelf DEF Sound
  <2>3. new = [x \in DOMAIN tbl |-> new[x]]
    BY <2>1
  <2> HIDE DEF new
  <2>4. Sound(new)
    BY <2>2, <2>3, RewriteSound
  <2> QED BY <2>4 DEF new
<1>2. CASE s \notin DOMAIN tbl
  <2> DEFINE row == NewRow(Null, LowestFreeSlot(tbl), origin, t)
  <2>1. row \in Row /\ row.parent = Null /\ row.slot = LowestFreeSlot(tbl) /\ ClockStopped(row)
    BY FreeSlot DEF NewRow, Row, Status, Stamp, ClockStopped
  <2> HIDE DEF row
  <2>2. Sound(Insert(tbl, s, row))
    BY <1>2, <2>1, FreeSlot, InsertRootSound
  <2> QED BY <1>2, <2>2 DEF SessionStart, row
<1> QED BY <1>1, <1>2

LEMMA SessionObservedSound ==
    ASSUME NEW tbl, Sound(tbl), NEW s \in Session,
           NEW origin \in Origin \cup {Null}, NEW t \in Nat
    PROVE  Sound(SessionObserved(tbl, s, origin, t))
<1>1. CASE s \in DOMAIN tbl
  <2> DEFINE new == SessionObserved(tbl, s, origin, t)
             kept == IF origin = Null THEN tbl[s].origin ELSE origin
  <2>1. new = [x \in DOMAIN tbl |-> IF x = s THEN [tbl[s] EXCEPT !.origin = kept] ELSE tbl[x]]
    BY <1>1, RowOf DEF Sound, SessionObserved, Rewrite, Row
  <2>2. kept \in Origin \cup {Null}
    BY <1>1, RowOf DEF Sound, Row
  <2> HIDE DEF kept
  <2>3. \A x \in DOMAIN tbl : Keeps(tbl[x], new[x])
    BY <2>1, <2>2, RowOf, OriginKeeps, KeepsSelf DEF Sound
  <2>4. new = [x \in DOMAIN tbl |-> new[x]]
    BY <2>1
  <2> HIDE DEF new
  <2>5. Sound(new)
    BY <2>3, <2>4, RewriteSound
  <2> QED BY <2>5 DEF new
<1>2. CASE s \notin DOMAIN tbl
  BY <1>2, SessionStartSound DEF SessionObserved
<1> QED BY <1>1, <1>2

LEMMA SubagentStartSound ==
    ASSUME NEW tbl, Sound(tbl), NEW child \in Session, NEW parent \in Session,
           ProviderOf[parent] = ProviderOf[child], NEW t \in Nat
    PROVE  Sound(SubagentStart(tbl, child, parent, t))
<1> DEFINE new == SubagentStart(tbl, child, parent, t)
<1>1. CASE ~ValidProspectiveParent(tbl, child, parent)
  BY <1>1 DEF SubagentStart
<1>2. CASE ValidProspectiveParent(tbl, child, parent) /\ child \notin DOMAIN tbl
  <2> DEFINE row == NewRow(parent, Null, Null, t)
  <2>1. row \in Row /\ row.parent = parent /\ row.slot = Null /\ ClockStopped(row)
    BY DEF NewRow, Row, Status, Stamp, ClockStopped
  <2> HIDE DEF row
  <2>2. Sound(Insert(tbl, child, row))
    BY <1>2, <2>1, InsertChildSound DEF ValidProspectiveParent
  <2> QED BY <1>2, <2>2 DEF SubagentStart, row
<1>3. CASE ValidProspectiveParent(tbl, child, parent) /\ child \in DOMAIN tbl
  <2> DEFINE hung == [StatusRow(tbl[child], "idle", t) EXCEPT !.parent = parent]
  <2>1. new = [x \in DOMAIN tbl |-> IF x \in {child} \ TopLevel(tbl)
                  THEN [StatusRow(tbl[x], "idle", t) EXCEPT !.parent = parent] ELSE tbl[x]]
    BY <1>3 DEF SubagentStart, Rewrite
  <2>2. CASE child \in TopLevel(tbl)
    <3>1. new = tbl
      BY <2>1, <2>2 DEF Sound, IsTable
    <3> QED BY <3>1
  <2>3. CASE child \notin TopLevel(tbl)
    <3>1. Keeps(tbl[child], StatusRow(tbl[child], "idle", t))
      BY <1>3, RowOf, StatusRowKeeps DEF Sound, Status
    <3>2. hung \in Row /\ hung.parent = parent /\ hung.slot = tbl[child].slot
      BY <3>1 DEF Keeps, Row
    <3>3. ClockStopped(hung)
      BY <1>3, <3>1 DEF Sound, ClocksStopped, Keeps, ClockStopped, Row
    <3>4. /\ new = [x \in DOMAIN tbl |-> new[x]]
          /\ new[child] = hung
          /\ \A x \in DOMAIN tbl \ {child} : new[x] = tbl[x]
      BY <1>3, <2>1, <2>3
    <3> HIDE DEF new, hung
    <3>5. Sound(new)
      BY <1>3, <2>3, <3>2, <3>3, <3>4, ReparentSound DEF ValidProspectiveParent
    <3> QED BY <3>5 DEF new
  <2> QED BY <2>2, <2>3
<1> QED BY <1>1, <1>2, <1>3

LEMMA ApplyStatusEventSound ==
    ASSUME NEW tbl, Sound(tbl), NEW s, NEW kind \in StatusEvent, NEW t \in Nat
    PROVE  Sound(ApplyStatusEvent(tbl, s, kind, t))
<1> DEFINE new == ApplyStatusEvent(tbl, s, kind, t)
<1>1. new = [x \in DOMAIN tbl |-> IF x \in {s} THEN AfterStatusEvent(tbl[x], kind, t) ELSE tbl[x]]
  BY DEF ApplyStatusEvent, Rewrite
<1>2. \A x \in DOMAIN tbl : Keeps(tbl[x], new[x])
  BY <1>1, RowOf, AfterStatusEventKeeps, KeepsSelf DEF Sound
<1>3. new = [x \in DOMAIN tbl |-> new[x]]
  BY <1>1
<1> HIDE DEF new
<1>4. Sound(new)
  BY <1>2, <1>3, RewriteSound
<1> QED BY <1>4 DEF new

LEMMA StatusObservedSound ==
    ASSUME NEW tbl, Sound(tbl), NEW s, NEW status \in Status, NEW t \in Nat
    PROVE  Sound(StatusObserved(tbl, s, status, t))
<1> DEFINE new == StatusObserved(tbl, s, status, t)
<1>1. new = [x \in DOMAIN tbl |->
               IF x \in {s} THEN IF tbl[x].status = status THEN tbl[x]
                                 ELSE StatusRow(tbl[x], status, t)
                            ELSE tbl[x]]
  BY DEF StatusObserved, Rewrite
<1>2. \A x \in DOMAIN tbl : Keeps(tbl[x], new[x])
  BY <1>1, RowOf, StatusRowKeeps, KeepsSelf DEF Sound
<1>3. new = [x \in DOMAIN tbl |-> new[x]]
  BY <1>1
<1> HIDE DEF new
<1>4. Sound(new)
  BY <1>2, <1>3, RewriteSound
<1> QED BY <1>4 DEF new

LEMMA DeletionsSound ==
    ASSUME NEW tbl, Sound(tbl), NEW s, NEW hints, NEW cutoff, NEW zcodeCutoff
    PROVE  /\ Sound(DeletePaseoSubtree(tbl, s, hints))
           /\ Sound(SessionEnd(tbl, s))
           /\ Sound(SubagentStop(tbl, s))
           /\ Sound(ClearSession(tbl, s))
           /\ Sound(ClearAllSessions(tbl))
           /\ Sound(PruneStaleSessions(tbl, cutoff, zcodeCutoff))
<1>1. Sound(DeletePaseoSubtree(tbl, s, hints)) /\ Sound(DeletePaseoSubtree(tbl, s, NoHints))
  BY DeleteRowsSound DEF DeletePaseoSubtree
<1>2. Sound(SessionEnd(tbl, s)) /\ Sound(ClearSession(tbl, s))
  BY <1>1 DEF SessionEnd, ClearSession
<1>3. Sound(SubagentStop(tbl, s))
  BY DeleteRowsSound DEF SubagentStop
<1>4. Sound(ClearAllSessions(tbl))
  BY DeleteRowsSound DEF ClearAllSessions
<1>5. Sound(PruneStaleSessions(tbl, cutoff, zcodeCutoff))
  BY DeleteRowsSound DEF PruneStaleSessions
<1> QED BY <1>1, <1>2, <1>3, <1>4, <1>5

LEMMA ViewSessionSound ==
    ASSUME NEW tbl, Sound(tbl), NEW s, NEW at \in Nat, NEW wm
    PROVE  Sound(ViewSession(tbl, s, at, wm))
<1> DEFINE new == ViewSession(tbl, s, at, wm)
           reached == {x \in PaseoSubtree(tbl, s, NoHints) \cap DOMAIN tbl :
                          /\ Consumable(tbl[x], wm)
                          /\ x = s \/ tbl[x].done # Null \/ tbl[x].unread # Null}
<1>1. new = [x \in DOMAIN tbl |-> IF x \in reached THEN Viewed(tbl[x], at) ELSE tbl[x]]
  BY DEF ViewSession, Rewrite
<1> HIDE DEF reached
<1>2. \A x \in DOMAIN tbl : Keeps(tbl[x], new[x])
  BY <1>1, RowOf, ViewedKeeps, KeepsSelf DEF Sound
<1>3. new = [x \in DOMAIN tbl |-> new[x]]
  BY <1>1
<1> HIDE DEF new
<1>4. Sound(new)
  BY <1>2, <1>3, RewriteSound
<1> QED BY <1>4 DEF new

LEMMA AcknowledgeSessionSound ==
    ASSUME NEW tbl, Sound(tbl), NEW s, NEW at \in Nat, NEW wm
    PROVE  Sound(AcknowledgeSession(tbl, s, at, wm))
<1> DEFINE new == AcknowledgeSession(tbl, s, at, wm)
           reached == {x \in PaseoSubtree(tbl, s, NoHints) \cap DOMAIN tbl :
                          HoldsResult(tbl[x]) /\ Consumable(tbl[x], wm)}
<1>1. new = [x \in DOMAIN tbl |->
               IF x \in reached THEN [Released(tbl[x], at) EXCEPT !.acked = at] ELSE tbl[x]]
  BY DEF AcknowledgeSession, Rewrite
<1> HIDE DEF reached
<1>2. \A x \in DOMAIN tbl : Keeps(tbl[x], new[x])
  BY <1>1, RowOf, ReleasedKeeps, KeepsSelf DEF Sound
<1>3. new = [x \in DOMAIN tbl |-> new[x]]
  BY <1>1
<1> HIDE DEF new
<1>4. Sound(new)
  BY <1>2, <1>3, RewriteSound
<1> QED BY <1>4 DEF new

LEMMA SweepExpiredResultsSound ==
    ASSUME NEW tbl, Sound(tbl), NEW cutoff, NEW now \in Nat
    PROVE  Sound(SweepExpiredResults(tbl, cutoff, now))
<1> DEFINE new == SweepExpiredResults(tbl, cutoff, now)
           expired == {s \in DOMAIN tbl : Expired(tbl[s], cutoff)}
<1>1. new = [x \in DOMAIN tbl |-> IF x \in expired THEN Released(tbl[x], now) ELSE tbl[x]]
  BY DEF SweepExpiredResults, Rewrite
<1> HIDE DEF expired
<1>2. \A x \in DOMAIN tbl : Keeps(tbl[x], new[x])
  BY <1>1, RowOf, ReleasedKeeps, KeepsSelf DEF Sound
<1>3. new = [x \in DOMAIN tbl |-> new[x]]
  BY <1>1
<1> HIDE DEF new
<1>4. Sound(new)
  BY <1>2, <1>3, RewriteSound
<1> QED BY <1>4 DEF new

LEMMA SyncPaseoRecordSound ==
    ASSUME NEW tbl, Sound(tbl), NEW r \in PaseoRecord, NEW pass, NEW bgCutoff
    PROVE  Sound(SyncPaseoRecord(tbl, r, pass, bgCutoff))
<1>1. CASE r.archived
  BY <1>1, DeleteRowsSound DEF SyncPaseoRecord, DeletePaseoSubtree
<1>2. CASE ~r.archived
  <2> DEFINE joined == {r.session} \cap TopLevel(tbl)
             synced == [x \in DOMAIN tbl |->
                          IF x \in joined THEN Settled(Mirrored(tbl[x], r), r, bgCutoff)
                                          ELSE tbl[x]]
             left == Abandoned(synced, r, pass)
             new == [x \in DOMAIN synced |->
                       IF x \in left THEN LeftBehind(synced[x], r) ELSE synced[x]]
  <2>1. SyncPaseoRecord(tbl, r, pass, bgCutoff) = new
    BY <1>2 DEF SyncPaseoRecord, Rewrite
  <2>2. Sound(synced)
    <3> HIDE DEF joined
    <3>1. \A x \in DOMAIN tbl : Keeps(tbl[x], synced[x])
      <4> SUFFICES ASSUME NEW x \in DOMAIN tbl PROVE Keeps(tbl[x], synced[x])
        OBVIOUS
      <4>1. tbl[x] \in Row
        BY RowOf DEF Sound
      <4>2. Keeps(tbl[x], Mirrored(tbl[x], r)) /\ Mirrored(tbl[x], r) \in Row
        BY <4>1, MirroredKeeps DEF Keeps
      <4>3. Keeps(Mirrored(tbl[x], r), Settled(Mirrored(tbl[x], r), r, bgCutoff))
        BY <4>2, SettledKeeps
      <4> QED BY <4>1, <4>2, <4>3, KeepsSelf, KeepsTwice
    <3>2. synced = [x \in DOMAIN tbl |-> synced[x]]
      OBVIOUS
    <3> HIDE DEF synced
    <3> QED BY <3>1, <3>2, RewriteSound
  <2> HIDE DEF synced, left
  <2>3. \A x \in DOMAIN synced : Keeps(synced[x], new[x])
    BY <2>2, RowOf, LeftBehindKeeps, KeepsSelf DEF Sound
  <2>4. new = [x \in DOMAIN synced |-> new[x]]
    OBVIOUS
  <2> HIDE DEF new
  <2> QED BY <2>1, <2>2, <2>3, <2>4, RewriteSound
<1> QED BY <1>1, <1>2

LEMMA ReconcileEvenerSound ==
    ASSUME NEW tbl, Sound(tbl), NEW archived, NEW active
    PROVE  Sound(ReconcileEvener(tbl, archived, active))
<1>1. Sound(DropArchivedRoots(tbl, archived))
  BY DeleteRowsSound DEF DropArchivedRoots
<1> QED BY <1>1, DeleteRowsSound DEF ReconcileEvener, KeepActiveChildren
=============================================================================

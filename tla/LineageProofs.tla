---------------------------- MODULE LineageProofs ----------------------------
(***************************************************************************)
(* Lineage: a prune takes whole trees that hold nothing the user still     *)
(* waits for, an overlay pass leaves an agent one claimant, the projection *)
(* never throws and puts every result on one card with the worst status    *)
(* below it, and a gesture reaches all that its card shows.                *)
(***************************************************************************)
EXTENDS RegistryProofs, RegistryBoard

-----------------------------------------------------------------------------
(***************************************************************************)
(* Links and reachability.                                                 *)
(***************************************************************************)

\* A Paseo link leads from a root to a root.
LEMMA LinksJoinRoots ==
    ASSUME NEW lineage, NEW s \in DOMAIN PaseoLinks(lineage)
    PROVE  /\ s \in DOMAIN lineage
           /\ PaseoLinks(lineage)[s] \in DOMAIN lineage
           /\ PaseoLinks(lineage)[s] = UniqueLinks(lineage)[s]
           /\ s \in DOMAIN UniqueLinks(lineage)
<1> DEFINE link == UniqueLinks(lineage)
           kept == {x \in DOMAIN link : x \notin Ancestry(link, link[x])}
<1>1. PaseoLinks(lineage) = Restrict(link, kept)
  BY DEF PaseoLinks
<1>2. s \in DOMAIN link /\ PaseoLinks(lineage)[s] = link[s]
  BY <1>1 DEF Restrict
<1>3. s \in DOMAIN lineage /\ \E p \in DOMAIN lineage : Carriers(lineage, lineage[s].up) = {p}
  BY <1>2 DEF UniqueLinks
<1>4. link[s] = CHOOSE p \in DOMAIN lineage : Carriers(lineage, lineage[s].up) = {p}
  BY <1>2 DEF UniqueLinks
<1> QED BY <1>2, <1>3, <1>4

LEMMA StoredRoots == ASSUME NEW tbl PROVE DOMAIN StoredLineage(tbl) \subseteq TopLevel(tbl)
  BY DEF StoredLineage

\* Every row has a root above it: the forest is what makes this true.
LEMMA RootAbove ==
    ASSUME NEW tbl, Sound(tbl), NEW s \in DOMAIN tbl
    PROVE  \E g \in TopLevel(tbl) : g \in Ancestry(NativeParent(tbl), s)
<1> DEFINE T == Ancestry(NativeParent(tbl), s) \cap DOMAIN tbl
<1>1. T \in SUBSET DOMAIN tbl /\ T # {}
  BY AncestrySelf DEF Sound, IsTable
<1>2. PICK g \in T : tbl[g].parent \notin T
  BY <1>1 DEF Sound, Forest
<1>3. CASE g \in TopLevel(tbl)
  BY <1>2, <1>3
<1>4. CASE g \notin TopLevel(tbl)
  <2>1. tbl[g].parent \in DOMAIN tbl /\ tbl[g].parent \in Session
    BY <1>4 DEF Sound, ParentsValid, IsTable
  <2>2. g \in DOMAIN NativeParent(tbl) /\ NativeParent(tbl)[g] = tbl[g].parent
    BY <1>4 DEF NativeParent
  <2>3. tbl[g].parent \in Ancestry(NativeParent(tbl), s)
    BY <2>1, <2>2, AncestryStep
  <2> QED BY <1>2, <2>1, <2>3
<1> QED BY <1>3, <1>4

-----------------------------------------------------------------------------
(***************************************************************************)
(* The prune.                                                              *)
(***************************************************************************)

\* The kept rows hold the seeds and, as an intersection of such sets, are
\* closed along both kinds of link.
LEMMA KeptClosed ==
    ASSUME NEW tbl, Sound(tbl), NEW seeds \in SUBSET DOMAIN tbl
    PROVE  /\ seeds \subseteq Kept(tbl, seeds) /\ Kept(tbl, seeds) \subseteq DOMAIN tbl
           /\ ClosedBothWays(NativeParent(tbl), Kept(tbl, seeds))
           /\ ClosedBothWays(PaseoLinks(StoredLineage(tbl)), Kept(tbl, seeds))
<1> DEFINE native == NativeParent(tbl)
           link == PaseoLinks(StoredLineage(tbl))
<1>1. \A s \in DOMAIN native : s \in DOMAIN tbl /\ native[s] \in DOMAIN tbl
  BY DEF NativeParent, Sound, ParentsValid
<1>2. \A s \in DOMAIN link : s \in DOMAIN tbl /\ link[s] \in DOMAIN tbl
  BY LinksJoinRoots, StoredRoots DEF TopLevel
<1> HIDE DEF native, link
<1>3. Kept(tbl, seeds) = {s \in DOMAIN tbl :
          \A X \in SUBSET DOMAIN tbl :
              seeds \subseteq X /\ ClosedBothWays(native, X) /\ ClosedBothWays(link, X) => s \in X}
  BY DEF Kept, native, link
<1>4. seeds \subseteq Kept(tbl, seeds) /\ Kept(tbl, seeds) \subseteq DOMAIN tbl
  BY <1>3
<1>5. ClosedBothWays(native, Kept(tbl, seeds))
  BY <1>1, <1>3 DEF ClosedBothWays
<1>6. ClosedBothWays(link, Kept(tbl, seeds))
  BY <1>2, <1>3 DEF ClosedBothWays
<1> QED BY <1>4, <1>5, <1>6 DEF native, link

\* Deleting the roots outside a set closed along native links deletes
\* exactly the rows outside it: no survivor, no casualty.
LEMMA CascadeOfRoots ==
    ASSUME NEW tbl, Sound(tbl), NEW kept \in SUBSET DOMAIN tbl,
           ClosedBothWays(NativeParent(tbl), kept)
    PROVE  DOMAIN DeleteRows(tbl, {s \in TopLevel(tbl) : s \notin kept}) = kept
<1> DEFINE native == NativeParent(tbl)
           roots == {s \in TopLevel(tbl) : s \notin kept}
<1>0. /\ DOMAIN tbl \subseteq Session /\ kept \subseteq Session
      /\ DOMAIN native \subseteq DOMAIN tbl
      /\ \A s \in DOMAIN native : native[s] \in DOMAIN tbl
  BY DEF Sound, IsTable, NativeParent, ParentsValid
<1>1. ASSUME NEW s \in kept PROVE s \notin Cascade(tbl, roots)
  <2>1. ClosedUp(native, kept)
    BY DEF ClosedUp, ClosedBothWays
  <2>2. Ancestry(native, s) \subseteq kept
    BY <1>0, <2>1, AncestryWithin
  <2> QED BY <2>2 DEF Cascade
<1>2. ASSUME NEW s \in DOMAIN tbl \ kept PROVE s \in Cascade(tbl, roots)
  <2>1. ClosedUp(native, DOMAIN tbl \ kept)
    BY <1>0 DEF ClosedUp, ClosedBothWays
  <2>2. Ancestry(native, s) \subseteq DOMAIN tbl \ kept
    BY <1>0, <2>1, AncestryWithin
  <2>3. PICK g \in TopLevel(tbl) : g \in Ancestry(native, s)
    BY RootAbove
  <2> QED BY <2>2, <2>3 DEF Cascade
<1> QED BY <1>1, <1>2 DEF DeleteRows, Restrict

\* A prune keeps every row of every tree, native or Paseo, that holds an
\* unviewed result or a running view clock, and deletes no tree in part.
THEOREM PruneTakesWholeTrees == Spec => PruneSparesUnviewed
<1>1. IInv /\ [Next]_vars => TreesGoWhole
  <2> SUFFICES ASSUME IInv, PruneStep, \A s \in DOMAIN rows : ~rows[s].ended
               PROVE  TreesGoWhole
    BY DEF TreesGoWhole
  <2>1. PICK cutoff, zcodeCutoff : rows' = PruneStaleSessions(rows, cutoff, zcodeCutoff)
    BY DEF PruneStep, PruneDue, OperatorPrune, Write
  <2> DEFINE seeds == KeepSeeds(rows, cutoff, zcodeCutoff)
             kept == Kept(rows, seeds)
             gone == DOMAIN rows \ DOMAIN rows'
  <2>2. Sound(rows) /\ seeds \in SUBSET DOMAIN rows
    BY DEF IInv, KeepSeeds
  <2>3. /\ seeds \subseteq kept /\ kept \subseteq DOMAIN rows
        /\ ClosedBothWays(NativeParent(rows), kept)
        /\ ClosedBothWays(PaseoLinks(StoredLineage(rows)), kept)
    <3> HIDE DEF seeds
    <3> QED BY <2>2, KeptClosed
  <2>4. {s \in TopLevel(rows) : s \notin kept \/ rows[s].ended}
          = {s \in TopLevel(rows) : s \notin kept}
    BY DEF TopLevel
  <2>5. rows' = DeleteRows(rows, {s \in TopLevel(rows) : s \notin kept})
    BY <2>1, <2>4 DEF PruneStaleSessions
  <2>6. \A s \in DOMAIN rows \ seeds : rows[s].unread = Null /\ ~ClockRuns(rows[s])
    BY DEF KeepSeeds
  <2> HIDE DEF kept, seeds
  <2>7. gone = DOMAIN rows \ kept
    BY <2>2, <2>3, <2>5, CascadeOfRoots
  <2>8. \A s \in DOMAIN NativeParent(rows) :
            s \in DOMAIN rows /\ NativeParent(rows)[s] \in DOMAIN rows
    BY <2>2 DEF NativeParent, Sound, ParentsValid
  <2>9. \A s \in DOMAIN PaseoLinks(StoredLineage(rows)) :
            s \in DOMAIN rows /\ PaseoLinks(StoredLineage(rows))[s] \in DOMAIN rows
    BY LinksJoinRoots, StoredRoots DEF TopLevel
  <2> QED BY <2>3, <2>6, <2>7, <2>8, <2>9 DEF TreesGoWhole, ClosedBothWays
<1>2. []IInv /\ [][Next]_vars => [][TreesGoWhole]_vars
  BY <1>1, PTL
<1> QED BY <1>2, Safety, PTL DEF Spec, PruneSparesUnviewed

-----------------------------------------------------------------------------
(***************************************************************************)
(* Rotated agents.                                                         *)
(***************************************************************************)
LEMMA CarriersAre ==
    ASSUME NEW tbl, NEW agent, NEW s
    PROVE  s \in Carriers(StoredLineage(tbl), agent)
             <=> /\ s \in DOMAIN tbl /\ tbl[s].parent = Null
                 /\ tbl[s].origin # Null /\ tbl[s].origin.kind = "paseo"
                 /\ tbl[s].origin.ref = agent
  BY DEF Carriers, StoredLineage, TopLevel

\* One record gives its agent to its own session and to no other; when it is
\* the agent's only session in the pass, everyone else loses it.
LEMMA SyncCarriers ==
    ASSUME NEW tbl, Sound(tbl), NEW r \in PaseoRecord, NEW pass, NEW bgCutoff, NEW agent,
           NEW new, new = SyncPaseoRecord(tbl, r, pass, bgCutoff)
    PROVE  /\ \A s \in Carriers(StoredLineage(new), agent) :
                  s \in Carriers(StoredLineage(tbl), agent) \/ (s = r.session /\ agent = r.agent)
           /\ Claims(pass, r.agent) = {r.session} /\ ~r.archived =>
                  Carriers(StoredLineage(new), r.agent) \subseteq {r.session}
<1>1. CASE r.archived
  <2>1. DOMAIN new \subseteq DOMAIN tbl /\ \A s \in DOMAIN new : new[s] = tbl[s]
    BY <1>1 DEF SyncPaseoRecord, DeletePaseoSubtree, DeleteRows, Restrict
  <2> QED BY <1>1, <2>1, CarriersAre
<1>2. CASE ~r.archived
  <2> DEFINE joined == {r.session} \cap TopLevel(tbl)
             synced == Rewrite(tbl, joined, LAMBDA row : Settled(Mirrored(row, r), r, bgCutoff))
             left == Abandoned(synced, r, pass)
  <2>1. /\ DOMAIN synced = DOMAIN tbl
        /\ \A s \in DOMAIN tbl \ joined : synced[s] = tbl[s]
        /\ \A s \in joined : synced[s] = Settled(Mirrored(tbl[s], r), r, bgCutoff)
    BY DEF Rewrite, TopLevel
  <2>2. /\ DOMAIN new = DOMAIN tbl
        /\ \A s \in DOMAIN tbl : new[s] = IF s \in left THEN LeftBehind(synced[s], r)
                                                        ELSE synced[s]
    BY <1>2, <2>1 DEF SyncPaseoRecord, Rewrite
  <2>3. Claims(pass, r.agent) = {r.session} =>
            left = {s \in DOMAIN StoredLineage(synced) \ {r.session} :
                        synced[s].origin.ref = r.agent}
    BY DEF Abandoned, Claims
  <2> HIDE DEF synced, left
  <2>4. ASSUME NEW s \in DOMAIN tbl
        PROVE  synced[s] \in Row /\ synced[s].parent = tbl[s].parent
               /\ (synced[s].origin = tbl[s].origin
                    \/ (s = r.session /\ synced[s].origin = OriginOf(r)))
    <3> DEFINE seen == Mirrored(tbl[s], r)
    <3>1. tbl[s] \in Row
      BY RowOf DEF Sound
    <3>2. seen \in Row /\ seen.parent = tbl[s].parent
      BY <3>1, MirroredKeeps DEF Keeps
    <3>3. seen.origin = OriginOf(r)
      <4>1. Flagged(tbl[s], r) = [f \in DOMAIN tbl[s] |-> Flagged(tbl[s], r)[f]]
            /\ "origin" \in DOMAIN tbl[s]
        BY <3>1 DEF Flagged, Row
      <4> QED BY <4>1 DEF Mirrored
    <3> HIDE DEF seen
    <3>4. /\ Settled(seen, r, bgCutoff) \in Row
          /\ Settled(seen, r, bgCutoff).parent = seen.parent
          /\ Settled(seen, r, bgCutoff).origin = seen.origin
      BY <3>2, SettledKeeps DEF Keeps, Settled, Row
    <3> QED BY <2>1, <3>1, <3>2, <3>3, <3>4 DEF seen
  <2>5. ASSUME NEW s \in DOMAIN tbl
        PROVE  /\ LeftBehind(synced[s], r).origin = Null
    BY <2>4 DEF LeftBehind, Row
  <2>6. OriginOf(r).ref = r.agent
    BY DEF OriginOf
  <2>7. \A s \in Carriers(StoredLineage(new), agent) :
            s \in Carriers(StoredLineage(tbl), agent) \/ (s = r.session /\ agent = r.agent)
    <3> SUFFICES ASSUME NEW s \in Carriers(StoredLineage(new), agent)
                 PROVE  s \in Carriers(StoredLineage(tbl), agent) \/ (s = r.session /\ agent = r.agent)
      OBVIOUS
    <3>1. s \in DOMAIN tbl /\ new[s].parent = Null /\ new[s].origin # Null
          /\ new[s].origin.kind = "paseo" /\ new[s].origin.ref = agent
      BY <2>2, CarriersAre
    <3>2. new[s] = synced[s]
      BY <2>2, <2>5, <3>1
    <3> QED BY <2>4, <2>6, <3>1, <3>2, CarriersAre
  <2>8. ASSUME Claims(pass, r.agent) = {r.session},
               NEW s \in Carriers(StoredLineage(new), r.agent), s # r.session
        PROVE  FALSE
    <3>1. s \in DOMAIN tbl /\ new[s].parent = Null /\ new[s].origin # Null
          /\ new[s].origin.kind = "paseo" /\ new[s].origin.ref = r.agent
      BY <2>2, <2>8, CarriersAre
    <3>2. s \notin left /\ new[s] = synced[s]
      BY <2>2, <2>5, <3>1
    <3>3. s \in DOMAIN StoredLineage(synced)
      BY <2>1, <3>1, <3>2 DEF StoredLineage, TopLevel
    <3> QED BY <2>3, <2>8, <3>1, <3>2, <3>3
  <2> QED BY <2>7, <2>8
<1> QED BY <1>1, <1>2

\* The records of a pass that are applied are its first k, and each of them
\* left its agent one claimant: the later ones of the same agent are of the
\* same session, and those of other agents never add a carrier.
AppliedSoFar(k) == /\ Len(txn.todo) = Len(txn.pass) - k
                   /\ \A j \in 1..Len(txn.todo) : txn.todo[j] = txn.pass[k + j]
                   /\ \A i \in 1..k : SoleClaimant(rows, txn.pass, i)
RotationInv == txn # Null => \E k \in 0..Len(txn.pass) : AppliedSoFar(k)

LEMMA SoleClaimantKept ==
    ASSUME NEW tbl, Sound(tbl), NEW pass \in Pass, NEW bgCutoff,
           NEW k \in Nat, k + 1 \in DOMAIN pass,
           NEW new, new = SyncPaseoRecord(tbl, pass[k + 1], pass, bgCutoff),
           \A i \in 1..k : SoleClaimant(tbl, pass, i),
           NEW i \in 1..(k + 1)
    PROVE  SoleClaimant(new, pass, i)
<1> DEFINE r == pass[k + 1]
           old == pass[i]
<1>1. r \in PaseoRecord /\ i \in DOMAIN pass /\ (i = k + 1 \/ i \in 1..k)
  BY DEF Pass
<1>2. CASE i = k + 1
  BY <1>1, <1>2, SyncCarriers DEF SoleClaimant
<1>3. CASE i \in 1..k
  <2> SUFFICES ASSUME Claims(pass, old.agent) = {old.session}, ~old.archived,
                      NEW s \in Carriers(StoredLineage(new), old.agent)
               PROVE  s = old.session
    BY DEF SoleClaimant
  <2>1. Carriers(StoredLineage(tbl), old.agent) \subseteq {old.session}
    BY <1>3 DEF SoleClaimant
  <2>2. s \in Carriers(StoredLineage(tbl), old.agent) \/ (s = r.session /\ old.agent = r.agent)
    BY <1>1, SyncCarriers
  <2>3. r.agent = old.agent => r.session \in Claims(pass, old.agent)
    BY <1>1 DEF Claims
  <2> QED BY <2>1, <2>2, <2>3
<1> QED BY <1>1, <1>2, <1>3

LEMMA RotationStep == IInv /\ RotationInv /\ [Next]_vars => RotationInv'
<1> SUFFICES ASSUME IInv, RotationInv, [Next]_vars PROVE RotationInv'
  OBVIOUS
<1>1. CASE txn = Null /\ txn' = Null
  BY <1>1 DEF RotationInv
<1>2. ASSUME NEW pass \in Pass, BeginPaseoSync(pass) PROVE RotationInv'
  <2>1. txn' = [todo |-> pass, pass |-> pass, before |-> rows] /\ Len(pass) \in Nat
    BY <1>2 DEF BeginPaseoSync, Pass
  <2>2. AppliedSoFar(0)'
    BY <2>1 DEF AppliedSoFar
  <2> QED BY <2>1, <2>2 DEF RotationInv
<1>3. CASE SyncRecord
  <2>1. /\ txn # Null /\ IsTxn(txn) /\ txn.todo # <<>> /\ Sound(rows)
        /\ txn.pass \in Pass /\ txn.todo \in Pass
        /\ rows' = SyncPaseoRecord(rows, Head(txn.todo), txn.pass, clock - BgGrace)
        /\ txn' = [txn EXCEPT !.todo = Tail(@)]
    BY <1>3 DEF SyncRecord, IInv, TypeOK, IsTxn
  <2>2. PICK k \in 0..Len(txn.pass) : AppliedSoFar(k)
    BY <2>1 DEF RotationInv
  <2>3. /\ Len(txn.todo) \in Nat /\ Len(txn.todo) >= 1 /\ Len(txn.pass) \in Nat
        /\ Head(txn.todo) = txn.todo[1]
        /\ Len(Tail(txn.todo)) = Len(txn.todo) - 1
        /\ \A j \in 1..(Len(txn.todo) - 1) : Tail(txn.todo)[j] = txn.todo[j + 1]
    BY <2>1 DEF Pass
  <2>4. k \in Nat /\ k + 1 \in DOMAIN txn.pass /\ Head(txn.todo) = txn.pass[k + 1]
        /\ k + 1 \in 0..Len(txn.pass)
    <3>1. k \in Nat /\ Len(txn.todo) = Len(txn.pass) - k /\ txn.todo[1] = txn.pass[k + 1]
      BY <2>2, <2>3 DEF AppliedSoFar
    <3>2. DOMAIN txn.pass = 1..Len(txn.pass)
      BY <2>1 DEF Pass
    <3> QED BY <2>3, <3>1, <3>2
  <2>5. \A i \in 1..(k + 1) : SoleClaimant(rows', txn.pass, i)
    <3>1. \A i \in 1..k : SoleClaimant(rows, txn.pass, i)
      BY <2>2 DEF AppliedSoFar
    <3>2. rows' = SyncPaseoRecord(rows, txn.pass[k + 1], txn.pass, clock - BgGrace)
      BY <2>1, <2>4
    <3> SUFFICES ASSUME NEW i \in 1..(k + 1) PROVE SoleClaimant(rows', txn.pass, i)
      OBVIOUS
    <3> QED BY <2>1, <2>4, <3>1, <3>2, SoleClaimantKept
  <2>6. txn'.todo = Tail(txn.todo) /\ txn'.pass = txn.pass
    BY <2>1 DEF IsTxn
  <2>7. /\ Len(txn'.todo) = Len(txn'.pass) - (k + 1)
        /\ \A j \in 1..Len(txn'.todo) : txn'.todo[j] = txn'.pass[(k + 1) + j]
    <3>1. Len(txn'.todo) = Len(txn'.pass) - (k + 1)
      BY <2>2, <2>3, <2>4, <2>6 DEF AppliedSoFar
    <3>2. ASSUME NEW j \in 1..(Len(txn.todo) - 1)
          PROVE  Tail(txn.todo)[j] = txn.pass[(k + 1) + j]
      <4>1. j + 1 \in 1..Len(txn.todo) /\ k + (j + 1) = (k + 1) + j
        BY <2>3, <2>4
      <4> QED BY <2>2, <2>3, <4>1 DEF AppliedSoFar
    <3> QED BY <2>3, <2>6, <3>1, <3>2
  <2>8. AppliedSoFar(k + 1)'
    BY <2>5, <2>6, <2>7 DEF AppliedSoFar
  <2> QED BY <2>4, <2>6, <2>8 DEF RotationInv
<1>4. CASE CommitPaseoSync \/ RollBackPaseoSync
  BY <1>4 DEF CommitPaseoSync, RollBackPaseoSync, RotationInv
<1>5. CASE UNCHANGED vars
  BY <1>5 DEF vars, RotationInv, AppliedSoFar
<1>6. \/ txn = Null /\ txn' = Null
      \/ \E pass \in Pass : BeginPaseoSync(pass)
      \/ SyncRecord \/ CommitPaseoSync \/ RollBackPaseoSync
      \/ UNCHANGED vars
  <2>1. HookStep => txn = Null /\ txn' = Null
    BY DEF HookStep, SessionStartHook, CompactHook, PromptHook, TurnHook, BackgroundHook,
           SessionEndHook, SubagentStartHook, SubagentStopHook, Write
  <2>2. GestureStep => txn = Null /\ txn' = Null
    BY DEF GestureStep, View, Acknowledge, Clear, ClearAll, OperatorPrune, Write
  <2>3. Tick \/ SweepDue \/ PruneDue \/ EvenerStep => txn = Null /\ txn' = Null
    BY DEF Tick, SweepDue, PruneDue, EvenerStep, EvenerRepair, Write
  <2>4. PaseoStep => \/ \E pass \in Pass : BeginPaseoSync(pass)
                     \/ SyncRecord \/ CommitPaseoSync \/ RollBackPaseoSync
    BY DatedIsPass DEF PaseoStep
  <2> QED BY <2>1, <2>2, <2>3, <2>4 DEF Next
<1> QED BY <1>1, <1>2, <1>3, <1>4, <1>5, <1>6

\* A committed pass of any length leaves every agent it joins to one live
\* session with at most that one claimant, whatever rows of any provider
\* carried the agent before it.
THEOREM RotationResolves == Spec => RotationLeavesOneClaimant
<1>1. Init => RotationInv
  BY DEF Init, RotationInv
<1>2. Spec => []RotationInv
  BY <1>1, RotationStep, Safety, PTL DEF Spec
<1>3. IInv /\ RotationInv /\ [Next]_vars => AgentsResolve
  <2> SUFFICES ASSUME IInv, RotationInv, CommitPaseoSync, NEW i \in DOMAIN txn.pass
               PROVE  SoleClaimant(rows, txn.pass, i)
    BY DEF AgentsResolve
  <2>1. txn # Null /\ txn.todo = <<>> /\ txn.pass \in Pass
    BY DEF CommitPaseoSync, IInv, TypeOK, IsTxn
  <2>2. PICK k \in 0..Len(txn.pass) : AppliedSoFar(k)
    BY <2>1 DEF RotationInv
  <2>3. Len(txn.todo) = 0 /\ Len(txn.pass) \in Nat /\ DOMAIN txn.pass = 1..Len(txn.pass)
    BY <2>1 DEF Pass
  <2>4. k = Len(txn.pass)
    BY <2>2, <2>3 DEF AppliedSoFar
  <2> QED BY <2>2, <2>3, <2>4 DEF AppliedSoFar
<1>4. []IInv /\ []RotationInv /\ [][Next]_vars => [][AgentsResolve]_vars
  BY <1>3, PTL
<1> QED BY <1>2, <1>4, Safety, PTL DEF Spec, RotationLeavesOneClaimant

-----------------------------------------------------------------------------
(***************************************************************************)
(* More of Chains: what s reaches along one is a line with an end.         *)
(***************************************************************************)
\* Two identities do not reach each other.
LEMMA AncestryAntisymmetric ==
    ASSUME NEW edge, Chains(edge), NEW s \in Session, NEW x \in Ancestry(edge, s),
           s \in Ancestry(edge, x)
    PROVE  x = s
<1> SUFFICES ASSUME x # s PROVE FALSE
  OBVIOUS
<1>1. s \in DOMAIN edge /\ x \in Ancestry(edge, edge[s])
  BY AncestryUnfold
<1>2. s \in Ancestry(edge, edge[s])
  BY <1>1, AncestryTransitive
<1> QED BY <1>1, <1>2 DEF Chains

\* Of two that s reaches, one reaches the other.
LEMMA AncestryLinear ==
    ASSUME NEW edge, Chains(edge), NEW s \in Session,
           NEW x \in Ancestry(edge, s), NEW y \in Ancestry(edge, s)
    PROVE  x \in Ancestry(edge, y) \/ y \in Ancestry(edge, x)
<1> DEFINE W == {z \in Session : x \in Ancestry(edge, z) \/ z \in Ancestry(edge, x)}
<1>1. ASSUME NEW z \in W \cap DOMAIN edge PROVE edge[z] \in W
  <2>1. edge[z] \in Session
    BY DEF Chains
  <2>2. CASE z \in Ancestry(edge, x)
    BY <2>1, <2>2, AncestryStep
  <2>3. CASE x \in Ancestry(edge, z) /\ x # z
    BY <2>1, <2>3, AncestryUnfold
  <2>4. CASE x = z
    BY <2>1, <2>4, AncestrySelf, AncestryStep
  <2> QED BY <2>2, <2>3, <2>4
<1>2. s \in W /\ ClosedUp(edge, W)
  BY <1>1 DEF ClosedUp
<1>3. Ancestry(edge, s) \subseteq W
  BY <1>2, AncestryWithin
<1> QED BY <1>3

\* No chain is endless: in a nonempty set closed under the edges someone has
\* none.  Otherwise take the one that reaches fewest: its successor reaches
\* fewer.
LEMMA ChainEnds ==
    ASSUME NEW edge, Chains(edge), NEW X \in SUBSET Session, X # {}, ClosedUp(edge, X)
    PROVE  \E x \in X : x \notin DOMAIN edge
<1> SUFFICES ASSUME X \subseteq DOMAIN edge PROVE FALSE
  OBVIOUS
<1> DEFINE size == [x \in X |-> Cardinality(Ancestry(edge, x))]
           N == {size[x] : x \in X}
<1>1. \A x \in X : IsFiniteSet(Ancestry(edge, x)) /\ size[x] \in Nat
  BY SessionAssumption, AncestryClosed, FS_Subset, FS_CardinalityType
<1>2. N \in SUBSET Nat /\ N # {}
  BY <1>1
<1> HIDE DEF size
<1>3. PICK n \in N : \A m \in N : n <= m
  BY <1>2, LeastElement
<1>4. PICK x \in X : n = size[x]
  BY <1>3
<1> DEFINE p == edge[x]
<1>5. p \in X /\ p \in Session /\ x \in DOMAIN edge /\ x \in Session /\ x \notin Ancestry(edge, p)
  BY DEF ClosedUp, Chains
<1>6. Ancestry(edge, p) \subseteq Ancestry(edge, x) /\ x \in Ancestry(edge, x)
  BY <1>5, AncestrySelf, AncestryOfParent
<1>7. Ancestry(edge, p) # Ancestry(edge, x)
  BY <1>5, <1>6
<1>8. Cardinality(Ancestry(edge, p)) < Cardinality(Ancestry(edge, x))
  <2>1. IsFiniteSet(Ancestry(edge, x)) /\ Ancestry(edge, p) \in SUBSET Ancestry(edge, x)
    BY <1>1, <1>6
  <2>2. /\ Cardinality(Ancestry(edge, p)) \in Nat /\ Cardinality(Ancestry(edge, x)) \in Nat
        /\ Cardinality(Ancestry(edge, p)) <= Cardinality(Ancestry(edge, x))
        /\ Cardinality(Ancestry(edge, p)) # Cardinality(Ancestry(edge, x))
    BY <1>7, <2>1, FS_Subset, FS_CardinalityType
  <2> QED BY <2>2
<1>9. size[p] < size[x] /\ size[p] \in N /\ size[p] \in Nat /\ size[x] \in Nat
  BY <1>1, <1>5, <1>8 DEF size
<1> QED BY <1>3, <1>4, <1>9

\* Walking up from s, the first that satisfies a property: all before it
\* fail it.  The property must hold where the chain ends.
LEMMA FirstAbove ==
    ASSUME NEW edge, Chains(edge), NEW s \in Session, NEW Stop \in SUBSET Session,
           \A x \in Ancestry(edge, s) : x \notin DOMAIN edge => x \in Stop
    PROVE  \E c \in Ancestry(edge, s) :
               c \in Stop /\ \A x \in Between(edge, s, c) \ {c} : x \notin Stop
<1> SUFFICES ASSUME \A c \in Ancestry(edge, s) : c \in Stop =>
                        \E x \in Between(edge, s, c) \ {c} : x \in Stop
             PROVE  FALSE
  OBVIOUS
<1> DEFINE X == {x \in Ancestry(edge, s) : \A y \in Between(edge, s, x) : y \notin Stop}
<1>1. X \subseteq Session /\ \A y \in Ancestry(edge, s) : y \in Session
  BY AncestryClosed
<1>2. s \in X
  <2>1. s \in Ancestry(edge, s)
    BY AncestrySelf
  <2>2. \A y \in Between(edge, s, s) : y = s
    BY <1>1, AncestryAntisymmetric DEF Between
  <2> QED BY <2>1, <2>2
<1>3. ASSUME NEW x \in X PROVE x \in DOMAIN edge
  <2>1. x \in Between(edge, s, x)
    BY <1>1, AncestrySelf DEF Between
  <2> QED BY <2>1
<1>4. ASSUME NEW x \in X PROVE edge[x] \in X
  <2> DEFINE p == edge[x]
  <2>1. x \in DOMAIN edge /\ p \in Session /\ p \in Ancestry(edge, s)
    BY <1>3, AncestryStep DEF Chains
  <2>2. ASSUME NEW y \in Between(edge, s, p), y # p PROVE y \in Between(edge, s, x)
    <3>1. y \in Ancestry(edge, s) /\ p \in Ancestry(edge, y) /\ y \in Session
      BY <1>1, <2>2 DEF Between
    <3>2. x \in Ancestry(edge, y) \/ y \in Ancestry(edge, x)
      BY <3>1, AncestryLinear
    <3>3. CASE y \in Ancestry(edge, x) /\ y # x
      <4>1. y \in Ancestry(edge, p)
        BY <1>1, <3>3, AncestryUnfold
      <4> QED BY <2>1, <2>2, <3>1, <4>1, AncestryAntisymmetric
    <3>4. CASE y = x
      BY <1>1, <3>4, AncestrySelf DEF Between
    <3>5. CASE x \in Ancestry(edge, y)
      BY <3>1, <3>5 DEF Between
    <3> QED BY <3>2, <3>3, <3>4, <3>5
  <2>3. \A y \in Between(edge, s, p) \ {p} : y \notin Stop
    BY <2>2
  <2>4. p \notin Stop
    BY <2>1, <2>3
  <2> QED BY <2>1, <2>3, <2>4
<1>5. ClosedUp(edge, X) /\ X # {}
  BY <1>2, <1>4 DEF ClosedUp
<1>6. PICK x \in X : x \notin DOMAIN edge
  <2> HIDE DEF X
  <2> QED BY <1>1, <1>5, ChainEnds
<1> QED BY <1>3, <1>6

-----------------------------------------------------------------------------
(***************************************************************************)
(* Paseo links of a table are chains: PaseoLinks took the cycles out.      *)
(***************************************************************************)
LEMMA LinkChains ==
    ASSUME NEW tbl, Sound(tbl)
    PROVE  /\ Chains(Links(tbl))
           /\ \A s \in DOMAIN Links(tbl) : /\ s \in TopLevel(tbl) /\ Links(tbl)[s] \in TopLevel(tbl)
                                          /\ IsPaseoSubagent(tbl[s])
<1> DEFINE lineage == StoredLineage(tbl)
           all == UniqueLinks(lineage)
           link == Links(tbl)
<1>1. DOMAIN lineage \subseteq TopLevel(tbl) /\ TopLevel(tbl) \subseteq Session
      /\ \A s \in DOMAIN lineage : lineage[s] = tbl[s].origin /\ tbl[s].origin # Null
                                 /\ tbl[s].origin.kind = "paseo"
  BY DEF StoredLineage, TopLevel, Sound, IsTable
<1>2. ASSUME NEW s \in DOMAIN link
      PROVE  /\ s \in DOMAIN lineage /\ link[s] \in DOMAIN lineage
             /\ link[s] = all[s] /\ s \in DOMAIN all /\ s \notin Ancestry(all, all[s])
             /\ lineage[s].sub
  <2>1. /\ s \in DOMAIN lineage /\ link[s] \in DOMAIN lineage
        /\ link[s] = all[s] /\ s \in DOMAIN all
    BY LinksJoinRoots DEF Links
  <2>2. s \notin Ancestry(all, all[s])
    BY DEF Links, PaseoLinks, Restrict
  <2>3. lineage[s].sub
    BY <2>1 DEF UniqueLinks, NamesParent
  <2> QED BY <2>1, <2>2, <2>3
<1>3. ASSUME NEW s \in DOMAIN link PROVE s \notin Ancestry(link, link[s])
  <2>1. \A X : ClosedUp(all, X) => ClosedUp(link, X)
    BY <1>2 DEF ClosedUp
  <2>2. \A x \in Ancestry(link, link[s]) : x \in Ancestry(all, link[s])
    BY <2>1 DEF Ancestry
  <2> QED BY <1>2, <2>2
<1> HIDE DEF link, lineage, all
<1>4. Chains(link)
  BY <1>1, <1>2, <1>3 DEF Chains
<1>5. \A s \in DOMAIN link : IsPaseoSubagent(tbl[s])
  BY <1>1, <1>2 DEF IsPaseoSubagent
<1> QED BY <1>1, <1>2, <1>4, <1>5 DEF link

\* What a root reaches are roots.
LEMMA RootsReachRoots ==
    ASSUME NEW tbl, Sound(tbl), NEW s \in TopLevel(tbl)
    PROVE  /\ s \in Ancestry(Links(tbl), s)
           /\ Ancestry(Links(tbl), s) \subseteq TopLevel(tbl)
<1>1. TopLevel(tbl) \subseteq Session
  BY DEF TopLevel, Sound, IsTable
<1>2. ClosedUp(Links(tbl), TopLevel(tbl))
  BY LinkChains DEF ClosedUp
<1> QED BY <1>1, <1>2, AncestrySelf, AncestryWithin

-----------------------------------------------------------------------------
(***************************************************************************)
(* The status carry.                                                       *)
(***************************************************************************)
Rank(a) == Priority[a]

LEMMA Ranks ==
    /\ \A a \in Status : Rank(a) \in Nat
    /\ \A a, b \in Status : Rank(a) = Rank(b) => a = b
    /\ \A a \in Status : Rank("idle") <= Rank(a)
  BY DEF Rank, Priority, Status

LEMMA HighestOf ==
    ASSUME NEW S \in SUBSET Status, S # {}
    PROVE  /\ Highest(S) \in S
           /\ \A a \in S : Rank(Highest(S)) >= Rank(a)
<1>1. \A a \in S : a \in {"idle", "working", "waiting", "error"}
  BY DEF Status
<1>2. /\ Priority["idle"] = 0 /\ Priority["working"] = 1
      /\ Priority["waiting"] = 2 /\ Priority["error"] = 3
  BY DEF Priority
<1>3. \E a \in S : \A b \in S : Priority[a] >= Priority[b]
  <2>1. CASE "error" \in S
    BY <1>1, <1>2, <2>1
  <2>2. CASE "error" \notin S /\ "waiting" \in S
    <3>1. \A b \in S : b \in {"idle", "working", "waiting"}
      BY <1>1, <2>2
    <3> QED BY <1>2, <2>2, <3>1
  <2>3. CASE "error" \notin S /\ "waiting" \notin S /\ "working" \in S
    <3>1. \A b \in S : b \in {"idle", "working"}
      BY <1>1, <2>3
    <3> QED BY <1>2, <2>3, <3>1
  <2>4. CASE "error" \notin S /\ "waiting" \notin S /\ "working" \notin S
    <3>1. \A b \in S : b = "idle"
      BY <1>1, <2>4
    <3> QED BY <1>2, <3>1
  <2> QED BY <2>1, <2>2, <2>3, <2>4
<1> QED BY <1>3 DEF Highest, Rank

LEMMA OwnStatusType ==
    ASSUME NEW tbl, Sound(tbl), NEW s \in DOMAIN tbl
    PROVE  OwnStatus(tbl, s) \in Status
  BY RowOf DEF OwnStatus, Sound, Row, Status

\* The native status of a root is that of some row of its native tree, and
\* none of them ranks higher.
LEMMA NativeStatusIs ==
    ASSUME NEW tbl, Sound(tbl), NEW s \in TopLevel(tbl)
    PROVE  LET tree == {y \in DOMAIN tbl : s \in Ancestry(NativeParent(tbl), y)}
           IN  /\ NativeStatus(tbl)[s] \in Status
               /\ \E x \in tree : NativeStatus(tbl)[s] = OwnStatus(tbl, x)
               /\ \A x \in tree : Rank(NativeStatus(tbl)[s]) >= Rank(OwnStatus(tbl, x))
<1> DEFINE tree == {y \in DOMAIN tbl : s \in Ancestry(NativeParent(tbl), y)}
           S == {OwnStatus(tbl, x) : x \in tree}
<1>1. s \in tree
  BY AncestrySelf DEF TopLevel, Sound, IsTable
<1>2. S \in SUBSET Status /\ S # {}
  BY <1>1, OwnStatusType
<1>3. NativeStatus(tbl)[s] = Highest(S)
  BY DEF NativeStatus
<1>4. Highest(S) \in S /\ \A a \in S : Rank(Highest(S)) >= Rank(a)
  <2> HIDE DEF S
  <2> QED BY <1>2, HighestOf
<1> QED BY <1>2, <1>3, <1>4

LEMMA NativeStatusType ==
    ASSUME NEW tbl, Sound(tbl)
    PROVE  NativeStatus(tbl) \in [TopLevel(tbl) -> Status]
<1>1. DOMAIN NativeStatus(tbl) = TopLevel(tbl)
      /\ NativeStatus(tbl) = [s \in TopLevel(tbl) |-> NativeStatus(tbl)[s]]
  BY DEF NativeStatus
<1>2. \A s \in TopLevel(tbl) : NativeStatus(tbl)[s] \in Status
  BY NativeStatusIs
<1> QED BY <1>1, <1>2

\* The carry so far: each root shows the native status of some root below
\* it, and none that ranks under its own or that of a root already walked.
CarriedFrom(tbl, status, walked) ==
    /\ status \in [TopLevel(tbl) -> Status]
    /\ \A x \in TopLevel(tbl) :
          /\ \E y \in TopLevel(tbl) : /\ x \in Ancestry(Links(tbl), y)
                                      /\ status[x] = NativeStatus(tbl)[y]
          /\ \A y \in walked \cup {x} : x \in Ancestry(Links(tbl), y) =>
                Rank(status[x]) >= Rank(NativeStatus(tbl)[y])

LEMMA CarryStarts ==
    ASSUME NEW tbl, Sound(tbl)
    PROVE  CarriedFrom(tbl, NativeStatus(tbl), {})
<1>1. \A x \in TopLevel(tbl) : x \in Ancestry(Links(tbl), x) /\ NativeStatus(tbl)[x] \in Status
  BY RootsReachRoots, NativeStatusIs
<1> QED BY <1>1, NativeStatusType, Ranks DEF CarriedFrom

\* One root walks up: whatever it meets takes the status of a root between
\* the two, and ranks no lower than before and no lower than the walker.
LEMMA WalkRaises ==
    ASSUME NEW tbl, Sound(tbl), NEW status \in [TopLevel(tbl) -> Status], NEW s \in TopLevel(tbl),
           NEW new, new = RaiseAncestors(Links(tbl), status, s)
    PROVE  /\ new \in [TopLevel(tbl) -> Status]
           /\ \A x \in TopLevel(tbl) :
                 /\ Rank(new[x]) >= Rank(status[x])
                 /\ x \notin Ancestry(Links(tbl), s) => new[x] = status[x]
                 /\ x \in Ancestry(Links(tbl), s) =>
                        /\ Rank(new[x]) >= Rank(status[s])
                        /\ \E y \in Between(Links(tbl), s, x) : new[x] = status[y]
<1> DEFINE link == Links(tbl)
           met(x) == {status[y] : y \in Between(link, s, x)}
<1>1. /\ new = [x \in TopLevel(tbl) |-> new[x]]
      /\ \A x \in TopLevel(tbl) : new[x] = IF x \in Ancestry(link, s) THEN Highest(met(x))
                                                                      ELSE status[x]
  BY DEF RaiseAncestors
<1>2. ASSUME NEW x \in TopLevel(tbl), x \in Ancestry(link, s)
      PROVE  /\ new[x] \in Status
             /\ \E y \in Between(link, s, x) : new[x] = status[y]
             /\ Rank(new[x]) >= Rank(status[x]) /\ Rank(new[x]) >= Rank(status[s])
  <2>1. x \in Between(link, s, x) /\ s \in Between(link, s, x)
    BY <1>2, RootsReachRoots DEF Between
  <2>2. Between(link, s, x) \subseteq TopLevel(tbl)
    BY RootsReachRoots DEF Between
  <2>3. met(x) \in SUBSET Status /\ met(x) # {} /\ status[x] \in met(x) /\ status[s] \in met(x)
    BY <2>1, <2>2
  <2>4. Highest(met(x)) \in met(x) /\ \A a \in met(x) : Rank(Highest(met(x))) >= Rank(a)
    <3> HIDE DEF met
    <3> QED BY <2>3, HighestOf
  <2>5. new[x] = Highest(met(x))
    BY <1>1, <1>2
  <2> QED BY <2>3, <2>4, <2>5
<1> HIDE DEF met
<1>3. new \in [TopLevel(tbl) -> Status]
  BY <1>1, <1>2
<1>4. ASSUME NEW x \in TopLevel(tbl), x \notin Ancestry(link, s)
      PROVE  new[x] = status[x] /\ Rank(new[x]) >= Rank(status[x])
  <2>1. new[x] = status[x] /\ status[x] \in Status
    BY <1>1, <1>4
  <2> QED BY <2>1, Ranks
<1> QED BY <1>2, <1>3, <1>4

\* What was established stays, and the walker counts from now on.
LEMMA CarryWalks ==
    ASSUME NEW tbl, Sound(tbl), NEW status, NEW walked \in SUBSET TopLevel(tbl),
           CarriedFrom(tbl, status, walked), NEW s \in TopLevel(tbl),
           NEW new, new = RaiseAncestors(Links(tbl), status, s)
    PROVE  CarriedFrom(tbl, new, walked \cup {s})
<1> DEFINE link == Links(tbl)
<1>1. /\ status \in [TopLevel(tbl) -> Status] /\ Chains(link)
      /\ TopLevel(tbl) \subseteq Session
  BY LinkChains DEF CarriedFrom, TopLevel, Sound, IsTable
<1>2. new \in [TopLevel(tbl) -> Status]
  BY <1>1, WalkRaises
<1>3. ASSUME NEW x \in TopLevel(tbl)
      PROVE  /\ status[x] \in Status /\ new[x] \in Status
             /\ Rank(new[x]) >= Rank(status[x])
             /\ x \notin Ancestry(link, s) => new[x] = status[x]
             /\ x \in Ancestry(link, s) =>
                    /\ Rank(new[x]) >= Rank(status[s])
                    /\ \E y \in Between(link, s, x) : new[x] = status[y]
  BY <1>1, <1>2, WalkRaises
<1>4. ASSUME NEW x \in TopLevel(tbl)
      PROVE  \E y \in TopLevel(tbl) : x \in Ancestry(link, y) /\ new[x] = NativeStatus(tbl)[y]
  <2>1. CASE x \notin Ancestry(link, s)
    BY <1>3, <2>1 DEF CarriedFrom
  <2>2. CASE x \in Ancestry(link, s)
    <3>1. PICK z \in Between(link, s, x) : new[x] = status[z]
      BY <1>3, <2>2
    <3>2. z \in TopLevel(tbl) /\ x \in Ancestry(link, z)
      BY <3>1, RootsReachRoots DEF Between
    <3>3. PICK y \in TopLevel(tbl) : z \in Ancestry(link, y) /\ status[z] = NativeStatus(tbl)[y]
      BY <3>2 DEF CarriedFrom
    <3>4. x \in Ancestry(link, y)
      BY <1>1, <3>2, <3>3, AncestryTransitive
    <3> QED BY <3>1, <3>3, <3>4
  <2> QED BY <2>1, <2>2
<1>5. ASSUME NEW x \in TopLevel(tbl), NEW y \in walked \cup {s} \cup {x}, x \in Ancestry(link, y)
      PROVE  Rank(new[x]) >= Rank(NativeStatus(tbl)[y])
  <2>1. NativeStatus(tbl)[y] \in Status /\ status[y] \in Status
    BY <1>1, NativeStatusIs
  <2>2. CASE y \in walked \cup {x}
    <3>1. Rank(status[x]) >= Rank(NativeStatus(tbl)[y])
      BY <1>5, <2>2 DEF CarriedFrom
    <3> QED BY <1>3, <2>1, <3>1, Ranks
  <2>3. CASE y = s
    <3>1. Rank(status[s]) >= Rank(NativeStatus(tbl)[s])
      BY RootsReachRoots DEF CarriedFrom
    <3>2. Rank(new[x]) >= Rank(status[s])
      BY <1>3, <1>5, <2>3
    <3> QED BY <1>3, <2>1, <2>3, <3>1, <3>2, Ranks
  <2> QED BY <2>2, <2>3
<1> QED BY <1>2, <1>4, <1>5 DEF CarriedFrom

\* The last slot in use is a number no root's slot exceeds.
LEMMA SlotsEnd ==
    ASSUME NEW tbl, Sound(tbl)
    PROVE  LastSlot(tbl) \in Nat /\ \A s \in TopLevel(tbl) : tbl[s].slot \in 1..LastSlot(tbl)
<1> DEFINE slots == [s \in TopLevel(tbl) |-> tbl[s].slot]
<1>1. TopLevel(tbl) \in SUBSET Session /\ \A s \in TopLevel(tbl) : tbl[s].slot \in Nat /\ tbl[s].slot >= 1
  BY DEF Sound, IsTable, TopLevel, SlotsValid
<1>2. IsFiniteSet(TopLevel(tbl))
  BY <1>1, SessionAssumption, FS_Subset
<1>3. slots \in Surjection(TopLevel(tbl), UsedSlots(tbl))
  BY DEF Surjection, UsedSlots
<1>4. IsFiniteSet(UsedSlots(tbl) \cup {0})
  BY <1>2, <1>3, FS_Surjection, FS_AddElement
<1>5. UsedSlots(tbl) \cup {0} \in SUBSET Nat
  BY <1>1 DEF UsedSlots
<1>6. /\ LastSlot(tbl) \in Nat
      /\ \A n \in UsedSlots(tbl) \cup {0} : LastSlot(tbl) >= n
  BY <1>4, <1>5, LargestElement DEF LastSlot
<1> QED BY <1>1, <1>6 DEF UsedSlots

LEMMA RootAtSlot ==
    ASSUME NEW tbl, Sound(tbl), NEW s \in TopLevel(tbl)
    PROVE  RootAt(tbl, tbl[s].slot) = s
<1>1. \A r \in TopLevel(tbl) : tbl[r].slot = tbl[s].slot => r = s
  BY DEF Sound, SlotsValid
<1> QED BY <1>1 DEF RootAt

\* The recursion the projection is written with.
LEMMA CarryUnfolds ==
    ASSUME NEW tbl, Sound(tbl)
    PROVE  /\ Carry(tbl)[0] = NativeStatus(tbl)
           /\ \A n \in 1..LastSlot(tbl) :
                 Carry(tbl)[n] = IF n \in UsedSlots(tbl)
                                 THEN RaiseAncestors(Links(tbl), Carry(tbl)[n - 1], RootAt(tbl, n))
                                 ELSE Carry(tbl)[n - 1]
<1> DEFINE N == LastSlot(tbl)
           A == [TopLevel(tbl) -> Status]
           Step(n, status) == IF n \in UsedSlots(tbl)
                              THEN RaiseAncestors(Links(tbl), status, RootAt(tbl, n)) ELSE status
           step == [n \in 1..N |-> [status \in A |-> Step(n, status)]]
           Is(f) == f = [n \in 0..N |-> IF n = 0 THEN NativeStatus(tbl) ELSE Step(n, f[n - 1])]
<1>1. ASSUME NEW n \in 1..N, NEW status \in A PROVE Step(n, status) \in A
  <2>1. CASE n \in UsedSlots(tbl)
    <3>1. PICK s \in TopLevel(tbl) : n = tbl[s].slot
      BY <2>1 DEF UsedSlots
    <3> QED BY <2>1, <3>1, RootAtSlot, WalkRaises
  <2> QED BY <2>1
<1> HIDE DEF Step
<1>2. N \in Nat /\ step \in [1..N -> [A -> A]] /\ NativeStatus(tbl) \in A
  BY <1>1, SlotsEnd, NativeStatusType
<1>3. PICK f \in [0..N -> A] : f[0] = NativeStatus(tbl) /\ \A n \in 1..N : f[n] = step[n][f[n - 1]]
  <2> HIDE DEF A, step, N
  <2> QED BY <1>2, FoldExists
<1>4. Is(f)
  <2>1. ASSUME NEW n \in 0..N PROVE f[n] = IF n = 0 THEN NativeStatus(tbl) ELSE Step(n, f[n - 1])
    <3>1. CASE n # 0
      <4>1. n \in 1..N /\ n - 1 \in 0..N
        BY <1>2, <3>1
      <4> QED BY <1>3, <3>1, <4>1
    <3> QED BY <1>3, <3>1
  <2> QED BY <1>3, <2>1
<1>5. Carry(tbl) = CHOOSE g : Is(g)
  BY DEF Carry, Step
<1>6. Is(Carry(tbl))
  BY <1>4, <1>5
<1>7. \A n \in 0..N : Carry(tbl)[n] = IF n = 0 THEN NativeStatus(tbl) ELSE Step(n, Carry(tbl)[n - 1])
  BY <1>6
<1>8. 0 \in 0..N /\ \A n \in 1..N : n \in 0..N /\ n # 0
  BY <1>2
<1> QED BY <1>7, <1>8 DEF Step

\* After n slots, the roots of the first n slots have walked.
LEMMA CarryHolds ==
    ASSUME NEW tbl, Sound(tbl), NEW n \in 0..LastSlot(tbl)
    PROVE  CarriedFrom(tbl, Carry(tbl)[n], {s \in TopLevel(tbl) : tbl[s].slot <= n})
<1> DEFINE N == LastSlot(tbl)
           Walked(k) == {s \in TopLevel(tbl) : tbl[s].slot <= k}
           Holds(k) == CarriedFrom(tbl, Carry(tbl)[k], Walked(k))
           bad == {k \in 0..N : ~Holds(k)}
<1>1. SUFFICES ASSUME bad # {} PROVE FALSE
  OBVIOUS
<1>2. N \in Nat /\ \A s \in TopLevel(tbl) : tbl[s].slot \in 1..N
  BY SlotsEnd
<1>3. PICK m \in bad : \A k \in bad : m <= k
  <2>1. bad \in SUBSET Nat
    BY <1>2
  <2> HIDE DEF bad
  <2> QED BY <1>1, <2>1, LeastElement
<1>4. m \in 0..N /\ ~Holds(m)
  BY <1>3
<1>5. m # 0
  <2>1. Walked(0) = {}
    BY <1>2
  <2>2. Carry(tbl)[0] = NativeStatus(tbl)
    BY CarryUnfolds
  <2>3. Holds(0)
    BY <2>1, <2>2, CarryStarts
  <2> QED BY <1>4, <2>3
<1>6. m \in 1..N /\ m - 1 \in 0..N /\ ~(m <= m - 1)
  BY <1>2, <1>4, <1>5
<1>7. Holds(m - 1)
  <2> HIDE DEF Holds
  <2> QED BY <1>3, <1>6
<1> DEFINE before == Carry(tbl)[m - 1]
           after == Carry(tbl)[m]
<1>8. CASE m \in UsedSlots(tbl)
  <2>1. PICK s \in TopLevel(tbl) : m = tbl[s].slot
    BY <1>8 DEF UsedSlots
  <2>2. after = RaiseAncestors(Links(tbl), before, s)
    BY <1>6, <1>8, <2>1, CarryUnfolds, RootAtSlot
  <2>3. Walked(m) = Walked(m - 1) \cup {s}
    <3>1. \A r \in TopLevel(tbl) : tbl[r].slot = m <=> r = s
      BY <2>1 DEF Sound, SlotsValid
    <3>2. \A r \in TopLevel(tbl) : tbl[r].slot <= m <=> tbl[r].slot <= m - 1 \/ tbl[r].slot = m
      BY <1>2, <1>6
    <3> QED BY <3>1, <3>2
  <2>4. CarriedFrom(tbl, after, Walked(m - 1) \cup {s})
    <3>1. Walked(m - 1) \in SUBSET TopLevel(tbl)
      OBVIOUS
    <3> HIDE DEF Walked, before, after
    <3> QED BY <1>7, <2>2, <3>1, CarryWalks DEF before
  <2> QED BY <1>4, <2>3, <2>4
<1>9. CASE m \notin UsedSlots(tbl)
  <2>1. after = before
    BY <1>6, <1>9, CarryUnfolds
  <2>2. Walked(m) = Walked(m - 1)
    <3>1. \A r \in TopLevel(tbl) : tbl[r].slot # m
      BY <1>9 DEF UsedSlots
    <3> QED BY <1>2, <1>6, <3>1
  <2> QED BY <1>4, <1>7, <2>1, <2>2
<1> QED BY <1>8, <1>9

\* The effective status of a root: the native status of some root at or
\* below it, and none of those ranks higher.
LEMMA EffectiveIs ==
    ASSUME NEW tbl, Sound(tbl), NEW x \in TopLevel(tbl)
    PROVE  /\ EffectiveStatus(tbl)[x] \in Status
           /\ \E y \in TopLevel(tbl) : /\ x \in Ancestry(Links(tbl), y)
                                       /\ EffectiveStatus(tbl)[x] = NativeStatus(tbl)[y]
           /\ \A y \in TopLevel(tbl) : x \in Ancestry(Links(tbl), y) =>
                 Rank(EffectiveStatus(tbl)[x]) >= Rank(NativeStatus(tbl)[y])
<1>1. LastSlot(tbl) \in 0..LastSlot(tbl) /\ \A s \in TopLevel(tbl) : tbl[s].slot <= LastSlot(tbl)
  BY SlotsEnd
<1>2. {s \in TopLevel(tbl) : tbl[s].slot <= LastSlot(tbl)} = TopLevel(tbl)
  BY <1>1
<1>3. CarriedFrom(tbl, EffectiveStatus(tbl), TopLevel(tbl))
  BY <1>1, <1>2, CarryHolds DEF EffectiveStatus
<1> QED BY <1>3 DEF CarriedFrom

\* A root is never shown idle above one that is not.
LEMMA EffectiveRises ==
    ASSUME NEW tbl, Sound(tbl), NEW s \in TopLevel(tbl), NEW x \in Ancestry(Links(tbl), s),
           EffectiveStatus(tbl)[s] # "idle"
    PROVE  x \in TopLevel(tbl) /\ EffectiveStatus(tbl)[x] # "idle"
<1>1. x \in TopLevel(tbl)
  BY RootsReachRoots
<1>2. PICK y \in TopLevel(tbl) : /\ s \in Ancestry(Links(tbl), y)
                                 /\ EffectiveStatus(tbl)[s] = NativeStatus(tbl)[y]
  BY EffectiveIs
<1>3. x \in Ancestry(Links(tbl), y)
  BY <1>2, LinkChains, AncestryTransitive
<1>4. /\ Rank(EffectiveStatus(tbl)[x]) >= Rank(EffectiveStatus(tbl)[s])
      /\ EffectiveStatus(tbl)[x] \in Status /\ EffectiveStatus(tbl)[s] \in Status
  BY <1>1, <1>2, <1>3, EffectiveIs
<1>5. \A a, b \in Status : Rank(a) >= Rank(b) /\ b # "idle" => a # "idle"
  BY DEF Rank, Priority, Status
<1> QED BY <1>1, <1>4, <1>5

\* For any number of rows, slots and links: the one pass over the roots in
\* slot order is the maximum over each root's Paseo subtree.
THEOREM CarryIsSubtreeMax == Spec => []CarriedStatusIsSubtreeMax
<1>1. IInv => CarriedStatusIsSubtreeMax
  <2> SUFFICES ASSUME IInv, NEW s \in TopLevel(rows)
               PROVE  EffectiveStatus(rows)[s] =
                        Highest({NativeStatus(rows)[x] :
                                    x \in {y \in TopLevel(rows) : s \in Ancestry(Links(rows), y)}})
    BY DEF CarriedStatusIsSubtreeMax
  <2> DEFINE S == {NativeStatus(rows)[x] :
                        x \in {y \in TopLevel(rows) : s \in Ancestry(Links(rows), y)}}
             e == EffectiveStatus(rows)[s]
  <2>1. Sound(rows)
    BY DEF IInv
  <2>2. S \in SUBSET Status /\ e \in S /\ \A a \in S : Rank(e) >= Rank(a)
    BY <2>1, EffectiveIs, NativeStatusIs
  <2> HIDE DEF S, e
  <2>3. Highest(S) \in S /\ \A a \in S : Rank(Highest(S)) >= Rank(a)
    BY <2>2, HighestOf
  <2>4. e \in Status /\ Highest(S) \in Status /\ Rank(e) >= Rank(Highest(S)) /\ Rank(Highest(S)) >= Rank(e)
    BY <2>2, <2>3
  <2>5. e = Highest(S)
    BY <2>4, Ranks
  <2> QED BY <2>5 DEF S, e
<1> QED BY <1>1, Safety, PTL

-----------------------------------------------------------------------------
(***************************************************************************)
(* Cards.                                                                  *)
(***************************************************************************)
\* The linked subagents among the published roots are not idle.
LEMMA LinkedCards ==
    ASSUME NEW tbl, Sound(tbl), NEW s \in TopLevel(tbl), s \in DOMAIN Links(tbl)
    PROVE  s \in VisibleRoots(tbl) <=> EffectiveStatus(tbl)[s] # "idle"
  BY LinkChains DEF VisibleRoots, RootVisible

\* What the schema guarantees is what the projection throws without.
LEMMA TopologyHolds ==
    ASSUME NEW tbl, Sound(tbl)
    PROVE  ValidTopology(tbl)
<1>1. \A s \in TopLevel(tbl) : tbl[s].slot # Null /\ tbl[s].slot >= 1
  BY NullAssumption DEF Sound, SlotsValid
<1>2. \A s \in DOMAIN tbl \ TopLevel(tbl) : tbl[s].slot = Null /\ tbl[s].parent \in DOMAIN tbl
  BY DEF Sound, SlotsValid, ParentsValid
<1>3. \A s \in DOMAIN tbl : Ancestry(NativeParent(tbl), s) \cap TopLevel(tbl) # {}
  BY RootAbove
<1> QED BY <1>1, <1>2, <1>3 DEF ValidTopology

\* Whoever is published below another has it published, up to a root that
\* names nobody: status is carried up all of the chain.
LEMMA GraphHolds ==
    ASSUME NEW tbl, Sound(tbl)
    PROVE  ValidGraph(tbl)
<1> SUFFICES ASSUME NEW s \in VisibleRoots(tbl)
             PROVE  /\ NodeParent(tbl, s) \in VisibleRoots(tbl) \cup {Null}
                    /\ \E r \in VisibleRoots(tbl) :
                          NodeParent(tbl, r) = Null /\ r \in Ancestry(Links(tbl), s)
  BY DEF ValidGraph
<1>1. s \in TopLevel(tbl) /\ s \in Session
  BY DEF VisibleRoots, TopLevel, Sound, IsTable
<1>2. \A x \in TopLevel(tbl) : EffectiveStatus(tbl)[x] # "idle" => x \in VisibleRoots(tbl)
  BY DEF VisibleRoots, RootVisible
<1>3. CASE s \notin DOMAIN Links(tbl)
  BY <1>1, <1>3, RootsReachRoots DEF NodeParent
<1>4. CASE s \in DOMAIN Links(tbl)
  <2>1. EffectiveStatus(tbl)[s] # "idle" /\ NodeParent(tbl, s) = Links(tbl)[s]
    BY <1>1, <1>4, LinkedCards, LinkChains DEF NodeParent
  <2>2. \A x \in Ancestry(Links(tbl), s) : x \in VisibleRoots(tbl)
    BY <1>1, <1>2, <2>1, EffectiveRises
  <2>3. Links(tbl)[s] \in Ancestry(Links(tbl), s) /\ s \in Ancestry(Links(tbl), s)
    BY <1>1, <1>4, LinkChains, AncestrySelf, AncestryStep DEF Chains
  <2>4. /\ Ancestry(Links(tbl), s) \in SUBSET Session /\ Ancestry(Links(tbl), s) # {}
        /\ ClosedUp(Links(tbl), Ancestry(Links(tbl), s))
    BY <2>3, LinkChains, AncestryClosed
  <2>5. PICK r \in Ancestry(Links(tbl), s) : r \notin DOMAIN Links(tbl)
    BY <2>4, LinkChains, ChainEnds
  <2>6. NodeParent(tbl, r) = Null
    BY <2>5 DEF NodeParent
  <2> QED BY <2>1, <2>2, <2>3, <2>5, <2>6
<1> QED BY <1>3, <1>4

\* No history of the registry leaves a table the projection throws on.
THEOREM ProjectionTotal == Spec => []ProjectionNeverThrows
<1>1. IInv => ProjectionNeverThrows
  BY TopologyHolds, GraphHolds DEF IInv, ProjectionNeverThrows
<1> QED BY <1>1, Safety, PTL

\* A result is on the card of the first root, from its own up, that is not
\* idle or names nobody.  A card above that one rolls up nothing past it;
\* one below is an idle linked subagent, which is not published.
LEMMA ResultHasOneCard ==
    ASSUME NEW tbl, Sound(tbl), NEW s \in TopLevel(tbl), HoldsLedger(tbl[s])
    PROVE  \E c \in VisibleRoots(tbl) :
               \A v \in VisibleRoots(tbl) : s \in {v} \cup RolledUp(tbl, v) <=> v = c
<1> DEFINE link == Links(tbl)
           eff == EffectiveStatus(tbl)
           Stop == {x \in TopLevel(tbl) : eff[x] # "idle" \/ x \notin DOMAIN link}
<1>1. /\ Chains(link) /\ s \in Session /\ Stop \in SUBSET Session
      /\ s \in Ancestry(link, s) /\ Ancestry(link, s) \subseteq TopLevel(tbl)
  BY LinkChains, RootsReachRoots DEF TopLevel, Sound, IsTable
<1>2. \A x \in Ancestry(link, s) : x \notin DOMAIN link => x \in Stop
  BY <1>1
<1>3. PICK c \in Ancestry(link, s) : c \in Stop /\ \A x \in Between(link, s, c) \ {c} : x \notin Stop
  <2> HIDE DEF Stop, link
  <2> QED BY <1>1, <1>2, FirstAbove
<1>4. c \in TopLevel(tbl) /\ c \in Session
  BY <1>1, <1>3
<1>5. c \in VisibleRoots(tbl)
  <2>1. CASE eff[c] # "idle"
    BY <1>4, <2>1 DEF VisibleRoots, RootVisible
  <2>2. CASE c \notin DOMAIN link
    <3>1. HoldsLedger(tbl[c]) \/ HasDescendantLedger(tbl, c)
      BY <1>3 DEF HasDescendantLedger
    <3> QED BY <1>4, <2>2, <3>1 DEF VisibleRoots, RootVisible
  <2> QED BY <1>3, <2>1, <2>2
<1>6. s \in {c} \cup RolledUp(tbl, c)
  <2>1. \A x \in Between(link, s, c) \ {c} : ~SpeaksForItself(tbl, x)
    <3>1. \A x \in Between(link, s, c) \ {c} : x \in TopLevel(tbl) /\ x \notin Stop
      BY <1>1, <1>3 DEF Between
    <3> QED BY <3>1 DEF SpeaksForItself
  <2> QED BY <1>3, <2>1 DEF RolledUp
<1>7. ASSUME NEW v \in VisibleRoots(tbl), s \in {v} \cup RolledUp(tbl, v), v # c PROVE FALSE
  <2>1. v \in Ancestry(link, s) /\ v \in TopLevel(tbl) /\ v \in Session
        /\ (s # v => \A x \in Between(link, s, v) \ {v} : ~SpeaksForItself(tbl, x))
    <3>1. v \in TopLevel(tbl) /\ v \in Session
      BY DEF VisibleRoots, TopLevel, Sound, IsTable
    <3>2. CASE s = v
      BY <1>1, <3>1, <3>2
    <3>3. CASE s \in RolledUp(tbl, v)
      BY <3>1, <3>3 DEF RolledUp
    <3> QED BY <1>7, <3>2, <3>3
  <2>2. v \in Ancestry(link, c) \/ c \in Ancestry(link, v)
    <3> HIDE DEF Stop, link
    <3> QED BY <1>1, <1>3, <2>1, AncestryLinear
  <2>3. CASE c \in Ancestry(link, v)
    <3>1. v \notin Stop
      BY <1>3, <1>7, <2>1, <2>3 DEF Between
    <3>2. eff[v] = "idle" /\ v \in DOMAIN link
      BY <2>1, <3>1
    <3> QED BY <1>7, <2>1, <3>2, LinkedCards
  <2>4. CASE v \in Ancestry(link, c)
    <3>1. c \in DOMAIN link
      <4> HIDE DEF Stop, link
      <4> QED BY <1>1, <1>4, <1>7, <2>4, AncestryUnfold
    <3>2. s # v
      <4> HIDE DEF Stop, link
      <4> QED BY <1>1, <1>3, <1>4, <1>7, <2>4, AncestryAntisymmetric
    <3>3. ~SpeaksForItself(tbl, c)
      BY <1>3, <1>7, <2>1, <2>4, <3>2 DEF Between
    <3>4. eff[c] = "idle"
      BY <3>3 DEF SpeaksForItself
    <3> QED BY <1>3, <3>1, <3>4
  <2> QED BY <2>2, <2>3, <2>4
<1> QED BY <1>5, <1>6, <1>7

\* For any lineage, however broken: every result is aggregated by exactly
\* one published card.
THEOREM NewsOnOneCard == Spec => []NewsOnExactlyOneCard
<1>1. IInv => NewsOnExactlyOneCard
  BY ResultHasOneCard DEF IInv, NewsOnExactlyOneCard
<1> QED BY <1>1, Safety, PTL

-----------------------------------------------------------------------------
(***************************************************************************)
(* Gestures.                                                               *)
(***************************************************************************)
\* The later of a finite set of stamps.
LEMMA LatestOf ==
    ASSUME NEW S \in SUBSET Stamp, IsFiniteSet(S)
    PROVE  /\ Latest(S) \in Stamp
           /\ \A u \in S \ {Null} : Latest(S) # Null /\ u <= Latest(S)
<1>1. CASE S \subseteq {Null}
  BY <1>1 DEF Latest, Stamp
<1>2. CASE ~(S \subseteq {Null})
  <2> DEFINE N == S \ {Null}
  <2>1. N \in SUBSET Nat /\ N # {} /\ N \in SUBSET S
    BY <1>2 DEF Stamp
  <2>2. IsFiniteSet(N)
    BY <2>1, FS_Subset
  <2> HIDE DEF N
  <2>3. Max(N) \in N /\ \A u \in N : Max(N) >= u
    BY <2>1, <2>2, LargestElement
  <2>4. Latest(S) = CHOOSE t \in N : \A u \in N : t >= u
    BY <1>2 DEF Latest, N
  <2>5. Latest(S) \in N /\ \A u \in N : Latest(S) >= u
    BY <2>3, <2>4
  <2>6. \A u \in N : u <= Latest(S)
    BY <2>1, <2>5
  <2> QED BY <2>1, <2>5, <2>6, NullAssumption DEF N, Stamp
<1> QED BY <1>1, <1>2

\* A card's stamp covers everything the card aggregates.
LEMMA StampCovers ==
    ASSUME NEW tbl, Sound(tbl), NEW c \in TopLevel(tbl), NEW d \in {c} \cup RolledUp(tbl, c)
    PROVE  Card(tbl, c).unread \in Stamp /\ Consumable(tbl[d], Card(tbl, c).unread)
<1> DEFINE X == {c} \cup RolledUp(tbl, c)
           stamp == [x \in X |-> tbl[x].unread]
           S == {tbl[x].unread : x \in X}
<1>1. X \in SUBSET Session /\ X \subseteq DOMAIN tbl
  BY DEF RolledUp, TopLevel, Sound, IsTable
<1>2. S \in SUBSET Stamp
  BY <1>1, RowOf DEF Sound, Row
<1>3. IsFiniteSet(S)
  <2>1. IsFiniteSet(X)
    BY <1>1, SessionAssumption, FS_Subset
  <2>2. stamp \in Surjection(X, S)
    BY DEF Surjection
  <2> QED BY <2>1, <2>2, FS_Surjection
<1>4. Card(tbl, c).unread = Latest(S) /\ tbl[d].unread \in S
  BY DEF Card
<1> HIDE DEF S
<1>5. Latest(S) \in Stamp /\ \A u \in S \ {Null} : Latest(S) # Null /\ u <= Latest(S)
  BY <1>2, <1>3, LatestOf
<1> QED BY <1>4, <1>5 DEF Consumable

\* What a gesture on a root reaches are the roots that reach it.
LEMMA GestureReach ==
    ASSUME NEW tbl, Sound(tbl), NEW c \in TopLevel(tbl)
    PROVE  /\ \A d \in PaseoSubtree(tbl, c, NoHints) : d = c \/ c \in Ancestry(Links(tbl), d)
           /\ \A d \in TopLevel(tbl) : c \in Ancestry(Links(tbl), d) =>
                 d \in PaseoSubtree(tbl, c, NoHints) /\ d \in DOMAIN tbl
<1>1. HintedLineage(tbl, NoHints) = StoredLineage(tbl)
  <2>1. DOMAIN NoHints = {}
    BY DEF NoHints
  <2>2. /\ DOMAIN HintedLineage(tbl, NoHints) = DOMAIN StoredLineage(tbl)
        /\ HintedLineage(tbl, NoHints) = [s \in DOMAIN StoredLineage(tbl) |-> tbl[s].origin]
    BY <2>1 DEF HintedLineage
  <2>3. StoredLineage(tbl) = [s \in DOMAIN StoredLineage(tbl) |-> tbl[s].origin]
    BY DEF StoredLineage
  <2> QED BY <2>2, <2>3
<1>2. PaseoSubtree(tbl, c, NoHints) = {c} \cup {s \in Session : c \in Ancestry(Links(tbl), s)}
  BY <1>1 DEF PaseoSubtree, Links
<1> QED BY <1>2 DEF TopLevel, Sound, IsTable

\* A gesture moves no row: parents, slots and lineage stay.
SamePlaces(tbl, new) ==
    /\ DOMAIN new = DOMAIN tbl
    /\ \A x \in DOMAIN tbl : new[x].parent = tbl[x].parent /\ new[x].origin = tbl[x].origin

LEMMA SameLinks ==
    ASSUME NEW tbl, NEW new, SamePlaces(tbl, new)
    PROVE  /\ TopLevel(new) = TopLevel(tbl)
           /\ NativeParent(new) = NativeParent(tbl)
           /\ Links(new) = Links(tbl)
<1>1. TopLevel(new) = TopLevel(tbl)
  BY DEF SamePlaces, TopLevel
<1>2. NativeParent(new) = NativeParent(tbl)
  BY <1>1 DEF SamePlaces, NativeParent
<1>3. StoredLineage(new) = StoredLineage(tbl)
  <2> DEFINE S == {s \in TopLevel(tbl) : tbl[s].origin # Null /\ tbl[s].origin.kind = "paseo"}
  <2>1. {s \in TopLevel(new) : new[s].origin # Null /\ new[s].origin.kind = "paseo"} = S
    BY <1>1 DEF SamePlaces, TopLevel
  <2>2. \A s \in S : new[s].origin = tbl[s].origin
    BY DEF SamePlaces, TopLevel
  <2>3. StoredLineage(new) = [s \in S |-> new[s].origin] /\ StoredLineage(tbl) = [s \in S |-> tbl[s].origin]
    BY <2>1 DEF StoredLineage
  <2> HIDE DEF S
  <2> QED BY <2>2, <2>3
<1> QED BY <1>1, <1>2, <1>3 DEF Links

\* Where no status changed either, the board shows the same statuses.
LEMMA SameStatuses ==
    ASSUME NEW tbl, NEW new, Sound(tbl), Sound(new), SamePlaces(tbl, new),
           \A x \in DOMAIN tbl : new[x].status = tbl[x].status,
           NEW s \in TopLevel(tbl)
    PROVE  EffectiveStatus(new)[s] = EffectiveStatus(tbl)[s]
<1>1. /\ TopLevel(new) = TopLevel(tbl) /\ NativeParent(new) = NativeParent(tbl)
      /\ Links(new) = Links(tbl) /\ DOMAIN new = DOMAIN tbl
  BY SameLinks DEF SamePlaces
<1>2. \A x \in DOMAIN tbl : OwnStatus(new, x) = OwnStatus(tbl, x)
  BY <1>1 DEF OwnStatus
<1>3. ASSUME NEW y \in TopLevel(tbl) PROVE NativeStatus(new)[y] = NativeStatus(tbl)[y]
  <2> DEFINE a == NativeStatus(tbl)[y]
             b == NativeStatus(new)[y]
             tree == {x \in DOMAIN tbl : y \in Ancestry(NativeParent(tbl), x)}
  <2>1. a \in Status /\ (\E x \in tree : a = OwnStatus(tbl, x))
        /\ \A x \in tree : Rank(a) >= Rank(OwnStatus(tbl, x))
    BY NativeStatusIs
  <2>2. b \in Status /\ (\E x \in tree : b = OwnStatus(new, x))
        /\ \A x \in tree : Rank(b) >= Rank(OwnStatus(new, x))
    BY <1>1, NativeStatusIs
  <2> HIDE DEF a, b
  <2>3. Rank(a) >= Rank(b) /\ Rank(b) >= Rank(a)
    BY <1>2, <2>1, <2>2
  <2>4. a = b
    BY <2>1, <2>2, <2>3, Ranks
  <2> QED BY <2>4 DEF a, b
<1> DEFINE e == EffectiveStatus(tbl)[s]
           f == EffectiveStatus(new)[s]
           below == {y \in TopLevel(tbl) : s \in Ancestry(Links(tbl), y)}
<1>4. e \in Status /\ (\E y \in below : e = NativeStatus(tbl)[y])
      /\ \A y \in below : Rank(e) >= Rank(NativeStatus(tbl)[y])
  BY EffectiveIs
<1>5. f \in Status /\ (\E y \in below : f = NativeStatus(new)[y])
      /\ \A y \in below : Rank(f) >= Rank(NativeStatus(new)[y])
  <2>1. s \in TopLevel(new)
    BY <1>1
  <2>2. /\ f \in Status
        /\ \E y \in TopLevel(new) : s \in Ancestry(Links(new), y) /\ f = NativeStatus(new)[y]
        /\ \A y \in TopLevel(new) : s \in Ancestry(Links(new), y) =>
              Rank(f) >= Rank(NativeStatus(new)[y])
    <3> HIDE DEF f
    <3> QED BY <2>1, EffectiveIs DEF f
  <2> HIDE DEF f
  <2> QED BY <1>1, <2>2
<1> HIDE DEF e, f
<1>6. Rank(e) >= Rank(f) /\ Rank(f) >= Rank(e)
  BY <1>3, <1>4, <1>5
<1>7. e = f
  BY <1>4, <1>5, <1>6, Ranks
<1> QED BY <1>7 DEF e, f

\* A view up to the card's own stamp leaves the card nothing unviewed.
LEMMA ViewCovers ==
    ASSUME NEW tbl, Sound(tbl), NEW c \in TopLevel(tbl), NEW at \in Nat,
           NEW new, new = ViewSession(tbl, c, at, Card(tbl, c).unread)
    PROVE  Card(new, c).unread = Null /\ Card(new, c).pending = 0
<1> DEFINE shown == Card(tbl, c).unread
           reached == {x \in PaseoSubtree(tbl, c, NoHints) \cap DOMAIN tbl :
                          /\ Consumable(tbl[x], shown)
                          /\ x = c \/ tbl[x].done # Null \/ tbl[x].unread # Null}
<1>1. new = [x \in DOMAIN tbl |-> IF x \in reached THEN Viewed(tbl[x], at) ELSE tbl[x]]
  BY DEF ViewSession, Rewrite
<1>2. \A x \in DOMAIN tbl : /\ Viewed(tbl[x], at).parent = tbl[x].parent
                            /\ Viewed(tbl[x], at).origin = tbl[x].origin
                            /\ Viewed(tbl[x], at).status = tbl[x].status
                            /\ Viewed(tbl[x], at).unread = Null
  BY RowOf DEF Sound, Viewed, Row
<1>3. SamePlaces(tbl, new) /\ \A x \in DOMAIN tbl : new[x].status = tbl[x].status
  BY <1>1, <1>2 DEF SamePlaces
<1>4. Sound(new)
  BY ViewSessionSound
<1>5. TopLevel(new) = TopLevel(tbl) /\ Links(new) = Links(tbl)
  BY <1>3, SameLinks
<1>6. \A x \in TopLevel(tbl) : EffectiveStatus(new)[x] = EffectiveStatus(tbl)[x]
  BY <1>3, <1>4, SameStatuses
<1>7. RolledUp(new, c) \subseteq RolledUp(tbl, c)
  <2> SUFFICES ASSUME NEW d \in RolledUp(new, c) PROVE d \in RolledUp(tbl, c)
    OBVIOUS
  <2>1. /\ d \in TopLevel(tbl) \ {c} /\ c \in Ancestry(Links(tbl), d)
        /\ \A x \in Between(Links(tbl), d, c) \ {c} : ~SpeaksForItself(new, x)
    BY <1>5 DEF RolledUp
  <2>2. ASSUME NEW x \in Between(Links(tbl), d, c) \ {c} PROVE ~SpeaksForItself(tbl, x)
    <3>1. x \in TopLevel(tbl) /\ x \in Session /\ c \in Ancestry(Links(tbl), x) /\ x # c
      BY <2>1, RootsReachRoots DEF Between, TopLevel, Sound, IsTable
    <3>2. x \in DOMAIN Links(tbl)
      BY <3>1, LinkChains, AncestryUnfold
    <3>3. EffectiveStatus(tbl)[x] = "idle"
      BY <1>6, <2>1, <3>1 DEF SpeaksForItself
    <3> QED BY <3>2, <3>3 DEF SpeaksForItself
  <2> QED BY <2>1, <2>2 DEF RolledUp
<1>8. ASSUME NEW d \in {c} \cup RolledUp(new, c) PROVE new[d].unread = Null
  <2>1. d \in {c} \cup RolledUp(tbl, c)
    BY <1>7
  <2>2. Consumable(tbl[d], shown)
    BY <2>1, StampCovers
  <2>3. d \in TopLevel(tbl) /\ c \in Ancestry(Links(tbl), d)
    BY <2>1, RootsReachRoots DEF RolledUp
  <2>4. d \in PaseoSubtree(tbl, c, NoHints) /\ d \in DOMAIN tbl
    BY <2>3, GestureReach
  <2>5. tbl[d].unread # Null => d \in reached
    BY <2>2, <2>4
  <2> HIDE DEF reached
  <2> QED BY <1>1, <1>2, <2>4, <2>5
<1> HIDE DEF reached, shown
<1>9. {new[x].unread : x \in {c} \cup RolledUp(new, c)} \subseteq {Null}
  BY <1>8
<1>10. {x \in RolledUp(new, c) : new[x].unread # Null} = {}
  BY <1>8
<1> QED BY <1>9, <1>10, FS_EmptySet DEF Card, Latest

\* A dismissal up to the card's own stamp releases all the card aggregates,
\* and what keeps the card on the board is a row no dismissal may touch.
LEMMA DismissalCovers ==
    ASSUME NEW tbl, Sound(tbl), NEW c \in TopLevel(tbl), NEW at \in Nat,
           NEW shown, shown = Card(tbl, c).unread,
           NEW new, new = AcknowledgeSession(tbl, c, at, shown)
    PROVE  /\ \A d \in {c} \cup RolledUp(tbl, c) : ~HoldsResult(new[d])
           /\ c \in VisibleRoots(new) =>
                 \E d \in PaseoSubtree(tbl, c, NoHints) : MayNotBeDismissed(tbl, d, shown)
<1> DEFINE Gone(row) == [Released(row, at) EXCEPT !.acked = at]
           reached == {x \in PaseoSubtree(tbl, c, NoHints) \cap DOMAIN tbl :
                          HoldsResult(tbl[x]) /\ Consumable(tbl[x], shown)}
<1>1. new = [x \in DOMAIN tbl |-> IF x \in reached THEN Gone(tbl[x]) ELSE tbl[x]]
  BY DEF AcknowledgeSession, Rewrite
<1>2. \A x \in DOMAIN tbl : /\ Gone(tbl[x]).parent = tbl[x].parent
                            /\ Gone(tbl[x]).origin = tbl[x].origin
                            /\ Gone(tbl[x]).unread = Null /\ Gone(tbl[x]).done = Null
                            /\ Gone(tbl[x]).status = IF tbl[x].status = "error" THEN "idle"
                                                                              ELSE tbl[x].status
  BY RowOf DEF Sound, Released, Row
<1> HIDE DEF Gone
<1>3. SamePlaces(tbl, new)
  BY <1>1, <1>2 DEF SamePlaces
<1>4. Sound(new) /\ TopLevel(new) = TopLevel(tbl) /\ Links(new) = Links(tbl)
      /\ NativeParent(new) = NativeParent(tbl) /\ DOMAIN new = DOMAIN tbl
  BY <1>3, AcknowledgeSessionSound, SameLinks DEF SamePlaces
\* Whatever may be dismissed holds no result afterwards.
<1>5. ASSUME NEW d \in TopLevel(tbl), c \in Ancestry(Links(tbl), d), Consumable(tbl[d], shown)
      PROVE  ~HoldsResult(new[d])
  <2>1. d \in PaseoSubtree(tbl, c, NoHints) /\ d \in DOMAIN tbl
    BY <1>5, GestureReach
  <2>2. HoldsResult(tbl[d]) => d \in reached
    BY <1>5, <2>1
  <2>3. ~HoldsResult(Gone(tbl[d]))
    BY <1>2, <2>1 DEF HoldsResult
  <2> HIDE DEF reached
  <2> QED BY <1>1, <2>1, <2>2, <2>3
<1>6. ASSUME NEW d \in {c} \cup RolledUp(tbl, c) PROVE ~HoldsResult(new[d])
  <2>1. d \in TopLevel(tbl) /\ c \in Ancestry(Links(tbl), d)
    BY RootsReachRoots DEF RolledUp
  <2> QED BY <1>5, <2>1, StampCovers
<1>7. ASSUME c \in VisibleRoots(new),
             \A d \in PaseoSubtree(tbl, c, NoHints) : ~MayNotBeDismissed(tbl, d, shown)
      PROVE  FALSE
  <2>1. ASSUME NEW d \in TopLevel(tbl), c \in Ancestry(Links(tbl), d)
        PROVE  /\ ~HoldsResult(new[d])
               /\ \A x \in DOMAIN tbl : d \in Ancestry(NativeParent(tbl), x) =>
                     /\ OwnStatus(tbl, x) \notin {"working", "waiting"}
                     /\ x # d => tbl[x].status # "error"
    <3>1. ~MayNotBeDismissed(tbl, d, shown)
      BY <1>7, <2>1, GestureReach
    <3> QED BY <1>5, <2>1, <3>1 DEF MayNotBeDismissed
  <2>2. c \in Ancestry(Links(tbl), c)
    BY RootsReachRoots
  <2>3. ~HoldsLedger(new[c]) /\ ~HasDescendantLedger(new, c)
    BY <1>4, <2>1, <2>2 DEF HoldsLedger, HoldsResult, HasDescendantLedger
  <2>4. EffectiveStatus(new)[c] # "idle"
    BY <1>7, <2>3 DEF VisibleRoots, RootVisible
  <2>5. PICK y \in TopLevel(tbl) : /\ c \in Ancestry(Links(tbl), y)
                                   /\ NativeStatus(new)[y] # "idle"
    BY <1>4, <2>4, EffectiveIs
  <2>6. PICK x \in DOMAIN tbl : /\ y \in Ancestry(NativeParent(tbl), x)
                                /\ OwnStatus(new, x) # "idle"
    BY <1>4, <2>5, NativeStatusIs
  <2>7. /\ OwnStatus(tbl, x) \notin {"working", "waiting"} /\ tbl[x].status \in Status
        /\ x # y => tbl[x].status # "error"
    BY <2>1, <2>5, <2>6, RowOf DEF Sound, Row
  <2>8. x \in TopLevel(tbl)
    BY <2>7, <1>4 DEF OwnStatus, Status, TopLevel
  <2>9. x = y
    <3>1. x \in Session /\ x \notin DOMAIN NativeParent(tbl)
      BY <2>8 DEF NativeParent, Sound, IsTable
    <3>2. ClosedUp(NativeParent(tbl), {x})
      BY <3>1 DEF ClosedUp
    <3> QED BY <2>6, <3>1, <3>2, AncestryWithin
  <2>10. new[x].status # "idle"
    BY <1>4, <2>6, <2>8 DEF OwnStatus
  <2>11. new[x].status # "error"
    BY <2>1, <2>5, <2>9 DEF HoldsResult
  <2>12. tbl[x].status \in {"idle", "error"}
    BY <2>7, <2>8 DEF OwnStatus, Status
  <2>13. new[x].status = tbl[x].status \/ new[x].status = "idle"
    <3> HIDE DEF reached
    <3> QED BY <1>1, <1>2, <2>12
  <2> QED BY <2>10, <2>11, <2>12, <2>13
<1> QED BY <1>6, <1>7

\* For any tree and any ledgers: a gesture made with the stamp a card shows
\* consumes all of what the card shows.
THEOREM GesturesCover == Spec => []GesturesCoverTheCard
<1>1. IInv => GesturesCoverTheCard
  <2> SUFFICES ASSUME IInv, NEW c \in VisibleRoots(rows)
               PROVE  LET shown     == Card(rows, c).unread
                          viewed    == ViewSession(rows, c, clock, shown)
                          dismissed == AcknowledgeSession(rows, c, clock, shown)
                      IN  /\ Card(viewed, c).unread = Null /\ Card(viewed, c).pending = 0
                          /\ \A d \in {c} \cup RolledUp(rows, c) : ~HoldsResult(dismissed[d])
                          /\ c \in VisibleRoots(dismissed) =>
                                \E d \in PaseoSubtree(rows, c, NoHints) :
                                    MayNotBeDismissed(rows, d, shown)
    BY DEF GesturesCoverTheCard
  <2>1. Sound(rows) /\ c \in TopLevel(rows) /\ clock \in Nat
    BY ClockFacts DEF IInv, VisibleRoots
  <2> QED BY <2>1, ViewCovers, DismissalCovers
<1> QED BY <1>1, Safety, PTL

=============================================================================

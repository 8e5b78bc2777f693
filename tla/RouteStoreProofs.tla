-------------------------- MODULE RouteStoreProofs --------------------------
(***************************************************************************)
(* Proofs that the Tcaplus records of RouteStore implement the atomic map  *)
(* of RouteMap, and that every snapshot is the map of one version, for any *)
(* number of shards, Zones, replicas, commits and faults, until a late     *)
(* bootstrap replaces a committed route.                                   *)
(***************************************************************************)
EXTENDS RouteStore, TLAPS

USE ConstantsOK

\* What holds whatever is overwritten.
Base ==
    /\ TypeOK
    /\ BootFirst
    /\ \A c \in Clients : HasIntent(client[c])

\* A step keeps the invariant, with or without its second half.
Preserved == Base' /\ (Sound => overwritten' \/ Sound')

-----------------------------------------------------------------------------
(* The values that actions put into the state have the right types.        *)

LEMMA BootTypes ==
    /\ AnyShard \in Shards
    /\ \A s \in Shards : BootEntry(s) \in RM!Entry
    /\ \A s \in Shards : \A n \in Nat : BootRow(s, n) \in Rows
    /\ \A n \in Nat : BootMeta(n) \in Metas
    /\ \A pc \in Steps : Call(pc) \in Calls /\ Call(pc).pc = pc
  <1>1. AnyShard \in Shards
    BY DEF AnyShard
  <1>2. \A s \in Shards : BootEntry(s) \in RM!Entry
    BY DEF BootEntry, RM!Entry
  <1>3. \A s \in Shards : \A n \in Nat : BootRow(s, n) \in Rows
    BY <1>2 DEF BootRow, Rows
  <1>4. \A n \in Nat : BootMeta(n) \in Metas
    BY DEF BootMeta, Metas
  <1>5. ASSUME NEW pc \in Steps PROVE Call(pc) \in Calls /\ Call(pc).pc = pc
    <2>1. [shard |-> AnyShard, entry |-> BootEntry(AnyShard)] \in Intents
      BY <1>1, <1>2 DEF Intents
    <2>2. NothingRead \in [Shards -> Rows \cup {None}]
      BY DEF NothingRead
    <2>3. BootMeta(1) \in Metas /\ BootRow(AnyShard, 1) \in Rows
      BY <1>1, <1>3, <1>4
    <2> QED
      BY <2>1, <2>2, <2>3 DEF Call, Calls
  <1> QED
    BY <1>1, <1>2, <1>3, <1>4, <1>5

LEMMA ProposalTypes ==
  ASSUME NEW e \in RM!Entry, NEW next \in Proposals(e)
  PROVE next \in RM!Entry
  <1> DEFINE Fields ==
        [owner : Zones, epoch : Nat \ {0}, version : Nat \ {0},
         state : {"ACTIVE", "PREPARING"},
         previous : Zones \cup {None}, transition : Transitions \cup {None}]
  <1>1. e \in Fields /\ (e.state = "PREPARING" => e.previous # None /\ e.epoch > 1)
    BY DEF RM!Entry
  <1>2. CASE e.state = "ACTIVE"
    BY <1>1, <1>2 DEF Proposals, RM!Entry
  <1>3. CASE next = [e EXCEPT !.state = "ACTIVE", !.version = e.version + 1]
    <2>1. e.version + 1 \in Nat \ {0}
      BY <1>1
    <2>2. [e EXCEPT !.state = "ACTIVE"] \in Fields
      BY <1>1
    <2>3. next = [[e EXCEPT !.state = "ACTIVE"] EXCEPT !.version = e.version + 1]
      BY <1>3, Zenon
    <2>4. next \in Fields /\ next.state = "ACTIVE"
      BY <1>1, <2>1, <2>2, <2>3
    <2> QED
      BY <2>4 DEF RM!Entry
  <1>4. CASE /\ e.state # "ACTIVE"
             /\ next = [owner |-> e.previous, epoch |-> e.epoch - 1, version |-> e.version + 1,
                        state |-> "ACTIVE", previous |-> None, transition |-> None]
    BY <1>1, <1>4 DEF RM!Entry
  <1> QED
    BY <1>2, <1>3, <1>4 DEF Proposals

LEMMA PendingTypes ==
  ASSUME NEW k \in Calls, k.meta.pending # {}
  PROVE /\ Pending(k) \in k.meta.pending
        /\ Pending(k) \in Intents
        /\ Pending(k).shard \in Shards
        /\ Pending(k).entry \in RM!Entry
        /\ \A n \in Nat : Intended(k, n) \in Rows
  <1>1. Pending(k) \in k.meta.pending
    BY DEF Pending
  <1>2. k.meta \in Metas
    BY DEF Calls
  <1>3. Pending(k) \in Intents
    BY <1>1, <1>2 DEF Metas
  <1>4. k.meta.version + 1 \in Nat \ {0}
    BY <1>2 DEF Metas
  <1> QED
    BY <1>1, <1>3, <1>4 DEF Intents, Intended, Rows

LEMMA PendingSame ==
  ASSUME NEW k, NEW l, k.meta = l.meta
  PROVE Pending(k) = Pending(l) /\ \A n : Intended(k, n) = Intended(l, n)
  BY DEF Pending, Intended

LEMMA RestStep == \A v : Rest(v) \in {"idle", "boot"} /\ Rest(0) = "boot"
  BY DEF Rest

-----------------------------------------------------------------------------
(* Steps that only move one call.                                          *)

LEMMA IdleOK ==
  ASSUME NEW k, k.pc \in BootSteps \cup {"idle", "load_meta", "reload_meta", "commit_meta"}
  PROVE CallOK(k) /\ CallOK(k)' /\ HasIntent(k)
  BY DEF BootSteps, CallOK, MetaCopy, HoldsMeta, ReadyToIntend, ReadyToRecover, ReadyToWrite,
         ReadyToFinalize, ReadsKept, HasIntent

LEMMA CallUnchanged ==
  ASSUME NEW k, CallOK(k), UNCHANGED <<meta, row, history>>
  PROVE CallOK(k)'
  BY DEF CallOK, MetaCopy, ReadyToIntend, ReadyToRecover, ReadyToWrite, ReadyToFinalize, ReadsKept,
         SameMeta, SameRow

LEMMA CallMoved ==
  ASSUME NEW d, NEW k, client'[d] = k, CallOK(k)'
  PROVE CallOK(client[d])'
  BY DEF CallOK, MetaCopy, ReadyToIntend, ReadyToRecover, ReadyToWrite, ReadyToFinalize, ReadsKept,
         SameMeta, SameRow

LEMMA IntentMoved ==
  ASSUME NEW d, NEW k, client'[d] = k, HasIntent(k)
  PROVE HasIntent(client[d])'
  BY DEF HasIntent

LEMMA OneCall ==
  ASSUME Base, NEW c \in Clients, NEW k \in Calls,
         client' = [client EXCEPT ![c] = k],
         UNCHANGED <<meta, row, history, snap, overwritten>>, faults' \in 0 .. MaxFaults,
         meta.rec = 0 => k.pc \in BootSteps,
         HasIntent(k), Sound => CallOK(k)
  PROVE Preserved
  <1>1. TypeOK'
    BY DEF Base, TypeOK
  <1>2. \A d \in Clients : client'[d] = IF d = c THEN k ELSE client[d]
    BY DEF Base, TypeOK
  <1>3. BootFirst'
    BY <1>2 DEF Base, BootFirst
  <1>4. ASSUME NEW d \in Clients PROVE HasIntent(client[d])'
    <2>1. PICK l : l = client'[d]
      OBVIOUS
    <2>2. HasIntent(l)
      BY <1>2, <2>1 DEF Base
    <2> QED
      BY <2>1, <2>2, IntentMoved
  <1>5. ASSUME Sound PROVE Sound'
    <2>1. RowsBehindMap' /\ HistoryKept' /\ OnePending' /\ SnapshotsKept'
      BY <1>5 DEF Sound, RowsBehindMap, HistoryKept, OnePending, SnapshotsKept, MapVersion
    <2>2. ASSUME NEW d \in Clients PROVE CallOK(client[d])'
      <3>1. PICK l : l = client'[d]
        OBVIOUS
      <3>2. CallOK(l)
        BY <1>2, <1>5, <3>1 DEF Sound
      <3>3. CallOK(l)'
        BY <3>2, CallUnchanged
      <3> QED
        BY <3>1, <3>3, CallMoved
    <2> QED
      BY <2>1, <2>2 DEF Sound
  <1> QED
    BY <1>1, <1>3, <1>4, <1>5 DEF Base, Preserved

\* What the lemmas about a single action start from.
LEMMA TypeFacts ==
  ASSUME TypeOK, NEW c \in Clients
  PROVE /\ meta \in Metas /\ meta.version \in Nat \ {0} /\ meta.rec \in Nat
        /\ client[c] \in Calls
        /\ client[c].pc \in Steps /\ client[c].meta \in Metas /\ client[c].row \in Rows
        /\ client[c].target \in Intents /\ client[c].target.shard \in Shards
        /\ client[c].rows \in [Shards -> Rows \cup {None}]
        /\ \A s \in Shards :
            /\ row[s] \in Rows /\ row[s].rec \in Nat /\ row[s].committed \in Nat \ {0}
            /\ row[s].entry \in RM!Entry
  BY DEF TypeOK, Calls, Metas, Rows, Intents

LEMMA BeginInv ==
  ASSUME Base, NEW c \in Clients, NEW pc,
         pc \in BootSteps \cup {"idle", "load_meta", "reload_meta", "commit_meta"},
         meta.rec = 0 => pc \in BootSteps,
         Begin(c, pc),
         UNCHANGED <<meta, row, history, snap, overwritten>>, faults' \in 0 .. MaxFaults
  PROVE Preserved
  <1>1. PICK k : k = Call(pc)
    OBVIOUS
  <1>2. k \in Calls /\ k.pc = pc
    BY <1>1, BootTypes DEF Steps
  <1>3. CallOK(k) /\ HasIntent(k)
    BY <1>2, IdleOK
  <1> QED
    BY <1>1, <1>2, <1>3, OneCall DEF Begin

LEMMA FailsInv ==
  ASSUME Base, NEW c \in Clients, Fails(c),
         UNCHANGED <<meta, row, history, snap, overwritten>>, faults' \in 0 .. MaxFaults
  PROVE Preserved
  <1>1. Rest(snap[c].version) \in {"idle", "boot"}
    BY RestStep
  <1>2. meta.rec = 0 => Rest(snap[c].version) = "boot"
    BY RestStep DEF Base, BootFirst
  <1> QED
    BY <1>1, <1>2, BeginInv DEF Fails, BootSteps

LEMMA FaultsKept ==
  ASSUME Base, UNCHANGED faults
  PROVE faults' \in 0 .. MaxFaults
  BY DEF Base, TypeOK

LEMMA NotBooting ==
  ASSUME Base, NEW c \in Clients, client[c].pc \notin BootSteps
  PROVE meta.rec # 0
  BY DEF Base, BootFirst

LEMMA BeginLoadInv ==
  ASSUME Base, NEW c \in Clients, BeginLoad(c)
  PROVE Preserved
  <1>1. meta.rec # 0
    BY NotBooting DEF BeginLoad, At, BootSteps
  <1> QED
    BY <1>1, FaultsKept, BeginInv DEF BeginLoad

LEMMA BeginCommitInv ==
  ASSUME Base, NEW c \in Clients, NEW s \in Shards,
         NEW next \in Proposals(snap[c].entries[s]), BeginCommit(c, s, next)
  PROVE Preserved
  <1> DEFINE k == [client[c] EXCEPT !.pc = "commit_meta",
                                    !.target = [shard |-> s, entry |-> next]]
  <1>1. snap[c].entries[s] \in RM!Entry
    BY DEF Base, TypeOK, Snapshots
  <1>2. [shard |-> s, entry |-> next] \in Intents
    BY <1>1, ProposalTypes DEF Intents
  <1>3. k \in Calls /\ k.pc = "commit_meta"
    BY <1>2, TypeFacts DEF Base, Calls, Steps
  <1>4. client' = [client EXCEPT ![c] = k]
    BY DEF BeginCommit, Base, TypeOK, Calls
  <1>5. meta.rec # 0 /\ faults' \in 0 .. MaxFaults
    BY NotBooting, FaultsKept DEF BeginCommit, At, BootSteps
  <1> HIDE DEF k
  <1>6. CallOK(k) /\ HasIntent(k)
    BY <1>3, IdleOK
  <1> QED
    BY <1>3, <1>4, <1>5, <1>6, OneCall DEF BeginCommit

LEMMA LoadMetaInv ==
  ASSUME Base, NEW c \in Clients, LoadMeta(c)
  PROVE Preserved
  <1> DEFINE pc == IF At(c, "load_meta") /\ meta.pending # {} THEN "recover" ELSE "load_routes"
             k == [client[c] EXCEPT !.meta = meta, !.rows = NothingRead, !.pc = pc]
  <1>1. /\ k \in Calls /\ k.pc = pc /\ k.meta = meta
        /\ k.rows = [s \in Shards |-> None]
    BY TypeFacts DEF Base, Calls, Steps, NothingRead
  <1>2. client' = [client EXCEPT ![c] = k]
    BY DEF LoadMeta, Base, TypeOK, Calls
  <1>3. meta.rec # 0 /\ faults' \in 0 .. MaxFaults
    BY NotBooting, FaultsKept DEF LoadMeta, At, BootSteps
  <1>4. pc \in {"recover", "load_routes"} /\ (pc = "recover" => meta.pending # {})
    OBVIOUS
  <1> HIDE DEF pc, k
  <1>5. HasIntent(k)
    BY <1>1, <1>4 DEF HasIntent
  <1>6. CallOK(k)
    BY <1>1, <1>4, TypeFacts DEF CallOK, MetaCopy, SameMeta, ReadyToIntend, ReadyToRecover, ReadyToWrite,
       ReadyToFinalize, ReadsKept, Base
  <1> QED
    BY <1>1, <1>2, <1>3, <1>5, <1>6, OneCall DEF LoadMeta

LEMMA LoadRouteInv ==
  ASSUME Base, NEW c \in Clients, NEW s \in Shards, LoadRoute(c, s)
  PROVE Preserved
  <1> DEFINE k == [client[c] EXCEPT !.rows = [client[c].rows EXCEPT ![s] = row[s]]]
  <1>1. /\ k \in Calls /\ k.pc = "load_routes" /\ k.meta = client[c].meta
        /\ \A t \in Shards : k.rows[t] = IF t = s THEN row[s] ELSE client[c].rows[t]
    BY TypeFacts DEF Base, Calls, Steps, LoadRoute, At
  <1>2. client' = [client EXCEPT ![c] = k]
    BY TypeFacts DEF LoadRoute, Base, TypeOK, Calls
  <1>3. meta.rec # 0 /\ faults' \in 0 .. MaxFaults
    BY NotBooting, FaultsKept DEF LoadRoute, At, BootSteps
  <1> HIDE DEF k
  <1>4. HasIntent(k)
    BY <1>1 DEF HasIntent
  <1>5. ASSUME Sound PROVE CallOK(k)
    <2>1. MetaCopy(k)
      BY <1>1, <1>5 DEF LoadRoute, At, Sound, CallOK, MetaCopy, SameMeta
    <2>2. client[c].meta.version \in 1 .. meta.version
      BY <1>5, TypeFacts DEF LoadRoute, At, Base, Sound, CallOK, MetaCopy, HoldsMeta, Metas
    <2>3. \/ row[s].committed > client[c].meta.version
          \/ row[s].entry = history[client[c].meta.version][s]
      BY <1>5, <2>2, TypeFacts DEF Base, Sound, HistoryKept
    <2>4. ReadsKept(k)
      BY <1>1, <1>5, <2>3 DEF LoadRoute, At, Sound, CallOK, ReadsKept
    <2> QED
      BY <1>1, <2>1, <2>4 DEF CallOK, ReadyToIntend, ReadyToRecover, ReadyToWrite, ReadyToFinalize
  <1> QED
    BY <1>1, <1>2, <1>3, <1>4, <1>5, OneCall DEF LoadRoute

\* The snapshots change: a replica has loaded one, or has restarted.
LEMMA SnapInv ==
  ASSUME Base, NEW c \in Clients, NEW pc \in {"idle", "boot"}, Begin(c, pc),
         meta.rec = 0 => pc = "boot" /\ \A d \in Clients : snap'[d].version = 0,
         snap' \in [Clients -> Snapshots], Sound => SnapshotsKept',
         UNCHANGED <<meta, row, history, overwritten>>, faults' \in 0 .. MaxFaults
  PROVE Preserved
  <1>1. Call(pc) \in Calls /\ Call(pc).pc = pc
    BY BootTypes DEF Steps, BootSteps
  <1>2. \A d \in Clients : client'[d] = IF d = c THEN Call(pc) ELSE client[d]
    BY DEF Begin, Base, TypeOK
  <1>3. TypeOK'
    BY <1>1 DEF Begin, Base, TypeOK
  <1>4. BootFirst'
    BY <1>1, <1>2 DEF Base, BootFirst, BootSteps
  <1>5. ASSUME NEW d \in Clients PROVE HasIntent(client[d])'
    <2>1. PICK l : l = client'[d]
      OBVIOUS
    <2>2. HasIntent(l)
      BY <1>1, <1>2, <2>1, IdleOK DEF Base, BootSteps
    <2> QED
      BY <2>1, <2>2, IntentMoved
  <1>6. ASSUME Sound PROVE Sound'
    <2>1. RowsBehindMap' /\ HistoryKept' /\ OnePending'
      BY <1>6 DEF Sound, RowsBehindMap, HistoryKept, OnePending, MapVersion
    <2>2. ASSUME NEW d \in Clients PROVE CallOK(client[d])'
      <3>1. PICK l : l = client'[d]
        OBVIOUS
      <3>2. CallOK(l)
        BY <1>1, <1>2, <1>6, <3>1, IdleOK DEF Sound, BootSteps
      <3> QED
        BY <3>1, <3>2, CallUnchanged, CallMoved
    <2> QED
      BY <1>6, <2>1, <2>2 DEF Sound
  <1> QED
    BY <1>3, <1>4, <1>5, <1>6 DEF Base, Preserved

LEMMA AssembleInv ==
  ASSUME Base, NEW c \in Clients, Assemble(c)
  PROVE Preserved
  <1> DEFINE k == client[c]
             new == [version |-> k.meta.version, entries |-> [s \in Shards |-> k.rows[s].entry]]
  <1>1. \A s \in Shards : k.rows[s] \in Rows
    BY TypeFacts DEF Assemble, Base
  <1>2. new \in Snapshots
    BY <1>1, TypeFacts DEF Snapshots, Rows, Base, Metas
  <1>3. ASSUME Sound, Assembles(c)
        PROVE new.version <= Len(history) /\ new.entries = history[new.version]
    <2>1. k.meta.version \in 1 .. meta.version
      BY <1>3, TypeFacts DEF Assemble, At, Base, Sound, CallOK, MetaCopy, HoldsMeta, Metas
    <2>2. MapVersion >= meta.version /\ MapVersion \in Nat
      BY TypeFacts DEF MapVersion, Base
    <2>3. k.meta.version \in 1 .. Len(history)
      BY <1>3, <2>1, <2>2, TypeFacts DEF Base, Sound, HistoryKept
    <2>4. history[k.meta.version] \in [Shards -> RM!Entry]
      BY <2>3 DEF Base, TypeOK
    <2>5. \A s \in Shards : k.rows[s].entry = history[k.meta.version][s]
      <3>1. \A s \in Shards : k.rows[s] # None /\ ~(k.rows[s].committed > k.meta.version)
        BY <1>1, <1>3, <2>1 DEF Assemble, Assembles, Rows
      <3> QED
        BY <1>3, <3>1 DEF Assemble, At, Sound, CallOK, ReadsKept
    <2> QED
      BY <2>3, <2>4, <2>5
  <1> HIDE DEF new
  <1>4. snap' = snap \/ (Assembles(c) /\ snap' = [snap EXCEPT ![c] = new])
    BY DEF Assemble, new
  <1>5. snap' \in [Clients -> Snapshots]
    BY <1>2, <1>4 DEF Base, TypeOK
  <1>6. ASSUME Sound PROVE SnapshotsKept'
    BY <1>2, <1>3, <1>4, <1>6 DEF Base, TypeOK, Sound, SnapshotsKept, Assemble
  <1>7. Rest(snap'[c].version) \in {"idle", "boot"} /\ Begin(c, Rest(snap'[c].version))
    BY RestStep DEF Assemble
  <1>8. meta.rec # 0 /\ faults' \in 0 .. MaxFaults
    BY NotBooting, FaultsKept DEF Assemble, At, BootSteps
  <1> QED
    BY <1>5, <1>6, <1>7, <1>8, SnapInv DEF Assemble

LEMMA RestartInv ==
  ASSUME Base, NEW c \in Clients, Restart(c)
  PROVE Preserved
  <1>1. NoSnapshot \in Snapshots /\ NoSnapshot.version = 0
    BY BootTypes DEF NoSnapshot, Snapshots
  <1>2. snap' \in [Clients -> Snapshots]
    BY <1>1 DEF Restart, Base, TypeOK
  <1>3. \A d \in Clients : snap'[d] = IF d = c THEN NoSnapshot ELSE snap[d]
    BY DEF Restart, Base, TypeOK
  <1>4. Sound => SnapshotsKept'
    BY <1>1, <1>3 DEF Restart, Sound, SnapshotsKept
  <1>5. meta.rec = 0 => \A d \in Clients : snap'[d].version = 0
    BY <1>1, <1>3 DEF Base, BootFirst
  <1>6. faults' \in 0 .. MaxFaults
    BY DEF Restart, Base, TypeOK
  <1> QED
    BY <1>2, <1>4, <1>5, <1>6, SnapInv DEF Restart

LEMMA StopInv ==
  ASSUME Base, NEW c \in Clients, Stop(c)
  PROVE Preserved
  <1>1. faults' \in 0 .. MaxFaults
    BY DEF Stop, Base, TypeOK
  <1> QED
    BY <1>1, FailsInv DEF Stop

LEMMA BootstrapInv ==
  ASSUME Base, NEW c \in Clients, Bootstrap(c)
  PROVE Preserved
  <1>1. CASE meta.rec = 0
    BY <1>1, FaultsKept, BeginInv DEF Bootstrap, BootSteps
  <1>2. CASE meta.rec # 0
    BY <1>2, FaultsKept, BeginInv DEF Bootstrap
  <1> QED
    BY <1>1, <1>2

LEMMA RecoverInv ==
  ASSUME Base, NEW c \in Clients, Recover(c)
  PROVE Preserved
  <1> DEFINE r == row[Pending(client[c]).shard]
  <1>1. client[c] \in Calls /\ client[c].pc = "recover" /\ client[c].meta.pending # {}
    BY TypeFacts DEF Recover, At, Base, HasIntent
  <1>2. Pending(client[c]).shard \in Shards /\ r \in Rows /\ r.rec \in Nat
    BY <1>1, PendingTypes, TypeFacts DEF Base
  <1>3. meta.rec # 0 /\ faults' \in 0 .. MaxFaults
    BY NotBooting, FaultsKept DEF Recover, At, BootSteps
  <1>4. CASE Fails(c)
    BY <1>3, <1>4, FailsInv DEF Recover
  <1>5. CASE r = Intended(client[c], r.rec) /\ Goto(c, "refinalize")
    <2> DEFINE k == [client[c] EXCEPT !.pc = "refinalize"]
    <2>1. k \in Calls /\ k.pc = "refinalize" /\ k.meta = client[c].meta
      BY TypeFacts DEF Base, Calls, Steps
    <2>2. client' = [client EXCEPT ![c] = k]
      BY <1>5 DEF Goto, Base, TypeOK, Calls
    <2> HIDE DEF k
    <2>3. Pending(k) = Pending(client[c]) /\ Intended(k, r.rec) = Intended(client[c], r.rec)
      BY <2>1, PendingSame
    <2>4. HasIntent(k)
      BY <1>1, <2>1 DEF HasIntent
    <2>5. ASSUME Sound PROVE CallOK(k)
      <3>1. MetaCopy(client[c])
        BY <2>5 DEF Sound, CallOK
      <3> QED
        BY <1>1, <1>5, <2>1, <2>3, <3>1 DEF CallOK, MetaCopy, HoldsMeta, SameMeta, ReadyToIntend,
           ReadyToRecover, ReadyToWrite, ReadyToFinalize, ReadsKept
    <2> QED
      BY <1>3, <2>1, <2>2, <2>4, <2>5, OneCall DEF Recover
  <1>6. CASE /\ r # Intended(client[c], r.rec) /\ Recoverable(client[c], r)
             /\ client' = [client EXCEPT ![c].row = r, ![c].pc = "rewrite_row"]
    <2> DEFINE k == [client[c] EXCEPT !.row = r, !.pc = "rewrite_row"]
    <2> HIDE DEF r
    <2>1. k \in Calls /\ k.pc = "rewrite_row" /\ k.meta = client[c].meta /\ k.row = r
      BY <1>2, TypeFacts DEF Base, Calls, Steps
    <2>2. client' = [client EXCEPT ![c] = k]
      BY <1>6 DEF Base, TypeOK, Calls
    <2> HIDE DEF k
    <2>3. Pending(k) = Pending(client[c])
      BY <2>1, PendingSame
    <2>4. HasIntent(k)
      BY <1>1, <2>1 DEF HasIntent
    <2>5. ASSUME Sound PROVE CallOK(k)
      <3>1. MetaCopy(k)
        BY <1>1, <2>1, <2>5 DEF Sound, CallOK, MetaCopy, HoldsMeta, SameMeta
      <3>2. SameMeta(k) /\ r.committed = k.meta.version
        BY <1>1, <1>6, <2>1, <2>5, TypeFacts DEF Recoverable, Base, Sound, CallOK, ReadyToRecover,
           SameMeta, r, Rows, Metas
      <3>3. ReadyToWrite(k)
        BY <1>1, <1>2, <2>1, <2>3, <3>2 DEF ReadyToWrite, r, Rows, Metas
      <3> QED
        BY <2>1, <3>1, <3>3 DEF CallOK, ReadyToIntend, ReadyToRecover, ReadyToFinalize, ReadsKept
    <2> QED
      BY <1>3, <2>1, <2>2, <2>4, <2>5, OneCall DEF Recover
  <1> QED
    BY <1>4, <1>5, <1>6 DEF Recover

LEMMA CommitLoadMetaInv ==
  ASSUME Base, NEW c \in Clients, CommitLoadMeta(c)
  PROVE Preserved
  <1> DEFINE k == [client[c] EXCEPT !.meta = meta, !.pc = "commit_route"]
  <1>1. k \in Calls /\ k.pc = "commit_route" /\ k.meta = meta
    BY TypeFacts DEF Base, Calls, Steps
  <1>2. client' = [client EXCEPT ![c] = k]
    BY DEF CommitLoadMeta, Base, TypeOK, Calls
  <1>3. meta.rec # 0 /\ faults' \in 0 .. MaxFaults
    BY NotBooting, FaultsKept DEF CommitLoadMeta, At, BootSteps
  <1> HIDE DEF k
  <1>4. CallOK(k) /\ HasIntent(k)
    BY <1>1, TypeFacts DEF CallOK, MetaCopy, ReadyToIntend, ReadyToRecover, ReadyToWrite,
       ReadyToFinalize, ReadsKept, Base, HasIntent
  <1> QED
    BY <1>1, <1>2, <1>3, <1>4, OneCall DEF CommitLoadMeta

LEMMA CommitLoadRouteInv ==
  ASSUME Base, NEW c \in Clients, CommitLoadRoute(c)
  PROVE Preserved
  <1> DEFINE r == row[client[c].target.shard]
  <1>1. client[c].pc = "commit_route" /\ r \in Rows /\ r.rec \in Nat
    BY TypeFacts DEF CommitLoadRoute, At, Base
  <1>2. meta.rec # 0 /\ faults' \in 0 .. MaxFaults
    BY NotBooting, FaultsKept DEF CommitLoadRoute, At, BootSteps
  <1>3. CASE Fails(c)
    BY <1>2, <1>3, FailsInv DEF CommitLoadRoute
  <1>4. CASE Begin(c, "load_meta")
    BY <1>2, <1>4, BeginInv DEF CommitLoadRoute
  <1>5. CASE /\ Expected(c) /\ RM!Legal(r.entry, client[c].target.entry)
             /\ client' = [client EXCEPT ![c].row = r, ![c].pc = "set_pending"]
    <2> DEFINE k == [client[c] EXCEPT !.row = r, !.pc = "set_pending"]
    <2>1. /\ k \in Calls /\ k.pc = "set_pending" /\ k.meta = client[c].meta /\ k.row = r
          /\ k.target = client[c].target
      BY <1>1, TypeFacts DEF Base, Calls, Steps
    <2>2. client' = [client EXCEPT ![c] = k]
      BY <1>5 DEF Base, TypeOK, Calls
    <2> HIDE DEF k
    <2>3. HasIntent(k)
      BY <2>1 DEF HasIntent
    <2>4. ASSUME Sound PROVE CallOK(k)
      <3>1. MetaCopy(k)
        BY <1>1, <2>1, <2>4 DEF Sound, CallOK, MetaCopy, HoldsMeta, SameMeta
      <3>2. ReadyToIntend(k)
        BY <1>1, <1>5, <2>1 DEF ReadyToIntend, Expected
      <3> QED
        BY <2>1, <3>1, <3>2 DEF CallOK, ReadyToRecover, ReadyToWrite, ReadyToFinalize, ReadsKept
    <2> QED
      BY <1>2, <2>1, <2>2, <2>3, <2>4, OneCall DEF CommitLoadRoute
  <1> QED
    BY <1>3, <1>4, <1>5 DEF CommitLoadRoute

-----------------------------------------------------------------------------
(* Steps that write a record.                                              *)

LEMMA WriteBase ==
  ASSUME Base, NEW c \in Clients, NEW k \in Calls, HasIntent(k),
         client' = [client EXCEPT ![c] = k], BootFirst',
         meta' \in Metas, row' \in [Shards -> Rows], history' \in Seq([Shards -> RM!Entry]),
         overwritten' \in BOOLEAN, UNCHANGED <<snap, faults>>
  PROVE Base'
  <1>1. TypeOK'
    BY DEF Base, TypeOK
  <1>2. \A d \in Clients : client'[d] = IF d = c THEN k ELSE client[d]
    BY DEF Base, TypeOK
  <1>3. ASSUME NEW d \in Clients PROVE HasIntent(client[d])'
    <2>1. PICK l : l = client'[d]
      OBVIOUS
    <2>2. HasIntent(l)
      BY <1>2, <2>1 DEF Base
    <2> QED
      BY <2>1, <2>2, IntentMoved
  <1> QED
    BY <1>1, <1>3 DEF Base

LEMMA AllCalls ==
  ASSUME Base, NEW c \in Clients, NEW k \in Calls, client' = [client EXCEPT ![c] = k], CallOK(k)',
         \A d \in Clients : \A l : d # c /\ l = client[d] => CallOK(l)'
  PROVE \A d \in Clients : CallOK(client[d])'
  <1>1. \A d \in Clients : client'[d] = IF d = c THEN k ELSE client[d]
    BY DEF Base, TypeOK
  <1> SUFFICES ASSUME NEW d \in Clients PROVE CallOK(client[d])'
    OBVIOUS
  <1>2. PICK l : l = client'[d]
    OBVIOUS
  <1>3. CASE d = c
    BY <1>1, <1>3, CallMoved
  <1>4. CASE d # c
    <2>1. l = client[d]
      BY <1>1, <1>2, <1>4
    <2>2. CallOK(l)'
      BY <1>4, <2>1
    <2> QED
      BY <1>2, <2>2, CallMoved
  <1> QED
    BY <1>3, <1>4

\* A row that may be written belongs to the pending commit.
LEMMA WriteFacts ==
  ASSUME Base, Sound, NEW c \in Clients, client[c].pc \in {"write_row", "rewrite_row"},
         SameRow(client[c])
  PROVE client[c].meta = meta /\ meta.pending # {} /\ Pending(client[c]) \in meta.pending
  <1>1. client[c].meta.pending # {}
    BY DEF Base, HasIntent
  <1>2. client[c].meta = meta
    BY DEF Sound, CallOK, ReadyToWrite, MetaCopy, HoldsMeta
  <1> QED
    BY <1>1, <1>2, PendingTypes, TypeFacts DEF Base

LEMMA WriteRowInv ==
  ASSUME Base, NEW c \in Clients, WriteRow(c)
  PROVE Preserved
  <1> DEFINE s == Pending(client[c]).shard
             pc == IF At(c, "write_row") THEN "finalize" ELSE "refinalize"
             moved == [client[c] EXCEPT !.pc = pc]
  <1>1. CASE ~SameRow(client[c])
    BY <1>1, FaultsKept, FailsInv DEF WriteRow
  <1>2. CASE SameRow(client[c])
    <2>1. client[c].meta.pending # {} /\ meta.rec # 0
      BY NotBooting DEF WriteRow, At, Base, HasIntent, BootSteps
    <2>2. s \in Shards /\ \A n \in Nat : Intended(client[c], n) \in Rows
      BY <2>1, PendingTypes, TypeFacts DEF Base
    <2>3. row' = [row EXCEPT ![s] = Intended(client[c], row[s].rec + 1)] /\ Goto(c, pc)
      BY <1>2 DEF WriteRow
    <2>4. pc \in {"finalize", "refinalize"}
      OBVIOUS
    <2> HIDE DEF pc
    <2>5. PICK k \in Calls : /\ k.pc = pc /\ k.meta = client[c].meta
                            /\ client' = [client EXCEPT ![c] = k]
      <3>1. /\ moved \in Calls /\ moved.pc = pc /\ moved.meta = client[c].meta
            /\ client' = [client EXCEPT ![c] = moved]
        BY <2>3, <2>4, TypeFacts DEF Goto, Base, TypeOK, Calls, Steps
      <3> HIDE DEF moved
      <3> QED
        BY <3>1
    <2> HIDE DEF s
    <2>6. /\ row[s].rec \in Nat /\ row[s].rec + 1 \in Nat
          /\ Intended(client[c], row[s].rec + 1) \in Rows
      BY <2>2, TypeFacts DEF Base
    <2>7. \A t \in Shards :
             row'[t] = IF t = s THEN Intended(client[c], row[s].rec + 1) ELSE row[t]
      BY <2>2, <2>3 DEF Base, TypeOK
    <2>8. /\ row'[s].rec = row[s].rec + 1 /\ row'[s].committed = client[c].meta.version + 1
          /\ row'[s].entry = Pending(client[c]).entry
      BY <2>2, <2>7 DEF Intended
    <2>9. Base'
      <3>1. row' \in [Shards -> Rows]
        BY <2>3, <2>6 DEF Base, TypeOK
      <3>2. client[c].meta.version \in Nat \ {0}
        BY TypeFacts DEF Base, Metas
      <3>3. BootFirst'
        BY <2>1, <2>6, <2>7, <2>8, <3>2 DEF WriteRow, Base, BootFirst
      <3>4. HasIntent(k)
        BY <2>1, <2>5 DEF HasIntent
      <3> QED
        BY <2>5, <3>1, <3>3, <3>4, WriteBase DEF WriteRow, Base, TypeOK
    <2>10. ASSUME Sound PROVE Sound'
      <3>1. client[c].meta = meta /\ meta.pending # {} /\ Pending(client[c]) \in meta.pending
        BY <1>2, <2>10, WriteFacts DEF WriteRow, At
      <3>2. RowsBehindMap'
        BY <2>7, <2>8, <2>10, <3>1 DEF WriteRow, Sound, RowsBehindMap, s
      <3>3. HistoryKept'
        <4>1. \A t \in Shards : \A v \in 1 .. meta.version :
                row'[t].committed <= v => history[v][t] = row'[t].entry
          BY <2>7, <2>8, <2>10, <3>1, TypeFacts DEF Base, Sound, HistoryKept
        <4> QED
          BY <2>10, <4>1 DEF WriteRow, Sound, HistoryKept, MapVersion
      <3>4. OnePending' /\ SnapshotsKept'
        BY <2>10 DEF WriteRow, Sound, OnePending, SnapshotsKept
      <3>5. CallOK(k)'
        <4>1. Pending(k) = Pending(client[c]) /\ \A n : Intended(k, n) = Intended(client[c], n)
          BY <2>5, PendingSame
        <4>2. MetaCopy(k)'
          BY <2>5, <3>1, TypeFacts DEF WriteRow, MetaCopy, Base
        <4>3. ReadyToFinalize(k)'
          BY <2>2, <2>7, <2>8, <4>1 DEF ReadyToFinalize, s
        <4> QED
          BY <2>4, <2>5, <4>2, <4>3 DEF CallOK, ReadyToIntend, ReadyToRecover, ReadyToWrite, ReadsKept
      <3>6. ASSUME NEW d \in Clients, NEW l, d # c, l = client[d] PROVE CallOK(l)'
        <4>1. CallOK(l) /\ l \in Calls /\ HasIntent(l)
          BY <2>10, <3>6, TypeFacts DEF Base, Sound
        <4>2. MetaCopy(l)' /\ ReadsKept(l)'
          BY <4>1 DEF WriteRow, CallOK, MetaCopy, SameMeta, ReadsKept
        <4>3. ReadyToIntend(l)'
          <5>1. l.target.shard \in Shards /\ l.row.rec \in Nat
            BY <4>1 DEF Calls, Intents, Rows
          <5>2. row'[l.target.shard].rec >= row[l.target.shard].rec
                /\ row[l.target.shard].rec \in Nat
            BY <2>6, <2>7, <2>8, <5>1, TypeFacts DEF Base
          <5>3. row'[l.target.shard].rec \in Nat
            BY <2>6, <2>7, <2>8, <5>1, TypeFacts DEF Base
          <5>4. l.pc = "set_pending" => ~SameMeta(l)'
            BY <3>1, <4>1 DEF WriteRow, CallOK, MetaCopy, SameMeta, ReadyToIntend, HoldsMeta
          <5> QED
            BY <4>1, <5>1, <5>2, <5>3, <5>4 DEF CallOK, ReadyToIntend
        <4>4. ReadyToRecover(l)'
          <5>1. CASE l.pc = "recover"
            <6>1. Pending(l).shard \in Shards /\ l.meta.version \in Nat
              BY <4>1, <5>1, PendingTypes DEF HasIntent, Calls, Metas
            <6>2. l.meta.version <= meta.version
              BY <4>1, <5>1 DEF CallOK, MetaCopy, HoldsMeta
            <6> QED
              BY <2>7, <2>8, <3>1, <4>1, <5>1, <6>1, <6>2, TypeFacts DEF WriteRow, CallOK,
                 ReadyToRecover, SameMeta, Base
          <5> QED
            BY <5>1 DEF ReadyToRecover
        <4>5. ReadyToWrite(l)'
          <5>1. CASE l.pc \in {"write_row", "rewrite_row"}
            <6>1. Pending(l).shard \in Shards /\ l.row.rec \in Nat
              BY <4>1, <5>1, PendingTypes DEF HasIntent, Calls, Rows
            <6> QED
              BY <2>6, <2>7, <2>8, <4>1, <5>1, <6>1, TypeFacts DEF WriteRow, CallOK,
                 ReadyToWrite, SameMeta, SameRow, Base
          <5> QED
            BY <5>1 DEF ReadyToWrite
        <4>6. ReadyToFinalize(l)'
          <5>1. CASE l.pc \in {"finalize", "refinalize"} /\ SameMeta(l)
            <6>1. l.meta = client[c].meta
              BY <3>1, <4>1, <5>1 DEF CallOK, MetaCopy, HoldsMeta
            <6>2. Pending(l).shard = s /\ \A n : Intended(l, n) = Intended(client[c], n)
              BY <6>1, PendingSame DEF s
            <6> QED
              BY <2>2, <2>7, <2>8, <6>1, <6>2 DEF ReadyToFinalize
          <5> QED
            BY <4>1, <5>1 DEF WriteRow, CallOK, ReadyToFinalize, SameMeta
        <4> QED
          BY <4>2, <4>3, <4>4, <4>5, <4>6 DEF CallOK
      <3>7. \A d \in Clients : CallOK(client[d])'
        BY <2>5, <3>5, <3>6, AllCalls
      <3> QED
        BY <3>2, <3>3, <3>4, <3>7 DEF Sound
    <2> QED
      BY <2>9, <2>10 DEF Preserved
  <1> QED
    BY <1>1, <1>2

\* The version may be raised only when the pending route is in its row.
LEMMA FinalizeFacts ==
  ASSUME Base, Sound, NEW c \in Clients, client[c].pc \in {"finalize", "refinalize"},
         SameMeta(client[c])
  PROVE /\ client[c].meta = meta /\ meta.pending # {}
        /\ Pending(client[c]) \in meta.pending /\ Pending(client[c]).shard \in Shards
        /\ row[Pending(client[c]).shard].entry = Pending(client[c]).entry
        /\ row[Pending(client[c]).shard].committed = meta.version + 1
  <1>1. /\ client[c].meta = meta
        /\ row[Pending(client[c]).shard] =
             Intended(client[c], row[Pending(client[c]).shard].rec)
    BY DEF Sound, CallOK, ReadyToFinalize, MetaCopy, HoldsMeta
  <1>2. client[c].meta.pending # {}
    BY DEF Base, HasIntent
  <1>3. /\ row[Pending(client[c]).shard].entry = Pending(client[c]).entry
        /\ row[Pending(client[c]).shard].committed = meta.version + 1
    BY <1>1 DEF Intended
  <1> QED
    BY <1>1, <1>2, <1>3, PendingTypes, TypeFacts DEF Base

LEMMA FinalizeMetaInv ==
  ASSUME Base, NEW c \in Clients, FinalizeMeta(c)
  PROVE Preserved
  <1> DEFINE p == Pending(client[c])
             pc == IF At(c, "finalize") THEN "load_meta" ELSE "reload_meta"
  <1>1. CASE ~SameMeta(client[c])
    BY <1>1, FaultsKept, FailsInv DEF FinalizeMeta
  <1>2. CASE SameMeta(client[c])
    <2>1. /\ meta' = [version |-> client[c].meta.version + 1, pending |-> {}, rec |-> meta.rec + 1]
          /\ Begin(c, pc)
      BY <1>2 DEF FinalizeMeta
    <2>2. pc \in {"load_meta", "reload_meta"}
      OBVIOUS
    <2> HIDE DEF pc
    <2>3. PICK k \in Calls : k.pc = pc /\ client' = [client EXCEPT ![c] = k]
      BY <2>1, <2>2, BootTypes DEF Begin, Steps
    <2> HIDE DEF p
    <2>4. /\ client[c].meta.version \in Nat \ {0} /\ meta.version \in Nat \ {0} /\ meta.rec \in Nat
          /\ meta'.version = client[c].meta.version + 1 /\ meta'.rec = meta.rec + 1
          /\ meta'.pending = {} /\ meta' \in Metas
      BY <2>1, TypeFacts DEF Base, Metas
    <2>5. Base'
      <3>1. BootFirst'
        BY <2>4 DEF FinalizeMeta, Base, BootFirst
      <3>2. HasIntent(k)
        BY <2>2, <2>3, IdleOK
      <3> QED
        BY <2>3, <2>4, <3>1, <3>2, WriteBase DEF FinalizeMeta, Base, TypeOK
    <2>6. ASSUME Sound PROVE Sound'
      <3>1. /\ client[c].meta = meta /\ meta.pending # {} /\ p \in meta.pending /\ p.shard \in Shards
            /\ row[p.shard].entry = p.entry /\ row[p.shard].committed = meta.version + 1
            /\ meta'.version = meta.version + 1
        BY <1>2, <2>4, <2>6, FinalizeFacts DEF FinalizeMeta, At, p
      <3>2. \A t \in Shards \ {p.shard} : row[t].committed <= meta.version
        BY <2>6, <3>1 DEF Sound, RowsBehindMap, OnePending
      <3>3. RowsBehindMap'
        BY <2>4, <3>1, <3>2, TypeFacts DEF FinalizeMeta, Base, RowsBehindMap
      <3>4. HistoryKept'
        <4>1. Len(history) = meta.version + 1
          BY <2>6, <3>1 DEF Sound, HistoryKept, MapVersion
        <4>2. \A t \in Shards : history[meta.version + 1][t] = row[t].entry
          <5>1. history[meta.version + 1][p.shard] = row[p.shard].entry
            BY <2>6, <3>1 DEF Sound, HistoryKept
          <5>2. ASSUME NEW t \in Shards \ {p.shard}
                PROVE history[meta.version + 1][t] = row[t].entry
            <6>1. history[meta.version + 1][t] = history[meta.version][t]
              BY <2>6, <3>1 DEF Sound, HistoryKept
            <6>2. history[meta.version][t] = row[t].entry
              BY <2>4, <2>6, <3>2 DEF Sound, HistoryKept
            <6> QED
              BY <6>1, <6>2
          <5> QED
            BY <5>1, <5>2
        <4>3. ASSUME NEW t \in Shards, NEW v \in 1 .. meta.version + 1, row[t].committed <= v
              PROVE history[v][t] = row[t].entry
          <5>1. CASE v = meta.version + 1
            BY <4>2, <5>1
          <5>2. CASE v # meta.version + 1
            <6>1. v \in 1 .. meta.version
              BY <2>4, <5>2
            <6> QED
              BY <2>6, <4>3, <6>1 DEF Sound, HistoryKept
          <5> QED
            BY <5>1, <5>2
        <4>4. MapVersion' = meta.version + 1 /\ row' = row /\ history' = history
          BY <2>4, <3>1 DEF MapVersion, FinalizeMeta
        <4> QED
          BY <2>4, <3>1, <4>1, <4>3, <4>4 DEF HistoryKept
      <3>5. OnePending' /\ SnapshotsKept'
        BY <2>4, <2>6 DEF FinalizeMeta, Sound, OnePending, SnapshotsKept
      <3>6. CallOK(k)'
        BY <2>2, <2>3, IdleOK
      <3>7. ASSUME NEW d \in Clients, NEW l, d # c, l = client[d] PROVE CallOK(l)'
        <4>1. /\ CallOK(l) /\ HasIntent(l) /\ l \in Calls /\ l.meta.rec \in Nat
              /\ l.meta.version \in Nat
          BY <2>6, <3>7, TypeFacts DEF Base, Sound, Metas
        <4>2. MetaCopy(l)'
          BY <2>4, <3>1, <4>1 DEF CallOK, MetaCopy, SameMeta
        <4>3. l.pc \in HoldsMeta => ~SameMeta(l)'
          BY <2>4, <4>1 DEF CallOK, MetaCopy, SameMeta
        <4>4. ReadsKept(l)'
          BY <4>1 DEF FinalizeMeta, CallOK, ReadsKept
        <4>5. ReadyToIntend(l)'
          BY <4>1, <4>3 DEF FinalizeMeta, CallOK, ReadyToIntend, HoldsMeta
        <4>6. ReadyToRecover(l)'
          <5>1. CASE l.pc = "recover" /\ SameMeta(l)
            <6>1. l.meta = client[c].meta
              BY <3>1, <4>1, <5>1 DEF CallOK, MetaCopy, HoldsMeta
            <6>2. Pending(l) = p
              BY <6>1, PendingSame DEF p
            <6>3. row'[Pending(l).shard].committed > l.meta.version
              BY <2>4, <3>1, <6>1, <6>2 DEF FinalizeMeta
            <6> QED
              BY <6>3 DEF ReadyToRecover
          <5> QED
            BY <4>1, <5>1 DEF FinalizeMeta, CallOK, ReadyToRecover
        <4>7. ReadyToWrite(l)'
          <5>1. CASE l.pc \in {"write_row", "rewrite_row"} /\ SameRow(l)
            <6>1. /\ l.meta = client[c].meta /\ l.row = row[Pending(l).shard]
                  /\ l.row.committed <= l.meta.version
              BY <3>1, <4>1, <5>1 DEF CallOK, ReadyToWrite, MetaCopy, HoldsMeta
            <6>2. Pending(l) = p
              BY <6>1, PendingSame DEF p
            <6> QED
              BY <2>4, <3>1, <6>1, <6>2
          <5> QED
            BY <4>1, <5>1 DEF FinalizeMeta, CallOK, ReadyToWrite, SameRow
        <4>8. ReadyToFinalize(l)'
          BY <4>1, <4>3 DEF CallOK, ReadyToFinalize, HoldsMeta
        <4> QED
          BY <4>2, <4>4, <4>5, <4>6, <4>7, <4>8 DEF CallOK
      <3>8. \A d \in Clients : CallOK(client[d])'
        BY <2>3, <3>6, <3>7, AllCalls
      <3> QED
        BY <3>3, <3>4, <3>5, <3>8 DEF Sound
    <2> QED
      BY <2>5, <2>6 DEF Preserved
  <1> QED
    BY <1>1, <1>2

\* An intent may be written only when nothing is pending.
LEMMA IntendFacts ==
  ASSUME Base, Sound, NEW c \in Clients, client[c].pc = "set_pending", SameMeta(client[c])
  PROVE /\ client[c].meta = meta /\ meta.pending = {}
        /\ client[c].row.entry = row[client[c].target.shard].entry
        /\ client[c].row.committed = row[client[c].target.shard].committed
        /\ client[c].row.rec <= row[client[c].target.shard].rec
        /\ RM!Legal(client[c].row.entry, client[c].target.entry)
        /\ \A s \in Shards : row[s].committed <= meta.version
  <1>1. /\ client[c].meta = meta /\ client[c].meta.pending = {}
        /\ client[c].row.entry = row[client[c].target.shard].entry
        /\ client[c].row.committed = row[client[c].target.shard].committed
        /\ client[c].row.rec <= row[client[c].target.shard].rec
        /\ RM!Legal(client[c].row.entry, client[c].target.entry)
    BY DEF Sound, CallOK, ReadyToIntend, MetaCopy, HoldsMeta
  <1> QED
    BY <1>1 DEF Sound, RowsBehindMap

LEMMA SetPendingInv ==
  ASSUME Base, NEW c \in Clients, SetPending(c)
  PROVE Preserved
  <1> DEFINE p == client[c].target
             m == [meta EXCEPT !.pending = {p}, !.rec = meta.rec + 1]
             moved == [client[c] EXCEPT !.meta = m, !.pc = "write_row"]
  <1>1. CASE ~SameMeta(client[c])
    BY <1>1, FaultsKept, FailsInv DEF SetPending
  <1>2. CASE SameMeta(client[c])
    <2>1. /\ meta' = m /\ client' = [client EXCEPT ![c].meta = m, ![c].pc = "write_row"]
          /\ history' = Append(history, Committed(c))
          /\ row' = row /\ snap' = snap /\ faults' = faults /\ overwritten' = overwritten
      BY <1>2 DEF SetPending
    <2>2. p \in Intents /\ p.shard \in Shards /\ p.entry \in RM!Entry
      BY TypeFacts DEF Base, Intents
    <2>3. /\ m.version = meta.version /\ m.pending = {p} /\ m.rec = meta.rec + 1
          /\ m \in Metas /\ meta.version \in Nat \ {0} /\ meta.rec \in Nat
      <3>1. meta \in Metas /\ meta.version \in Nat \ {0} /\ meta.rec \in Nat
        BY TypeFacts DEF Base
      <3>2. {p} \in SUBSET Intents /\ meta.rec + 1 \in Nat
        BY <2>2, <3>1
      <3> DEFINE q == {p}
                 n == meta.rec + 1
      <3>3. m = [meta EXCEPT !.pending = q, !.rec = n]
        BY Zenon
      <3>4. q \in SUBSET Intents /\ n \in Nat
        BY <3>2
      <3> HIDE DEF m, q, n
      <3>5. m \in Metas /\ m.version = meta.version /\ m.pending = q /\ m.rec = n
        BY <3>1, <3>3, <3>4 DEF Metas
      <3> QED
        BY <3>1, <3>5 DEF q, n
    <2> HIDE DEF m
    <2>4. PICK k \in Calls : /\ k.pc = "write_row" /\ k.meta = m /\ k.row = client[c].row
                            /\ client' = [client EXCEPT ![c] = k]
      <3>1. /\ moved \in Calls /\ moved.pc = "write_row" /\ moved.meta = m
            /\ moved.row = client[c].row /\ client' = [client EXCEPT ![c] = moved]
        BY <2>1, <2>3, TypeFacts DEF Base, TypeOK, Calls, Steps
      <3> HIDE DEF moved
      <3> QED
        BY <3>1
    <2>5. Committed(c) = [t \in Shards |-> IF t = p.shard THEN p.entry ELSE row[t].entry]
      BY DEF Committed
    <2>6. PICK q \in Intents : q = p
      BY <2>2
    <2> HIDE DEF p
    <2>7. Committed(c) \in [Shards -> RM!Entry]
      BY <2>2, <2>5, TypeFacts DEF Base
    <2>8. history' \in Seq([Shards -> RM!Entry])
      BY <2>1, <2>7 DEF Base, TypeOK
    <2>9. Base'
      <3>1. meta'.rec # 0
        BY <2>1, <2>3
      <3>2. BootFirst'
        BY <2>1, <3>1 DEF Base, BootFirst
      <3>3. HasIntent(k)
        BY <2>3, <2>4 DEF HasIntent
      <3>4. meta' \in Metas /\ row' \in [Shards -> Rows] /\ overwritten' \in BOOLEAN
        BY <2>1, <2>3 DEF Base, TypeOK
      <3> QED
        BY <2>1, <2>4, <2>8, <3>2, <3>3, <3>4, WriteBase
    <2>10. ASSUME Sound PROVE Sound'
      <3>1. /\ client[c].meta = meta /\ meta.pending = {}
            /\ client[c].row.entry = row[p.shard].entry
            /\ client[c].row.committed = row[p.shard].committed
            /\ client[c].row.rec <= row[p.shard].rec
            /\ \A s \in Shards : row[s].committed <= meta.version
        BY <1>2, <2>10, IntendFacts DEF SetPending, At, p
      <3>2. /\ Len(history) = meta.version /\ Len(history') = meta.version + 1
            /\ history'[meta.version + 1] = Committed(c)
            /\ \A v \in 1 .. meta.version : history'[v] = history[v]
        BY <2>1, <2>3, <2>10, <3>1 DEF Base, Sound, TypeOK, HistoryKept, MapVersion
      <3>3. RowsBehindMap' /\ OnePending'
        BY <2>1, <2>3, <3>1 DEF RowsBehindMap, OnePending
      <3>4. HistoryKept'
        <4>1. MapVersion' = meta.version + 1
          BY <2>1, <2>3 DEF MapVersion
        <4>2. \A t \in Shards : \A v \in 1 .. meta.version :
                row[t].committed <= v => history'[v][t] = row[t].entry
          <5>1. \A t \in Shards : \A v \in 1 .. meta.version :
                  row[t].committed <= v => history[v][t] = row[t].entry
            BY <2>10 DEF Sound, HistoryKept
          <5> QED
            BY <3>2, <5>1, ZenonT(60)
        <4>3. history'[meta.version + 1][p.shard] = p.entry
          BY <2>2, <2>5, <3>2
        <4>4. ASSUME NEW t \in Shards \ {p.shard}
              PROVE history'[meta.version + 1][t] = history'[meta.version][t]
          <5>1. history'[meta.version + 1][t] = row[t].entry
            BY <2>5, <3>2
          <5>2. history'[meta.version][t] = row[t].entry
            BY <2>3, <3>1, <4>2
          <5> QED
            BY <5>1, <5>2
        <4> QED
          BY <2>1, <2>3, <3>2, <4>1, <4>2, <4>3, <4>4 DEF HistoryKept
      <3>5. SnapshotsKept'
        BY <2>1, <2>3, <2>10, <3>2 DEF Base, TypeOK, Sound, Snapshots, SnapshotsKept
      <3>6. CallOK(k)'
        <4>1. Pending(k) = q /\ q.shard = p.shard
          BY <2>3, <2>4, <2>6 DEF Pending
        <4>2. MetaCopy(k)'
          BY <2>1, <2>3, <2>4 DEF MetaCopy
        <4>3. ReadyToWrite(k)'
          <5>1. /\ row[p.shard] \in Rows /\ k.row \in Rows /\ row[p.shard].rec \in Nat
                /\ row[p.shard].committed <= meta.version
            BY <2>2, <3>1, TypeFacts DEF Base, Calls
          <5>2. k.row.rec = row[p.shard].rec => k.row = row[p.shard]
            BY <2>4, <3>1, <5>1 DEF Rows
          <5>3. k.meta = meta' /\ k.meta.version = meta.version
            BY <2>1, <2>3, <2>4
          <5> QED
            BY <2>1, <2>4, <3>1, <4>1, <5>1, <5>2, <5>3 DEF ReadyToWrite, SameMeta, SameRow
        <4> QED
          BY <2>4, <4>2, <4>3 DEF CallOK, ReadyToIntend, ReadyToRecover, ReadyToFinalize, ReadsKept
      <3>7. ASSUME NEW d \in Clients, NEW l, d # c, l = client[d] PROVE CallOK(l)'
        <4>1. /\ CallOK(l) /\ HasIntent(l) /\ l \in Calls /\ l.meta.rec \in Nat
              /\ l.meta.version \in Nat \ {0}
          BY <2>10, <3>7, TypeFacts DEF Base, Sound, Metas
        <4>2. MetaCopy(l)'
          BY <2>1, <2>3, <4>1 DEF CallOK, MetaCopy, SameMeta
        <4>3. l.pc \in HoldsMeta => ~SameMeta(l)'
          BY <2>1, <2>3, <4>1 DEF CallOK, MetaCopy, SameMeta
        <4>4. l.pc \in HoldsMeta /\ SameMeta(l) => l.meta.pending = {}
          BY <3>1, <4>1 DEF CallOK, MetaCopy
        <4>5. ReadsKept(l)'
          <5>1. l.pc = "load_routes" => history'[l.meta.version] = history[l.meta.version]
            BY <2>3, <3>2, <4>1 DEF CallOK, MetaCopy, HoldsMeta
          <5> QED
            BY <4>1, <5>1 DEF CallOK, ReadsKept
        <4>6. ReadyToIntend(l)'
          BY <2>1, <4>1, <4>3 DEF CallOK, ReadyToIntend, HoldsMeta
        <4>7. ReadyToRecover(l)'
          BY <2>1, <4>1, <4>4 DEF CallOK, ReadyToRecover, HoldsMeta, HasIntent
        <4>8. ReadyToWrite(l)'
          BY <2>1, <4>1, <4>4 DEF CallOK, ReadyToWrite, HoldsMeta, SameRow, HasIntent
        <4>9. ReadyToFinalize(l)'
          BY <4>1, <4>3 DEF CallOK, ReadyToFinalize, HoldsMeta
        <4> QED
          BY <4>2, <4>5, <4>6, <4>7, <4>8, <4>9 DEF CallOK
      <3>8. \A d \in Clients : CallOK(client[d])'
        BY <2>4, <3>6, <3>7, AllCalls
      <3> QED
        BY <3>3, <3>4, <3>5, <3>8 DEF Sound
    <2> QED
      BY <2>9, <2>10 DEF Preserved
  <1> QED
    BY <1>1, <1>2

-----------------------------------------------------------------------------
(* The bootstrap.                                                          *)

\* Routes are written as they were: only their record versions are new.
SameRoutes ==
    \A s \in Shards :
        /\ row'[s].entry = row[s].entry
        /\ row'[s].committed = row[s].committed
        /\ row'[s] = row[s] \/ row'[s].rec = row[s].rec + 1

LEMMA SameRouteInv ==
  ASSUME Base, Sound, NEW c \in Clients, NEW k \in Calls, k.pc \in BootSteps,
         client' = [client EXCEPT ![c] = k],
         SameRoutes, row' \in [Shards -> Rows], UNCHANGED <<meta, history, snap>>
  PROVE Sound'
  <1>1. RowsBehindMap' /\ OnePending' /\ SnapshotsKept'
    BY DEF SameRoutes, Sound, RowsBehindMap, OnePending, SnapshotsKept
  <1>2. HistoryKept'
    BY DEF SameRoutes, Sound, HistoryKept, MapVersion
  <1>3. CallOK(k)'
    BY IdleOK
  <1>4. ASSUME NEW d \in Clients, NEW l, d # c, l = client[d] PROVE CallOK(l)'
    <2>1. CallOK(l) /\ l \in Calls /\ HasIntent(l)
      BY <1>4, TypeFacts DEF Base, Sound
    <2>2. \A s \in Shards : row[s].rec \in Nat /\ row'[s].rec >= row[s].rec /\ row'[s].rec \in Nat
      BY TypeFacts DEF SameRoutes, Base
    <2>3. MetaCopy(l)' /\ ReadsKept(l)'
      BY <2>1 DEF CallOK, MetaCopy, SameMeta, ReadsKept
    <2>4. ReadyToIntend(l)'
      <3>1. l.target.shard \in Shards /\ l.row.rec \in Nat
        BY <2>1 DEF Calls, Intents, Rows
      <3> QED
        BY <2>1, <2>2, <3>1 DEF SameRoutes, CallOK, ReadyToIntend, SameMeta
    <2>5. CASE l.pc \in {"recover", "rewrite_row", "refinalize", "write_row", "finalize"}
      <3>1. Pending(l).shard \in Shards /\ l.row.rec \in Nat /\ l.meta.version \in Nat \ {0}
        BY <2>1, <2>5, PendingTypes DEF HasIntent, Calls, Rows, Metas
      <3>2. ReadyToRecover(l)'
        BY <2>1, <3>1 DEF SameRoutes, CallOK, ReadyToRecover, SameMeta
      <3>3. ReadyToWrite(l)'
        BY <2>1, <2>2, <3>1 DEF SameRoutes, CallOK, ReadyToWrite, SameMeta, SameRow
      <3>4. ReadyToFinalize(l)'
        <4>1. CASE l.pc \in {"finalize", "refinalize"} /\ SameMeta(l)
          <5>1. row[Pending(l).shard] = Intended(l, row[Pending(l).shard].rec)
            BY <2>1, <4>1 DEF CallOK, ReadyToFinalize
          <5>2. /\ row'[Pending(l).shard].entry = Pending(l).entry
                /\ row'[Pending(l).shard].committed = l.meta.version + 1
            BY <3>1, <5>1 DEF SameRoutes, Intended
          <5>3. row'[Pending(l).shard] \in Rows
            BY <3>1
          <5> QED
            BY <5>2, <5>3 DEF ReadyToFinalize, Intended, Rows
        <4> QED
          BY <2>1, <4>1 DEF CallOK, ReadyToFinalize, SameMeta
      <3> QED
        BY <2>3, <2>4, <3>2, <3>3, <3>4 DEF CallOK
    <2>6. CASE l.pc \notin {"recover", "rewrite_row", "refinalize", "write_row", "finalize"}
      BY <2>3, <2>4, <2>6 DEF CallOK, ReadyToRecover, ReadyToWrite, ReadyToFinalize
    <2> QED
      BY <2>5, <2>6
  <1>5. \A d \in Clients : CallOK(client[d])'
    BY <1>3, <1>4, AllCalls
  <1> QED
    BY <1>1, <1>2, <1>5 DEF Sound

\* A route is replaced by that of the bootstrap.
LEMMA BootRowInv ==
  ASSUME Base, NEW c \in Clients, NEW k \in Calls, k.pc \in BootSteps,
         client' = [client EXCEPT ![c] = k],
         NEW s \in Shards, row' = [row EXCEPT ![s] = BootRow(s, row[s].rec + 1)],
         overwritten' \in BOOLEAN, row[s].committed > 1 => overwritten',
         UNCHANGED <<meta, history, snap, faults>>
  PROVE Preserved
  <1>1. row[s].rec \in Nat /\ row[s].rec + 1 \in Nat /\ row[s].committed \in Nat \ {0}
    BY TypeFacts DEF Base
  <1>2. BootRow(s, row[s].rec + 1) \in Rows
    BY <1>1, BootTypes
  <1>3. row' \in [Shards -> Rows]
    BY <1>2 DEF Base, TypeOK
  <1>4. \A t \in Shards : row'[t] = IF t = s THEN BootRow(s, row[s].rec + 1) ELSE row[t]
    BY DEF Base, TypeOK
  <1>5. row'[s].entry = BootEntry(s) /\ row'[s].committed = 1 /\ row'[s].rec = row[s].rec + 1
    BY <1>4 DEF BootRow
  <1>6. \A d \in Clients : client'[d] = IF d = c THEN k ELSE client[d]
    BY DEF Base, TypeOK
  <1>7. Base'
    <2>1. BootFirst'
      BY <1>4, <1>5, <1>6 DEF Base, BootFirst
    <2>2. HasIntent(k)
      BY IdleOK
    <2>3. meta' \in Metas /\ history' \in Seq([Shards -> RM!Entry])
      BY DEF Base, TypeOK
    <2> QED
      BY <1>3, <2>1, <2>2, <2>3, WriteBase
  <1>8. ASSUME Sound, ~(row[s].committed > 1) PROVE Sound'
    <2>1. row[s].committed = 1 /\ row[s].entry = BootEntry(s)
      BY <1>1, <1>8 DEF Base, BootFirst
    <2>2. SameRoutes
      BY <1>4, <1>5, <2>1 DEF SameRoutes
    <2> QED
      BY <1>3, <1>8, <2>2, SameRouteInv
  <1> QED
    BY <1>7, <1>8 DEF Preserved

LEMMA BootstrapRouteInv ==
  ASSUME Base, NEW c \in Clients, NEW s \in Shards, BootstrapRoute(c, s)
  PROVE Preserved
  <1>1. /\ client[c] \in Calls /\ client[c].pc = "boot_routes" /\ row[s] \in Rows
        /\ BootRow(s, 1) \in Rows /\ client \in [Clients -> Calls]
        /\ client[c].rows \in [Shards -> Rows \cup {None}] /\ client[c].target \in Intents
    BY TypeFacts, BootTypes DEF BootstrapRoute, At, Base, TypeOK
  <1>2. CASE /\ row[s].rec = 0 /\ row' = [row EXCEPT ![s] = BootRow(s, 1)]
             /\ client' = [client EXCEPT ![c].rows[s] = BootRow(s, 1)]
    <2> DEFINE r == BootRow(s, 1)
               k == [client[c] EXCEPT !.rows = [client[c].rows EXCEPT ![s] = r]]
    <2>1. /\ row' = [row EXCEPT ![s] = BootRow(s, row[s].rec + 1)]
          /\ row[s].committed = 1
      BY <1>2 DEF Base, BootFirst
    <2> HIDE DEF r
    <2>2. r \in Rows /\ client' = [client EXCEPT ![c].rows[s] = r]
      BY <1>1, <1>2 DEF r
    <2>3. k \in Calls /\ k.pc = "boot_routes" /\ client' = [client EXCEPT ![c] = k]
      BY <1>1, <2>2 DEF Calls
    <2> HIDE DEF k
    <2>4. overwritten' \in BOOLEAN /\ ~(row[s].committed > 1) /\ k.pc \in BootSteps
      BY <2>1, <2>3 DEF BootstrapRoute, Base, TypeOK, BootSteps
    <2> QED
      BY <2>1, <2>3, <2>4, BootRowInv DEF BootstrapRoute
  <1>3. CASE /\ row' = row
             /\ client' = [client EXCEPT ![c].row = row[s], ![c].target.shard = s,
                                         ![c].pc = "boot_update"]
    <2> DEFINE t == [client[c].target EXCEPT !.shard = s]
               k == [client[c] EXCEPT !.row = row[s], !.target = t, !.pc = "boot_update"]
    <2>1. t \in Intents
      BY <1>1 DEF Intents
    <2>2. client' = [client EXCEPT ![c] = k]
      BY <1>1, <1>3 DEF Calls
    <2> HIDE DEF t
    <2>3. k \in Calls /\ k.pc = "boot_update"
      BY <1>1, <2>1 DEF Calls, Steps, BootSteps
    <2> HIDE DEF k
    <2>4. k.pc \in BootSteps /\ CallOK(k) /\ HasIntent(k) /\ faults' \in 0 .. MaxFaults
      BY <2>3, IdleOK, FaultsKept DEF BootstrapRoute, BootSteps
    <2> QED
      BY <1>3, <2>2, <2>3, <2>4, OneCall DEF BootstrapRoute
  <1> QED
    BY <1>2, <1>3 DEF BootstrapRoute

LEMMA BootstrapUpdateInv ==
  ASSUME Base, NEW c \in Clients, BootstrapUpdate(c)
  PROVE Preserved
  <1> DEFINE s == client[c].target.shard
             r == BootRow(s, 1)
             k == [client[c] EXCEPT !.rows = [client[c].rows EXCEPT ![s] = r],
                                    !.pc = "boot_routes"]
  <1>1. CASE row[s].rec # client[c].row.rec
    BY <1>1, FaultsKept, FailsInv DEF BootstrapUpdate
  <1>2. CASE row[s].rec = client[c].row.rec
    <2>1. /\ client[c] \in Calls /\ s \in Shards /\ r \in Rows /\ client \in [Clients -> Calls]
          /\ client[c].rows \in [Shards -> Rows \cup {None}]
      BY TypeFacts, BootTypes DEF Base, TypeOK
    <2>2. /\ row' = [row EXCEPT ![s] = BootRow(s, row[s].rec + 1)]
          /\ overwritten' = (overwritten \/ row[s].committed > 1)
          /\ client' = [client EXCEPT ![c].rows[s] = r, ![c].pc = "boot_routes"]
      BY <1>2 DEF BootstrapUpdate
    <2> HIDE DEF s, r
    <2>3. k \in Calls /\ k.pc = "boot_routes"
      BY <2>1 DEF Calls, Steps, BootSteps
    <2>4. client' = [client EXCEPT ![c] = k]
      BY <2>1, <2>2 DEF Calls
    <2> HIDE DEF k
    <2>5. overwritten' \in BOOLEAN /\ (row[s].committed > 1 => overwritten') /\ k.pc \in BootSteps
      BY <2>2, <2>3 DEF BootSteps
    <2> QED
      BY <2>1, <2>2, <2>3, <2>4, <2>5, BootRowInv DEF BootstrapUpdate
  <1> QED
    BY <1>1, <1>2

LEMMA BootstrapMetaInv ==
  ASSUME Base, NEW c \in Clients, BootstrapMeta(c)
  PROVE Preserved
  <1>1. CASE meta.rec # 0
    BY <1>1, FaultsKept, BeginInv DEF BootstrapMeta
  <1>2. CASE meta.rec = 0
    <2>1. meta = BootMeta(0) /\ \A d \in Clients : client[d].pc \in BootSteps
      BY <1>2 DEF Base, BootFirst
    <2>2. /\ meta' = BootMeta(1) /\ meta'.version = meta.version /\ meta.pending = {}
          /\ meta'.pending = {} /\ meta'.rec = 1
      BY <1>2, <2>1 DEF BootstrapMeta, BootMeta
    <2>3. PICK k \in Calls : k.pc = "load_meta" /\ client' = [client EXCEPT ![c] = k]
      BY BootTypes DEF BootstrapMeta, Begin, Steps
    <2>4. Base'
      <3>1. BootFirst'
        BY <2>2 DEF BootstrapMeta, Base, BootFirst
      <3>2. HasIntent(k) /\ meta' \in Metas
        BY <2>2, <2>3, IdleOK, BootTypes
      <3> QED
        BY <2>3, <3>1, <3>2, WriteBase DEF BootstrapMeta, Base, TypeOK
    <2>5. ASSUME Sound PROVE Sound'
      <3>1. RowsBehindMap' /\ OnePending' /\ SnapshotsKept'
        BY <2>2, <2>5 DEF BootstrapMeta, Sound, RowsBehindMap, OnePending, SnapshotsKept
      <3>2. HistoryKept'
        BY <2>2, <2>5 DEF BootstrapMeta, Sound, HistoryKept, MapVersion
      <3>3. CallOK(k)' /\ \A d \in Clients : \A l : d # c /\ l = client[d] => CallOK(l)'
        BY <2>1, <2>3, IdleOK
      <3>4. \A d \in Clients : CallOK(client[d])'
        BY <2>3, <3>3, AllCalls
      <3> QED
        BY <3>1, <3>2, <3>4 DEF Sound
    <2> QED
      BY <2>4, <2>5 DEF Preserved
  <1> QED
    BY <1>1, <1>2


-----------------------------------------------------------------------------
(* The invariant.                                                          *)

LEMMA InitInv ==
  ASSUME Init
  PROVE Inv
  <1> DEFINE first == [s \in Shards |-> BootEntry(s)]
  <1>1. first \in [Shards -> RM!Entry] /\ \A s \in Shards : first[s] = BootEntry(s)
    BY BootTypes
  <1>2. history = <<first>> /\ Len(history) = 1 /\ history[1] = first
    BY DEF Init
  <1>3. \A s \in Shards : /\ row[s] = BootRow(s, 0) /\ row[s].rec = 0
                          /\ row[s].entry = BootEntry(s) /\ row[s].committed = 1
    BY DEF Init, BootRow
  <1>4. meta = BootMeta(0) /\ meta.version = 1 /\ meta.pending = {} /\ meta.rec = 0
    BY DEF Init, BootMeta
  <1>5. \A c \in Clients : client[c] \in Calls /\ client[c].pc = "boot"
    BY BootTypes DEF Init, Steps, BootSteps
  <1>6. \A c \in Clients : snap[c].version = 0
    BY DEF Init, NoSnapshot
  <1> HIDE DEF first
  <1>7. TypeOK
    <2>1. meta \in Metas
      BY <1>4, BootTypes
    <2>2. row \in [Shards -> Rows]
      BY BootTypes DEF Init
    <2>3. client \in [Clients -> Calls]
      BY <1>5 DEF Init
    <2>4. snap \in [Clients -> Snapshots]
      BY <1>1 DEF Init, NoSnapshot, Snapshots, first
    <2>5. history \in Seq([Shards -> RM!Entry])
      BY <1>1, <1>2
    <2>6. faults \in 0 .. MaxFaults
      BY DEF Init
    <2>7. overwritten \in BOOLEAN
      BY ZenonT(60) DEF Init
    <2> QED
      BY <2>1, <2>2, <2>3, <2>4, <2>5, <2>6, <2>7 DEF TypeOK
  <1>8. BootFirst
    BY <1>3, <1>4, <1>5, <1>6 DEF BootFirst, BootSteps
  <1>9. RowsBehindMap /\ OnePending
    BY <1>3, <1>4 DEF RowsBehindMap, OnePending
  <1>10. HistoryKept
    BY <1>1, <1>2, <1>3, <1>4 DEF HistoryKept, MapVersion
  <1>11. SnapshotsKept
    BY <1>6 DEF SnapshotsKept
  <1>12. \A c \in Clients : CallOK(client[c]) /\ HasIntent(client[c])
    BY <1>5, IdleOK DEF BootSteps
  <1> QED
    BY <1>7, <1>8, <1>9, <1>10, <1>11, <1>12 DEF Inv, Sound

\* What was overwritten stays overwritten.
LEMMA OverwrittenStays ==
  ASSUME Next, overwritten
  PROVE overwritten'
  <1>1. ASSUME NEW c \in Clients, Proceed(c) PROVE overwritten'
    <2>1. CASE LoadMeta(c) \/ (\E s \in Shards : LoadRoute(c, s)) \/ Assemble(c) \/ Recover(c)
      BY <2>1 DEF LoadMeta, LoadRoute, Assemble, Recover
    <2>2. CASE WriteRow(c) \/ FinalizeMeta(c) \/ SetPending(c)
      BY <2>2 DEF WriteRow, FinalizeMeta, SetPending
    <2>3. CASE CommitLoadMeta(c) \/ CommitLoadRoute(c)
      BY <2>3 DEF CommitLoadMeta, CommitLoadRoute
    <2>4. CASE Bootstrap(c) \/ (\E s \in Shards : BootstrapRoute(c, s)) \/ BootstrapMeta(c)
      BY <2>4 DEF Bootstrap, BootstrapRoute, BootstrapMeta
    <2>5. CASE BootstrapUpdate(c)
      BY <2>5 DEF BootstrapUpdate
    <2> QED
      BY <1>1, <2>1, <2>2, <2>3, <2>4, <2>5 DEF Proceed
  <1> QED
    BY <1>1 DEF Next, BeginLoad, BeginCommit, Stop, Restart

LEMMA NextPreserves ==
  ASSUME Base, Next
  PROVE Preserved
  <1>1. ASSUME NEW c \in Clients, Proceed(c) PROVE Preserved
    BY <1>1, LoadMetaInv, LoadRouteInv, AssembleInv, RecoverInv, WriteRowInv, FinalizeMetaInv,
       CommitLoadMetaInv, CommitLoadRouteInv, SetPendingInv, BootstrapInv, BootstrapRouteInv,
       BootstrapUpdateInv, BootstrapMetaInv DEF Proceed
  <1> QED
    BY <1>1, BeginLoadInv, BeginCommitInv, StopInv, RestartInv DEF Next

LEMMA NextInv ==
  ASSUME Inv, [Next]_vars
  PROVE Inv'
  <1>1. CASE UNCHANGED vars
    <2>1. UNCHANGED <<meta, row, client, snap, history, overwritten, faults>>
      BY <1>1 DEF vars
    <2>2. TypeOK' /\ BootFirst'
      BY <2>1 DEF Inv, TypeOK, BootFirst
    <2>3. \A c \in Clients : HasIntent(client[c])'
      BY <2>1 DEF Inv, HasIntent
    <2>4. ASSUME Sound PROVE Sound'
      <3>1. RowsBehindMap' /\ HistoryKept' /\ OnePending' /\ SnapshotsKept'
        BY <2>1, <2>4 DEF Sound, RowsBehindMap, HistoryKept, OnePending, SnapshotsKept, MapVersion
      <3>2. ASSUME NEW c \in Clients PROVE CallOK(client[c])'
        <4>1. PICK k : k = client'[c]
          OBVIOUS
        <4>2. CallOK(k)
          BY <2>1, <2>4, <4>1 DEF Sound
        <4> QED
          BY <2>1, <4>1, <4>2, CallUnchanged, CallMoved
      <3> QED
        BY <3>1, <3>2 DEF Sound
    <2> QED
      BY <2>1, <2>2, <2>3, <2>4 DEF Inv
  <1>2. CASE Next
    <2>1. Base /\ (overwritten \/ Sound)
      BY DEF Inv, Base
    <2>2. Preserved
      BY <1>2, <2>1, NextPreserves
    <2>3. overwritten => overwritten'
      BY <1>2, OverwrittenStays
    <2>4. Base' /\ (overwritten' \/ Sound')
      BY <2>1, <2>2, <2>3 DEF Preserved
    <2> QED
      BY <2>4 DEF Inv, Base
  <1> QED
    BY <1>1, <1>2

(***************************************************************************)
(* The inductive invariant holds, whichever replicas bootstrap at the same *)
(* time: until one of them replaces a committed route, a conditional       *)
(* update of the store never succeeds on a copy that is out of date.       *)
(***************************************************************************)
THEOREM InvTheorem == Spec => []Inv
  <1>1. Init => Inv
    BY InitInv
  <1>2. Inv /\ [Next]_vars => Inv'
    BY NextInv
  <1> QED
    BY <1>1, <1>2, PTL DEF Spec

(***************************************************************************)
(* Every snapshot that a replica applies is the map of one version, for    *)
(* any number of shards, replicas, commits and faults, unless a bootstrap  *)
(* has replaced a committed route.                                         *)
(***************************************************************************)
THEOREM LoadedIsCommittedTheorem == Spec => []LoadedIsCommitted
  <1>1. Inv => LoadedIsCommitted
    BY DEF Inv, Sound, LoadedIsCommitted
  <1> QED
    BY <1>1, InvTheorem, PTL

-----------------------------------------------------------------------------
(* The refinement.                                                         *)

\* The entry of the one intent there is.
LEMMA RouteOfPending ==
  ASSUME OnePending, NEW p \in meta.pending, NEW s
  PROVE Route(s) = IF p.shard = s THEN p.entry ELSE row[s].entry
  <1>1. CASE p.shard = s
    <2>1. (CHOOSE q \in meta.pending : q.shard = s) \in meta.pending
      BY <1>1
    <2>2. (CHOOSE q \in meta.pending : q.shard = s) = p
      BY <2>1 DEF OnePending
    <2> QED
      BY <1>1, <2>2 DEF Route
  <1>2. CASE p.shard # s
    BY <1>2 DEF Route, OnePending
  <1> QED
    BY <1>1, <1>2

LEMMA InitRefines ==
  ASSUME Init
  PROVE RM!Init
  <1>1. MapVersion = 1
    BY DEF Init, BootMeta, MapVersion
  <1>2. \A s \in Shards : Route(s) = BootEntry(s)
    BY DEF Init, BootMeta, BootRow, Route
  <1>3. \A s \in Shards : BootEntry(s).state = "ACTIVE"
    BY DEF BootEntry
  <1> QED
    BY <1>1, <1>2, <1>3, BootTypes DEF RM!Init

LEMMA SetPendingRefines ==
  ASSUME Base, Sound, NEW c \in Clients, SetPending(c), SameMeta(client[c])
  PROVE RM!Next
  <1> DEFINE p == client[c].target
  <1>1. meta.pending = {} /\ RM!Legal(row[p.shard].entry, p.entry)
    BY IntendFacts DEF SetPending, At
  <1>2. p.shard \in Shards /\ meta \in Metas /\ meta.version \in Nat
    BY TypeFacts DEF Base
  <1>3. meta'.pending = {p} /\ meta'.version = meta.version /\ row' = row
    BY <1>2 DEF SetPending, Metas
  <1> HIDE DEF p
  <1>4. MapVersion' = MapVersion + 1
    BY <1>1, <1>2, <1>3 DEF MapVersion
  <1>5. \A s \in Shards : Route(s) = row[s].entry
    BY <1>1 DEF Route
  <1>6. \A s \in Shards : Route(s)' = IF p.shard = s THEN p.entry ELSE row[s].entry
    BY <1>3 DEF Route
  <1>7. RM!Commit(p.shard)
    BY <1>1, <1>2, <1>4, <1>5, <1>6 DEF RM!Commit
  <1> QED
    BY <1>2, <1>7 DEF RM!Next

LEMMA SameMap ==
  ASSUME MapVersion' = MapVersion, \A s \in Shards : Route(s)' = Route(s)
  PROVE UNCHANGED RM!vars
  BY DEF RM!vars

LEMMA RecordsUnchanged ==
  ASSUME UNCHANGED <<meta, row>>
  PROVE UNCHANGED RM!vars
  BY SameMap DEF MapVersion, Route

\* The map is the same when the metadata is and the routes are.
LEMMA SameEntries ==
  ASSUME meta'.version = meta.version, meta'.pending = meta.pending,
         \A s \in Shards : row'[s].entry = row[s].entry
  PROVE UNCHANGED RM!vars
  <1>1. MapVersion' = MapVersion
    BY DEF MapVersion
  <1>2. \A s \in Shards : Route(s)' = Route(s)
    BY DEF Route
  <1> QED
    BY <1>1, <1>2, SameMap

LEMMA WriteRowRefines ==
  ASSUME Base, Sound, NEW c \in Clients, WriteRow(c), SameRow(client[c])
  PROVE UNCHANGED RM!vars
  <1> DEFINE p == Pending(client[c])
  <1>1. p \in meta.pending /\ p.shard \in Shards /\ OnePending
    <2>1. client[c] \in Calls /\ client[c].meta = meta /\ meta.pending # {}
      BY WriteFacts, TypeFacts DEF WriteRow, At, Base
    <2> QED
      BY <2>1, PendingTypes DEF Sound
  <1>2. meta' = meta /\ \A s \in Shards : s # p.shard => row'[s] = row[s]
    BY <1>1 DEF WriteRow, Base, TypeOK
  <1> HIDE DEF p
  <1>3. \A s \in Shards : Route(s) = IF p.shard = s THEN p.entry ELSE row[s].entry
    BY <1>1, RouteOfPending
  <1>4. \A s \in Shards : Route(s)' = IF p.shard = s THEN p.entry ELSE row'[s].entry
    <2>1. ASSUME NEW s \in Shards, p.shard = s PROVE Route(s)' = Route(s)
      BY <1>1, <1>2, <2>1 DEF Route
    <2>2. ASSUME NEW s \in Shards, p.shard # s PROVE Route(s)' = row'[s].entry
      BY <1>1, <1>2, <2>2 DEF Route, OnePending
    <2> QED
      BY <1>3, <2>1, <2>2
  <1>5. MapVersion' = MapVersion
    BY <1>2 DEF MapVersion
  <1>6. \A s \in Shards : Route(s)' = Route(s)
    BY <1>2, <1>3, <1>4
  <1> QED
    BY <1>5, <1>6, SameMap

LEMMA FinalizeMetaRefines ==
  ASSUME Base, Sound, NEW c \in Clients, FinalizeMeta(c), SameMeta(client[c])
  PROVE UNCHANGED RM!vars
  <1> DEFINE p == Pending(client[c])
  <1>1. /\ p \in meta.pending /\ p.shard \in Shards /\ OnePending
        /\ client[c].meta = meta /\ row[p.shard].entry = p.entry
    BY FinalizeFacts DEF FinalizeMeta, At, Sound
  <1>2. /\ meta'.version = meta.version + 1 /\ meta'.pending = {} /\ row' = row
        /\ meta.version \in Nat
    BY <1>1, TypeFacts DEF FinalizeMeta, Base
  <1> HIDE DEF p
  <1>3. \A s \in Shards : Route(s) = row[s].entry
    BY <1>1, RouteOfPending
  <1>4. \A s \in Shards : Route(s)' = row[s].entry
    BY <1>2 DEF Route
  <1>5. MapVersion' = MapVersion
    BY <1>1, <1>2 DEF MapVersion
  <1> QED
    BY <1>3, <1>4, <1>5, SameMap

\* A bootstrap writes the first route over the first route, or overwrites.
LEMMA BootRowRefines ==
  ASSUME Base, NEW s \in Shards, NEW n, row' = [row EXCEPT ![s] = BootRow(s, n)],
         row[s].committed > 1 => overwritten', UNCHANGED meta
  PROVE overwritten' \/ UNCHANGED RM!vars
  <1>1. CASE row[s].committed > 1
    BY <1>1
  <1>2. CASE ~(row[s].committed > 1)
    <2>1. row[s].committed \in Nat \ {0}
      BY DEF Base, TypeOK, Rows
    <2>2. row[s].entry = BootEntry(s)
      BY <1>2, <2>1 DEF Base, BootFirst
    <2>3. \A t \in Shards : row'[t].entry = row[t].entry
      BY <2>2 DEF BootRow, Base, TypeOK
    <2> QED
      BY <2>3, SameEntries
  <1> QED
    BY <1>1, <1>2

LEMMA BootstrapRefines ==
  ASSUME Base, NEW c \in Clients,
         (\E s \in Shards : BootstrapRoute(c, s)) \/ BootstrapUpdate(c) \/ BootstrapMeta(c)
  PROVE overwritten' \/ UNCHANGED RM!vars
  <1>1. ASSUME NEW s \in Shards, BootstrapRoute(c, s) PROVE overwritten' \/ UNCHANGED RM!vars
    <2>1. CASE row' = row
      BY <1>1, <2>1, RecordsUnchanged DEF BootstrapRoute
    <2>2. CASE row[s].rec = 0 /\ row' = [row EXCEPT ![s] = BootRow(s, 1)]
      <3>1. ~(row[s].committed > 1)
        BY <2>2 DEF Base, BootFirst
      <3> QED
        BY <1>1, <2>2, <3>1, BootRowRefines DEF BootstrapRoute
    <2> QED
      BY <1>1, <2>1, <2>2 DEF BootstrapRoute
  <1>2. CASE BootstrapUpdate(c)
    <2> DEFINE s == client[c].target.shard
    <2>1. s \in Shards
      BY TypeFacts DEF Base
    <2>2. CASE row' = row
      BY <1>2, <2>2, RecordsUnchanged DEF BootstrapUpdate
    <2>3. CASE /\ row' = [row EXCEPT ![s] = BootRow(s, row[s].rec + 1)]
               /\ overwritten' = (overwritten \/ row[s].committed > 1)
      BY <1>2, <2>1, <2>3, BootRowRefines DEF BootstrapUpdate
    <2> QED
      BY <1>2, <2>2, <2>3 DEF BootstrapUpdate
  <1>3. CASE BootstrapMeta(c)
    <2>1. meta.rec = 0 => meta = BootMeta(0)
      BY DEF Base, BootFirst
    <2>2. meta'.version = meta.version /\ meta'.pending = meta.pending /\ row' = row
      BY <1>3, <2>1 DEF BootstrapMeta, BootMeta
    <2> QED
      BY <2>2, SameEntries
  <1> QED
    BY <1>1, <1>2, <1>3

LEMMA NextRefines ==
  ASSUME Inv, [Next]_vars
  PROVE [RM!Next \/ overwritten']_(RM!vars)
  <1>1. CASE UNCHANGED vars
    BY <1>1, RecordsUnchanged DEF vars
  <1>2. CASE Next /\ overwritten
    BY <1>2, OverwrittenStays
  <1>3. CASE Next /\ ~overwritten
    <2>1. Base /\ Sound
      BY <1>3 DEF Inv, Base
    <2>2. ASSUME NEW c \in Clients, Proceed(c)
          PROVE RM!Next \/ overwritten' \/ UNCHANGED RM!vars
      <3>1. CASE \/ LoadMeta(c) \/ (\E s \in Shards : LoadRoute(c, s)) \/ Assemble(c)
                 \/ Recover(c) \/ CommitLoadMeta(c) \/ CommitLoadRoute(c) \/ Bootstrap(c)
        BY <3>1, RecordsUnchanged DEF LoadMeta, LoadRoute, Assemble, Recover, CommitLoadMeta,
           CommitLoadRoute, Bootstrap
      <3>2. CASE WriteRow(c)
        BY <2>1, <3>2, WriteRowRefines, RecordsUnchanged DEF WriteRow
      <3>3. CASE FinalizeMeta(c)
        BY <2>1, <3>3, FinalizeMetaRefines, RecordsUnchanged DEF FinalizeMeta
      <3>4. CASE SetPending(c)
        BY <2>1, <3>4, SetPendingRefines, RecordsUnchanged DEF SetPending
      <3>5. CASE (\E s \in Shards : BootstrapRoute(c, s)) \/ BootstrapUpdate(c) \/ BootstrapMeta(c)
        BY <2>1, <3>5, BootstrapRefines
      <3> QED
        BY <2>2, <3>1, <3>2, <3>3, <3>4, <3>5 DEF Proceed
    <2>3. RM!Next \/ overwritten' \/ UNCHANGED RM!vars
      BY <1>3, <2>2, RecordsUnchanged DEF Next, BeginLoad, BeginCommit, Stop, Restart
    <2> QED
      BY <2>3
  <1> QED
    BY <1>1, <1>2, <1>3

(***************************************************************************)
(* The records implement the atomic map, for any number of replicas that   *)
(* bootstrap, commit, load and stop: a commit happens when its intent is   *)
(* written, and neither the rest of it nor a recovery nor a bootstrap      *)
(* changes the map, until a bootstrap replaces a committed route.          *)
(***************************************************************************)
THEOREM AtomicTheorem == Spec => Atomic
  <1>1. Init => RM!Init
    BY InitRefines
  <1>2. Inv /\ [Next]_vars => [RM!Next \/ overwritten']_(RM!vars)
    BY NextRefines
  <1> QED
    BY <1>1, <1>2, InvTheorem, PTL DEF Spec, Atomic
=============================================================================

-------------------------- MODULE MCPlayerRuntime --------------------------
(* Small instances of PlayerRuntime, and the statements of the repository's *)
(* documents that the runtime is checked against in runs of their own.      *)
EXTENDS PlayerRuntimeInv, TLC

Symm == Permutations(Zones)

----------------------------------------------------------------------------
\* ADR-0006: a graceful stop has flushed everything that was dirty.  Stated
\* for a Zone that still owns the shard and a store that never failed.
CloseFlushesDirty ==
    [][\A z \in Zones, p \in Players :
          /\ status[z] = "closing"
          /\ status'[z] = "down"
          /\ faults' = 0
          /\ actor[z][p].life = "ready"
          => actor[z][p].st.data \subseteq row'[p].c.data]_vars

\* ADR-0008: once a new epoch has updated the fence, a write of an old epoch
\* is rejected.
FenceRejectsOldEpoch ==
    [][\A p \in Players : row[p].ver > 0 /\ row'[p] # row[p] =>
          row'[p].c.epoch >= fence.epoch]_vars

\* PrepareShardForMigration accepts a row that is exactly what the source's
\* drain reported: it goes on to rewrite it for the new epoch.
PrepareAcceptsManifest ==
    [][\A z \in Zones :
          LET t == task[z]["exclusive"]
              t2 == task'[z]["exclusive"]
          IN /\ t.job = "prepare" /\ t.pc = "next" /\ t.todo # {}
             /\ \A p \in t.todo : /\ row[p].c.rev = t.plan[p]
                                  /\ row[p].c.epoch + 1 = t.epoch
             /\ status'[z] = "up"
             => t2.job = "prepare"]_vars

\* DrainShardForMigration durably flushes: the revisions it reports to the
\* coordinator have been reached by the checkpoint rows.
ManifestDurable ==
    \A p \in Players : manifest.revs[p] <= row[p].c.rev
=============================================================================

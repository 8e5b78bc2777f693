-------------------------- MODULE MCShardMigration --------------------------
EXTENDS ShardMigration, TLC
=============================================================================

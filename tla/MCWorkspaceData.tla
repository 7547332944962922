--------------------------- MODULE MCWorkspaceData ---------------------------
(***************************************************************************)
(* Model checking of the components that write a workspace's data outside  *)
(* document ingestion.  They share no state, so a behaviour plays one      *)
(* scene: chunk writes, dead letters, a purge against one kind of writer,  *)
(* or the operator's tools: migrations, the repair of the index, and the   *)
(* backfill of content types.                                              *)
(***************************************************************************)
EXTENDS ChunkWrites, WorkspacePurge, DeadLetters, Migrations, IndexRepair, LabelBackfill, TLC

VARIABLE scene

toolVars == <<migrationVars, indexVars, labelVars>>
mcVars == <<chunkVars, purgeVars, letterVars, toolVars, scene>>

Scenes == {"chunks", "documents", "chats", "audit", "letters", "migrate", "repair", "labels"}

MCInit ==
    /\ scene \in Scenes
    /\ ChunkInit
    /\ scene # "chunks" => rowHash[0] = Original
    /\ PurgeInit /\ LettersInit
    /\ scene # "migrate" => provisioned = 0
    /\ MigrationsInit
    /\ scene # "repair" => listed = {}
    /\ IndexInit
    /\ scene # "labels" => filename = [d \in LabelledDocuments |-> "md"]
                           /\ rowLabel = [d \in LabelledDocuments |-> Stale]
    /\ LabelsInit

MCNext ==
    \/ /\ scene = "chunks" /\ ChunkNext
       /\ UNCHANGED <<purgeVars, letterVars, toolVars, scene>>
    \/ /\ \/ scene = "documents" /\ RunNext(Documents)
          \/ scene = "chats" /\ RunNext(Chats)
          \/ scene = "audit" /\ AuditNext(AuditEvents)
          \/ scene \in {"documents", "chats", "audit"} /\ WorkflowNext
       /\ UNCHANGED <<chunkVars, letterVars, toolVars, scene>>
    \/ /\ scene = "letters" /\ LettersNext
       /\ UNCHANGED <<chunkVars, purgeVars, toolVars, scene>>
    \/ /\ scene = "migrate" /\ MigrationsNext
       /\ UNCHANGED <<chunkVars, purgeVars, letterVars, indexVars, labelVars, scene>>
    \/ /\ scene = "repair" /\ IndexNext
       /\ UNCHANGED <<chunkVars, purgeVars, letterVars, migrationVars, labelVars, scene>>
    \/ /\ scene = "labels" /\ LabelsNext
       /\ UNCHANGED <<chunkVars, purgeVars, letterVars, migrationVars, indexVars, scene>>

MCSpec == MCInit /\ [][MCNext]_mcVars

RequestSymmetry == Permutations(Requests) \cup Permutations(Operators)
=============================================================================

------------------------------ MODULE ToolCalls ------------------------------
(***************************************************************************)
(* Requests of one user to the public API: MCP tools over HTTP and stdio,  *)
(* and REST routes, with an API key or an OAuth token.  A request is       *)
(* authenticated, its tool resolved, permission and quota checked; then    *)
(* its handler looks the user's workspaces up, one query at a time, and    *)
(* acts.  Memberships, roles and keys change between any two steps, and    *)
(* each query of MongoDB may fail.                                         *)
(***************************************************************************)
EXTENDS Naturals, FiniteSets, Sequences

CONSTANTS Workspaces,
          Calls,
          PackWorkspace,     \* the workspace bound to a vertical pack
          MaxChanges,        \* bound: changes of the control plane
          MaxLookupFaults,   \* bound: queries that fail
          NoWorkspace

ASSUME CallAssumption ==
    /\ PackWorkspace \in Workspaces
    /\ NoWorkspace \notin Workspaces
    /\ MaxChanges \in Nat
    /\ MaxLookupFaults \in Nat

VARIABLES keyScope,      \* api_keys.workspace_id, or NoWorkspace for a user-scoped key
          keyActive,     \* api_keys.status and expires_at
          permissions,   \* of the key, or of the token's scopes
          linked,        \* resolve_oauth_user finds a user for the token
          entries,       \* the user's entries in workspaces.members
          managed,       \* workspaces whose document has a members field
          uploads,       \* workspaces with processed_documents rows of the user
          call,          \* the request
          seen,          \* roles the user held in a workspace during the request
          published,     \* audit events of the request
          changes, lookupFaults

configVars == <<keyScope, permissions, linked, managed, uploads>>
callVars == <<configVars, keyActive, entries, call, seen, published, changes, lookupFaults>>

Permissions == {"read", "search", "write"}
Roles == {"member", "viewer"}

\* One tool for each way a handler of server.py goes through its checks.
Tools == {"search_knowledge", "get_context", "edit_chunk", "upload_document",
          "get_citations", "pack_profile", "no_such_tool"}
Registered == Tools \ {"pack_profile", "no_such_tool"}
Permission(tool) ==
    CASE tool \in {"edit_chunk", "upload_document"} -> "write"
      [] tool = "get_context" -> "read"
      [] OTHER -> "search"
ReturnsChunks(tool) == tool \in {"search_knowledge", "get_context", "get_citations",
                                 "pack_profile"}
HttpExposed(tool) == tool # "get_citations"
ByDocument(tool) == tool \in {"get_context", "edit_chunk"}

\* role_in_workspace_doc: the highest of the user's entries.  A workspace
\* without members lists its owner only, who counts as a member here.
BestRole(e) == IF "member" \in e THEN "member"
               ELSE IF "viewer" \in e THEN "viewer" ELSE "none"
RoleIn(w) == BestRole(entries[w])

Idle == [at |-> "idle", surface |-> "http", cred |-> "key", tool |-> "no_such_tool",
         want |-> NoWorkspace, phase |-> "handler", found |-> {}, pgOnly |-> {},
         bound |-> NoWorkspace, mongoOk |-> TRUE, faulted |-> FALSE, acted |-> {},
         reply |-> "none"]

CallInit ==
    /\ keyScope \in {NoWorkspace, PackWorkspace}
    /\ keyActive = TRUE
    /\ permissions \in {{"read", "search"}, Permissions}
    /\ linked \in BOOLEAN
    /\ managed \in {{}, Workspaces}
    /\ entries \in [Workspaces -> IF managed = {} THEN {{}, {"member"}}
                                 ELSE {{}, {"viewer"}, Roles}]
    /\ uploads \in {{}, Workspaces}
    /\ call = [c \in Calls |-> Idle]
    /\ seen = [c \in Calls |-> [w \in Workspaces |-> {}]]
    /\ published = [c \in Calls |-> <<>>]
    /\ changes = 0
    /\ lookupFaults = 0

LookupFault == /\ lookupFaults < MaxLookupFaults
               /\ lookupFaults' = lookupFaults + 1

Scope(c) == IF call[c].cred = "oauth" THEN NoWorkspace ELSE keyScope
Writes(c) == Permission(call[c].tool) = "write"

----------------------------------------------------------------------------
\* The control plane

OpenCall(c) == call[c].at \notin {"idle", "done"}

\* An entry of the user is added, changed or removed.
ChangeMembership(w, e) ==
    /\ changes < MaxChanges /\ \E c \in Calls : OpenCall(c)
    /\ w \in managed /\ e # entries[w]
    /\ changes' = changes + 1
    /\ entries' = [entries EXCEPT ![w] = e]
    /\ seen' = [c \in Calls |-> IF OpenCall(c)
                                THEN [seen[c] EXCEPT ![w] = @ \cup {BestRole(e)}]
                                ELSE seen[c]]
    /\ UNCHANGED <<configVars, keyActive, call, published, lookupFaults>>

RevokeKey ==
    /\ changes < MaxChanges /\ \E c \in Calls : OpenCall(c)
    /\ keyActive
    /\ changes' = changes + 1
    /\ keyActive' = FALSE
    /\ UNCHANGED <<configVars, entries, call, seen, published, lookupFaults>>

----------------------------------------------------------------------------
\* The way to the handler

Move(c, at) == call' = [call EXCEPT ![c].at = at]
Reply(c, reply) == call' = [call EXCEPT ![c].at = "done", ![c].reply = reply]
OnlyCall == UNCHANGED <<configVars, keyActive, entries, seen, published, changes, lookupFaults>>

\* Tools that return chunk text publish one audit event; REST routes audit
\* elsewhere.
Audited(c) == ReturnsChunks(call[c].tool) /\ call[c].surface # "rest"
Publish(c, outcome) ==
    published' = IF Audited(c) THEN [published EXCEPT ![c] = Append(@, outcome)] ELSE published

\* A denial before the handler, or an answer of the handler.
Answer(c, reply, outcome) ==
    /\ Reply(c, reply)
    /\ Publish(c, outcome)
    /\ UNCHANGED <<configVars, keyActive, entries, seen, changes, lookupFaults>>

BeginCall(c, surface, cred, tool, want) ==
    /\ call[c].at = "idle"
    /\ cred = "oauth" => surface = "http"
    /\ ByDocument(tool) => want # NoWorkspace
    /\ surface = "rest" => tool \in Registered \ {"get_citations"}
    /\ tool \in {"pack_profile", "no_such_tool"} => want = NoWorkspace
    /\ call' = [call EXCEPT ![c] = [Idle EXCEPT !.at = "auth", !.surface = surface,
                                        !.cred = cred, !.tool = tool, !.want = want]]
    /\ seen' = [seen EXCEPT ![c] = [w \in Workspaces |-> {RoleIn(w)}]]
    /\ UNCHANGED <<configVars, keyActive, entries, published, changes, lookupFaults>>

\* validate_api_key: status and expiry, read on every request.
ValidKey == keyActive
AuthenticateKey(c) ==
    /\ call[c].at = "auth" /\ call[c].cred = "key"
    /\ IF ValidKey THEN Move(c, "tool") ELSE Reply(c, "401")
    /\ OnlyCall

\* verify_oauth_token raises on a token it cannot verify.
RejectToken(c) ==
    /\ call[c].at = "auth" /\ call[c].cred = "oauth"
    /\ Reply(c, "401")
    /\ OnlyCall
\* resolve_oauth_user of a verified token.
AuthenticateToken(c) ==
    /\ call[c].at = "auth" /\ call[c].cred = "oauth"
    /\ \/ Move(c, "tool") /\ OnlyCall
       \/ /\ LookupFault
          /\ Reply(c, "503")
          /\ UNCHANGED <<configVars, keyActive, entries, seen, published, changes>>

Identified(c) == call[c].cred = "key" \/ linked

\* get_authorized_workspace_ids begins.
StartLookup(c, phase) ==
    [call EXCEPT ![c].at = IF Scope(c) # NoWorkspace THEN "scoped" ELSE "members",
                 ![c].phase = phase, ![c].found = {}, ![c].mongoOk = TRUE]

ResolveTool(c) ==
    /\ call[c].at = "tool"
    /\ \/ /\ call[c].tool \in Registered
          /\ call[c].surface = "http" => HttpExposed(call[c].tool)
          /\ Move(c, "permit")
       \/ /\ call[c].tool = "pack_profile" /\ call[c].surface = "http" /\ Identified(c)
          /\ call' = StartLookup(c, "profile")
       \/ /\ \/ call[c].tool = "no_such_tool"
             \/ call[c].tool = "pack_profile" /\ ~(call[c].surface = "http" /\ Identified(c))
             \/ ~HttpExposed(call[c].tool) /\ call[c].surface = "http"
          /\ Reply(c, "unknown")
    /\ OnlyCall

\* resolve_effective_pack: the profile of the only workspace, if it has a pack.
BindProfile(c) ==
    /\ call[c].at = "looked" /\ call[c].phase = "profile"
    /\ IF call[c].found = {PackWorkspace}
       THEN call' = [call EXCEPT ![c].at = "permit", ![c].bound = PackWorkspace]
       ELSE Reply(c, "unknown")
    /\ OnlyCall

ToHandler(c) == IF call[c].tool = "pack_profile" THEN [call EXCEPT ![c].at = "profile"]
                ELSE StartLookup(c, "handler")

Permit(c) ==
    /\ call[c].at = "permit" /\ Permission(call[c].tool) \in permissions
    /\ IF call[c].surface = "http" THEN Move(c, "quota") ELSE call' = ToHandler(c)
    /\ OnlyCall
PermissionDenied(c) ==
    /\ call[c].at = "permit" /\ Permission(call[c].tool) \notin permissions
    /\ Answer(c, "forbidden", "denied")

QuotaDenied(c) ==
    /\ call[c].at = "quota"
    /\ Answer(c, "quota", "denied")
Unlinked(c) ==
    /\ call[c].at = "quota" /\ ~Identified(c)
    /\ Answer(c, "unlinked", "denied")
QuotaGranted(c) ==
    /\ call[c].at = "quota" /\ Identified(c)
    /\ call' = ToHandler(c)
    /\ OnlyCall

----------------------------------------------------------------------------
\* get_authorized_workspace_ids, one query a step

WriteLookup(c) == Writes(c) /\ call[c].phase = "handler"

\* The query of a scoped key: fresh, and it raises when MongoDB fails.
LookupScoped(c) ==
    /\ call[c].at = "scoped"
    /\ LET role == RoleIn(keyScope)
           allowed == role # "none" /\ (WriteLookup(c) => role = "member")
       IN call' = [call EXCEPT ![c].at = "looked",
                               ![c].found = IF allowed THEN {keyScope} ELSE {}]
    /\ OnlyCall

LookupMembers(c) ==
    /\ call[c].at = "members"
    /\ call' = [call EXCEPT ![c].at = "uploads",
                            ![c].found = {w \in Workspaces : RoleIn(w) # "none"}]
    /\ OnlyCall
\* The failure is logged and the look-up goes on without MongoDB.
LookupMembersFails(c) ==
    /\ call[c].at = "members"
    /\ LookupFault
    /\ call' = [call EXCEPT ![c].at = "uploads", ![c].mongoOk = FALSE, ![c].faulted = TRUE]
    /\ UNCHANGED <<configVars, keyActive, entries, seen, published, changes>>

\* Mutant: a degraded look-up does not ask for the viewer's workspaces.
AfterUnionDegraded(c) == IF WriteLookup(c) /\ call[c].mongoOk THEN "viewers" ELSE "looked"
AfterUnion(c) == IF WriteLookup(c) THEN "viewers" ELSE "looked"

\* Workspaces known only from the user's uploads.
LookupUploads(c) ==
    /\ call[c].at = "uploads"
    /\ LET only == uploads \ call[c].found IN
       call' = IF only # {} /\ call[c].mongoOk
               THEN [call EXCEPT ![c].at = "managed", ![c].pgOnly = only]
               ELSE [call EXCEPT ![c].at = AfterUnion(c), ![c].found = @ \cup only]
    /\ OnlyCall
LookupUploadsFails(c) ==
    /\ call[c].at = "uploads"
    /\ LookupFault
    /\ Move(c, AfterUnion(c))
    /\ UNCHANGED <<configVars, keyActive, entries, seen, published, changes>>

\* Mutant: every workspace with an upload of the user counts.
LookupManagedNot(c) ==
    /\ call[c].at = "managed"
    /\ call' = [call EXCEPT ![c].at = AfterUnion(c), ![c].found = @ \cup call[c].pgOnly]
    /\ OnlyCall
LookupManaged(c) ==
    /\ call[c].at = "managed"
    /\ call' = [call EXCEPT ![c].at = AfterUnion(c),
                            ![c].found = @ \cup (call[c].pgOnly \ managed)]
    /\ OnlyCall
LookupManagedFails(c) ==
    /\ call[c].at = "managed"
    /\ LookupFault
    /\ call' = [call EXCEPT ![c].at = AfterUnion(c), ![c].faulted = TRUE,
                            ![c].found = @ \cup call[c].pgOnly]
    /\ UNCHANGED <<configVars, keyActive, entries, seen, published, changes>>

\* A viewer's workspaces are taken away from a write.
LookupViewers(c) ==
    /\ call[c].at = "viewers"
    /\ call' = [call EXCEPT ![c].at = "looked",
                            ![c].found = {w \in @ : RoleIn(w) # "viewer"}]
    /\ OnlyCall

\* A query whose failure is not caught: the key's own, the viewers', and the
\* owner of the workspace that is searched (data_plane_user_id).
Raising(c) ==
    \/ call[c].at \in {"scoped", "viewers", "profile"}
    \/ /\ call[c].at = "looked" /\ call[c].phase # "profile"
       /\ Permission(call[c].tool) = "search"
\* Mutant: an exception of the handler leaves no audit event.
LookupRaisesSilently(c) ==
    /\ Raising(c)
    /\ LookupFault
    /\ Reply(c, IF call[c].phase = "profile" /\ call[c].at = "scoped" THEN "unknown" ELSE "internal")
    /\ UNCHANGED <<configVars, keyActive, entries, seen, published, changes>>
LookupRaises(c) ==
    /\ Raising(c)
    /\ LookupFault
    /\ IF call[c].phase = "profile" /\ call[c].at = "scoped"
       THEN Reply(c, "unknown") /\ UNCHANGED published
       ELSE Reply(c, "internal") /\ Publish(c, "error")
    /\ UNCHANGED <<configVars, keyActive, entries, seen, changes>>

----------------------------------------------------------------------------
\* The handler

Act(c, targets) ==
    /\ call' = [call EXCEPT ![c].at = "done", ![c].reply = "ok", ![c].acted = targets]
    /\ Publish(c, "ok")
    /\ UNCHANGED <<configVars, keyActive, entries, seen, changes, lookupFaults>>

ReadyToAct(c) == call[c].at = "looked" /\ call[c].phase # "profile"

\* A profile tool searches the workspace it was bound to.
HandleProfile(c) ==
    /\ call[c].at = "profile"
    /\ Act(c, {call[c].bound})

\* _resolve_document_for_user, or a workspace named in the arguments.
HandleNamed(c) ==
    /\ ReadyToAct(c) /\ call[c].surface # "rest" /\ call[c].want # NoWorkspace
    /\ IF call[c].want \in call[c].found
       THEN Act(c, {call[c].want})
       ELSE Answer(c, "refused", "error")

\* A search covers every authorised workspace; with none it says so, and that
\* is no error.
HandleSearch(c) ==
    /\ ReadyToAct(c) /\ call[c].surface # "rest" /\ call[c].want = NoWorkspace
    /\ ~Writes(c)
    /\ Act(c, call[c].found)

HandleUpload(c) ==
    /\ ReadyToAct(c) /\ call[c].surface # "rest" /\ call[c].want = NoWorkspace
    /\ Writes(c)
    /\ IF Cardinality(call[c].found) = 1
       THEN Act(c, call[c].found)
       ELSE Answer(c, "refused", "error")

\* _resolve_workspace and the route.  A read without a workspace looks the
\* user's workspaces up a second time.
HandleRest(c) ==
    /\ ReadyToAct(c) /\ call[c].surface = "rest"
    /\ LET want == call[c].want
           found == call[c].found
           scoped == Scope(c) # NoWorkspace
       IN \/ /\ scoped
             /\ IF want \in {NoWorkspace, keyScope} /\ keyScope \in found
                THEN Act(c, {keyScope})
                ELSE Answer(c, "refused", "error")
          \/ /\ ~scoped /\ want # NoWorkspace
             /\ IF want \in found THEN Act(c, {want}) ELSE Answer(c, "refused", "error")
          \/ /\ ~scoped /\ want = NoWorkspace
             /\ IF Cardinality(found) = 1 \/ call[c].phase = "again"
                THEN Act(c, found)
                ELSE IF Writes(c) THEN Answer(c, "refused", "error")
                ELSE call' = StartLookup(c, "again") /\ OnlyCall

----------------------------------------------------------------------------
CallNext ==
    \/ \E w \in Workspaces, e \in SUBSET Roles : ChangeMembership(w, e)
    \/ RevokeKey
    \/ \E c \in Calls :
          \/ \E surface \in {"http", "stdio", "rest"}, cred \in {"key", "oauth"},
                tool \in Tools, want \in Workspaces \cup {NoWorkspace} :
                BeginCall(c, surface, cred, tool, want)
          \/ AuthenticateKey(c) \/ RejectToken(c) \/ AuthenticateToken(c)
          \/ ResolveTool(c) \/ BindProfile(c)
          \/ Permit(c) \/ PermissionDenied(c)
          \/ QuotaGranted(c) \/ QuotaDenied(c) \/ Unlinked(c)
          \/ LookupScoped(c)
          \/ LookupMembers(c) \/ LookupMembersFails(c)
          \/ LookupUploads(c) \/ LookupUploadsFails(c)
          \/ LookupManaged(c) \/ LookupManagedFails(c)
          \/ LookupViewers(c) \/ LookupRaises(c)
          \/ HandleProfile(c) \/ HandleNamed(c) \/ HandleSearch(c) \/ HandleUpload(c)
          \/ HandleRest(c)

CallSpec == CallInit /\ [][CallNext]_callVars

----------------------------------------------------------------------------
\* Properties

\* The state has its type.
CallTypeOK ==
    /\ entries \in [Workspaces -> SUBSET Roles]
    /\ keyScope \in Workspaces \cup {NoWorkspace} /\ keyActive \in BOOLEAN
    /\ \A c \in Calls :
          /\ call[c].found \subseteq Workspaces
          /\ call[c].acted \subseteq Workspaces
          /\ call[c].bound \in Workspaces \cup {NoWorkspace}
          /\ Len(published[c]) <= 1
    /\ changes \in 0 .. MaxChanges /\ lookupFaults \in 0 .. MaxLookupFaults

\* Who is a viewer of a workspace for the whole of a request writes nothing
\* into it, whichever queries of get_authorized_workspace_ids fail: the write
\* path subtracts the viewer's workspaces by a query that raises.
ViewerNeverWrites ==
    \A c \in Calls : Writes(c) => \A w \in call[c].acted : seen[c][w] # {"viewer"}

\* Who is no member for the whole of a request is served by it only through
\* the fallback on uploads, and in a workspace whose members are managed only
\* if a query of MongoDB failed.  A key bound to a workspace has no fallback.
RemovedIsRefused ==
    \A c \in Calls : \A w \in call[c].acted :
        seen[c][w] = {"none"} =>
            /\ Scope(c) = NoWorkspace /\ w \in uploads
            /\ w \in managed => call[c].faulted

\* A request to a tool that returns text has exactly one audit event once it
\* is answered, and the event says whether the handler was reached and whether
\* text was returned.
AuditTellsTheOutcome ==
    CallTypeOK /\ \A c \in Calls :
        /\ call[c].at # "done" => published[c] = <<>>
        /\ call[c].at = "done" /\ Audited(c) =>
              published[c] = CASE call[c].reply \in {"401", "503", "unknown"} -> <<>>
                               [] call[c].reply \in {"forbidden", "quota", "unlinked"} -> <<"denied">>
                               [] call[c].reply \in {"refused", "internal"} -> <<"error">>
                               [] call[c].reply = "ok" -> <<"ok">>
=============================================================================

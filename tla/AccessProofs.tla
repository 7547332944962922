---------------------------- MODULE AccessProofs ----------------------------
(***************************************************************************)
(* Proofs about a request to the public API: about ToolCalls, for any      *)
(* number of workspaces, requests, changes of the control plane and        *)
(* failing queries; and about RateLimits, for any limits, windows and      *)
(* callers.                                                                *)
(***************************************************************************)
EXTENDS ToolCalls, RateLimits, SequenceTheorems, FiniteSetTheorems, TLAPS

Stages == {"idle", "auth", "tool", "permit", "quota", "scoped", "members", "uploads", "managed",
           "viewers", "looked", "profile", "done"}
Replies == {"none", "401", "503", "unknown", "forbidden", "quota", "unlinked", "refused",
            "internal", "ok"}

CallRecord ==
    [at : Stages, surface : {"http", "stdio", "rest"}, cred : {"key", "oauth"}, tool : Tools,
     want : Workspaces \cup {NoWorkspace}, phase : {"handler", "profile", "again"},
     found : SUBSET Workspaces, pgOnly : SUBSET Workspaces,
     bound : Workspaces \cup {NoWorkspace}, mongoOk : BOOLEAN, faulted : BOOLEAN,
     acted : SUBSET Workspaces, reply : Replies]

Config ==
    /\ entries \in [Workspaces -> SUBSET Roles]
    /\ keyScope \in Workspaces \cup {NoWorkspace} /\ keyActive \in BOOLEAN
    /\ managed \subseteq Workspaces /\ uploads \subseteq Workspaces
    /\ changes \in 0 .. MaxChanges /\ lookupFaults \in 0 .. MaxLookupFaults

(* A request with record r, the roles s seen during it and the events p.   *)

ScopeOf(r) == IF r.cred = "oauth" THEN NoWorkspace ELSE keyScope
WritesBy(r) == Permission(r.tool) = "write"
AuditedOf(r) == ReturnsChunks(r.tool) /\ r.surface # "rest"
OpenAt(r) == r.at \notin {"idle", "done"}

(* The user held a role in w, or only the fallback on uploads speaks for w. *)
Served(r, s, w) ==
    \/ \E x \in s[w] : x # "none"
    \/ ScopeOf(r) = NoWorkspace /\ w \in uploads /\ (w \in managed => r.faulted)

(* The user was not a viewer all the time. *)
NotViewer(s, w) == \E x \in s[w] : x # "viewer"

(* The role that counts now is among the roles seen. *)
RolesSeen(r, s) == OpenAt(r) => \A w \in Workspaces : RoleIn(w) \in s[w]

(* What the look-up has found so far. *)
FoundTrue(r, s) ==
    /\ \A w \in r.found : Served(r, s, w)
    /\ WritesBy(r) /\ r.at = "looked" => \A w \in r.found : NotViewer(s, w)
    /\ r.bound \in Workspaces => Served(r, s, r.bound)

(* How the request got where it is. *)
PathTrue(r) ==
    /\ r.at \in {"members", "uploads", "managed", "viewers"} => ScopeOf(r) = NoWorkspace
    /\ r.at = "scoped" => ScopeOf(r) = keyScope /\ keyScope \in Workspaces
    /\ r.pgOnly \subseteq uploads
    /\ ~r.mongoOk => r.faulted
    /\ WritesBy(r) => r.phase = "handler"
    /\ r.at \in {"permit", "quota"} /\ r.tool = "pack_profile" => r.bound \in Workspaces
    /\ r.at = "profile" => ~WritesBy(r) /\ r.bound \in Workspaces

Outcome(r) ==
    IF ~AuditedOf(r) \/ r.reply \in {"401", "503", "unknown"} THEN <<>>
    ELSE IF r.reply \in {"forbidden", "quota", "unlinked"} THEN <<"denied">>
    ELSE IF r.reply \in {"refused", "internal"} THEN <<"error">> ELSE <<"ok">>

(* What the request has done and what it has told the audit pipeline. *)
ActedTrue(r, s, p) ==
    /\ \A w \in r.acted : Served(r, s, w) /\ (WritesBy(r) => NotViewer(s, w))
    /\ r.at # "done" => p = <<>> /\ r.acted = {}
    /\ r.at = "done" => p = Outcome(r) /\ r.reply # "none"

CallOK(r, s, p) == RolesSeen(r, s) /\ FoundTrue(r, s) /\ PathTrue(r) /\ ActedTrue(r, s, p)

Seen == [Workspaces -> SUBSET {"member", "viewer", "none"}]
Events == {<<>>, <<"ok">>, <<"denied">>, <<"error">>}

Typed ==
    /\ call \in [Calls -> CallRecord]
    /\ seen \in [Calls -> Seen] /\ published \in [Calls -> Events]

CallInv == Config /\ Typed /\ \A c \in Calls : CallOK(call[c], seen[c], published[c])

-----------------------------------------------------------------------------
(* Lemmas about the model's steps.                                         *)

LEMMA IdleType ==
    Idle \in CallRecord
  BY DEF Idle, CallRecord, Stages, Replies, Tools

(* A step of request c that turns its record into r and its events into p. *)
LEMMA OneCall ==
    ASSUME CallInv, NEW c \in Calls, NEW r \in CallRecord, NEW s \in Seen, NEW p \in Events,
           call' = [call EXCEPT ![c] = r], seen' = [seen EXCEPT ![c] = s],
           published' = [published EXCEPT ![c] = p],
           UNCHANGED <<configVars, entries>>, Config', CallOK(r, s, p)
    PROVE  CallInv'
<1>1. Typed /\ \A d \in Calls : CallOK(call[d], seen[d], published[d])
  BY DEF CallInv
<1>2. UNCHANGED <<keyScope, uploads, managed, entries>>
  BY DEF configVars
<1>3. Typed'
  BY <1>1 DEF Typed
<1>4. ASSUME NEW d \in Calls
      PROVE  CallOK(call[d], seen[d], published[d])'
  <2>1. CASE d = c
    <3>1. call'[d] = r /\ seen'[d] = s /\ published'[d] = p
      BY <1>1, <2>1 DEF Typed
    <3> QED
      BY <1>2, <3>1 DEF CallOK, RolesSeen, FoundTrue, PathTrue, ActedTrue, Served, RoleIn, ScopeOf
  <2>2. CASE d # c
    <3>1. call'[d] = call[d] /\ seen'[d] = seen[d] /\ published'[d] = published[d]
      BY <1>1, <2>2 DEF Typed
    <3>2. CallOK(call[d], seen[d], published[d])
      BY <1>1
    <3> QED
      BY <1>2, <3>1, <3>2
      DEF CallOK, RolesSeen, FoundTrue, PathTrue, ActedTrue, Served, RoleIn, ScopeOf
  <2> QED
    BY <2>1, <2>2
<1> QED
  BY <1>3, <1>4 DEF CallInv

(* The same when only the record changes. *)
LEMMA RecordOnly ==
    ASSUME CallInv, NEW c \in Calls, NEW r \in CallRecord, call' = [call EXCEPT ![c] = r],
           UNCHANGED <<configVars, entries, seen, published>>, Config',
           CallOK(r, seen[c], published[c])
    PROVE  CallInv'
<1>1. Typed
  BY DEF CallInv
<1>2. seen' = [seen EXCEPT ![c] = seen[c]] /\ published' = [published EXCEPT ![c] = published[c]]
  BY <1>1 DEF Typed
<1>3. seen[c] \in Seen /\ published[c] \in Events
  BY <1>1 DEF Typed
<1> QED
  BY <1>2, <1>3, OneCall

(* The counters of the bounds stay in their types. *)
LEMMA ConfigKept ==
    ASSUME Config, UNCHANGED <<configVars, keyActive, entries, changes>>,
           lookupFaults' = lookupFaults \/ LookupFault
    PROVE  Config'
<1>1. lookupFaults' \in 0 .. MaxLookupFaults
  BY CallAssumption DEF Config, LookupFault
<1> QED
  BY <1>1 DEF Config, configVars

(* An open request moves on to stage a, and nothing else changes. *)
LEMMA MoveKeeps ==
    ASSUME CallInv, NEW c \in Calls, NEW a \in Stages, Move(c, a), OpenAt(call[c]),
           UNCHANGED <<configVars, entries, seen, published>>, Config',
           a \in {"tool", "permit", "quota", "viewers", "looked"},
           a = "viewers" => call[c].at \in {"uploads", "managed"},
           a = "looked" => ~WritesBy(call[c]),
           a = "permit" => call[c].tool # "pack_profile",
           a = "quota" => call[c].at = "permit"
    PROVE  CallInv'
<1>1. Typed /\ CallOK(call[c], seen[c], published[c])
  BY DEF CallInv
<1>2. PICK r \in CallRecord : r = call[c]
  BY <1>1 DEF Typed
<1>3. PICK q : q = [r EXCEPT !.at = a]
  OBVIOUS
<1>4. q \in CallRecord
  BY <1>2, <1>3 DEF CallRecord
<1>5. call' = [call EXCEPT ![c] = q]
  BY <1>2, <1>3 DEF Move
<1>6. CallOK(q, seen[c], published[c])
  <2>1. /\ q.at = a /\ q.found = r.found /\ q.bound = r.bound /\ q.cred = r.cred /\ q.tool = r.tool
        /\ q.faulted = r.faulted /\ q.pgOnly = r.pgOnly /\ q.mongoOk = r.mongoOk
        /\ q.phase = r.phase /\ q.acted = r.acted
    BY <1>3 DEF CallRecord
  <2>2. \A w : Served(q, seen[c], w) <=> Served(r, seen[c], w)
    BY <2>1 DEF Served, ScopeOf
  <2> QED
    BY <1>1, <1>2, <2>1, <2>2
    DEF CallOK, RolesSeen, FoundTrue, PathTrue, ActedTrue, ScopeOf, OpenAt, WritesBy
<1> QED
  BY <1>4, <1>5, <1>6, RecordOnly

(* The record of a request answered with x, having acted on the workspaces A. *)
Ended(r, x, A) == [r EXCEPT !.at = "done", !.reply = x, !.acted = A]

LEMMA EndedRecord ==
    ASSUME NEW r \in CallRecord, NEW x \in Replies, NEW A \in SUBSET Workspaces, NEW q,
           q = Ended(r, x, A)
    PROVE  /\ q \in CallRecord /\ q.at = "done" /\ q.found = r.found /\ q.bound = r.bound
           /\ q.cred = r.cred /\ q.tool = r.tool /\ q.surface = r.surface
           /\ q.faulted = r.faulted /\ q.pgOnly = r.pgOnly
           /\ q.mongoOk = r.mongoOk /\ q.phase = r.phase /\ q.acted = A /\ q.reply = x
  BY DEF Ended, CallRecord, Stages

LEMMA EndedOK ==
    ASSUME NEW r \in CallRecord, NEW s, NEW p, CallOK(r, s, p), NEW x \in Replies \ {"none"},
           NEW A \in SUBSET Workspaces, NEW q, q = Ended(r, x, A),
           \A w \in A : Served(r, s, w) /\ (WritesBy(r) => NotViewer(s, w))
    PROVE  CallOK(q, s, Outcome(q))
<1>1. /\ q.at = "done" /\ q.found = r.found /\ q.bound = r.bound /\ q.cred = r.cred
      /\ q.tool = r.tool /\ q.faulted = r.faulted /\ q.pgOnly = r.pgOnly
      /\ q.mongoOk = r.mongoOk /\ q.phase = r.phase /\ q.acted = A /\ q.reply = x
  BY EndedRecord
<1>2. \A w : Served(q, s, w) <=> Served(r, s, w)
  BY <1>1 DEF Served, ScopeOf
<1>3. WritesBy(q) <=> WritesBy(r)
  BY <1>1 DEF WritesBy
<1>4. RolesSeen(q, s) /\ FoundTrue(q, s)
  BY <1>1, <1>2, <1>3 DEF CallOK, RolesSeen, FoundTrue, OpenAt
<1>5. PathTrue(q)
  BY <1>1, <1>3 DEF CallOK, PathTrue
<1>6. ActedTrue(q, s, Outcome(q))
  BY <1>1, <1>2, <1>3 DEF ActedTrue
<1> QED
  BY <1>4, <1>5, <1>6 DEF CallOK

LEMMA EndKeeps ==
    ASSUME CallInv, NEW c \in Calls, OpenAt(call[c]), NEW x \in Replies \ {"none"},
           NEW A \in SUBSET Workspaces, NEW r \in CallRecord, r = call[c], NEW q,
           q = Ended(r, x, A),
           \A w \in A : Served(r, seen[c], w) /\ (WritesBy(r) => NotViewer(seen[c], w)),
           call' = [call EXCEPT ![c] = q], published' = [published EXCEPT ![c] = Outcome(q)],
           UNCHANGED <<configVars, entries, seen>>, Config'
    PROVE  CallInv'
<1>1. Typed /\ CallOK(r, seen[c], published[c])
  BY DEF CallInv
<1>2. q \in CallRecord
  BY EndedRecord
<1>3. PICK s \in Seen : s = seen[c]
  BY <1>1 DEF Typed
<1>4. PICK p \in Events : p = Outcome(q)
  BY DEF Outcome, Events
<1>5. CallOK(q, s, p)
  BY <1>1, <1>3, <1>4, EndedOK
<1>6. seen' = [seen EXCEPT ![c] = s] /\ published' = [published EXCEPT ![c] = p]
  BY <1>1, <1>3, <1>4 DEF Typed
<1> QED
  BY <1>2, <1>5, <1>6, OneCall

LEMMA ReplyKeeps ==
    ASSUME CallInv, NEW c \in Calls, OpenAt(call[c]), NEW x \in {"401", "503", "unknown"},
           Reply(c, x), UNCHANGED <<configVars, entries, seen, published>>, Config'
    PROVE  CallInv'
<1>1. Typed /\ ActedTrue(call[c], seen[c], published[c])
  BY DEF CallInv, CallOK
<1>2. PICK r \in CallRecord : r = call[c]
  BY <1>1 DEF Typed
<1>3. r.acted = {} /\ published[c] = <<>>
  BY <1>1, <1>2 DEF ActedTrue, OpenAt
<1>4. PICK q : q = Ended(r, x, {})
  OBVIOUS
<1>5. call' = [call EXCEPT ![c] = q]
  <2>1. q = [r EXCEPT !.at = "done", !.reply = x]
    BY <1>3, <1>4 DEF CallRecord, Ended
  <2> QED
    BY <1>1, <1>2, <2>1 DEF Reply, Typed, CallRecord
<1>6. q.reply = x
  BY <1>4, EndedRecord DEF Replies
<1>7. x \in Replies \ {"none"}
  BY DEF Replies
<1>8. Outcome(q) = published[c]
  BY <1>3, <1>6 DEF Outcome
<1>9. CallOK(q, seen[c], published[c])
  <2>1. CallOK(r, seen[c], published[c])
    BY <1>2 DEF CallInv
  <2>2. CallOK(q, seen[c], Outcome(q))
    BY <1>4, <1>7, <2>1, EndedOK
  <2> QED
    BY <1>8, <2>2
<1>10. q \in CallRecord
  BY <1>4, <1>7, EndedRecord
<1> QED
  BY <1>5, <1>9, <1>10, RecordOnly

(* The event of an answer is the one that its reply calls for. *)
Fits(x, o) ==
    \/ x \in {"forbidden", "quota", "unlinked"} /\ o = "denied"
    \/ x \in {"refused", "internal"} /\ o = "error"
    \/ x = "ok" /\ o = "ok"

LEMMA PublishIs ==
    ASSUME CallInv, NEW c \in Calls, OpenAt(call[c]), NEW x, NEW o, Fits(x, o), Publish(c, o), NEW q,
           q.tool = call[c].tool, q.surface = call[c].surface, q.reply = x
    PROVE  published' = [published EXCEPT ![c] = Outcome(q)]
<1>1. published \in [Calls -> Events] /\ published[c] = <<>>
  BY DEF CallInv, Typed, CallOK, ActedTrue, OpenAt
<1>2. AuditedOf(q) <=> Audited(c)
  BY DEF AuditedOf, Audited
<1>3. CASE Audited(c)
  <2>1. Append(<<>>, o) = <<o>>
    OBVIOUS
  <2>2. Outcome(q) = <<o>>
    BY <1>2, <1>3 DEF Outcome, Fits
  <2>3. published' = [published EXCEPT ![c] = Append(published[c], o)]
    BY <1>3 DEF Publish
  <2> QED
    BY <1>1, <2>1, <2>2, <2>3
<1>4. CASE ~Audited(c)
  <2>1. Outcome(q) = <<>>
    BY <1>2, <1>4 DEF Outcome
  <2> QED
    BY <1>1, <1>4, <2>1 DEF Publish
<1> QED
  BY <1>3, <1>4

LEMMA AnswerKeeps ==
    ASSUME CallInv, NEW c \in Calls, OpenAt(call[c]), NEW x \in Replies, NEW o, Fits(x, o),
           Reply(c, x), Publish(c, o), UNCHANGED <<configVars, entries, seen>>, Config'
    PROVE  CallInv'
<1>1. Typed /\ ActedTrue(call[c], seen[c], published[c])
  BY DEF CallInv, CallOK
<1>2. PICK r \in CallRecord : r = call[c]
  BY <1>1 DEF Typed
<1>3. r.acted = {}
  BY <1>1, <1>2 DEF ActedTrue, OpenAt
<1>4. PICK q : q = Ended(r, x, {})
  OBVIOUS
<1>5. call' = [call EXCEPT ![c] = q]
  <2>1. q = [r EXCEPT !.at = "done", !.reply = x]
    BY <1>3, <1>4 DEF CallRecord, Ended
  <2> QED
    BY <1>1, <1>2, <2>1 DEF Reply, Typed, CallRecord
<1>6. q.reply = x /\ q.tool = r.tool /\ q.surface = r.surface
  BY <1>4, EndedRecord DEF Replies
<1>7. published' = [published EXCEPT ![c] = Outcome(q)]
  BY <1>2, <1>6, PublishIs
<1>8. x \in Replies \ {"none"} /\ {} \in SUBSET Workspaces
  BY DEF Fits
<1> QED
  BY <1>2, <1>4, <1>5, <1>7, <1>8, EndKeeps

LEMMA ActKeeps ==
    ASSUME CallInv, NEW c \in Calls, OpenAt(call[c]), NEW A \in SUBSET Workspaces, Act(c, A),
           \A w \in A : /\ Served(call[c], seen[c], w)
                        /\ WritesBy(call[c]) => NotViewer(seen[c], w)
    PROVE  CallInv'
<1>1. Typed /\ Config
  BY DEF CallInv
<1>2. PICK r \in CallRecord : r = call[c]
  BY <1>1 DEF Typed
<1>3. PICK q : q = Ended(r, "ok", A)
  OBVIOUS
<1>4. call' = [call EXCEPT ![c] = q]
  BY <1>1, <1>2, <1>3 DEF Act, Typed, CallRecord, Ended
<1>5. q.reply = "ok" /\ q.tool = r.tool /\ q.surface = r.surface
  BY <1>3, EndedRecord DEF Replies
<1>6. /\ Publish(c, "ok") /\ UNCHANGED <<configVars, entries, seen>>
      /\ UNCHANGED <<keyActive, changes, lookupFaults>>
  BY DEF Act
<1>7. published' = [published EXCEPT ![c] = Outcome(q)]
  <2>1. Fits("ok", "ok")
    BY DEF Fits
  <2> QED
    BY <1>2, <1>5, <1>6, <2>1, PublishIs
<1>8. "ok" \in Replies \ {"none"} /\ Config'
  BY <1>1, <1>6, ConfigKept DEF Replies
<1> QED
  BY <1>2, <1>3, <1>4, <1>6, <1>7, <1>8, EndKeeps

(* A look-up begins. *)
LEMMA StartKeeps ==
    ASSUME CallInv, NEW c \in Calls, OpenAt(call[c]), NEW ph \in {"handler", "profile", "again"},
           call' = StartLookup(c, ph), WritesBy(call[c]) => ph = "handler",
           UNCHANGED <<configVars, entries, seen, published>>, Config'
    PROVE  CallInv'
<1>1. Config /\ Typed /\ CallOK(call[c], seen[c], published[c])
  BY DEF CallInv
<1>2. PICK r \in CallRecord : r = call[c]
  BY <1>1 DEF Typed
<1>3. PICK a \in {"scoped", "members"} : a = IF ScopeOf(r) # NoWorkspace THEN "scoped" ELSE "members"
  OBVIOUS
<1>4. PICK q : q = [r EXCEPT !.at = a, !.phase = ph, !.found = {}, !.mongoOk = TRUE]
  OBVIOUS
<1>5. Scope(c) = ScopeOf(r)
  BY <1>2 DEF Scope, ScopeOf
<1>6. call' = [call EXCEPT ![c] = q]
  BY <1>1, <1>2, <1>3, <1>4, <1>5 DEF StartLookup, Typed, CallRecord
<1>7. q \in CallRecord
  BY <1>4 DEF CallRecord, Stages
<1>8. CallOK(q, seen[c], published[c])
  <2>1. /\ q.at = a /\ q.found = {} /\ q.bound = r.bound /\ q.cred = r.cred
        /\ q.tool = r.tool /\ q.faulted = r.faulted /\ q.pgOnly = r.pgOnly
        /\ q.mongoOk = TRUE /\ q.phase = ph /\ q.acted = r.acted
    BY <1>4 DEF CallRecord
  <2>2. \A w : Served(q, seen[c], w) <=> Served(r, seen[c], w)
    BY <2>1 DEF Served, ScopeOf
  <2>3. (WritesBy(q) <=> WritesBy(r)) /\ ScopeOf(q) = ScopeOf(r)
    BY <2>1 DEF WritesBy, ScopeOf
  <2>4. RolesSeen(q, seen[c]) /\ FoundTrue(q, seen[c])
    BY <1>1, <1>2, <2>1, <2>2, <2>3 DEF CallOK, RolesSeen, FoundTrue, OpenAt
  <2>5. PathTrue(q)
    <3>1. a = "scoped" => ScopeOf(r) = keyScope /\ keyScope \in Workspaces
      BY <1>1, <1>3 DEF ScopeOf, Config
    <3> QED
      BY <1>1, <1>2, <1>3, <2>1, <2>3, <3>1 DEF CallOK, PathTrue
  <2>6. ActedTrue(q, seen[c], published[c])
    BY <1>1, <1>2, <2>1 DEF CallOK, ActedTrue, OpenAt
  <2> QED
    BY <2>4, <2>5, <2>6 DEF CallOK
<1> QED
  BY <1>6, <1>7, <1>8, RecordOnly

(* A look-up goes on to stage a with the workspaces F found, those of P    *)
(* known from uploads only, and m and z for the state of MongoDB.          *)
Looked(r, a, F, P, m, z) ==
    [r EXCEPT !.at = a, !.found = F, !.pgOnly = P, !.mongoOk = m, !.faulted = z]

(* What a query of the look-up may make of the record r, given the roles s. *)
Goes(r, q, s) ==
    /\ q \in CallRecord /\ r.at \in {"scoped", "members", "uploads", "managed", "viewers"}
    /\ q.at \in {"uploads", "managed", "viewers", "looked"}
    /\ q.at # "looked" => r.at # "scoped"
    /\ q.bound = r.bound /\ q.cred = r.cred /\ q.tool = r.tool /\ q.phase = r.phase
    /\ q.acted = r.acted /\ q.pgOnly \subseteq uploads
    /\ (r.faulted => q.faulted) /\ (~q.mongoOk => q.faulted)
    /\ \A w \in q.found : /\ Served(q, s, w)
                          /\ WritesBy(r) /\ q.at = "looked" => NotViewer(s, w)

LEMMA LookupKeeps ==
    ASSUME CallInv, NEW c \in Calls, NEW r \in CallRecord, r = call[c], NEW q,
           Goes(r, q, seen[c]), call' = [call EXCEPT ![c] = q],
           UNCHANGED <<configVars, entries, seen, published>>, Config'
    PROVE  CallInv'
<1>1. Config /\ Typed /\ CallOK(r, seen[c], published[c])
  BY DEF CallInv
<1>2. q \in CallRecord
  BY DEF Goes
<1>3. CallOK(q, seen[c], published[c])
  <2>1. (WritesBy(q) <=> WritesBy(r)) /\ ScopeOf(q) = ScopeOf(r)
    BY DEF WritesBy, ScopeOf, Goes
  <2>2. \A w : Served(r, seen[c], w) => Served(q, seen[c], w)
    BY <2>1 DEF Served, Goes
  <2>3. RolesSeen(q, seen[c]) /\ FoundTrue(q, seen[c])
    BY <1>1, <2>1, <2>2 DEF CallOK, RolesSeen, FoundTrue, OpenAt, Goes
  <2>4. PathTrue(q)
    BY <1>1, <2>1 DEF CallOK, PathTrue, Goes
  <2>5. ActedTrue(q, seen[c], published[c])
    BY <1>1 DEF CallOK, ActedTrue, Goes
  <2> QED
    BY <2>3, <2>4, <2>5 DEF CallOK
<1> QED
  BY <1>2, <1>3, RecordOnly

-----------------------------------------------------------------------------
(* The way to the handler.                                                 *)

LEMMA OnlyCallKeeps ==
    ASSUME CallInv, OnlyCall
    PROVE  Config' /\ UNCHANGED <<configVars, entries, seen, published>>
<1>1. UNCHANGED <<configVars, keyActive, entries, changes>> /\ lookupFaults' = lookupFaults
  BY DEF OnlyCall
<1>2. Config'
  BY <1>1, ConfigKept DEF CallInv
<1> QED
  BY <1>2 DEF OnlyCall

LEMMA FaultKeeps ==
    ASSUME CallInv, LookupFault, UNCHANGED <<configVars, keyActive, entries, changes>>
    PROVE  Config'
  BY ConfigKept DEF CallInv

LEMMA AuthenticateKeyKeeps ==
    ASSUME CallInv, NEW c \in Calls, AuthenticateKey(c)
    PROVE  CallInv'
<1>1. OpenAt(call[c]) /\ OnlyCall
  BY DEF AuthenticateKey, OpenAt
<1>2. CASE Move(c, "tool")
  BY <1>1, <1>2, OnlyCallKeeps, MoveKeeps DEF Stages
<1>3. CASE Reply(c, "401")
  BY <1>1, <1>3, OnlyCallKeeps, ReplyKeeps
<1> QED
  BY <1>2, <1>3 DEF AuthenticateKey

LEMMA RejectTokenKeeps ==
    ASSUME CallInv, NEW c \in Calls, RejectToken(c)
    PROVE  CallInv'
<1>1. OpenAt(call[c]) /\ OnlyCall /\ Reply(c, "401")
  BY DEF RejectToken, OpenAt
<1> QED
  BY <1>1, OnlyCallKeeps, ReplyKeeps

LEMMA AuthenticateTokenKeeps ==
    ASSUME CallInv, NEW c \in Calls, AuthenticateToken(c)
    PROVE  CallInv'
<1>1. OpenAt(call[c])
  BY DEF AuthenticateToken, OpenAt
<1>2. CASE Move(c, "tool") /\ OnlyCall
  BY <1>1, <1>2, OnlyCallKeeps, MoveKeeps DEF Stages
<1>3. CASE /\ LookupFault /\ Reply(c, "503")
           /\ UNCHANGED <<configVars, keyActive, entries, seen, published, changes>>
  <2>1. Config' /\ UNCHANGED <<configVars, entries, seen, published>>
    BY <1>3, FaultKeeps
  <2> QED
    BY <1>1, <1>3, <2>1, ReplyKeeps
<1> QED
  BY <1>2, <1>3 DEF AuthenticateToken

LEMMA ResolveToolKeeps ==
    ASSUME CallInv, NEW c \in Calls, ResolveTool(c)
    PROVE  CallInv'
<1>1. OpenAt(call[c]) /\ OnlyCall
  BY DEF ResolveTool, OpenAt
<1>2. Config' /\ UNCHANGED <<configVars, entries, seen, published>>
  BY <1>1, OnlyCallKeeps
<1>3. CASE Move(c, "permit") /\ call[c].tool \in Registered
  <2>1. call[c].tool # "pack_profile"
    BY <1>3 DEF Registered
  <2> QED
    BY <1>1, <1>2, <1>3, <2>1, MoveKeeps DEF Stages
<1>4. CASE call[c].tool = "pack_profile" /\ call' = StartLookup(c, "profile")
  <2>1. ~WritesBy(call[c])
    BY <1>4 DEF WritesBy, Permission
  <2> QED
    BY <1>1, <1>2, <1>4, <2>1, StartKeeps
<1>5. CASE Reply(c, "unknown")
  BY <1>1, <1>2, <1>5, ReplyKeeps
<1> QED
  BY <1>3, <1>4, <1>5 DEF ResolveTool

LEMMA BindProfileKeeps ==
    ASSUME CallInv, NEW c \in Calls, BindProfile(c)
    PROVE  CallInv'
<1>1. OpenAt(call[c]) /\ OnlyCall /\ call[c].phase = "profile"
  BY DEF BindProfile, OpenAt
<1>2. Config' /\ UNCHANGED <<configVars, entries, seen, published>>
  BY <1>1, OnlyCallKeeps
<1>3. CASE Reply(c, "unknown")
  BY <1>1, <1>2, <1>3, ReplyKeeps
<1>4. CASE /\ call[c].found = {PackWorkspace}
           /\ call' = [call EXCEPT ![c].at = "permit", ![c].bound = PackWorkspace]
  <2>1. Typed /\ CallOK(call[c], seen[c], published[c])
    BY DEF CallInv
  <2>2. PICK r \in CallRecord : r = call[c]
    BY <2>1 DEF Typed
  <2>3. PICK q : q = [r EXCEPT !.at = "permit", !.bound = PackWorkspace]
    OBVIOUS
  <2>4. /\ q \in CallRecord /\ q.at = "permit" /\ q.found = r.found /\ q.bound = PackWorkspace
        /\ q.cred = r.cred /\ q.tool = r.tool /\ q.faulted = r.faulted /\ q.pgOnly = r.pgOnly
        /\ q.mongoOk = r.mongoOk /\ q.phase = r.phase /\ q.acted = r.acted
    BY <2>3, CallAssumption DEF CallRecord, Stages
  <2>5. call' = [call EXCEPT ![c] = q]
    BY <1>4, <2>1, <2>2, <2>3 DEF Typed, CallRecord
  <2>6. \A w : Served(q, seen[c], w) <=> Served(r, seen[c], w)
    BY <2>4 DEF Served, ScopeOf
  <2>7. WritesBy(q) <=> WritesBy(r)
    BY <2>4 DEF WritesBy
  <2>8. ~WritesBy(r)
    BY <1>1, <2>1, <2>2 DEF CallOK, PathTrue
  <2>9. Served(r, seen[c], PackWorkspace)
    BY <1>4, <2>1, <2>2 DEF CallOK, FoundTrue
  <2>10. RolesSeen(q, seen[c]) /\ FoundTrue(q, seen[c])
    BY <1>1, <2>1, <2>2, <2>4, <2>6, <2>7, <2>9 DEF CallOK, RolesSeen, FoundTrue, OpenAt
  <2>11. PathTrue(q)
    BY <2>1, <2>2, <2>4, <2>7, <2>8, CallAssumption DEF CallOK, PathTrue
  <2>12. ActedTrue(q, seen[c], published[c])
    BY <1>1, <2>1, <2>2, <2>4 DEF CallOK, ActedTrue, OpenAt
  <2>13. CallOK(q, seen[c], published[c])
    BY <2>10, <2>11, <2>12 DEF CallOK
  <2> QED
    BY <1>2, <2>4, <2>5, <2>13, RecordOnly
<1> QED
  BY <1>3, <1>4 DEF BindProfile

(* A permitted request reaches its handler. *)
LEMMA ToHandlerKeeps ==
    ASSUME CallInv, NEW c \in Calls, call[c].at \in {"permit", "quota"}, call' = ToHandler(c),
           UNCHANGED <<configVars, entries, seen, published>>, Config'
    PROVE  CallInv'
<1>1. OpenAt(call[c])
  BY DEF OpenAt
<1>2. CASE call[c].tool # "pack_profile"
  <2>1. call' = StartLookup(c, "handler")
    BY <1>2 DEF ToHandler
  <2> QED
    BY <1>1, <2>1, StartKeeps
<1>3. CASE call[c].tool = "pack_profile"
  <2>1. Typed /\ CallOK(call[c], seen[c], published[c])
    BY DEF CallInv
  <2>2. PICK r \in CallRecord : r = call[c]
    BY <2>1 DEF Typed
  <2>3. PICK q : q = [r EXCEPT !.at = "profile"]
    OBVIOUS
  <2>4. /\ q \in CallRecord /\ q.at = "profile" /\ q.found = r.found /\ q.bound = r.bound
        /\ q.cred = r.cred /\ q.tool = r.tool /\ q.faulted = r.faulted /\ q.pgOnly = r.pgOnly
        /\ q.mongoOk = r.mongoOk /\ q.phase = r.phase /\ q.acted = r.acted
    BY <2>3 DEF CallRecord, Stages
  <2>5. call' = [call EXCEPT ![c] = q]
    BY <1>3, <2>1, <2>2, <2>3 DEF Typed, CallRecord, ToHandler
  <2>6. \A w : Served(q, seen[c], w) <=> Served(r, seen[c], w)
    BY <2>4 DEF Served, ScopeOf
  <2>7. ~WritesBy(q) /\ ~WritesBy(r)
    BY <1>3, <2>2, <2>4 DEF WritesBy, Permission
  <2>8. r.bound \in Workspaces
    BY <1>3, <2>1, <2>2 DEF CallOK, PathTrue
  <2>9. RolesSeen(q, seen[c]) /\ FoundTrue(q, seen[c])
    BY <1>1, <2>1, <2>2, <2>4, <2>6, <2>7 DEF CallOK, RolesSeen, FoundTrue, OpenAt
  <2>10. PathTrue(q)
    BY <2>1, <2>2, <2>4, <2>7, <2>8 DEF CallOK, PathTrue
  <2>11. ActedTrue(q, seen[c], published[c])
    BY <1>1, <2>1, <2>2, <2>4 DEF CallOK, ActedTrue, OpenAt
  <2>12. CallOK(q, seen[c], published[c])
    BY <2>9, <2>10, <2>11 DEF CallOK
  <2> QED
    BY <2>4, <2>5, <2>12, RecordOnly
<1> QED
  BY <1>2, <1>3

LEMMA PermitKeeps ==
    ASSUME CallInv, NEW c \in Calls, Permit(c)
    PROVE  CallInv'
<1>1. call[c].at = "permit" /\ OpenAt(call[c]) /\ OnlyCall
  BY DEF Permit, OpenAt
<1>2. Config' /\ UNCHANGED <<configVars, entries, seen, published>>
  BY <1>1, OnlyCallKeeps
<1>3. CASE Move(c, "quota")
  BY <1>1, <1>2, <1>3, MoveKeeps DEF Stages
<1>4. CASE call' = ToHandler(c)
  BY <1>1, <1>2, <1>4, ToHandlerKeeps
<1> QED
  BY <1>3, <1>4 DEF Permit

LEMMA QuotaGrantedKeeps ==
    ASSUME CallInv, NEW c \in Calls, QuotaGranted(c)
    PROVE  CallInv'
<1>1. call[c].at = "quota" /\ OnlyCall /\ call' = ToHandler(c)
  BY DEF QuotaGranted
<1> QED
  BY <1>1, OnlyCallKeeps, ToHandlerKeeps

LEMMA AnsweredKeeps ==
    ASSUME CallInv, NEW c \in Calls, OpenAt(call[c]), NEW x \in Replies, NEW o, Fits(x, o),
           Answer(c, x, o)
    PROVE  CallInv'
<1>1. /\ Reply(c, x) /\ Publish(c, o) /\ UNCHANGED <<configVars, entries, seen>>
      /\ UNCHANGED <<configVars, keyActive, entries, changes>> /\ lookupFaults' = lookupFaults
  BY DEF Answer
<1>2. Config'
  BY <1>1, ConfigKept DEF CallInv
<1> QED
  BY <1>1, <1>2, AnswerKeeps

LEMMA DenialKeeps ==
    ASSUME CallInv, NEW c \in Calls, PermissionDenied(c) \/ QuotaDenied(c) \/ Unlinked(c)
    PROVE  CallInv'
<1>1. OpenAt(call[c])
  BY DEF PermissionDenied, QuotaDenied, Unlinked, OpenAt
<1>2. PICK x \in {"forbidden", "quota", "unlinked"} : Answer(c, x, "denied")
  BY DEF PermissionDenied, QuotaDenied, Unlinked
<1>3. x \in Replies /\ Fits(x, "denied")
  BY DEF Replies, Fits
<1> QED
  BY <1>1, <1>2, <1>3, AnsweredKeeps

-----------------------------------------------------------------------------
(* get_authorized_workspace_ids.                                           *)

(* What is known of an open request. *)
LEMMA OpenFacts ==
    ASSUME CallInv, NEW c \in Calls, OpenAt(call[c])
    PROVE  /\ call \in [Calls -> CallRecord] /\ call[c] \in CallRecord
           /\ \A w \in Workspaces : RoleIn(w) \in seen[c][w]
           /\ \A w \in call[c].found : Served(call[c], seen[c], w)
           /\ ~call[c].mongoOk => call[c].faulted
           /\ call[c].pgOnly \subseteq uploads
           /\ WritesBy(call[c]) => call[c].phase = "handler"
           /\ WriteLookup(c) <=> WritesBy(call[c])
  BY DEF CallInv, Typed, CallOK, RolesSeen, FoundTrue, PathTrue, WriteLookup, Writes, WritesBy

(* Served needs less of a record that has seen a failure. *)
LEMMA ServedKept ==
    ASSUME NEW r, NEW q, NEW s, NEW w, Served(r, s, w), q.cred = r.cred, r.faulted => q.faulted
    PROVE  Served(q, s, w)
  BY DEF Served, ScopeOf

LEMMA LookupScopedKeeps ==
    ASSUME CallInv, NEW c \in Calls, LookupScoped(c)
    PROVE  CallInv'
<1>1. OpenAt(call[c]) /\ call[c].at = "scoped" /\ OnlyCall
  BY DEF LookupScoped, OpenAt
<1>2. Config' /\ UNCHANGED <<configVars, entries, seen, published>>
  BY <1>1, OnlyCallKeeps
<1>3. PICK r \in CallRecord : r = call[c]
  BY <1>1, OpenFacts
<1>4. keyScope \in Workspaces
  BY <1>1 DEF CallInv, CallOK, PathTrue
<1>10. PICK F \in SUBSET Workspaces :
          F = IF /\ RoleIn(keyScope) # "none"
                 /\ WriteLookup(c) => RoleIn(keyScope) = "member"
              THEN {keyScope} ELSE {}
  BY <1>4
<1>5. /\ call' = [call EXCEPT ![c].at = "looked", ![c].found = F]
      /\ \A w \in F : /\ w = keyScope /\ RoleIn(w) # "none"
                      /\ WriteLookup(c) => RoleIn(w) = "member"
  BY <1>10 DEF LookupScoped
<1>6. PICK q : q = Looked(r, "looked", F, r.pgOnly, r.mongoOk, r.faulted)
  OBVIOUS
<1>7. call' = [call EXCEPT ![c] = q]
  BY <1>1, <1>3, <1>5, <1>6, OpenFacts DEF Looked, CallRecord
<1>8. ASSUME NEW w \in F
      PROVE  /\ Served(q, seen[c], w)
             /\ WritesBy(r) => NotViewer(seen[c], w)
  <2>1. RoleIn(w) \in seen[c][w] /\ (WriteLookup(c) <=> WritesBy(r))
    BY <1>1, <1>3, <1>4, <1>5, OpenFacts
  <2>2. RoleIn(w) # "none" /\ (WritesBy(r) => RoleIn(w) = "member")
    BY <1>5, <2>1
  <2> QED
    BY <2>1, <2>2 DEF Served, NotViewer
<1>9. /\ r.pgOnly \in SUBSET Workspaces /\ r.mongoOk \in BOOLEAN /\ r.faulted \in BOOLEAN
      /\ ~r.mongoOk => r.faulted
      /\ r.pgOnly \subseteq uploads
  BY <1>1, <1>3, OpenFacts DEF CallRecord
<1>11. /\ q \in CallRecord /\ q.bound = r.bound /\ q.cred = r.cred /\ q.tool = r.tool
       /\ q.phase = r.phase /\ q.acted = r.acted
       /\ q.at = "looked" /\ q.found = F /\ q.pgOnly = r.pgOnly
       /\ q.mongoOk = r.mongoOk /\ q.faulted = r.faulted
  BY <1>6 DEF Looked, CallRecord, Stages
<1>12. Goes(r, q, seen[c])
  BY <1>1, <1>3, <1>8, <1>9, <1>11 DEF Goes
<1> QED
  BY <1>2, <1>3, <1>7, <1>12, LookupKeeps

LEMMA LookupMembersKeeps ==
    ASSUME CallInv, NEW c \in Calls, LookupMembers(c)
    PROVE  CallInv'
<1>1. OpenAt(call[c]) /\ call[c].at = "members" /\ OnlyCall
  BY DEF LookupMembers, OpenAt
<1>2. Config' /\ UNCHANGED <<configVars, entries, seen, published>>
  BY <1>1, OnlyCallKeeps
<1>3. PICK r \in CallRecord : r = call[c]
  BY <1>1, OpenFacts
<1>4. PICK F \in SUBSET Workspaces : F = {w \in Workspaces : RoleIn(w) # "none"}
  OBVIOUS
<1>5. PICK q : q = Looked(r, "uploads", F, r.pgOnly, r.mongoOk, r.faulted)
  OBVIOUS
<1>6. call' = [call EXCEPT ![c] = q]
  <2>1. call' = [call EXCEPT ![c].at = "uploads", ![c].found = F]
    BY <1>4 DEF LookupMembers
  <2> QED
    BY <1>1, <1>3, <1>5, <2>1, OpenFacts DEF Looked, CallRecord
<1>7. ASSUME NEW w \in F
      PROVE  Served(q, seen[c], w)
  <2>1. RoleIn(w) # "none" /\ RoleIn(w) \in seen[c][w]
    BY <1>1, <1>4, OpenFacts
  <2> QED
    BY <2>1 DEF Served
<1>8. /\ r.pgOnly \in SUBSET Workspaces /\ r.mongoOk \in BOOLEAN /\ r.faulted \in BOOLEAN
      /\ ~r.mongoOk => r.faulted
      /\ r.pgOnly \subseteq uploads
  BY <1>1, <1>3, OpenFacts DEF CallRecord
<1>9. /\ q \in CallRecord /\ q.bound = r.bound /\ q.cred = r.cred /\ q.tool = r.tool
      /\ q.phase = r.phase /\ q.acted = r.acted
      /\ q.at = "uploads" /\ q.found = F /\ q.pgOnly = r.pgOnly
      /\ q.mongoOk = r.mongoOk /\ q.faulted = r.faulted
  BY <1>5 DEF Looked, CallRecord, Stages
<1>10. Goes(r, q, seen[c])
  BY <1>1, <1>3, <1>7, <1>8, <1>9 DEF Goes
<1> QED
  BY <1>2, <1>3, <1>6, <1>10, LookupKeeps

LEMMA LookupMembersFailsKeeps ==
    ASSUME CallInv, NEW c \in Calls, LookupMembersFails(c)
    PROVE  CallInv'
<1>1. OpenAt(call[c]) /\ call[c].at = "members" /\ LookupFault
  BY DEF LookupMembersFails, OpenAt
<1>2. Config' /\ UNCHANGED <<configVars, entries, seen, published>>
  <2>1. UNCHANGED <<configVars, keyActive, entries, seen, published, changes>>
    BY DEF LookupMembersFails
  <2> QED
    BY <1>1, <2>1, FaultKeeps
<1>3. PICK r \in CallRecord : r = call[c]
  BY <1>1, OpenFacts
<1>4. PICK q : q = Looked(r, "uploads", r.found, r.pgOnly, FALSE, TRUE)
  OBVIOUS
<1>5. call' = [call EXCEPT ![c] = q]
  <2>1. call' = [call EXCEPT ![c].at = "uploads", ![c].mongoOk = FALSE, ![c].faulted = TRUE]
    BY DEF LookupMembersFails
  <2> QED
    BY <1>1, <1>3, <1>4, <2>1, OpenFacts DEF Looked, CallRecord
<1>6. ASSUME NEW w \in r.found
      PROVE  Served(q, seen[c], w)
  <2>1. Served(r, seen[c], w)
    BY <1>1, <1>3, OpenFacts
  <2>2. q.cred = r.cred /\ q.faulted = TRUE
    BY <1>4 DEF Looked, CallRecord
  <2> QED
    BY <2>1, <2>2, ServedKept
<1>7. /\ r.found \in SUBSET Workspaces /\ r.pgOnly \in SUBSET Workspaces
      /\ r.pgOnly \subseteq uploads
  BY <1>1, <1>3, OpenFacts DEF CallRecord
<1>8. /\ q \in CallRecord /\ q.bound = r.bound /\ q.cred = r.cred /\ q.tool = r.tool
      /\ q.phase = r.phase /\ q.acted = r.acted
      /\ q.at = "uploads" /\ q.found = r.found /\ q.pgOnly = r.pgOnly
      /\ q.mongoOk = FALSE /\ q.faulted = TRUE
  BY <1>4 DEF Looked, CallRecord, Stages
<1>9. Goes(r, q, seen[c])
  BY <1>1, <1>3, <1>6, <1>7, <1>8 DEF Goes
<1> QED
  BY <1>2, <1>3, <1>5, <1>9, LookupKeeps

(* A query leaves a request's record a request's record.                    *)
LEMMA LookedTyped ==
    ASSUME NEW r \in CallRecord, NEW a \in Stages, NEW F \in SUBSET Workspaces,
           NEW P \in SUBSET Workspaces, NEW m \in BOOLEAN, NEW z \in BOOLEAN
    PROVE  Looked(r, a, F, P, m, z) \in CallRecord
  BY DEF Looked, CallRecord

(* The union of the look-up so far and the workspaces of F, each of them   *)
(* served by the record that the step leaves.                              *)
LEMMA UnionKeeps ==
    ASSUME CallInv, NEW c \in Calls, OpenAt(call[c]), call[c].at \in {"uploads", "managed"},
           NEW r \in CallRecord, r = call[c], NEW F \in SUBSET Workspaces, NEW z \in BOOLEAN,
           r.faulted => z, NEW q,
           q = Looked(r, AfterUnion(c), r.found \cup F, r.pgOnly, r.mongoOk, z),
           \A w \in F : Served(q, seen[c], w), call' = [call EXCEPT ![c] = q],
           UNCHANGED <<configVars, entries, seen, published>>, Config'
    PROVE  CallInv'
<1>1. PICK a \in {"viewers", "looked"} : a = AfterUnion(c)
  BY DEF AfterUnion
<1>2. /\ r.pgOnly \in SUBSET Workspaces /\ r.mongoOk \in BOOLEAN /\ (~r.mongoOk => z)
      /\ r.pgOnly \subseteq uploads /\ a \in Stages
      /\ (r.found \cup F) \in SUBSET Workspaces
  BY <1>1, OpenFacts DEF CallRecord, Stages
<1>3. q = Looked(r, a, r.found \cup F, r.pgOnly, r.mongoOk, z)
  BY <1>1
<1>4. ASSUME NEW w \in r.found \cup F
      PROVE  Served(q, seen[c], w)
  <2>1. q.cred = r.cred /\ (r.faulted => q.faulted)
    BY <1>3 DEF Looked, CallRecord
  <2>2. CASE w \in r.found
    <3>1. Served(r, seen[c], w)
      BY <2>2, OpenFacts
    <3> QED
      BY <2>1, <3>1, ServedKept
  <2> QED
    BY <2>2
<1>5. a = "looked" => ~WritesBy(r)
  BY <1>1, OpenFacts DEF AfterUnion
<1>6. /\ q \in CallRecord /\ q.bound = r.bound /\ q.cred = r.cred /\ q.tool = r.tool
      /\ q.phase = r.phase /\ q.acted = r.acted
      /\ q.at = a /\ q.found = (r.found \cup F) /\ q.pgOnly = r.pgOnly
      /\ q.mongoOk = r.mongoOk /\ q.faulted = z
  <2>1. PICK G \in SUBSET Workspaces : G = r.found \cup F
    BY <1>2
  <2>2. q = Looked(r, a, G, r.pgOnly, r.mongoOk, z)
    BY <1>3, <2>1
  <2>3. q.at = a /\ q.found = G /\ q.pgOnly = r.pgOnly /\ q.mongoOk = r.mongoOk /\ q.faulted = z
    BY <2>2 DEF Looked, CallRecord
  <2>4. /\ q.bound = r.bound /\ q.cred = r.cred /\ q.tool = r.tool
        /\ q.phase = r.phase /\ q.acted = r.acted
    BY <2>2 DEF Looked, CallRecord
  <2>5. q \in CallRecord
    BY <1>2, <2>1, <2>2, LookedTyped
  <2> QED
    BY <2>1, <2>3, <2>4, <2>5
<1>7. \A w \in q.found : Served(q, seen[c], w)
  BY <1>4, <1>6
<1>8. Goes(r, q, seen[c])
  BY <1>1, <1>2, <1>5, <1>6, <1>7 DEF Goes
<1> QED
  BY <1>8, LookupKeeps

LEMMA LookupUploadsKeeps ==
    ASSUME CallInv, NEW c \in Calls, LookupUploads(c)
    PROVE  CallInv'
<1>1. OpenAt(call[c]) /\ call[c].at = "uploads" /\ OnlyCall
  BY DEF LookupUploads, OpenAt
<1>2. Config' /\ UNCHANGED <<configVars, entries, seen, published>>
  BY <1>1, OnlyCallKeeps
<1>3. PICK r \in CallRecord : r = call[c]
  BY <1>1, OpenFacts
<1>4. PICK only \in SUBSET Workspaces : only = uploads \ r.found
  BY DEF CallInv, Config
<1>5. /\ r.found \in SUBSET Workspaces /\ r.pgOnly \in SUBSET Workspaces
      /\ r.mongoOk \in BOOLEAN /\ r.faulted \in BOOLEAN
      /\ ~r.mongoOk => r.faulted
      /\ r.pgOnly \subseteq uploads
      /\ \A w \in r.found : Served(r, seen[c], w)
      /\ ScopeOf(r) = NoWorkspace
  BY <1>1, <1>3, OpenFacts DEF CallRecord, CallInv, CallOK, PathTrue
<1>6. CASE only # {} /\ r.mongoOk
  <2>1. call' = [call EXCEPT ![c].at = "managed", ![c].pgOnly = only]
    BY <1>3, <1>4, <1>6 DEF LookupUploads
  <2>2. PICK q : q = Looked(r, "managed", r.found, only, r.mongoOk, r.faulted)
    OBVIOUS
  <2>3. call' = [call EXCEPT ![c] = q]
    BY <1>1, <1>3, <2>1, <2>2, OpenFacts DEF Looked, CallRecord
  <2>4. q.cred = r.cred /\ q.faulted = r.faulted
    BY <2>2 DEF Looked, CallRecord
  <2>5. \A w \in r.found : Served(q, seen[c], w)
    BY <1>5, <2>4, ServedKept
  <2>6. only \subseteq uploads
    BY <1>4
  <2>7. /\ q \in CallRecord /\ q.bound = r.bound /\ q.cred = r.cred /\ q.tool = r.tool
        /\ q.phase = r.phase /\ q.acted = r.acted
        /\ q.at = "managed" /\ q.found = r.found /\ q.pgOnly = only
        /\ q.mongoOk = r.mongoOk /\ q.faulted = r.faulted
    BY <2>2 DEF Looked, CallRecord, Stages
  <2>8. Goes(r, q, seen[c])
    BY <1>1, <1>3, <1>5, <2>5, <2>6, <2>7 DEF Goes
  <2> QED
    BY <1>2, <1>3, <2>3, <2>8, LookupKeeps
<1>7. CASE ~(only # {} /\ r.mongoOk)
  <2>1. call' = [call EXCEPT ![c].at = AfterUnion(c), ![c].found = @ \cup only]
    BY <1>3, <1>4, <1>7 DEF LookupUploads
  <2>2. PICK q : q = Looked(r, AfterUnion(c), r.found \cup only, r.pgOnly, r.mongoOk, r.faulted)
    OBVIOUS
  <2>3. call' = [call EXCEPT ![c] = q]
    BY <1>1, <1>3, <2>1, <2>2, OpenFacts DEF Looked, CallRecord
  <2>4. q.cred = r.cred /\ q.faulted = r.faulted
    BY <2>2 DEF Looked, CallRecord
  <2>5. ASSUME NEW w \in only
        PROVE  Served(q, seen[c], w)
    <3>1. w \in uploads /\ r.faulted
      BY <1>4, <1>5, <1>7
    <3> QED
      BY <1>5, <2>4, <3>1 DEF Served, ScopeOf
  <2>6. PICK z \in BOOLEAN : z = r.faulted
    BY <1>5
  <2>7. q = Looked(r, AfterUnion(c), r.found \cup only, r.pgOnly, r.mongoOk, z)
    BY <2>2, <2>6
  <2> QED
    BY <1>1, <1>2, <1>3, <2>3, <2>5, <2>6, <2>7, UnionKeeps
<1> QED
  BY <1>6, <1>7

LEMMA LookupUploadsFailsKeeps ==
    ASSUME CallInv, NEW c \in Calls, LookupUploadsFails(c)
    PROVE  CallInv'
<1>1. /\ OpenAt(call[c]) /\ call[c].at = "uploads" /\ LookupFault /\ Move(c, AfterUnion(c))
      /\ UNCHANGED <<configVars, keyActive, entries, seen, published, changes>>
  BY DEF LookupUploadsFails, OpenAt
<1>2. Config' /\ UNCHANGED <<configVars, entries, seen, published>>
  BY <1>1, FaultKeeps
<1>3. PICK a \in {"viewers", "looked"} : a = AfterUnion(c)
  BY DEF AfterUnion
<1>4. a = "looked" => ~WritesBy(call[c])
  BY <1>1, <1>3, OpenFacts DEF AfterUnion
<1>5. Move(c, a) /\ a \in Stages
  BY <1>1, <1>3 DEF Stages
<1> QED
  BY <1>1, <1>2, <1>4, <1>5, MoveKeeps

LEMMA LookupManagedKeeps ==
    ASSUME CallInv, NEW c \in Calls, LookupManaged(c)
    PROVE  CallInv'
<1>1. OpenAt(call[c]) /\ call[c].at = "managed" /\ OnlyCall
  BY DEF LookupManaged, OpenAt
<1>2. Config' /\ UNCHANGED <<configVars, entries, seen, published>>
  BY <1>1, OnlyCallKeeps
<1>3. PICK r \in CallRecord : r = call[c]
  BY <1>1, OpenFacts
<1>4. r.pgOnly \subseteq uploads /\ r.faulted \in BOOLEAN /\ ScopeOf(r) = NoWorkspace
  BY <1>1, <1>3, OpenFacts DEF CallRecord, CallInv, CallOK, PathTrue
<1>5. PICK F \in SUBSET Workspaces : F = r.pgOnly \ managed
  BY <1>3 DEF CallRecord
<1>6. PICK q : q = Looked(r, AfterUnion(c), r.found \cup F, r.pgOnly, r.mongoOk, r.faulted)
  OBVIOUS
<1>7. call' = [call EXCEPT ![c] = q]
  <2>1. call' = [call EXCEPT ![c].at = AfterUnion(c), ![c].found = @ \cup F]
    BY <1>3, <1>5 DEF LookupManaged
  <2> QED
    BY <1>1, <1>3, <1>6, <2>1, OpenFacts DEF Looked, CallRecord
<1>8. q.cred = r.cred /\ q.faulted = r.faulted
  BY <1>6 DEF Looked, CallRecord
<1>9. \A w \in F : Served(q, seen[c], w)
  BY <1>4, <1>5, <1>8 DEF Served, ScopeOf
<1> QED
  BY <1>1, <1>2, <1>3, <1>4, <1>6, <1>7, <1>9, UnionKeeps

LEMMA LookupManagedFailsKeeps ==
    ASSUME CallInv, NEW c \in Calls, LookupManagedFails(c)
    PROVE  CallInv'
<1>1. /\ OpenAt(call[c]) /\ call[c].at = "managed" /\ LookupFault
      /\ UNCHANGED <<configVars, keyActive, entries, seen, published, changes>>
  BY DEF LookupManagedFails, OpenAt
<1>2. Config' /\ UNCHANGED <<configVars, entries, seen, published>>
  BY <1>1, FaultKeeps
<1>3. PICK r \in CallRecord : r = call[c]
  BY <1>1, OpenFacts
<1>4. r.pgOnly \subseteq uploads /\ ScopeOf(r) = NoWorkspace
  BY <1>1, <1>3, OpenFacts DEF CallInv, CallOK, PathTrue
<1>5. PICK F \in SUBSET Workspaces : F = r.pgOnly
  BY <1>3 DEF CallRecord
<1>6. PICK q : q = Looked(r, AfterUnion(c), r.found \cup F, r.pgOnly, r.mongoOk, TRUE)
  OBVIOUS
<1>7. call' = [call EXCEPT ![c] = q]
  <2>1. call' = [call EXCEPT ![c].at = AfterUnion(c), ![c].faulted = TRUE,
                             ![c].found = @ \cup F]
    BY <1>3, <1>5 DEF LookupManagedFails
  <2> QED
    BY <1>1, <1>3, <1>6, <2>1, OpenFacts DEF Looked, CallRecord
<1>8. q.cred = r.cred /\ q.faulted = TRUE
  BY <1>6 DEF Looked, CallRecord
<1>9. \A w \in F : Served(q, seen[c], w)
  BY <1>4, <1>5, <1>8 DEF Served, ScopeOf
<1> QED
  BY <1>1, <1>2, <1>3, <1>6, <1>7, <1>9, UnionKeeps

LEMMA LookupViewersKeeps ==
    ASSUME CallInv, NEW c \in Calls, LookupViewers(c)
    PROVE  CallInv'
<1>1. OpenAt(call[c]) /\ call[c].at = "viewers" /\ OnlyCall
  BY DEF LookupViewers, OpenAt
<1>2. Config' /\ UNCHANGED <<configVars, entries, seen, published>>
  BY <1>1, OnlyCallKeeps
<1>3. PICK r \in CallRecord : r = call[c]
  BY <1>1, OpenFacts
<1>4. PICK F \in SUBSET Workspaces : F = {w \in r.found : RoleIn(w) # "viewer"}
  BY DEF CallRecord
<1>5. PICK q : q = Looked(r, "looked", F, r.pgOnly, r.mongoOk, r.faulted)
  OBVIOUS
<1>6. call' = [call EXCEPT ![c] = q]
  <2>1. call' = [call EXCEPT ![c].at = "looked", ![c].found = F]
    BY <1>1, <1>3, <1>4, OpenFacts DEF LookupViewers
  <2> QED
    BY <1>1, <1>3, <1>5, <2>1, OpenFacts DEF Looked, CallRecord
<1>7. ASSUME NEW w \in F
      PROVE  Served(q, seen[c], w) /\ NotViewer(seen[c], w)
  <2>1. RoleIn(w) # "viewer" /\ RoleIn(w) \in seen[c][w] /\ Served(r, seen[c], w)
    BY <1>1, <1>3, <1>4, OpenFacts
  <2>2. q.cred = r.cred /\ q.faulted = r.faulted
    BY <1>5 DEF Looked, CallRecord
  <2>3. Served(q, seen[c], w)
    BY <2>1, <2>2, ServedKept
  <2> QED
    BY <2>1, <2>3 DEF NotViewer
<1>8. /\ r.pgOnly \in SUBSET Workspaces /\ r.mongoOk \in BOOLEAN /\ r.faulted \in BOOLEAN
      /\ ~r.mongoOk => r.faulted
      /\ r.pgOnly \subseteq uploads
  BY <1>1, <1>3, OpenFacts DEF CallRecord
<1>11. /\ q \in CallRecord /\ q.bound = r.bound /\ q.cred = r.cred /\ q.tool = r.tool
       /\ q.phase = r.phase /\ q.acted = r.acted
       /\ q.at = "looked" /\ q.found = F /\ q.pgOnly = r.pgOnly
       /\ q.mongoOk = r.mongoOk /\ q.faulted = r.faulted
  BY <1>5 DEF Looked, CallRecord, Stages
<1>12. Goes(r, q, seen[c])
  BY <1>1, <1>3, <1>7, <1>8, <1>11 DEF Goes
<1> QED
  BY <1>2, <1>3, <1>6, <1>12, LookupKeeps

LEMMA LookupRaisesKeeps ==
    ASSUME CallInv, NEW c \in Calls, LookupRaises(c)
    PROVE  CallInv'
<1>1. OpenAt(call[c]) /\ UNCHANGED <<configVars, keyActive, entries, seen, changes>> /\ LookupFault
  BY DEF LookupRaises, Raising, OpenAt
<1>2. Config' /\ UNCHANGED <<configVars, entries, seen>>
  BY <1>1, FaultKeeps
<1>3. CASE Reply(c, "unknown") /\ UNCHANGED published
  BY <1>1, <1>2, <1>3, ReplyKeeps
<1>4. CASE Reply(c, "internal") /\ Publish(c, "error")
  <2>1. "internal" \in Replies /\ Fits("internal", "error")
    BY DEF Replies, Fits
  <2> QED
    BY <1>1, <1>2, <1>4, <2>1, AnswerKeeps
<1> QED
  BY <1>3, <1>4 DEF LookupRaises

-----------------------------------------------------------------------------
(* The handlers.                                                           *)

LEMMA ReadyFacts ==
    ASSUME CallInv, NEW c \in Calls, ReadyToAct(c)
    PROVE  /\ OpenAt(call[c]) /\ call[c].found \in SUBSET Workspaces
           /\ \A w \in call[c].found : /\ Served(call[c], seen[c], w)
                                       /\ WritesBy(call[c]) => NotViewer(seen[c], w)
<1>1. OpenAt(call[c]) /\ call[c].at = "looked"
  BY DEF ReadyToAct, OpenAt
<1>2. call[c].found \in SUBSET Workspaces
  BY <1>1, OpenFacts DEF CallRecord
<1> QED
  BY <1>1, <1>2 DEF CallInv, CallOK, FoundTrue

(* A handler acts on workspaces that the look-up found, or refuses. *)
LEMMA ActOnFound ==
    ASSUME CallInv, NEW c \in Calls, ReadyToAct(c), NEW A \in SUBSET call[c].found, Act(c, A)
    PROVE  CallInv'
<1>1. /\ OpenAt(call[c]) /\ A \in SUBSET Workspaces
      /\ \A w \in A : /\ Served(call[c], seen[c], w)
                      /\ WritesBy(call[c]) => NotViewer(seen[c], w)
  BY ReadyFacts
<1> QED
  BY <1>1, ActKeeps

LEMMA RefuseKeeps ==
    ASSUME CallInv, NEW c \in Calls, ReadyToAct(c), Answer(c, "refused", "error")
    PROVE  CallInv'
<1>1. OpenAt(call[c]) /\ "refused" \in Replies /\ Fits("refused", "error")
  BY ReadyFacts DEF Replies, Fits
<1> QED
  BY <1>1, AnsweredKeeps

LEMMA HandleProfileKeeps ==
    ASSUME CallInv, NEW c \in Calls, HandleProfile(c)
    PROVE  CallInv'
<1>1. OpenAt(call[c]) /\ call[c].at = "profile" /\ Act(c, {call[c].bound})
  BY DEF HandleProfile, OpenAt
<1>2. /\ call[c].bound \in Workspaces /\ ~WritesBy(call[c])
      /\ Served(call[c], seen[c], call[c].bound)
  BY <1>1 DEF CallInv, CallOK, PathTrue, FoundTrue
<1>3. PICK A \in SUBSET Workspaces : A = {call[c].bound}
  BY <1>2
<1>4. Act(c, A) /\ \A w \in A : /\ Served(call[c], seen[c], w)
                                /\ WritesBy(call[c]) => NotViewer(seen[c], w)
  BY <1>1, <1>2, <1>3
<1> QED
  BY <1>1, <1>4, ActKeeps

LEMMA HandleNamedKeeps ==
    ASSUME CallInv, NEW c \in Calls, HandleNamed(c)
    PROVE  CallInv'
<1>1. ReadyToAct(c)
  BY DEF HandleNamed
<1>2. CASE call[c].want \in call[c].found
  <2>1. PICK A \in SUBSET call[c].found : A = {call[c].want}
    BY <1>2
  <2>2. Act(c, A)
    BY <1>2, <2>1 DEF HandleNamed
  <2> QED
    BY <1>1, <2>2, ActOnFound
<1>3. CASE call[c].want \notin call[c].found
  BY <1>1, <1>3, RefuseKeeps DEF HandleNamed
<1> QED
  BY <1>2, <1>3

LEMMA HandleSearchKeeps ==
    ASSUME CallInv, NEW c \in Calls, HandleSearch(c)
    PROVE  CallInv'
  BY ActOnFound DEF HandleSearch

LEMMA HandleUploadKeeps ==
    ASSUME CallInv, NEW c \in Calls, HandleUpload(c)
    PROVE  CallInv'
<1>1. ReadyToAct(c)
  BY DEF HandleUpload
<1>2. CASE Act(c, call[c].found)
  BY <1>1, <1>2, ActOnFound
<1>3. CASE Answer(c, "refused", "error")
  BY <1>1, <1>3, RefuseKeeps
<1> QED
  BY <1>2, <1>3 DEF HandleUpload

LEMMA HandleRestKeeps ==
    ASSUME CallInv, NEW c \in Calls, HandleRest(c)
    PROVE  CallInv'
<1>1. ReadyToAct(c)
  BY DEF HandleRest
<1>2. CASE keyScope \in call[c].found /\ Act(c, {keyScope})
  <2>1. PICK A \in SUBSET call[c].found : A = {keyScope}
    BY <1>2
  <2> QED
    BY <1>1, <1>2, <2>1, ActOnFound
<1>3. CASE call[c].want \in call[c].found /\ Act(c, {call[c].want})
  <2>1. PICK A \in SUBSET call[c].found : A = {call[c].want}
    BY <1>3
  <2> QED
    BY <1>1, <1>3, <2>1, ActOnFound
<1>4. CASE Act(c, call[c].found)
  BY <1>1, <1>4, ActOnFound
<1>5. CASE Answer(c, "refused", "error")
  BY <1>1, <1>5, RefuseKeeps
<1>6. CASE ~Writes(c) /\ call' = StartLookup(c, "again") /\ OnlyCall
  <2>1. OpenAt(call[c]) /\ ~WritesBy(call[c])
    BY <1>1, <1>6, ReadyFacts DEF Writes, WritesBy
  <2>2. Config' /\ UNCHANGED <<configVars, entries, seen, published>>
    BY <1>6, OnlyCallKeeps
  <2> QED
    BY <1>6, <2>1, <2>2, StartKeeps
<1> QED
  BY <1>2, <1>3, <1>4, <1>5, <1>6 DEF HandleRest

-----------------------------------------------------------------------------
(* Requests and the control plane.                                         *)

LEMMA BeginCallKeeps ==
    ASSUME CallInv, NEW c \in Calls, NEW surface \in {"http", "stdio", "rest"},
           NEW cred \in {"key", "oauth"}, NEW tool \in Tools,
           NEW want \in Workspaces \cup {NoWorkspace}, BeginCall(c, surface, cred, tool, want)
    PROVE  CallInv'
<1>1. Config /\ Typed /\ CallOK(call[c], seen[c], published[c])
  BY DEF CallInv
<1>2. PICK q : q = [Idle EXCEPT !.at = "auth", !.surface = surface, !.cred = cred,
                                !.tool = tool, !.want = want]
  OBVIOUS
<1>3. PICK r : r = Idle
  OBVIOUS
<1>4. r \in CallRecord
  BY <1>3, IdleType
<1>5. q = [r EXCEPT !.at = "auth", !.surface = surface, !.cred = cred,
                    !.tool = tool, !.want = want]
  BY <1>2, <1>3
<1>6. /\ q \in CallRecord /\ q.at = "auth" /\ q.cred = cred /\ q.tool = tool
      /\ q.phase = r.phase /\ q.found = r.found /\ q.pgOnly = r.pgOnly /\ q.bound = r.bound
      /\ q.mongoOk = r.mongoOk /\ q.faulted = r.faulted /\ q.acted = r.acted
  BY <1>4, <1>5 DEF CallRecord, Stages
<1>7. /\ r.phase = "handler" /\ r.found = {} /\ r.pgOnly = {} /\ r.bound = NoWorkspace
      /\ r.mongoOk = TRUE /\ r.faulted = FALSE /\ r.acted = {}
  BY <1>3 DEF Idle
<1>8. PICK s : s = [w \in Workspaces |-> {RoleIn(w)}]
  OBVIOUS
<1>9. s \in Seen
  BY <1>8 DEF Seen, RoleIn, BestRole
<1>10. PICK p \in Events : p = published[c]
  BY <1>1 DEF Typed
<1>11. p = <<>>
  BY <1>1, <1>10 DEF CallOK, ActedTrue, BeginCall
<1>12. call' = [call EXCEPT ![c] = q] /\ seen' = [seen EXCEPT ![c] = s]
  BY <1>2, <1>8 DEF BeginCall
<1>13. published' = [published EXCEPT ![c] = p]
  BY <1>1, <1>10 DEF BeginCall, Typed
<1>14. UNCHANGED <<configVars, entries>> /\ Config'
  <2>1. UNCHANGED <<configVars, keyActive, entries, changes>> /\ lookupFaults' = lookupFaults
    BY DEF BeginCall
  <2> QED
    BY <1>1, <2>1, ConfigKept
<1>15. RolesSeen(q, s)
  BY <1>8 DEF RolesSeen
<1>16. FoundTrue(q, s) /\ PathTrue(q)
  BY <1>6, <1>7, CallAssumption DEF FoundTrue, PathTrue
<1>17. ActedTrue(q, s, p)
  BY <1>6, <1>7, <1>11 DEF ActedTrue
<1>18. CallOK(q, s, p)
  BY <1>15, <1>16, <1>17 DEF CallOK
<1> QED
  BY <1>6, <1>9, <1>12, <1>13, <1>14, <1>18, OneCall

(* Roles are only added to what a request has seen. *)
LEMMA ChangeMembershipKeeps ==
    ASSUME CallInv, NEW w \in Workspaces, NEW e \in SUBSET Roles, ChangeMembership(w, e)
    PROVE  CallInv'
<1>1. Config /\ Typed
  BY DEF CallInv
<1>2. /\ UNCHANGED <<configVars, keyActive, call, published, lookupFaults>>
      /\ changes < MaxChanges /\ changes' = changes + 1
      /\ entries' = [entries EXCEPT ![w] = e]
      /\ seen' = [c \in Calls |-> IF OpenCall(c)
                                  THEN [seen[c] EXCEPT ![w] = @ \cup {BestRole(e)}]
                                  ELSE seen[c]]
  BY DEF ChangeMembership
<1>3. UNCHANGED <<keyScope, uploads, managed>>
  BY <1>2 DEF configVars
<1>4. Config'
  <2>1. changes' \in 0 .. MaxChanges
    BY <1>1, <1>2, CallAssumption DEF Config
  <2> QED
    BY <1>1, <1>2, <1>3, <2>1 DEF Config
<1>5. ASSUME NEW c \in Calls
      PROVE  /\ seen'[c] \in Seen
             /\ \A v \in Workspaces : seen[c][v] \subseteq seen'[c][v]
             /\ OpenAt(call[c]) => BestRole(e) \in seen'[c][w]
             /\ \A v \in Workspaces : v # w => seen'[c][v] = seen[c][v]
  <2>1. seen[c] \in Seen
    BY <1>1 DEF Typed
  <2>2. BestRole(e) \in {"member", "viewer", "none"}
    BY DEF BestRole
  <2>3. OpenCall(c) <=> OpenAt(call[c])
    BY DEF OpenCall, OpenAt
  <2>4. CASE OpenCall(c)
    <3>1. seen'[c] = [seen[c] EXCEPT ![w] = @ \cup {BestRole(e)}]
      BY <1>2, <2>4
    <3> QED
      BY <2>1, <2>2, <3>1 DEF Seen
  <2>5. CASE ~OpenCall(c)
    <3>1. seen'[c] = seen[c]
      BY <1>2, <2>5
    <3> QED
      BY <2>1, <2>3, <2>5, <3>1
  <2> QED
    BY <2>4, <2>5
<1>6. Typed'
  <2>1. seen' \in [Calls -> Seen]
    BY <1>2, <1>5
  <2> QED
    BY <1>1, <1>2, <2>1 DEF Typed
<1>7. ASSUME NEW c \in Calls
      PROVE  CallOK(call[c], seen[c], published[c])'
  <2>1. PICK r \in CallRecord : r = call[c] /\ r = call'[c]
    BY <1>1, <1>2 DEF Typed
  <2>2. PICK s \in Seen : s = seen[c]
    BY <1>1 DEF Typed
  <2>3. PICK s1 \in Seen : s1 = seen'[c]
    BY <1>5
  <2>4. CallOK(r, s, published[c]) /\ published'[c] = published[c]
    BY <1>2, <2>1, <2>2 DEF CallInv
  <2>5. /\ \A v \in Workspaces : s[v] \subseteq s1[v]
        /\ \A v \in Workspaces : v # w => s1[v] = s[v]
        /\ OpenAt(r) => BestRole(e) \in s1[w]
    BY <1>5, <2>1, <2>2, <2>3
  <2>6. /\ r.found \subseteq Workspaces /\ r.acted \subseteq Workspaces
    BY DEF CallRecord
  <2>7. \A v \in Workspaces : /\ Served(r, s, v) => Served(r, s1, v)'
                              /\ NotViewer(s, v) => NotViewer(s1, v)
    BY <1>3, <2>5 DEF Served, NotViewer, ScopeOf
  <2>8. RolesSeen(r, s1)'
    <3>1. \A v \in Workspaces : RoleIn(v)' = IF v = w THEN BestRole(e) ELSE RoleIn(v)
      BY <1>1, <1>2 DEF Config, RoleIn
    <3>2. RolesSeen(r, s)
      BY <2>4 DEF CallOK
    <3>3. ASSUME OpenAt(r), NEW v \in Workspaces
          PROVE  RoleIn(v)' \in s1[v]
      <4>1. RoleIn(v) \in s[v]
        BY <3>2, <3>3 DEF RolesSeen
      <4> QED
        BY <2>5, <3>1, <3>3, <4>1
    <3> QED
      BY <3>3 DEF RolesSeen, OpenAt
  <2>9. FoundTrue(r, s1)'
    BY <2>4, <2>6, <2>7 DEF CallOK, FoundTrue, WritesBy
  <2>10. PathTrue(r)'
    BY <1>3, <2>4 DEF CallOK, PathTrue, ScopeOf, WritesBy
  <2>11. ActedTrue(r, s1, published[c])'
    BY <2>4, <2>6, <2>7 DEF CallOK, ActedTrue, WritesBy, Outcome, AuditedOf
  <2>12. CallOK(r, s1, published[c])'
    BY <2>8, <2>9, <2>10, <2>11 DEF CallOK
  <2> QED
    BY <2>1, <2>3, <2>12
<1> QED
  BY <1>4, <1>6, <1>7 DEF CallInv

LEMMA QuietKeeps ==
    ASSUME CallInv, Config', UNCHANGED <<configVars, entries, call, seen, published>>
    PROVE  CallInv'
<1>1. UNCHANGED <<keyScope, uploads, managed, entries, call, seen, published>>
  BY DEF configVars
<1> QED
  BY <1>1 DEF CallInv, Typed, CallOK, RolesSeen, FoundTrue, PathTrue, ActedTrue, Served, RoleIn, ScopeOf

LEMMA RevokeKeyKeeps ==
    ASSUME CallInv, RevokeKey
    PROVE  CallInv'
<1>1. changes' \in 0 .. MaxChanges
  BY CallAssumption DEF CallInv, Config, RevokeKey
<1>2. Config'
  BY <1>1 DEF CallInv, Config, RevokeKey, configVars
<1> QED
  BY <1>2, QuietKeeps DEF RevokeKey

-----------------------------------------------------------------------------
(* The theorems.                                                           *)

LEMMA InitCallInv ==
    ASSUME CallInit
    PROVE  CallInv
<1>1. Config
  BY CallAssumption DEF CallInit, Config, Roles
<1>2. Typed
  BY IdleType DEF CallInit, Typed, Seen, Events
<1>3. ASSUME NEW c \in Calls
      PROVE  CallOK(call[c], seen[c], published[c])
  <2>1. call[c] = Idle /\ published[c] = <<>>
    BY DEF CallInit
  <2>2. /\ call[c].at = "idle" /\ call[c].found = {} /\ call[c].pgOnly = {}
        /\ call[c].bound = NoWorkspace /\ call[c].mongoOk = TRUE /\ call[c].acted = {}
        /\ call[c].phase = "handler"
    BY <2>1 DEF Idle
  <2> QED
    BY <2>1, <2>2, CallAssumption DEF CallOK, RolesSeen, OpenAt, FoundTrue, PathTrue, ActedTrue
<1> QED
  BY <1>1, <1>2, <1>3 DEF CallInv

LEMMA StepCallInv ==
    ASSUME CallInv, [CallNext]_callVars
    PROVE  CallInv'
<1>1. CASE UNCHANGED callVars
  <2>1. Config'
    BY <1>1 DEF CallInv, Config, callVars, configVars
  <2> QED
    BY <1>1, <2>1, QuietKeeps DEF callVars
<1>2. CASE \E w \in Workspaces, e \in SUBSET Roles : ChangeMembership(w, e)
  BY <1>2, ChangeMembershipKeeps
<1>3. CASE RevokeKey
  BY <1>3, RevokeKeyKeeps
<1>4. ASSUME NEW c \in Calls, NEW surface \in {"http", "stdio", "rest"},
             NEW cred \in {"key", "oauth"}, NEW tool \in Tools,
             NEW want \in Workspaces \cup {NoWorkspace}, BeginCall(c, surface, cred, tool, want)
      PROVE  CallInv'
  BY <1>4, BeginCallKeeps
<1>5. ASSUME NEW c \in Calls,
             \/ AuthenticateKey(c) \/ RejectToken(c) \/ AuthenticateToken(c)
             \/ ResolveTool(c) \/ BindProfile(c) \/ Permit(c) \/ PermissionDenied(c)
             \/ QuotaGranted(c) \/ QuotaDenied(c) \/ Unlinked(c)
      PROVE  CallInv'
  BY <1>5, AuthenticateKeyKeeps, RejectTokenKeeps, AuthenticateTokenKeeps, ResolveToolKeeps,
     BindProfileKeeps, PermitKeeps, QuotaGrantedKeeps, DenialKeeps
<1>6. ASSUME NEW c \in Calls,
             \/ LookupScoped(c) \/ LookupMembers(c) \/ LookupMembersFails(c)
             \/ LookupUploads(c) \/ LookupUploadsFails(c) \/ LookupManaged(c)
             \/ LookupManagedFails(c) \/ LookupViewers(c) \/ LookupRaises(c)
      PROVE  CallInv'
  BY <1>6, LookupScopedKeeps, LookupMembersKeeps, LookupMembersFailsKeeps, LookupUploadsKeeps,
     LookupUploadsFailsKeeps, LookupManagedKeeps, LookupManagedFailsKeeps, LookupViewersKeeps,
     LookupRaisesKeeps
<1>7. ASSUME NEW c \in Calls,
             \/ HandleProfile(c) \/ HandleNamed(c) \/ HandleSearch(c) \/ HandleUpload(c)
             \/ HandleRest(c)
      PROVE  CallInv'
  BY <1>7, HandleProfileKeeps, HandleNamedKeeps, HandleSearchKeeps, HandleUploadKeeps,
     HandleRestKeeps
<1> QED
  BY <1>1, <1>2, <1>3, <1>4, <1>5, <1>6, <1>7 DEF CallNext

LEMMA CallInvAlways ==
    CallSpec => []CallInv
  BY InitCallInv, StepCallInv, PTL DEF CallSpec

LEMMA WritesOfViewers ==
    ASSUME CallInv
    PROVE  ViewerNeverWrites
<1> SUFFICES ASSUME NEW c \in Calls, Writes(c), NEW w \in call[c].acted
             PROVE  seen[c][w] # {"viewer"}
  BY DEF ViewerNeverWrites
<1>1. WritesBy(call[c]) /\ NotViewer(seen[c], w)
  BY DEF CallInv, CallOK, ActedTrue, Writes, WritesBy
<1> QED
  BY <1>1 DEF NotViewer

LEMMA ServiceOfOutsiders ==
    ASSUME CallInv
    PROVE  RemovedIsRefused
<1> SUFFICES ASSUME NEW c \in Calls, NEW w \in call[c].acted, seen[c][w] = {"none"}
             PROVE  /\ Scope(c) = NoWorkspace /\ w \in uploads
                    /\ w \in managed => call[c].faulted
  BY DEF RemovedIsRefused
<1>1. Served(call[c], seen[c], w)
  BY DEF CallInv, CallOK, ActedTrue
<1> QED
  BY <1>1 DEF Served, ScopeOf, Scope

LEMMA EventsOfCalls ==
    ASSUME CallInv
    PROVE  AuditTellsTheOutcome
<1>1. Config /\ Typed
  BY DEF CallInv
<1>2. CallTypeOK
  <2>1. ASSUME NEW c \in Calls
        PROVE  /\ call[c].found \subseteq Workspaces
               /\ call[c].acted \subseteq Workspaces
               /\ call[c].bound \in Workspaces \cup {NoWorkspace}
    BY <1>1 DEF Typed, CallRecord
  <2>2. ASSUME NEW c \in Calls
        PROVE  Len(published[c]) <= 1
    <3>1. published[c] \in Events
      BY <1>1 DEF Typed
    <3>2. ASSUME NEW p \in Events
          PROVE  Len(p) <= 1
      <4>1. Len(<<>>) = 0 /\ Len(<<"ok">>) = 1 /\ Len(<<"denied">>) = 1 /\ Len(<<"error">>) = 1
        OBVIOUS
      <4>2. p = <<>> \/ p = <<"ok">> \/ p = <<"denied">> \/ p = <<"error">>
        BY DEF Events
      <4>3. Len(p) = 0 \/ Len(p) = 1
        BY <4>1, <4>2, Zenon
      <4>4. \A n : n = 0 \/ n = 1 => n <= 1
        OBVIOUS
      <4> QED
        BY <4>3, <4>4, Zenon
    <3> QED
      BY <3>1, <3>2
  <2> QED
    BY <1>1, <2>1, <2>2 DEF CallTypeOK, Config
<1>3. ASSUME NEW c \in Calls, call[c].at # "done"
      PROVE  published[c] = <<>>
  BY <1>3 DEF CallInv, CallOK, ActedTrue
<1>4. ASSUME NEW c \in Calls, call[c].at = "done", Audited(c)
      PROVE  published[c] = CASE call[c].reply \in {"401", "503", "unknown"} -> <<>>
                              [] call[c].reply \in {"forbidden", "quota", "unlinked"} -> <<"denied">>
                              [] call[c].reply \in {"refused", "internal"} -> <<"error">>
                              [] call[c].reply = "ok" -> <<"ok">>
  <2>1. call[c].reply \in Replies \ {"none"}
    BY <1>1, <1>4 DEF Typed, CallRecord, CallInv, CallOK, ActedTrue
  <2>2. published[c] = Outcome(call[c]) /\ AuditedOf(call[c])
    BY <1>4 DEF CallInv, CallOK, ActedTrue, AuditedOf, Audited
  <2>3. PICK x \in Replies \ {"none"} : x = call[c].reply
    BY <2>1
  <2>4. published[c] = IF x \in {"401", "503", "unknown"} THEN <<>>
                       ELSE IF x \in {"forbidden", "quota", "unlinked"} THEN <<"denied">>
                       ELSE IF x \in {"refused", "internal"} THEN <<"error">> ELSE <<"ok">>
    BY <2>2, <2>3 DEF Outcome
  <2>5. published[c] = CASE x \in {"401", "503", "unknown"} -> <<>>
                         [] x \in {"forbidden", "quota", "unlinked"} -> <<"denied">>
                         [] x \in {"refused", "internal"} -> <<"error">>
                         [] x = "ok" -> <<"ok">>
    BY <2>4 DEF Replies
  <2> QED
    BY <2>3, <2>5
<1> QED
  BY <1>2, <1>3, <1>4 DEF AuditTellsTheOutcome

(* Whatever queries of get_authorized_workspace_ids fail and however the   *)
(* roles change, who is a viewer of a workspace all through a request      *)
(* writes nothing into it.                                                 *)
THEOREM ViewersNeverWrite ==
    CallSpec => []ViewerNeverWrites
  BY CallInvAlways, WritesOfViewers, PTL

(* Who is no member of a workspace all through a request is served by it   *)
(* only through the fallback on uploads, and where the members are managed *)
(* only after a failure of MongoDB; a key bound to a workspace has no such *)
(* fallback.                                                               *)
THEOREM OutsidersAreRefused ==
    CallSpec => []RemovedIsRefused
  BY CallInvAlways, ServiceOfOutsiders, PTL

(* The state keeps its type, a request to a tool that returns text has at  *)
(* most one audit event, and the event tells how the request ended.        *)
THEOREM AuditIsTruthful ==
    CallSpec => []AuditTellsTheOutcome
  BY CallInvAlways, EventsOfCalls, PTL

-----------------------------------------------------------------------------
(* The limiter's counters.                                                 *)

AskStates == {"idle", "minute", "month", "documents", "upload", "ttl_allowed", "ttl_denied", "expire"}
BetweenCalls == {"ttl_allowed", "ttl_denied", "expire"}

LimiterShape ==
    /\ backend \in {"memory", "redis"} /\ now \in Nat /\ count \in Nat
    /\ ttl = -1 \/ ttl \in 1 .. MinuteWindow
    /\ asking \in [Callers -> AskStates]
    /\ buckets \in [Counters -> [tokens : Int, last : Int]]
    /\ lastDone \in [Counters -> Int] /\ lastDone["minute"] <= now

(* A check in memory is one step, and one through Redis that is under way  *)
(* or was cut short is on record.                                          *)
ChecksSeen ==
    backend = "memory" \/ ~broken => \A r \in Callers : asking[r] \notin BetweenCalls

(* The bucket of the minute was last used when its last check was done. *)
BucketKept ==
    backend = "memory" =>
        \/ buckets["minute"] = NoBucket
        \/ buckets["minute"].tokens >= 0 /\ buckets["minute"].last = lastDone["minute"]

(* A key that no check left without its TTL expires within a window of the *)
(* last check.                                                             *)
KeyExpires ==
    backend = "redis" /\ ~broken /\ count > 0 =>
        1 <= ttl /\ ttl <= MinuteWindow - (now - lastDone["minute"])

LimiterInv == LimiterShape /\ ChecksSeen /\ BucketKept /\ KeyExpires /\ QuietIsServed

LEMMA MinuteConstants ==
    /\ MinuteWindow \in Nat /\ MinuteWindow >= 1 /\ MinuteLimit \in Nat /\ MinuteLimit >= 1
    /\ MonthWindow \in Nat /\ MinuteWindow * MinuteLimit \in Nat
    /\ MinuteWindow * MinuteLimit >= MinuteWindow /\ MinuteLimit * MinuteWindow >= MinuteWindow
    /\ Counters = {"minute", "month"} /\ Window("minute") = MinuteWindow
    /\ Limit("minute") = MinuteLimit /\ FullTokens("minute") = MinuteLimit * MinuteWindow
<1>1. /\ MinuteWindow \in Nat /\ MinuteWindow >= 1 /\ MinuteLimit \in Nat /\ MinuteLimit >= 1
      /\ MonthWindow \in Nat
  BY LimitAssumption
<1>2. MinuteWindow * MinuteLimit = MinuteWindow + MinuteWindow * (MinuteLimit - 1)
  BY <1>1
<1>3. MinuteWindow * (MinuteLimit - 1) \in Nat
  BY <1>1
<1>4. MinuteLimit * MinuteWindow = MinuteWindow * MinuteLimit
  BY <1>1
<1>5. MinuteWindow * MinuteLimit >= MinuteWindow /\ MinuteWindow * MinuteLimit \in Nat
  BY <1>1, <1>2, <1>3
<1> QED
  BY <1>1, <1>4, <1>5 DEF Counters, Window, Limit, FullTokens

LEMMA LesserOfTwo ==
    ASSUME NEW a \in Int, NEW b \in Int
    PROVE  Min({a, b}) \in {a, b} /\ Min({a, b}) <= a /\ Min({a, b}) <= b
<1>1. \E x \in {a, b} : \A y \in {a, b} : x <= y
  OBVIOUS
<1> QED
  BY <1>1 DEF Min

(* A bucket that rested for a window has a token for the next call, and    *)
(* none is ever overdrawn.                                                 *)
LEMMA RefilledTokens ==
    ASSUME NEW b \in [tokens : Int, last : Int], now \in Nat, b.tokens >= 0, b.last <= now
    PROVE  /\ Refilled("minute", b) \in Nat
           /\ b.tokens >= MinuteWindow \/ now - b.last >= MinuteWindow =>
                 Refilled("minute", b) >= MinuteWindow
<1>1. PICK d \in Nat : d = now - b.last
  OBVIOUS
<1>2. d * MinuteLimit \in Nat
  BY <1>1, MinuteConstants
<1>3. d >= MinuteWindow => d * MinuteLimit >= MinuteWindow
  <2>1. d * MinuteLimit = d + d * (MinuteLimit - 1) /\ d * (MinuteLimit - 1) \in Nat
    BY <1>1, MinuteConstants
  <2> QED
    BY <1>1, <2>1, MinuteConstants
<1>4. PICK x \in Nat : x = b.tokens + d * MinuteLimit /\ x >= d * MinuteLimit /\ x >= b.tokens
  BY <1>2
<1>5. PICK f \in Nat : f = FullTokens("minute") /\ f >= MinuteWindow
  BY MinuteConstants
<1>6. Refilled("minute", b) = Min({f, x})
  BY <1>1, <1>4, <1>5, MinuteConstants DEF Refilled
<1>7. Min({f, x}) \in {f, x}
  <2>1. f \in Int /\ x \in Int
    OBVIOUS
  <2> QED
    BY <2>1, LesserOfTwo, Zenon
<1>8. b.tokens >= MinuteWindow \/ d >= MinuteWindow => x >= MinuteWindow
  BY <1>2, <1>3, <1>4, MinuteConstants
<1> QED
  BY <1>1, <1>5, <1>6, <1>7, <1>8

LEMMA InitLimiterInv ==
    ASSUME LimitInit
    PROVE  LimiterInv
<1>1. /\ backend \in {"memory", "redis"} /\ now = 0 /\ count = 0 /\ ttl = -1
      /\ buckets = [k \in Counters |-> NoBucket] /\ asking = [r \in Callers |-> "idle"]
      /\ lastDone = [k \in Counters |-> -MonthWindow] /\ verdict = NoVerdict
  BY DEF LimitInit
<1>2. NoBucket \in [tokens : Int, last : Int]
  BY DEF NoBucket
<1>3. LimiterShape
  BY <1>1, <1>2, MinuteConstants DEF LimiterShape, AskStates
<1> QED
  BY <1>1, <1>3, MinuteConstants
  DEF LimiterInv, ChecksSeen, BetweenCalls, BucketKept, KeyExpires, QuietIsServed, NoVerdict

LEMMA LimitTickKeeps ==
    ASSUME LimiterInv, LimitTick
    PROVE  LimiterInv'
<1>1. /\ now' = now + 1 /\ ttl' = (IF ttl > 1 THEN ttl - 1 ELSE -1)
      /\ count' = IF ttl = 1 THEN 0 ELSE count
      /\ UNCHANGED <<backend, buckets, asking, lastDone, broken, verdict>>
  BY DEF LimitTick, ghosts
<1>2. /\ now \in Nat /\ count \in Nat /\ ttl \in Int /\ lastDone["minute"] \in Int
      /\ lastDone["minute"] <= now
  BY MinuteConstants DEF LimiterInv, LimiterShape
<1>3. LimiterShape'
  BY <1>1, <1>2, MinuteConstants DEF LimiterInv, LimiterShape
<1>4. KeyExpires'
  BY <1>1, <1>2, MinuteConstants DEF LimiterInv, KeyExpires
<1> QED
  BY <1>1, <1>3, <1>4 DEF LimiterInv, ChecksSeen, BucketKept, QuietIsServed

(* A step of request r that leaves the counters alone. *)
LEMMA RequestMoves ==
    ASSUME LimiterInv, NEW r \in Callers, NEW at \in AskStates \ BetweenCalls, Go(r, at),
           UNCHANGED <<backend, now, buckets, count, ttl, lastDone, broken, verdict>>
    PROVE  LimiterInv'
<1>1. /\ asking' \in [Callers -> AskStates]
      /\ \A q \in Callers : asking'[q] = asking[q] \/ asking'[q] \notin BetweenCalls
  BY DEF Go, LimiterInv, LimiterShape
<1>2. LimiterShape' /\ ChecksSeen'
  BY <1>1 DEF LimiterInv, LimiterShape, ChecksSeen
<1> QED
  BY <1>2 DEF LimiterInv, BucketKept, KeyExpires, QuietIsServed

LEMMA CheckMemoryKeeps ==
    ASSUME LimiterInv, NEW r \in Callers, NEW k \in Counters, NEW next \in {"month", "documents"},
           CheckMemory(r, k, next)
    PROVE  LimiterInv'
<1> DEFINE kept == IF now - lastCleanup > CleanupInterval THEN CleanedUp(k) ELSE buckets
           tokens == Refilled(k, BucketAt(kept, k))
           allowed == tokens >= Window(k)
           left == [tokens |-> tokens - (IF allowed THEN Window(k) ELSE 0), last |-> now]
<1>1. /\ backend = "memory" /\ buckets' = [kept EXCEPT ![k] = left]
      /\ Go(r, IF allowed THEN next ELSE "idle") /\ Decide(k, allowed, TRUE)
      /\ UNCHANGED <<backend, now, count, ttl>>
  BY DEF CheckMemory
<1>2. /\ kept \in [Counters -> [tokens : Int, last : Int]]
      /\ kept["minute"] \in {buckets["minute"], NoBucket}
  BY MinuteConstants DEF LimiterInv, LimiterShape, CleanedUp, NoBucket
<1>3. /\ asking' \in [Callers -> AskStates]
      /\ \A q \in Callers : asking'[q] = asking[q] \/ asking'[q] \notin BetweenCalls
  BY <1>1 DEF Go, LimiterInv, LimiterShape, AskStates, BetweenCalls
<1>4. /\ lastDone' = [lastDone EXCEPT ![k] = now]
      /\ verdict' = [counter |-> k, allowed |-> allowed,
                     quiet |-> ~broken /\ now - lastDone[k] >= Window(k)]
  BY <1>1 DEF Decide
<1>5. PICK b : b = BucketAt(kept, k)
  OBVIOUS
<1>6. CASE k = "minute"
  <2>1. now \in Nat /\ lastDone["minute"] \in Int /\ lastDone["minute"] <= now
    BY MinuteConstants DEF LimiterInv, LimiterShape
  <2>2. /\ b \in [tokens : Int, last : Int] /\ b.tokens >= 0 /\ b.last <= now
        /\ b.last = lastDone["minute"] \/ b.tokens >= MinuteWindow
    <3>1. CASE kept["minute"] = NoBucket
      <4>1. b = [tokens |-> MinuteLimit * MinuteWindow, last |-> now]
        BY <1>5, <1>6, <3>1, MinuteConstants DEF BucketAt
      <4>2. PICK f \in Nat : f = MinuteLimit * MinuteWindow /\ f >= MinuteWindow
        BY MinuteConstants
      <4> QED
        BY <2>1, <4>1, <4>2
    <3>2. CASE kept["minute"] # NoBucket
      <4>1. b = kept["minute"] /\ kept["minute"] = buckets["minute"]
        BY <1>2, <1>5, <1>6, <3>2 DEF BucketAt
      <4> QED
        BY <1>1, <1>2, <2>1, <3>2, <4>1, MinuteConstants DEF LimiterInv, BucketKept
    <3> QED
      BY <3>1, <3>2
  <2>3. PICK t \in Nat :
           /\ t = tokens
           /\ b.tokens >= MinuteWindow \/ now - b.last >= MinuteWindow => t >= MinuteWindow
    BY <1>5, <1>6, <2>1, <2>2, RefilledTokens
  <2>4. /\ allowed <=> t >= MinuteWindow
        /\ left = [tokens |-> t - (IF allowed THEN MinuteWindow ELSE 0), last |-> now]
    BY <1>6, <2>3, MinuteConstants
  <2> HIDE DEF allowed, left, tokens, kept
  <2>5. /\ left \in [tokens : Int, last : Int] /\ left.tokens >= 0 /\ left.last = now
    BY <2>1, <2>3, <2>4, MinuteConstants
  <2>6. /\ buckets' \in [Counters -> [tokens : Int, last : Int]] /\ buckets'["minute"] = left
        /\ lastDone' \in [Counters -> Int] /\ lastDone'["minute"] = now
    BY <1>1, <1>2, <1>4, <1>6, <2>1, <2>5, MinuteConstants DEF LimiterInv, LimiterShape
  <2>7. LimiterShape' /\ ChecksSeen'
    BY <1>1, <1>3, <2>1, <2>6 DEF LimiterInv, LimiterShape, ChecksSeen
  <2>8. BucketKept' /\ KeyExpires'
    BY <1>1, <2>5, <2>6 DEF BucketKept, KeyExpires
  <2>9. QuietIsServed'
    BY <1>4, <1>6, <2>1, <2>2, <2>3, <2>4, MinuteConstants DEF QuietIsServed
  <2> QED
    BY <2>7, <2>8, <2>9 DEF LimiterInv
<1>7. CASE k # "minute"
  <2>1. k = "month" /\ now \in Nat
    BY <1>7, MinuteConstants DEF LimiterInv, LimiterShape
  <2>2. CheckMemory(r, "month", next) /\ b \in [tokens : Int, last : Int]
    <3>1. FullTokens("month") \in Int
      BY LimitAssumption DEF FullTokens, Limit, Window
    <3> QED
      BY <1>2, <1>5, <2>1, <3>1, MinuteConstants DEF BucketAt
  <2>3. left \in [tokens : Int, last : Int]
    <3>1. FullTokens("month") \in Int /\ Limit("month") \in Int /\ Window("month") \in Int
      BY LimitAssumption DEF FullTokens, Limit, Window
    <3>2. PICK y \in Int : y = b.tokens + (now - b.last) * Limit("month")
      BY <2>1, <2>2, <3>1
    <3>3. tokens = Min({FullTokens("month"), y})
      BY <1>5, <2>1, <3>2 DEF Refilled
    <3>4. tokens \in Int
      BY <3>1, <3>3, LesserOfTwo
    <3> QED
      BY <2>1, <3>1, <3>4
  <2> HIDE DEF left, tokens, allowed, kept
  <2>4. /\ buckets' \in [Counters -> [tokens : Int, last : Int]]
        /\ buckets'["minute"] \in {buckets["minute"], NoBucket}
        /\ lastDone' \in [Counters -> Int] /\ lastDone'["minute"] = lastDone["minute"]
    BY <1>1, <1>2, <1>4, <2>1, <2>3, MinuteConstants DEF LimiterInv, LimiterShape
  <2>5. LimiterShape' /\ ChecksSeen'
    BY <1>1, <1>3, <2>4 DEF LimiterInv, LimiterShape, ChecksSeen
  <2>6. BucketKept' /\ KeyExpires'
    BY <1>1, <2>4 DEF LimiterInv, BucketKept, KeyExpires
  <2>7. QuietIsServed'
    BY <1>4, <2>1 DEF QuietIsServed
  <2> QED
    BY <2>5, <2>6, <2>7 DEF LimiterInv
<1> QED
  BY <1>6, <1>7

LEMMA IncrKeeps ==
    ASSUME LimiterInv, NEW r \in Callers, Incr(r)
    PROVE  LimiterInv'
<1>1. /\ backend = "redis" /\ count' = count + 1 /\ Decide("minute", count + 1 <= MinuteLimit, FALSE)
      /\ UNCHANGED <<backend, now, buckets, ttl>>
      /\ \E at \in BetweenCalls : Go(r, at)
  BY DEF Incr, BetweenCalls
<1>2. /\ lastDone' = lastDone /\ broken' = TRUE
      /\ verdict' = [counter |-> "minute", allowed |-> count + 1 <= MinuteLimit,
                     quiet |-> ~broken /\ now - lastDone["minute"] >= MinuteWindow]
  BY <1>1, MinuteConstants DEF Decide
<1>3. asking' \in [Callers -> AskStates]
  BY <1>1 DEF Go, BetweenCalls, AskStates, LimiterInv, LimiterShape
<1>4. LimiterShape'
  BY <1>1, <1>2, <1>3 DEF LimiterInv, LimiterShape
<1>5. ASSUME ~broken, now - lastDone["minute"] >= MinuteWindow
      PROVE  count + 1 <= MinuteLimit
  <2>1. count \in Nat /\ now \in Nat /\ lastDone["minute"] \in Int /\ ttl \in Int
    BY MinuteConstants DEF LimiterInv, LimiterShape
  <2>2. ~(count > 0)
    BY <1>1, <1>5, <2>1, MinuteConstants DEF LimiterInv, KeyExpires
  <2> QED
    BY <2>1, <2>2, MinuteConstants
<1>6. QuietIsServed'
  BY <1>2, <1>5 DEF QuietIsServed
<1>7. ChecksSeen' /\ BucketKept' /\ KeyExpires'
  BY <1>1, <1>2 DEF ChecksSeen, BucketKept, KeyExpires
<1> QED
  BY <1>4, <1>6, <1>7 DEF LimiterInv

(* A check through Redis has asked for the TTL, set it, or died.           *)
LEMMA KeyStepKeeps ==
    ASSUME LimiterInv, NEW r \in Callers, AskTtl(r) \/ Expire(r) \/ CutShort(r)
    PROVE  LimiterInv'
<1>1. /\ asking[r] \in BetweenCalls
      /\ UNCHANGED <<backend, now, buckets, count, verdict>>
      /\ \E at \in {"idle", "expire"} : Go(r, at)
  BY DEF AskTtl, Expire, CutShort, CheckDone, BetweenCalls
<1>2. backend = "redis" /\ broken
  BY <1>1 DEF LimiterInv, LimiterShape, ChecksSeen
<1>3. asking' \in [Callers -> AskStates]
  BY <1>1 DEF Go, AskStates, LimiterInv, LimiterShape
<1>4. /\ now \in Nat /\ count \in Nat /\ lastDone \in [Counters -> Int]
      /\ lastDone["minute"] <= now /\ (ttl = -1 \/ ttl \in 1 .. MinuteWindow)
  BY DEF LimiterInv, LimiterShape
<1>5. CASE UNCHANGED <<lastDone, ttl>> /\ broken'
  <2>1. LimiterShape'
    BY <1>1, <1>3, <1>5 DEF LimiterInv, LimiterShape
  <2> QED
    BY <1>1, <1>2, <1>5, <2>1 DEF LimiterInv, ChecksSeen, BucketKept, KeyExpires, QuietIsServed
<1>6. CASE CheckDone(r) /\ (count > 0 => ttl' \in 1 .. MinuteWindow)
           /\ (ttl' = -1 \/ ttl' \in 1 .. MinuteWindow)
  <2>1. /\ lastDone' \in [Counters -> Int] /\ lastDone'["minute"] = now
        /\ Go(r, "idle") /\ broken' = \E q \in Callers \ {r} : asking[q] \notin {"idle", "minute"}
    BY <1>4, <1>6, MinuteConstants DEF CheckDone
  <2>2. LimiterShape'
    BY <1>1, <1>3, <1>4, <1>6, <2>1 DEF LimiterInv, LimiterShape
  <2>3. ChecksSeen'
    BY <1>1, <1>2, <2>1 DEF ChecksSeen, BetweenCalls, Go, LimiterInv, LimiterShape
  <2>4. KeyExpires'
    BY <1>1, <1>4, <1>6, <2>1, MinuteConstants DEF KeyExpires
  <2> QED
    BY <1>1, <1>2, <2>2, <2>3, <2>4 DEF LimiterInv, BucketKept, QuietIsServed
<1>7. CASE AskTtl(r)
  <2>1. CASE ttl < 0
    BY <1>2, <1>5, <1>7, <2>1 DEF AskTtl
  <2>2. CASE ~(ttl < 0)
    <3>1. ttl' = ttl /\ CheckDone(r)
      BY <1>7, <2>2, Zenon DEF AskTtl
    <3>2. ttl \in 1 .. MinuteWindow
      BY <1>4, <2>2, MinuteConstants
    <3> QED
      BY <1>6, <3>1, <3>2
  <2> QED
    BY <2>1, <2>2
<1>8. CASE Expire(r)
  <2>1. CheckDone(r) /\ ttl' = IF count = 0 THEN -1 ELSE MinuteWindow
    BY <1>8 DEF Expire
  <2> QED
    BY <1>4, <1>6, <2>1, MinuteConstants
<1>9. CASE CutShort(r)
  BY <1>5, <1>9 DEF CutShort
<1> QED
  BY <1>7, <1>8, <1>9

LEMMA OtherLimiterSteps ==
    ASSUME LimiterInv, NEW r \in Callers, NEW next \in {"month", "documents"}, NEW k \in Counters,
           \/ Ask(r) \/ CounterError(r, k, next)
           \/ CountDocuments(r) \/ CountFails(r) \/ CreateDocument(r)
    PROVE  LimiterInv'
<1>1. /\ UNCHANGED <<backend, now, buckets, count, ttl, lastDone, broken, verdict>>
      /\ \E at \in {"idle", "minute", "month", "documents", "upload"} : Go(r, at)
  BY DEF Ask, CounterError, CountDocuments, CountFails, CreateDocument, ghosts
<1>2. {"idle", "minute", "month", "documents", "upload"} \subseteq AskStates \ BetweenCalls
  BY DEF AskStates, BetweenCalls
<1> QED
  BY <1>1, <1>2, RequestMoves

LEMMA LimiterStep ==
    ASSUME LimiterInv, [LimitNext]_limitVars
    PROVE  LimiterInv'
<1>1. CASE UNCHANGED limitVars
  BY <1>1
  DEF limitVars, LimiterInv, LimiterShape, ChecksSeen, BucketKept, KeyExpires, QuietIsServed
<1>2. "minute" \in Counters /\ "month" \in Counters
  BY DEF Counters
<1>3. CASE LimitTick
  BY <1>3, LimitTickKeeps
<1>4. ASSUME NEW r \in Callers,
             CheckMemory(r, "minute", "month") \/ CheckMemory(r, "month", "documents")
      PROVE  LimiterInv'
  BY <1>2, <1>4, CheckMemoryKeeps
<1>5. ASSUME NEW r \in Callers, Incr(r) \/ AskTtl(r) \/ Expire(r) \/ CutShort(r)
      PROVE  LimiterInv'
  BY <1>5, IncrKeeps, KeyStepKeeps
<1>6. ASSUME NEW r \in Callers,
             \/ Ask(r) \/ CounterError(r, "minute", "month") \/ CounterError(r, "month", "documents")
             \/ CountDocuments(r) \/ CountFails(r) \/ CreateDocument(r)
      PROVE  LimiterInv'
  BY <1>2, <1>6, OtherLimiterSteps
<1> QED
  BY <1>1, <1>3, <1>4, <1>5, <1>6 DEF LimitNext

(* A principal that made no call for a window is served, with either       *)
(* backend, whatever checks overlapped or were cut short before: a crash   *)
(* between INCR and EXPIRE leaves a key without TTL only until the next    *)
(* check (RedisBackend.check, InMemoryBackend.check).                      *)
THEOREM QuietCallersAreServed ==
    LimitSpec => []QuietIsServed
<1>1. LimiterInv /\ [LimitNext]_limitVars => LimiterInv'
  BY LimiterStep
<1>2. LimiterInv => QuietIsServed
  BY DEF LimiterInv
<1> QED
  BY <1>1, <1>2, InitLimiterInv, PTL DEF LimitSpec

-----------------------------------------------------------------------------
(* What the limits are worth.                                              *)

BucketTokens ==
    \A k \in Counters : buckets[k] = NoBucket \/ buckets[k].tokens \in 0 .. FullTokens(k)

(* The ghost only grows, up to the present. *)
GrantsRecorded ==
    /\ granted \in [0 .. MaxTime -> Nat]
    /\ \A t \in 0 .. now : \A u \in 0 .. t : granted[u] <= granted[t]

TokensNow ==
    IF buckets["minute"] = NoBucket THEN FullTokens("minute")
    ELSE Refilled("minute", buckets["minute"])

(* What was granted since any moment of the last minute was paid for with  *)
(* the tokens of a full bucket and those that have come in since; what is  *)
(* left of them is in the bucket.                                          *)
BucketPaces ==
    backend = "memory" =>
        \A u \in -MinuteWindow .. now :
            (GrantedUntil(now) - GrantedUntil(u)) * MinuteWindow + TokensNow
                <= FullTokens("minute") + (now - u) * MinuteLimit

(* Since moment b all grants are those of one key, which lives until a     *)
(* window later at least, and the window before b saw no more than one     *)
(* key's worth of them.                                                    *)
KeyPaces ==
    backend = "redis" =>
        \E b \in 0 .. now :
            /\ GrantedUntil(now) - GrantedUntil(b - 1) <= count
            /\ GrantedUntil(now) - GrantedUntil(b - 1) <= MinuteLimit
            /\ GrantedUntil(b - 1) - GrantedUntil(b - 1 - MinuteWindow) <= MinuteLimit
            /\ ttl >= 1 => count > 0 /\ now + ttl >= b + MinuteWindow

PaceInv == LimitTypeOK /\ BucketTokens /\ GrantsRecorded /\ BucketPaces /\ KeyPaces

LEMMA CounterConstants ==
    ASSUME NEW k \in Counters
    PROVE  /\ Limit(k) \in Nat /\ Limit(k) >= 1 /\ Window(k) \in Nat /\ Window(k) >= MinuteWindow
           /\ FullTokens(k) \in Nat /\ FullTokens(k) >= Window(k)
           /\ FullTokens("minute") = MinuteLimit * MinuteWindow
           /\ MinuteWindow \in Nat /\ MinuteWindow >= 1 /\ MinuteLimit \in Nat /\ MinuteLimit >= 1
           /\ MaxTime \in Nat
<1>1. /\ Limit(k) \in Nat /\ Limit(k) >= 1 /\ Window(k) \in Nat /\ Window(k) >= MinuteWindow
      /\ MinuteWindow \in Nat /\ MinuteWindow >= 1 /\ MinuteLimit \in Nat /\ MinuteLimit >= 1
      /\ MaxTime \in Nat
  BY LimitAssumption DEF Limit, Window
<1>2. PICK l \in Nat, w \in Nat : l = Limit(k) /\ w = Window(k) /\ l >= 1
  BY <1>1
<1>3. l * w = w + (l - 1) * w /\ (l - 1) * w \in Nat /\ l * w \in Nat
  BY <1>2
<1> QED
  BY <1>1, <1>2, <1>3, MinuteConstants DEF FullTokens

LEMMA GrantedUntilNow ==
    ASSUME LimitTypeOK, GrantsRecorded
    PROVE  /\ now \in Nat /\ now <= MaxTime
           /\ \A t \in Int : t <= now => GrantedUntil(t) \in Nat
           /\ \A t, u \in Int : u <= t /\ t <= now => GrantedUntil(u) <= GrantedUntil(t)
<1>1. MaxTime \in Nat /\ now \in Nat /\ now <= MaxTime
  BY LimitAssumption DEF LimitTypeOK
<1>2. ASSUME NEW t \in Int, t <= now
      PROVE  GrantedUntil(t) \in Nat
  BY <1>1, <1>2 DEF GrantsRecorded, GrantedUntil
<1>3. ASSUME NEW t \in Int, NEW u \in Int, u <= t, t <= now
      PROVE  GrantedUntil(u) <= GrantedUntil(t)
  <2>1. CASE u < 0
    BY <1>2, <1>3, <2>1 DEF GrantedUntil
  <2>2. CASE u >= 0
    <3>1. t \in 0 .. now /\ u \in 0 .. t
      BY <1>1, <1>3, <2>2
    <3> QED
      BY <1>3, <2>2, <3>1 DEF GrantsRecorded, GrantedUntil
  <2> QED
    BY <1>3, <2>1, <2>2
<1> QED
  BY <1>1, <1>2, <1>3

(* A decision at this moment adds one grant to it, or none. *)
LEMMA GrantsAdded ==
    ASSUME LimitTypeOK, GrantsRecorded, now' = now, NEW n \in {0, 1},
           granted' = IF n = 1 THEN [granted EXCEPT ![now] = @ + 1] ELSE granted
    PROVE  /\ GrantsRecorded'
           /\ GrantedUntil(now)' = GrantedUntil(now) + n
           /\ \A u \in Int : u < now => GrantedUntil(u)' = GrantedUntil(u)
<1>1. MaxTime \in Nat /\ now \in 0 .. MaxTime
  BY LimitAssumption DEF LimitTypeOK
<1>2. /\ granted \in [0 .. MaxTime -> Nat] /\ granted' \in [0 .. MaxTime -> Nat]
      /\ granted'[now] = granted[now] + n
      /\ \A u \in 0 .. MaxTime : u # now => granted'[u] = granted[u]
  BY <1>1 DEF GrantsRecorded
<1>3. ASSUME NEW t \in 0 .. now, NEW u \in 0 .. t
      PROVE  granted'[u] <= granted'[t]
  <2>1. granted[u] <= granted[t] /\ u \in 0 .. MaxTime /\ t \in 0 .. MaxTime
    BY <1>1, <1>3 DEF GrantsRecorded
  <2>2. granted[u] \in Nat /\ granted[t] \in Nat
    BY <1>2, <2>1
  <2>3. CASE t # now
    BY <1>1, <1>2, <1>3, <2>1, <2>2, <2>3
  <2>4. CASE t = now
    BY <1>1, <1>2, <1>3, <2>1, <2>2, <2>4
  <2> QED
    BY <2>3, <2>4
<1> QED
  BY <1>1, <1>2, <1>3 DEF GrantsRecorded, GrantedUntil

(* Neither the tokens of a bucket nor a token more per limit and tick go   *)
(* past its capacity.                                                      *)
LEMMA RefillOf ==
    ASSUME NEW k \in Counters, NEW b \in [tokens : Int, last : Int], now \in Nat, b.tokens >= 0,
           b.last <= now
    PROVE  /\ Refilled(k, b) \in Nat /\ Refilled(k, b) <= FullTokens(k)
           /\ b.tokens <= FullTokens(k) => b.tokens <= Refilled(k, b)
           /\ b.tokens <= FullTokens(k) /\ b.last = now => Refilled(k, b) = b.tokens
           /\ now - b.last >= Window(k) => Refilled(k, b) = FullTokens(k)
           /\ Refilled(k, b) = Min({FullTokens(k), b.tokens + (now - b.last) * Limit(k)})
<1>1. PICK d \in Nat, l \in Nat, w \in Nat, f \in Nat :
         /\ d = now - b.last /\ l = Limit(k) /\ w = Window(k) /\ f = FullTokens(k) /\ f = l * w
  BY CounterConstants DEF FullTokens
<1>2. PICK x \in Nat : x = b.tokens + d * l /\ x >= b.tokens /\ (d = 0 => x = b.tokens)
  <2>1. d * l \in Nat /\ (d = 0 => d * l = 0)
    BY <1>1
  <2> QED
    BY <2>1
<1>3. d >= w => x >= f
  <2>1. ASSUME d >= w
        PROVE  d * l >= l * w
    <3>1. PICK e \in Nat : d = w + e
      BY <2>1
    <3>2. d * l = l * w + e * l /\ e * l \in Nat /\ l * w \in Nat
      BY <3>1
    <3> QED
      BY <3>2
  <2>2. d * l \in Nat
    OBVIOUS
  <2> QED
    BY <1>1, <1>2, <2>1, <2>2
<1>4. Refilled(k, b) = Min({f, x})
  BY <1>1, <1>2 DEF Refilled
<1>5. Min({f, x}) \in {f, x} /\ Min({f, x}) <= f /\ Min({f, x}) <= x
  <2>1. f \in Int /\ x \in Int
    OBVIOUS
  <2> QED
    BY <2>1, LesserOfTwo, Zenon
<1>6. Refilled(k, b) = Min({FullTokens(k), b.tokens + (now - b.last) * Limit(k)})
  BY DEF Refilled
<1>7. PICK y \in Nat : y = Refilled(k, b) /\ y \in {f, x} /\ y <= f /\ y <= x
  BY <1>4, <1>5
<1>8. y \in Nat /\ y <= FullTokens(k)
  BY <1>1, <1>7
<1>9. ASSUME b.tokens <= FullTokens(k)
      PROVE  b.tokens <= y /\ (b.last = now => y = b.tokens)
  <2>1. b.tokens <= f /\ b.tokens <= x /\ (b.last = now => x = b.tokens)
    BY <1>1, <1>2, <1>9
  <2> QED
    BY <1>7, <2>1
<1>10. now - b.last >= Window(k) => y = FullTokens(k)
  BY <1>1, <1>3, <1>7
<1> QED
  BY <1>6, <1>7, <1>8, <1>9, <1>10

LEMMA BucketsTyped ==
    ASSUME LimiterInv, LimitTypeOK, BucketTokens
    PROVE  /\ buckets \in [Counters -> [tokens : Int, last : Int]]
           /\ \A k \in Counters : buckets[k].last \in Int /\ buckets[k].last <= now
           /\ \A k \in Counters : buckets[k] # NoBucket =>
                 buckets[k].tokens \in Nat /\ buckets[k].tokens <= FullTokens(k)
           /\ now \in Nat /\ TokensNow \in Nat /\ TokensNow <= FullTokens("minute")
<1>1. now \in Nat /\ buckets \in [Counters -> [tokens : Int, last : Int]]
  BY DEF LimiterInv, LimiterShape
<1>2. \A k \in Counters : buckets[k].last \in Int /\ buckets[k].last <= now
  BY <1>1 DEF LimitTypeOK
<1>3. ASSUME NEW k \in Counters, buckets[k] # NoBucket
      PROVE  buckets[k].tokens \in Nat /\ buckets[k].tokens <= FullTokens(k)
  <2>1. FullTokens(k) \in Nat
    BY CounterConstants
  <2> QED
    BY <1>3, <2>1 DEF BucketTokens
<1>4. "minute" \in Counters /\ FullTokens("minute") \in Nat
  BY CounterConstants DEF Counters
<1>5. TokensNow \in Nat /\ TokensNow <= FullTokens("minute")
  <2>1. CASE buckets["minute"] = NoBucket
    BY <1>4, <2>1 DEF TokensNow
  <2>2. CASE buckets["minute"] # NoBucket
    <3>1. PICK b : b = buckets["minute"]
      OBVIOUS
    <3>2. b \in [tokens : Int, last : Int] /\ b.tokens >= 0 /\ b.last <= now
      BY <1>1, <1>2, <1>3, <1>4, <2>2, <3>1
    <3>3. TokensNow = Refilled("minute", b)
      BY <2>2, <3>1 DEF TokensNow
    <3> QED
      BY <1>1, <1>4, <3>2, <3>3, RefillOf
  <2> QED
    BY <2>1, <2>2
<1> QED
  BY <1>1, <1>2, <1>3, <1>5

(* No minute that ends now saw more grants than two full buckets or two    *)
(* keys allow.                                                             *)
LEMMA BurstNow ==
    LimiterInv /\ PaceInv => GrantsWithinMinute(now) <= 2 * MinuteLimit
<1> SUFFICES ASSUME LimiterInv, PaceInv
             PROVE  GrantsWithinMinute(now) <= 2 * MinuteLimit
  OBVIOUS
<1>1. /\ now \in Nat
      /\ \A t \in Int : t <= now => GrantedUntil(t) \in Nat
      /\ \A t, u \in Int : u <= t /\ t <= now => GrantedUntil(u) <= GrantedUntil(t)
  BY GrantedUntilNow DEF PaceInv
<1>2. /\ MinuteWindow \in Nat /\ MinuteWindow >= 1 /\ MinuteLimit \in Nat /\ MinuteLimit >= 1
      /\ FullTokens("minute") = MinuteLimit * MinuteWindow
  BY MinuteConstants
<1>3. PICK p \in Int : p = now - MinuteWindow
  BY <1>1, <1>2
<1>4. p <= now /\ GrantedUntil(p) \in Nat /\ GrantedUntil(now) \in Nat
  BY <1>1, <1>2, <1>3
<1>5. PICK d \in Int : d = GrantedUntil(now) - GrantedUntil(p)
  BY <1>4
<1>6. GrantsWithinMinute(now) = d
  BY <1>3, <1>5 DEF GrantsWithinMinute
<1>7. CASE backend = "memory"
  <2>1. TokensNow \in Nat
    BY BucketsTyped DEF PaceInv
  <2>2. p \in -MinuteWindow .. now
    BY <1>1, <1>2, <1>3
  <2>3. d * MinuteWindow + TokensNow <= FullTokens("minute") + (now - p) * MinuteLimit
    BY <1>5, <1>7, <2>2 DEF PaceInv, BucketPaces
  <2>4. now - p = MinuteWindow
    BY <1>1, <1>2, <1>3
  <2>5. d * MinuteWindow + TokensNow <= MinuteLimit * MinuteWindow + MinuteWindow * MinuteLimit
    BY <1>2, <2>3, <2>4
  <2>6. d * MinuteWindow \in Int /\ MinuteLimit * MinuteWindow \in Int
        /\ MinuteLimit * MinuteWindow = MinuteWindow * MinuteLimit
    BY <1>2, <1>5
  <2>7. ASSUME d > 2 * MinuteLimit
        PROVE  FALSE
    <3>1. PICK e \in Nat : d = 2 * MinuteLimit + 1 + e
      <4>1. d - (2 * MinuteLimit + 1) \in Nat /\ d = 2 * MinuteLimit + 1 + (d - (2 * MinuteLimit + 1))
        BY <1>2, <1>5, <2>7
      <4> QED
        BY <4>1
    <3>2. /\ d * MinuteWindow = 2 * (MinuteLimit * MinuteWindow) + MinuteWindow + e * MinuteWindow
          /\ e * MinuteWindow \in Nat
      <4>1. \A l, w, x \in Int : (2 * l + 1 + x) * w = 2 * (l * w) + w + x * w
        OBVIOUS
      <4>2. \A w, x \in Nat : x * w \in Nat
        OBVIOUS
      <4> QED
        BY <1>2, <3>1, <4>1, <4>2
    <3> QED
      BY <1>2, <2>1, <2>5, <2>6, <3>2
  <2> QED
    BY <1>2, <1>6, <2>7
<1>8. CASE backend = "redis"
  <2>1. PICK b \in 0 .. now :
           /\ GrantedUntil(now) - GrantedUntil(b - 1) <= MinuteLimit
           /\ GrantedUntil(b - 1) - GrantedUntil(b - 1 - MinuteWindow) <= MinuteLimit
    BY <1>8 DEF PaceInv, KeyPaces
  <2>2. /\ b \in Int /\ b - 1 <= now /\ b - 1 - MinuteWindow <= p /\ b - 1 - MinuteWindow \in Int
        /\ b - 1 \in Int /\ b - 1 - MinuteWindow <= now
    BY <1>1, <1>2, <1>3
  <2>3. /\ GrantedUntil(b - 1) \in Nat /\ GrantedUntil(b - 1 - MinuteWindow) \in Nat
        /\ GrantedUntil(b - 1 - MinuteWindow) <= GrantedUntil(p)
    BY <1>1, <1>4, <2>2
  <2> QED
    BY <1>2, <1>4, <1>5, <1>6, <2>1, <2>3
<1> QED
  BY <1>7, <1>8 DEF LimiterInv, LimiterShape

LEMMA InitPaceInv ==
    ASSUME LimitInit
    PROVE  PaceInv /\ BurstBounded
<1>1. /\ backend \in {"memory", "redis"} /\ now = 0 /\ count = 0 /\ ttl = -1 /\ documents = 0
      /\ buckets = [k \in Counters |-> NoBucket] /\ lastCleanup = 0 /\ limiterFaults = 0
      /\ granted = [t \in 0 .. MaxTime |-> 0]
  BY DEF LimitInit
<1>2. /\ MinuteWindow \in Nat /\ MinuteWindow >= 1 /\ MinuteLimit \in Nat /\ MaxTime \in Nat
      /\ MaxLimiterFaults \in Nat
  BY LimitAssumption
<1>3. \A k \in Counters : FullTokens(k) \in Nat
  BY CounterConstants
<1>4. LimitTypeOK /\ BucketTokens
  BY <1>1, <1>2, <1>3 DEF LimitTypeOK, BucketTokens, NoBucket
<1>5. \A u \in Int : u <= 0 => GrantedUntil(u) = 0
  BY <1>1, <1>2 DEF GrantedUntil
<1>6. GrantsRecorded
  BY <1>1, <1>2 DEF GrantsRecorded
<1>7. BucketPaces
  <2>1. TokensNow = FullTokens("minute") /\ FullTokens("minute") \in Nat
    BY <1>1, <1>3, MinuteConstants DEF TokensNow
  <2>2. ASSUME NEW u \in -MinuteWindow .. 0
        PROVE  (0 - u) * MinuteLimit \in Nat
    <3>1. PICK v \in Nat : v = 0 - u
      BY <1>2
    <3> QED
      BY <1>2, <3>1
  <2>3. ASSUME NEW u \in -MinuteWindow .. now
        PROVE  (GrantedUntil(now) - GrantedUntil(u)) * MinuteWindow + TokensNow
                   <= FullTokens("minute") + (now - u) * MinuteLimit
    <3>1. GrantedUntil(now) = 0 /\ GrantedUntil(u) = 0 /\ (now - u) * MinuteLimit \in Nat
      BY <1>1, <1>2, <1>5, <2>2
    <3>2. (0 - 0) * MinuteWindow = 0
      BY <1>2
    <3> QED
      BY <2>1, <3>1, <3>2
  <2> QED
    BY <2>3 DEF BucketPaces
<1>8. KeyPaces
  <2>1. 0 \in 0 .. now /\ 0 - 1 \in Int /\ 0 - 1 <= 0 /\ 0 - 1 - MinuteWindow \in Int
        /\ 0 - 1 - MinuteWindow <= 0
    BY <1>1, <1>2
  <2>2. GrantedUntil(now) = 0 /\ GrantedUntil(0 - 1) = 0 /\ GrantedUntil(0 - 1 - MinuteWindow) = 0
    BY <1>1, <1>5, <2>1
  <2> QED
    BY <1>1, <1>2, <2>1, <2>2 DEF KeyPaces
<1>9. BurstBounded
  <2>1. ASSUME NEW t \in 0 .. now
        PROVE  GrantsWithinMinute(t) <= 2 * MinuteLimit
    BY <1>1, <1>2, <1>5, <2>1 DEF GrantsWithinMinute
  <2> QED
    BY <2>1 DEF BurstBounded
<1> QED
  BY <1>4, <1>6, <1>7, <1>8, <1>9 DEF PaceInv

(* BurstBounded says of every moment up to now what is known of the last.  *)
LEMMA BurstsKept ==
    ASSUME LimitTypeOK, GrantsRecorded, BurstBounded, LimiterInv', PaceInv',
           now' \in {now, now + 1},
           \A u \in Int : u < now' => GrantedUntil(u)' = GrantedUntil(u)
    PROVE  BurstBounded'
<1>1. now \in Nat /\ MinuteWindow \in Nat /\ MinuteWindow >= 1
  BY LimitAssumption DEF LimitTypeOK
<1>2. (GrantsWithinMinute(now) <= 2 * MinuteLimit)'
  BY BurstNow, PTL
<1>3. ASSUME NEW t \in 0 .. now', t # now'
      PROVE  GrantsWithinMinute(t)' <= 2 * MinuteLimit
  <2>1. t \in 0 .. now /\ t \in Int /\ t < now' /\ t - MinuteWindow \in Int /\ t - MinuteWindow < now'
    BY <1>1, <1>3
  <2>2. GrantsWithinMinute(t)' = GrantsWithinMinute(t)
    BY <2>1 DEF GrantsWithinMinute
  <2> QED
    BY <2>1, <2>2 DEF BurstBounded
<1>4. ASSUME NEW t \in 0 .. now'
      PROVE  GrantsWithinMinute(t)' <= 2 * MinuteLimit
  BY <1>2, <1>3 DEF GrantsWithinMinute
<1> QED
  BY <1>4 DEF BurstBounded

LEMMA LimitTickPaces ==
    ASSUME LimiterInv, PaceInv, LimitTick
    PROVE  PaceInv' /\ \A u \in Int : u < now' => GrantedUntil(u)' = GrantedUntil(u)
<1>1. /\ now < MaxTime /\ now' = now + 1 /\ ttl' = (IF ttl > 1 THEN ttl - 1 ELSE -1)
      /\ count' = (IF ttl = 1 THEN 0 ELSE count) /\ granted' = [granted EXCEPT ![now + 1] = granted[now]]
      /\ UNCHANGED <<backend, buckets, lastCleanup, documents, limiterFaults>>
  BY DEF LimitTick
<1>2. /\ now \in Nat /\ now <= MaxTime /\ MaxTime \in Nat /\ count \in Nat /\ ttl \in -1 .. MinuteWindow
      /\ MinuteWindow \in Nat /\ MinuteWindow >= 1 /\ MinuteLimit \in Nat /\ MinuteLimit >= 1
      /\ FullTokens("minute") = MinuteLimit * MinuteWindow /\ "minute" \in Counters
      /\ FullTokens("minute") \in Nat
  BY LimitAssumption, MinuteConstants, CounterConstants DEF PaceInv, LimitTypeOK, Counters
<1>3. /\ \A t \in Int : t <= now => GrantedUntil(t) \in Nat
      /\ \A t, u \in Int : u <= t /\ t <= now => GrantedUntil(u) <= GrantedUntil(t)
  BY GrantedUntilNow DEF PaceInv
<1>4. /\ granted' \in [0 .. MaxTime -> Nat] /\ granted'[now + 1] = granted[now]
      /\ \A u \in 0 .. MaxTime : u # now + 1 => granted'[u] = granted[u]
  BY <1>1, <1>2 DEF PaceInv, GrantsRecorded
<1>5. /\ GrantedUntil(now)' = GrantedUntil(now)
      /\ \A u \in Int : u <= now => GrantedUntil(u)' = GrantedUntil(u)
  BY <1>1, <1>2, <1>4 DEF GrantedUntil
<1>6. GrantsRecorded'
  <2>1. ASSUME NEW t \in 0 .. now + 1, NEW u \in 0 .. t
        PROVE  granted'[u] <= granted'[t]
    <3>1. CASE t \in 0 .. now
      <4>1. granted[u] <= granted[t] /\ u \in 0 .. MaxTime /\ t \in 0 .. MaxTime /\ u # now + 1
            /\ t # now + 1
        BY <1>2, <2>1, <3>1 DEF PaceInv, GrantsRecorded
      <4> QED
        BY <1>4, <4>1
    <3>2. CASE t = now + 1 /\ u = now + 1
      <4>1. granted'[now + 1] \in Nat
        BY <1>1, <1>2, <1>4
      <4> QED
        BY <3>2, <4>1
    <3>3. CASE t = now + 1 /\ u \in 0 .. now
      <4>1. granted[u] <= granted[now] /\ u \in 0 .. MaxTime /\ u # now + 1
        BY <1>2, <3>3 DEF PaceInv, GrantsRecorded
      <4> QED
        BY <1>4, <3>3, <4>1
    <3> QED
      BY <1>2, <2>1, <3>1, <3>2, <3>3
  <2> QED
    BY <1>1, <1>4, <2>1 DEF GrantsRecorded
<1>7. LimitTypeOK' /\ BucketTokens'
  <2>1. now' \in 0 .. MaxTime /\ lastCleanup' \in 0 .. now' /\ count' \in Nat /\ ttl' \in -1 .. MinuteWindow
    BY <1>1, <1>2 DEF PaceInv, LimitTypeOK
  <2>2. \A k \in Counters : buckets'[k].last \in 0 .. now'
    BY <1>1, <1>2 DEF PaceInv, LimitTypeOK
  <2> QED
    BY <1>1, <2>1, <2>2 DEF PaceInv, LimitTypeOK, BucketTokens
<1>8. ASSUME backend = "memory"
      PROVE  TokensNow' \in Int /\ TokensNow' <= FullTokens("minute") /\ TokensNow' <= TokensNow + MinuteLimit
  <2>1. TokensNow \in Nat
    BY BucketsTyped DEF PaceInv
  <2>2. CASE buckets["minute"] = NoBucket
    BY <1>1, <1>2, <2>1, <2>2 DEF TokensNow
  <2>3. CASE buckets["minute"] # NoBucket
    <3>1. PICK b : b = buckets["minute"]
      OBVIOUS
    <3>2. b.tokens \in Nat /\ b.last \in Int /\ b.last <= now
      BY <1>2, <2>3, <3>1, BucketsTyped DEF PaceInv
    <3>3. PICK l \in Int, d \in Int, e \in Int :
             /\ l = Limit("minute") /\ l = MinuteLimit /\ l >= 1
             /\ d = now - b.last /\ e = now' - b.last /\ e = d + 1
      BY <1>1, <1>2, <3>2, MinuteConstants
    <3>4. PICK f \in Int, x \in Int, y \in Int :
             f = FullTokens("minute") /\ x = b.tokens + d * l /\ y = b.tokens + e * l /\ y = x + l
      <4>1. e * l = d * l + l /\ d * l \in Int
        BY <3>3
      <4> QED
        BY <1>2, <3>2, <4>1
    <3>6. TokensNow = Min({f, x}) /\ TokensNow' = Min({f, y})
      <4>1. /\ TokensNow = Min({FullTokens("minute"), b.tokens + (now - b.last) * Limit("minute")})
            /\ TokensNow' = Min({FullTokens("minute"), b.tokens + (now' - b.last) * Limit("minute")})
        BY <1>1, <2>3, <3>1, Zenon DEF TokensNow, Refilled
      <4> QED
        BY <3>3, <3>4, <4>1, Zenon
    <3>5. Min({f, x}) \in {f, x} /\ Min({f, y}) \in {f, y} /\ Min({f, y}) <= f /\ Min({f, y}) <= y
      <4>1. f \in Int /\ x \in Int /\ y \in Int
        OBVIOUS
      <4> QED
        BY <4>1, LesserOfTwo, Zenon
    <3>7. f = FullTokens("minute") /\ y = x + l /\ l = MinuteLimit /\ l >= 1
      BY <3>3, <3>4
    <3>8. PICK s \in Int, t \in Int : s = Min({f, x}) /\ t = Min({f, y})
      BY <3>5
    <3> QED
      BY <3>5, <3>6, <3>7, <3>8
  <2> QED
    BY <2>2, <2>3
<1>9. BucketPaces'
  <2>1. ASSUME backend = "memory", NEW u \in -MinuteWindow .. now'
        PROVE  (GrantedUntil(now)' - GrantedUntil(u)') * MinuteWindow + TokensNow'
                   <= FullTokens("minute") + (now' - u) * MinuteLimit
    <3>1. u \in Int /\ GrantedUntil(now)' = GrantedUntil(now)
      BY <1>1, <1>2, <1>5, <2>1
    <3>2. CASE u <= now
      <4>1. (GrantedUntil(now) - GrantedUntil(u)) * MinuteWindow + TokensNow
                <= FullTokens("minute") + (now - u) * MinuteLimit
        BY <1>2, <2>1, <3>2 DEF PaceInv, BucketPaces
      <4>2. (now + 1 - u) * MinuteLimit = (now - u) * MinuteLimit + MinuteLimit
            /\ (now - u) * MinuteLimit \in Int
        BY <1>2, <3>1
      <4>3. (GrantedUntil(now) - GrantedUntil(u)) * MinuteWindow \in Int /\ TokensNow \in Int
        BY <1>2, <1>3, <3>1, <3>2, BucketsTyped DEF PaceInv
      <4>4. GrantedUntil(u)' = GrantedUntil(u)
        BY <1>5, <3>1, <3>2
      <4>5. PICK g \in Int, t \in Int, h \in Int :
               /\ g = (GrantedUntil(now) - GrantedUntil(u)) * MinuteWindow /\ t = TokensNow
               /\ h = (now - u) * MinuteLimit
        BY <4>2, <4>3
      <4>6. g + t <= FullTokens("minute") + h /\ (now + 1 - u) * MinuteLimit = h + MinuteLimit
        BY <4>1, <4>2, <4>5
      <4>7. (GrantedUntil(now)' - GrantedUntil(u)') * MinuteWindow = g
        BY <3>1, <4>4, <4>5
      <4> QED
        BY <1>1, <1>2, <1>8, <2>1, <4>5, <4>6, <4>7
    <3>3. CASE u = now + 1
      <4>1. GrantedUntil(now)' = GrantedUntil(u)' /\ GrantedUntil(u)' \in Nat
        BY <1>1, <1>2, <1>3, <1>4, <1>5, <3>3 DEF GrantedUntil
      <4>2. (GrantedUntil(now)' - GrantedUntil(u)') * MinuteWindow = 0
            /\ (now + 1 - u) * MinuteLimit = 0
        BY <1>2, <3>3, <4>1
      <4> QED
        BY <1>1, <1>2, <1>8, <2>1, <4>2
    <3> QED
      BY <1>1, <1>2, <2>1, <3>1, <3>2, <3>3
  <2> QED
    BY <1>1, <2>1 DEF BucketPaces
<1>10. KeyPaces'
  <2> SUFFICES ASSUME backend = "redis"
               PROVE  KeyPaces'
    BY <1>1 DEF KeyPaces
  <2>1. PICK b \in 0 .. now :
           /\ GrantedUntil(now) - GrantedUntil(b - 1) <= count
           /\ GrantedUntil(now) - GrantedUntil(b - 1) <= MinuteLimit
           /\ GrantedUntil(b - 1) - GrantedUntil(b - 1 - MinuteWindow) <= MinuteLimit
           /\ ttl >= 1 => count > 0 /\ now + ttl >= b + MinuteWindow
    BY DEF PaceInv, KeyPaces
  <2>2. PICK c \in Int, d \in Int : c = b - 1 /\ d = b - 1 - MinuteWindow
    BY <1>2
  <2>3. c <= now /\ d <= now /\ GrantedUntil(c) \in Nat
    BY <1>2, <1>3, <2>2
  <2>4. CASE ttl # 1
    <3>1. GrantedUntil(c)' = GrantedUntil(c) /\ GrantedUntil(d)' = GrantedUntil(d)
      BY <1>5, <2>3
    <3>2. ttl' >= 1 => count > 0 /\ now' + ttl' >= b + MinuteWindow
      BY <1>1, <1>2, <2>1, <2>4
    <3>3. count' = count /\ b \in 0 .. now'
      BY <1>1, <1>2, <2>4
    <3> QED
      BY <1>5, <2>1, <2>2, <3>1, <3>2, <3>3 DEF KeyPaces
  <2>5. CASE ttl = 1
    <3>1. PICK m \in Int, p \in Int : m = now /\ p = now - MinuteWindow
      BY <1>2
    <3>2. p <= now /\ c <= p /\ c <= now
      BY <1>2, <2>1, <2>2, <2>5, <3>1
    <3>3. /\ GrantedUntil(m)' = GrantedUntil(now) /\ GrantedUntil(p)' = GrantedUntil(p)
          /\ GrantedUntil(p) \in Nat /\ GrantedUntil(c) \in Nat /\ GrantedUntil(c) <= GrantedUntil(p)
          /\ GrantedUntil(now) \in Nat
      BY <1>2, <1>3, <1>5, <3>1, <3>2
    <3>4. GrantedUntil(m)' - GrantedUntil(p)' <= MinuteLimit
      BY <1>2, <2>1, <2>2, <3>3
    <3>5. GrantedUntil(now)' - GrantedUntil(m)' = 0
      BY <1>5, <3>3
    <3>6. ttl' = -1 /\ count' = 0 /\ now' \in 0 .. now' /\ m = now' - 1 /\ p = now' - 1 - MinuteWindow
      BY <1>1, <1>2, <2>5, <3>1
    <3> QED
      BY <1>2, <3>4, <3>5, <3>6 DEF KeyPaces
  <2> QED
    BY <2>4, <2>5
<1>11. ASSUME NEW u \in Int, u < now'
       PROVE  GrantedUntil(u)' = GrantedUntil(u)
  BY <1>1, <1>2, <1>5, <1>11
<1> QED
  BY <1>6, <1>7, <1>9, <1>10, <1>11 DEF PaceInv

(* A step that decides on no call and leaves the counters alone.           *)
LEMMA PaceUnmoved ==
    ASSUME PaceInv, UNCHANGED <<backend, now, buckets, lastCleanup, count, granted>>,
           limiterFaults' \in 0 .. MaxLimiterFaults, documents' \in Nat,
           \/ ttl' = ttl
           \/ ttl' = (IF count = 0 THEN -1 ELSE MinuteWindow)
    PROVE  PaceInv' /\ \A u \in Int : u < now' => GrantedUntil(u)' = GrantedUntil(u)
<1>1. /\ MinuteWindow \in Nat /\ MinuteWindow >= 1 /\ now \in Nat /\ count \in Nat
      /\ ttl \in -1 .. MinuteWindow
  BY LimitAssumption DEF PaceInv, LimitTypeOK
<1>2. ttl' \in -1 .. MinuteWindow
  BY <1>1
<1>3. LimitTypeOK' /\ BucketTokens' /\ GrantsRecorded'
  BY <1>2 DEF PaceInv, LimitTypeOK, BucketTokens, GrantsRecorded
<1>4. \A u \in Int : GrantedUntil(u)' = GrantedUntil(u)
  BY DEF GrantedUntil
<1>5. GrantedUntil(now)' = GrantedUntil(now) /\ TokensNow' = TokensNow
  BY DEF GrantedUntil, TokensNow, Refilled
<1>6. BucketPaces'
  <2>1. ASSUME backend = "memory", NEW u \in -MinuteWindow .. now
        PROVE  (GrantedUntil(now)' - GrantedUntil(u)') * MinuteWindow + TokensNow'
                   <= FullTokens("minute") + (now - u) * MinuteLimit
    <3>1. GrantedUntil(u)' = GrantedUntil(u)
      BY <1>1, <1>4
    <3> QED
      BY <1>5, <2>1, <3>1 DEF PaceInv, BucketPaces
  <2> QED
    BY <2>1 DEF BucketPaces
<1>7. KeyPaces'
  <2> SUFFICES ASSUME backend = "redis"
               PROVE  KeyPaces'
    BY DEF KeyPaces
  <2>1. PICK b \in 0 .. now :
           /\ GrantedUntil(now) - GrantedUntil(b - 1) <= count
           /\ GrantedUntil(now) - GrantedUntil(b - 1) <= MinuteLimit
           /\ GrantedUntil(b - 1) - GrantedUntil(b - 1 - MinuteWindow) <= MinuteLimit
           /\ ttl >= 1 => count > 0 /\ now + ttl >= b + MinuteWindow
    BY DEF PaceInv, KeyPaces
  <2>2. GrantedUntil(b - 1)' = GrantedUntil(b - 1)
        /\ GrantedUntil(b - 1 - MinuteWindow)' = GrantedUntil(b - 1 - MinuteWindow)
    BY DEF GrantedUntil
  <2>3. ttl' >= 1 => count > 0 /\ now + ttl' >= b + MinuteWindow
    BY <1>1, <2>1
  <2> QED
    BY <1>5, <2>1, <2>2, <2>3 DEF KeyPaces
<1> QED
  BY <1>3, <1>4, <1>6, <1>7 DEF PaceInv

LEMMA IncrPaces ==
    ASSUME LimiterInv, PaceInv, NEW r \in Callers, Incr(r)
    PROVE  PaceInv' /\ \A u \in Int : u < now' => GrantedUntil(u)' = GrantedUntil(u)
<1>1. /\ backend = "redis" /\ count' = count + 1
      /\ UNCHANGED <<backend, now, buckets, lastCleanup, ttl, documents, limiterFaults>>
      /\ granted' = IF count + 1 <= MinuteLimit THEN [granted EXCEPT ![now] = @ + 1] ELSE granted
  BY Zenon DEF Incr, Decide
<1>2. /\ MinuteWindow \in Nat /\ MinuteWindow >= 1 /\ MinuteLimit \in Nat /\ now \in Nat /\ count \in Nat
  BY LimitAssumption DEF PaceInv, LimitTypeOK
<1>3. PICK n \in {0, 1} : n = IF count + 1 <= MinuteLimit THEN 1 ELSE 0
  OBVIOUS
<1>4. granted' = IF n = 1 THEN [granted EXCEPT ![now] = @ + 1] ELSE granted
  BY <1>1, <1>3
<1>5. /\ GrantsRecorded'
      /\ GrantedUntil(now)' = GrantedUntil(now) + n
      /\ \A u \in Int : u < now => GrantedUntil(u)' = GrantedUntil(u)
  BY <1>1, <1>4, GrantsAdded DEF PaceInv
<1>6. LimitTypeOK' /\ BucketTokens'
  BY <1>1, <1>2 DEF PaceInv, LimitTypeOK, BucketTokens
<1>7. BucketPaces'
  BY <1>1 DEF BucketPaces
<1>8. KeyPaces'
  <2>1. PICK b \in 0 .. now :
           /\ GrantedUntil(now) - GrantedUntil(b - 1) <= count
           /\ GrantedUntil(now) - GrantedUntil(b - 1) <= MinuteLimit
           /\ GrantedUntil(b - 1) - GrantedUntil(b - 1 - MinuteWindow) <= MinuteLimit
           /\ ttl >= 1 => count > 0 /\ now + ttl >= b + MinuteWindow
    BY <1>1 DEF PaceInv, KeyPaces
  <2>2. PICK c \in Int, d \in Int : c = b - 1 /\ d = b - 1 - MinuteWindow /\ c < now /\ d < now
    BY <1>2
  <2>3. /\ GrantedUntil(c)' = GrantedUntil(c) /\ GrantedUntil(d)' = GrantedUntil(d)
        /\ GrantedUntil(c) \in Nat /\ GrantedUntil(now) \in Nat
    BY <1>2, <1>5, <2>2, GrantedUntilNow DEF PaceInv
  <2>4. GrantedUntil(now)' - GrantedUntil(c)' <= count' /\ GrantedUntil(now)' - GrantedUntil(c)' <= MinuteLimit
    BY <1>1, <1>2, <1>3, <1>5, <2>1, <2>2, <2>3
  <2>5. ttl' >= 1 => count' > 0 /\ now' + ttl' >= b + MinuteWindow
    BY <1>1, <1>2, <2>1
  <2> QED
    BY <1>1, <2>1, <2>2, <2>3, <2>4, <2>5 DEF KeyPaces
<1> QED
  BY <1>1, <1>5, <1>6, <1>7, <1>8 DEF PaceInv

(* The bucket of a counter that has rested for two windows is full: that   *)
(* the cleanup forgets it changes nothing.                                 *)
LEMMA CleanupIsSafe ==
    ASSUME LimiterInv, PaceInv, NEW k \in Counters, NEW kept, kept \in {buckets, CleanedUp(k)}
    PROVE  /\ kept \in [Counters -> [tokens : Int, last : Int]]
           /\ \A j \in Counters : kept[j] = buckets[j] \/ kept[j] = NoBucket
           /\ TokensNow = IF kept["minute"] = NoBucket THEN FullTokens("minute")
                          ELSE Refilled("minute", kept["minute"])
<1>1. /\ kept \in [Counters -> [tokens : Int, last : Int]]
      /\ \A j \in Counters : kept[j] = buckets[j] \/ kept[j] = NoBucket
  BY DEF CleanedUp, NoBucket, LimiterInv, LimiterShape
<1>2. "minute" \in Counters
  BY DEF Counters
<1>3. CASE kept["minute"] = buckets["minute"]
  BY <1>1, <1>3 DEF TokensNow
<1>4. CASE kept["minute"] # buckets["minute"]
  <2>1. /\ kept["minute"] = NoBucket /\ buckets["minute"] # NoBucket
        /\ now - buckets["minute"].last > 2 * Window(k)
    BY <1>2, <1>4 DEF CleanedUp
  <2>2. PICK b : b = buckets["minute"]
    OBVIOUS
  <2>3. /\ b \in [tokens : Int, last : Int] /\ b.tokens >= 0 /\ b.last <= now /\ now \in Nat
        /\ b.last \in Int
    BY <1>2, <2>1, <2>2, BucketsTyped DEF PaceInv
  <2>4. now - b.last >= Window("minute")
    <3>1. Window(k) \in Nat /\ Window(k) >= MinuteWindow /\ Window("minute") = MinuteWindow
          /\ MinuteWindow \in Nat
      BY CounterConstants, MinuteConstants
    <3> QED
      BY <2>1, <2>2, <2>3, <3>1
  <2>5. Refilled("minute", b) = FullTokens("minute")
    BY <1>2, <2>3, <2>4, RefillOf
  <2> QED
    BY <1>1, <2>1, <2>2, <2>5 DEF TokensNow
<1> QED
  BY <1>1, <1>3, <1>4

LEMMA CheckMemoryPaces ==
    ASSUME LimiterInv, PaceInv, NEW r \in Callers, NEW k \in Counters,
           NEW next \in {"month", "documents"}, CheckMemory(r, k, next)
    PROVE  PaceInv' /\ \A u \in Int : u < now' => GrantedUntil(u)' = GrantedUntil(u)
<1> DEFINE due == now - lastCleanup > CleanupInterval
           kept == IF due THEN CleanedUp(k) ELSE buckets
           tokens == Refilled(k, BucketAt(kept, k))
           allowed == tokens >= Window(k)
<1>1. /\ kept \in {buckets, CleanedUp(k)} /\ tokens = Refilled(k, BucketAt(kept, k))
      /\ allowed <=> tokens >= Window(k)
      /\ buckets' = [kept EXCEPT ![k] = [tokens |-> tokens - (IF allowed THEN Window(k) ELSE 0),
                                         last |-> now]]
      /\ lastCleanup' \in {now, lastCleanup}
      /\ Decide(k, allowed, TRUE)
      /\ backend = "memory" /\ UNCHANGED <<backend, now, count, ttl, documents, limiterFaults>>
  BY DEF CheckMemory
<1> HIDE DEF due, kept, tokens, allowed
<1>2. /\ kept \in [Counters -> [tokens : Int, last : Int]]
      /\ \A j \in Counters : kept[j] = buckets[j] \/ kept[j] = NoBucket
      /\ TokensNow = IF kept["minute"] = NoBucket THEN FullTokens("minute")
                     ELSE Refilled("minute", kept["minute"])
  BY <1>1, CleanupIsSafe
<1>3. /\ now \in Nat /\ MinuteWindow \in Nat /\ MinuteWindow >= 1 /\ MinuteLimit \in Nat
      /\ Window(k) \in Nat /\ Window(k) >= 1 /\ FullTokens(k) \in Nat /\ "minute" \in Counters
      /\ FullTokens(k) >= Window(k) /\ lastCleanup \in 0 .. now
      /\ \A j \in Counters : buckets[j].last \in 0 .. now /\ buckets[j].tokens \in -1 .. FullTokens(j)
  BY CounterConstants DEF Counters, PaceInv, LimitTypeOK
<1>4. PICK b : b = BucketAt(kept, k)
  OBVIOUS
<1>5. /\ b \in [tokens : Int, last : Int] /\ b.tokens >= 0 /\ b.last <= now
      /\ b.tokens <= FullTokens(k)
      /\ k = "minute" => Refilled(k, b) = TokensNow
  <2>1. CASE kept[k] = NoBucket
    <3>1. b = [tokens |-> FullTokens(k), last |-> now]
      BY <1>4, <2>1 DEF BucketAt
    <3>2. /\ b \in [tokens : Int, last : Int] /\ b.tokens >= 0 /\ b.last <= now /\ b.last = now
          /\ b.tokens <= FullTokens(k) /\ b.tokens = FullTokens(k)
      BY <1>3, <3>1
    <3>3. Refilled(k, b) = FullTokens(k)
      BY <1>3, <3>2, RefillOf
    <3> QED
      BY <1>2, <2>1, <3>2, <3>3
  <2>2. CASE kept[k] # NoBucket
    <3>1. b = kept[k] /\ b = buckets[k]
      BY <1>2, <1>4, <2>2 DEF BucketAt
    <3>2. b \in [tokens : Int, last : Int] /\ b.tokens \in Nat /\ b.tokens <= FullTokens(k)
          /\ b.last <= now
      BY <1>2, <2>2, <3>1, BucketsTyped DEF PaceInv
    <3>3. k = "minute" => Refilled(k, b) = TokensNow
      BY <1>2, <2>2, <3>1, Zenon
    <3>4. b.tokens >= 0
      BY <3>2
    <3> QED
      BY <3>2, <3>3, <3>4
  <2> QED
    BY <2>1, <2>2
<1>6. PICK t \in Nat, left \in Nat, n \in {0, 1} :
         /\ t = tokens /\ t = Refilled(k, b) /\ t <= FullTokens(k)
         /\ n = (IF allowed THEN 1 ELSE 0)
         /\ left = t - (IF allowed THEN Window(k) ELSE 0)
         /\ left <= FullTokens(k)
  <2>1. tokens = Refilled(k, b) /\ tokens \in Nat /\ tokens <= FullTokens(k)
    BY <1>1, <1>3, <1>4, <1>5, RefillOf
  <2>2. tokens - (IF allowed THEN Window(k) ELSE 0) \in Nat
        /\ tokens - (IF allowed THEN Window(k) ELSE 0) <= FullTokens(k)
    <3>1. PICK t \in Nat, w \in Nat, f \in Nat :
             t = tokens /\ w = Window(k) /\ f = FullTokens(k) /\ t <= f /\ (allowed <=> t >= w)
      BY <1>1, <1>3, <2>1
    <3>2. CASE allowed
      BY <3>1, <3>2
    <3>3. CASE ~allowed
      BY <3>1, <3>3
    <3> QED
      BY <3>2, <3>3
  <2>3. (IF allowed THEN 1 ELSE 0) \in {0, 1}
    OBVIOUS
  <2> QED
    BY <2>1, <2>2, <2>3
<1>7. PICK new : new = [tokens |-> left, last |-> now]
  OBVIOUS
<1>8. /\ buckets' \in [Counters -> [tokens : Int, last : Int]] /\ buckets'[k] = new
      /\ \A j \in Counters \ {k} : buckets'[j] = kept[j]
  BY <1>1, <1>2, <1>3, <1>6, <1>7
<1>9. new # NoBucket /\ new.tokens = left /\ new.last = now /\ new \in [tokens : Int, last : Int]
  BY <1>3, <1>7 DEF NoBucket
<1>10. LimitTypeOK' /\ BucketTokens'
  <2>1. ASSUME NEW j \in Counters
        PROVE  /\ buckets'[j].tokens \in -1 .. FullTokens(j) /\ buckets'[j].last \in 0 .. now
               /\ buckets'[j] = NoBucket \/ buckets'[j].tokens \in 0 .. FullTokens(j)
    <3>1. CASE j = k
      BY <1>3, <1>6, <1>8, <1>9, <3>1
    <3>2. CASE j # k
      <4>1. buckets'[j] = buckets[j] \/ buckets'[j] = NoBucket
        BY <1>2, <1>8, <3>2
      <4>2. NoBucket.tokens \in -1 .. FullTokens(j) /\ NoBucket.last \in 0 .. now
        BY <1>3, CounterConstants DEF NoBucket
      <4> QED
        BY <1>3, <4>1, <4>2 DEF PaceInv, BucketTokens
    <3> QED
      BY <3>1, <3>2
  <2>2. lastCleanup' \in 0 .. now
    BY <1>1, <1>3
  <2> QED
    BY <1>1, <2>1, <2>2 DEF PaceInv, LimitTypeOK, BucketTokens
<1>11. granted' = IF allowed /\ k = "minute" THEN [granted EXCEPT ![now] = @ + 1] ELSE granted
  BY <1>1, Zenon DEF Decide
<1>12. CASE k = "minute"
  <2>1. /\ GrantsRecorded'
        /\ GrantedUntil(now)' = GrantedUntil(now) + n
        /\ \A u \in Int : u < now => GrantedUntil(u)' = GrantedUntil(u)
    <3>1. granted' = IF n = 1 THEN [granted EXCEPT ![now] = @ + 1] ELSE granted
      BY <1>6, <1>11, <1>12
    <3> QED
      BY <1>1, <3>1, GrantsAdded DEF PaceInv
  <2>2. TokensNow' = left
    <3>1. buckets'["minute"] = new /\ now' = now
      BY <1>1, <1>8, <1>12
    <3>2. Refilled("minute", new) = left
      <4>1. /\ new \in [tokens : Int, last : Int] /\ new.tokens >= 0 /\ new.last <= now
            /\ new.tokens <= FullTokens("minute") /\ new.last = now
        BY <1>3, <1>6, <1>9, <1>12
      <4> QED
        BY <1>3, <1>9, <4>1, RefillOf
    <3>3. TokensNow' = Refilled("minute", new)
      BY <1>9, <3>1, Zenon DEF TokensNow, Refilled
    <3> QED
      BY <3>2, <3>3
  <2>3. left = TokensNow - n * MinuteWindow /\ TokensNow = t /\ t <= FullTokens("minute")
    <3>1. TokensNow = t /\ Window(k) = MinuteWindow
      BY <1>5, <1>6, <1>12, MinuteConstants
    <3> QED
      BY <1>3, <1>6, <1>12, <3>1
  <2>4. ASSUME NEW u \in -MinuteWindow .. now
        PROVE  (GrantedUntil(now)' - GrantedUntil(u)') * MinuteWindow + TokensNow'
                   <= FullTokens("minute") + (now - u) * MinuteLimit
    <3>1. u \in Int /\ GrantedUntil(u) \in Nat /\ GrantedUntil(now) \in Nat
      BY <1>3, <2>4, GrantedUntilNow DEF PaceInv
    <3>2. CASE u < now
      <4>1. PICK d \in Int, h \in Int :
               d = GrantedUntil(now) - GrantedUntil(u) /\ h = (now - u) * MinuteLimit
        BY <1>3, <3>1
      <4>2. d * MinuteWindow + t <= FullTokens("minute") + h
        BY <1>1, <2>3, <2>4, <4>1 DEF PaceInv, BucketPaces
      <4>3. GrantedUntil(now)' - GrantedUntil(u)' = d + n
        BY <2>1, <3>1, <3>2, <4>1
      <4>4. (d + n) * MinuteWindow = d * MinuteWindow + n * MinuteWindow
            /\ d * MinuteWindow \in Int /\ n * MinuteWindow \in Int
        <5>1. \A x, y, w \in Int : (x + y) * w = x * w + y * w /\ x * w \in Int /\ y * w \in Int
          OBVIOUS
        <5> QED
          BY <1>3, <5>1
      <4>5. PICK g \in Int, m \in Int : g = d * MinuteWindow /\ m = n * MinuteWindow
        BY <4>4
      <4>6. (GrantedUntil(now)' - GrantedUntil(u)') * MinuteWindow = g + m
        BY <4>3, <4>4, <4>5
      <4>7. TokensNow' = t - m /\ g + t <= FullTokens("minute") + h
        BY <2>2, <2>3, <4>2, <4>5
      <4>8. FullTokens("minute") \in Int
        BY <1>3, <1>12
      <4> QED
        BY <4>1, <4>6, <4>7, <4>8
    <3>3. CASE u = now
      <4>1. GrantedUntil(u)' = GrantedUntil(now)' /\ GrantedUntil(now)' \in Int
        BY <1>1, <2>1, <3>1, <3>3
      <4>2. (GrantedUntil(now)' - GrantedUntil(u)') * MinuteWindow = 0 /\ (now - u) * MinuteLimit = 0
        BY <1>3, <3>3, <4>1
      <4>3. TokensNow' \in Int /\ TokensNow' <= FullTokens("minute") /\ FullTokens("minute") \in Int
        BY <1>3, <1>6, <1>12, <2>2
      <4> QED
        BY <4>2, <4>3
    <3> QED
      BY <1>3, <2>4, <3>1, <3>2, <3>3
  <2>5. BucketPaces' /\ KeyPaces'
    BY <1>1, <2>4 DEF BucketPaces, KeyPaces
  <2> QED
    BY <1>1, <1>10, <2>1, <2>5 DEF PaceInv
<1>13. CASE k # "minute"
  <2>1. granted' = granted /\ buckets'["minute"] = kept["minute"] /\ now' = now
    BY <1>1, <1>3, <1>8, <1>11, <1>13
  <2>2. GrantsRecorded' /\ \A u \in Int : GrantedUntil(u)' = GrantedUntil(u)
    BY <2>1 DEF PaceInv, GrantsRecorded, GrantedUntil
  <2>3. GrantedUntil(now)' = GrantedUntil(now)
    BY <2>1 DEF GrantedUntil
  <2>4. TokensNow' = TokensNow
    BY <1>2, <2>1, Zenon DEF TokensNow, Refilled
  <2>5. BucketPaces' /\ KeyPaces'
    <3>1. ASSUME NEW u \in -MinuteWindow .. now
          PROVE  (GrantedUntil(now)' - GrantedUntil(u)') * MinuteWindow + TokensNow'
                     <= FullTokens("minute") + (now - u) * MinuteLimit
      <4>1. GrantedUntil(u)' = GrantedUntil(u)
        BY <1>3, <2>2, <3>1
      <4> QED
        BY <1>1, <2>3, <2>4, <3>1, <4>1 DEF PaceInv, BucketPaces
    <3> QED
      BY <1>1, <3>1 DEF BucketPaces, KeyPaces
  <2> QED
    BY <1>10, <2>2, <2>5 DEF PaceInv
<1> QED
  BY <1>12, <1>13

-----------------------------------------------------------------------------
(* Uploads that were counted and have no row yet. *)

Uploading == {r \in Callers : asking[r] = "upload"}

LEMMA UploadsAreFinite ==
    /\ IsFiniteSet(Uploading) /\ Cardinality(Uploading) \in Nat
    /\ Cardinality(Callers) \in Nat /\ Cardinality(Callers) >= 1
    /\ \A r \in Callers \ Uploading : Cardinality(Uploading) <= Cardinality(Callers) - 1
<1>1. IsFiniteSet(Callers) /\ Callers # {} /\ Uploading \subseteq Callers
  BY LimitAssumption DEF Uploading
<1>2. /\ IsFiniteSet(Uploading) /\ Cardinality(Uploading) \in Nat /\ Cardinality(Callers) \in Nat
      /\ Cardinality(Callers) >= 1
  <2>1. PICK r : r \in Callers
    BY <1>1
  <2>2. Cardinality(Callers) # 0
    BY <1>1, FS_EmptySet
  <2> QED
    BY <1>1, <2>2, FS_Subset, FS_CardinalityType
<1>3. ASSUME NEW r \in Callers \ Uploading
      PROVE  Cardinality(Uploading) <= Cardinality(Callers) - 1
  <2>1. /\ IsFiniteSet(Callers \ {r}) /\ Cardinality(Callers \ {r}) = Cardinality(Callers) - 1
        /\ Uploading \subseteq Callers \ {r}
    BY <1>1, FS_RemoveElement
  <2> QED
    BY <2>1, FS_Subset
<1> QED
  BY <1>2, <1>3

LEMMA InitOvershoot ==
    ASSUME LimitInit
    PROVE  OvershootBounded
<1>1. Uploading = {} /\ documents = 0 /\ limiterFaults = 0
  BY DEF LimitInit, Uploading
<1>2. Cardinality(Uploading) = 0 /\ MaxDocuments \in Nat
  BY <1>1, FS_EmptySet, LimitAssumption
<1> QED
  BY <1>1, <1>2, UploadsAreFinite DEF OvershootBounded, Uploading

(* What the overshoot needs of a step: who is to make a row was below the  *)
(* maximum, or its count failed.                                           *)
LEMMA OvershootKept ==
    ASSUME OvershootBounded, documents \in Nat, limiterFaults \in Nat, limiterFaults' \in Nat,
           limiterFaults' >= limiterFaults,
           \/ UNCHANGED documents /\ Uploading' = Uploading
           \/ /\ UNCHANGED documents
              /\ \E r \in Callers \ Uploading :
                    /\ Uploading' = Uploading \cup {r}
                    /\ documents < MaxDocuments \/ limiterFaults' = limiterFaults + 1
           \/ /\ documents' = documents + 1
              /\ \E r \in Uploading : Uploading' = Uploading \ {r}
    PROVE  OvershootBounded'
<1>1. PICK u \in Nat, c \in Nat : u = Cardinality(Uploading) /\ c = Cardinality(Callers) /\ c >= 1
  BY UploadsAreFinite
<1>2. IsFiniteSet(Uploading) /\ MaxDocuments \in Nat
  BY UploadsAreFinite, LimitAssumption
<1>3. documents + u <= MaxDocuments + c - 1 + limiterFaults
  BY <1>1 DEF OvershootBounded, Uploading
<1>4. CASE UNCHANGED documents /\ Uploading' = Uploading
  <2>1. documents' + Cardinality(Uploading') <= MaxDocuments + c - 1 + limiterFaults'
    BY <1>1, <1>2, <1>3, <1>4
  <2> QED
    BY <1>1, <2>1 DEF OvershootBounded, Uploading
<1>5. ASSUME NEW r \in Callers \ Uploading, UNCHANGED documents, Uploading' = Uploading \cup {r},
             documents < MaxDocuments \/ limiterFaults' = limiterFaults + 1
      PROVE  OvershootBounded'
  <2>1. Cardinality(Uploading') = u + 1
    BY <1>1, <1>2, <1>5, FS_AddElement
  <2>2. u <= c - 1
    BY <1>1, <1>5, UploadsAreFinite
  <2>3. documents' + Cardinality(Uploading') <= MaxDocuments + c - 1 + limiterFaults'
    BY <1>1, <1>2, <1>3, <1>5, <2>1, <2>2
  <2> QED
    BY <1>1, <2>3 DEF OvershootBounded, Uploading
<1>6. ASSUME NEW r \in Uploading, documents' = documents + 1, Uploading' = Uploading \ {r}
      PROVE  OvershootBounded'
  <2>1. Cardinality(Uploading') = u - 1
    BY <1>1, <1>2, <1>6, FS_RemoveElement
  <2>2. documents' + Cardinality(Uploading') <= MaxDocuments + c - 1 + limiterFaults'
    BY <1>1, <1>2, <1>3, <1>6, <2>1
  <2> QED
    BY <1>1, <2>2 DEF OvershootBounded, Uploading
<1> QED
  BY <1>4, <1>5, <1>6

(* Between them, the calls of a minute are never more than twice the       *)
(* limit, and the documents never more past the maximum than requests are  *)
(* in flight and counts failed open, with either backend and whatever      *)
(* overlaps or is cut short (InMemoryBackend, RedisBackend, check_quota).  *)
THEOREM LimitsAlwaysHold ==
    LimitSpec => []LimitsHold
<1> DEFINE Inv == LimiterInv /\ PaceInv /\ BurstBounded /\ OvershootBounded
<1>1. ASSUME Inv, [LimitNext]_limitVars, LimiterInv'
      PROVE  PaceInv' /\ BurstBounded' /\ OvershootBounded'
  <2>1. /\ "minute" \in Counters /\ "month" \in Counters
        /\ documents \in Nat /\ limiterFaults \in Nat /\ now \in Nat /\ MaxLimiterFaults \in Nat
        /\ limiterFaults \in 0 .. MaxLimiterFaults /\ asking \in [Callers -> AskStates]
    BY <1>1, LimitAssumption DEF Counters, PaceInv, LimitTypeOK, LimiterInv, LimiterShape
  <2>2. ASSUME PaceInv', now' \in {now, now + 1},
               \A u \in Int : u < now' => GrantedUntil(u)' = GrantedUntil(u)
        PROVE  BurstBounded'
    BY <1>1, <2>2, BurstsKept DEF PaceInv
  <2>3. CASE UNCHANGED limitVars
    <3>1. PaceInv' /\ \A u \in Int : u < now' => GrantedUntil(u)' = GrantedUntil(u)
      BY <1>1, <2>1, <2>3, PaceUnmoved DEF limitVars
    <3>2. Uploading' = Uploading /\ UNCHANGED <<documents, limiterFaults, now>>
      BY <2>3 DEF limitVars, Uploading
    <3> QED
      BY <1>1, <2>1, <2>2, <3>1, <3>2, OvershootKept
  <2>4. CASE LimitTick
    <3>1. UNCHANGED <<documents, limiterFaults, asking>> /\ now' = now + 1
      BY <2>4 DEF LimitTick
    <3>2. Uploading' = Uploading
      BY <3>1 DEF Uploading
    <3>3. PaceInv' /\ \A u \in Int : u < now' => GrantedUntil(u)' = GrantedUntil(u)
      BY <1>1, <2>4, LimitTickPaces
    <3> QED
      BY <1>1, <2>1, <2>2, <3>1, <3>2, <3>3, OvershootKept
  <2>5. ASSUME NEW r \in Callers, NEW at, asking[r] # "upload", at # "upload", Go(r, at)
        PROVE  Uploading' = Uploading
    BY <2>1, <2>5 DEF Go, Uploading
  <2>6. ASSUME NEW r \in Callers, NEW k \in Counters, NEW next \in {"month", "documents"},
               CheckMemory(r, k, next)
        PROVE  PaceInv' /\ BurstBounded' /\ OvershootBounded'
    <3>1. /\ UNCHANGED <<documents, limiterFaults, now>> /\ asking[r] = k
          /\ \E at \in {next, "idle"} : Go(r, at)
      BY <2>6 DEF CheckMemory
    <3>2. Uploading' = Uploading
      BY <2>5, <3>1 DEF Counters
    <3>3. PaceInv' /\ \A u \in Int : u < now' => GrantedUntil(u)' = GrantedUntil(u)
      BY <1>1, <2>6, CheckMemoryPaces
    <3>4. BurstBounded'
      BY <2>1, <2>2, <3>1, <3>3
    <3>5. OvershootBounded'
      BY <1>1, <2>1, <3>1, <3>2, OvershootKept
    <3> QED
      BY <3>3, <3>4, <3>5
  <2>7. ASSUME NEW r \in Callers, Incr(r)
        PROVE  PaceInv' /\ BurstBounded' /\ OvershootBounded'
    <3>1. UNCHANGED <<documents, limiterFaults, now>>
      BY <2>7 DEF Incr
    <3>2. Uploading' = Uploading
      <4>1. asking[r] = "minute" /\ \E at \in {"ttl_allowed", "ttl_denied"} : Go(r, at)
        BY <2>7 DEF Incr
      <4> QED
        BY <2>5, <4>1
    <3>3. PaceInv' /\ \A u \in Int : u < now' => GrantedUntil(u)' = GrantedUntil(u)
      BY <1>1, <2>7, IncrPaces
    <3>4. BurstBounded'
      BY <2>1, <2>2, <3>1, <3>3
    <3>5. OvershootBounded'
      BY <1>1, <2>1, <3>1, <3>2, OvershootKept
    <3> QED
      BY <3>3, <3>4, <3>5
  <2>8. ASSUME NEW r \in Callers,
               \/ AskTtl(r) \/ Expire(r) \/ CutShort(r) \/ Ask(r)
               \/ CounterError(r, "minute", "month") \/ CounterError(r, "month", "documents")
        PROVE  PaceInv' /\ BurstBounded' /\ OvershootBounded'
    <3>1. /\ UNCHANGED <<backend, now, buckets, lastCleanup, count, granted, documents>>
          /\ ttl' = ttl \/ ttl' = (IF count = 0 THEN -1 ELSE MinuteWindow)
          /\ limiterFaults' = limiterFaults \/ LimiterFault
          /\ asking[r] # "upload"
          /\ \E at \in {"idle", "expire", "minute", "month", "documents"} : Go(r, at)
      <4>1. CASE AskTtl(r)
        BY <4>1 DEF AskTtl, CheckDone
      <4>2. CASE Expire(r)
        BY <4>2 DEF Expire, CheckDone
      <4>3. CASE CutShort(r)
        BY <4>3 DEF CutShort
      <4>4. CASE Ask(r)
        BY <4>4 DEF Ask, ghosts
      <4>5. CASE CounterError(r, "minute", "month") \/ CounterError(r, "month", "documents")
        BY <4>5 DEF CounterError, ghosts
      <4> QED
        BY <2>8, <4>1, <4>2, <4>3, <4>4, <4>5
    <3>2. Uploading' = Uploading
      BY <2>5, <3>1
    <3>3. limiterFaults' \in 0 .. MaxLimiterFaults /\ limiterFaults' >= limiterFaults
      BY <2>1, <3>1 DEF LimiterFault
    <3>4. PaceInv' /\ \A u \in Int : u < now' => GrantedUntil(u)' = GrantedUntil(u)
      BY <1>1, <2>1, <3>1, <3>3, PaceUnmoved
    <3> QED
      BY <1>1, <2>1, <2>2, <3>1, <3>2, <3>3, <3>4, OvershootKept
  <2>9. ASSUME NEW r \in Callers, CountDocuments(r) \/ CountFails(r) \/ CreateDocument(r)
        PROVE  PaceInv' /\ BurstBounded' /\ OvershootBounded'
    <3>1. /\ UNCHANGED <<backend, now, buckets, lastCleanup, count, granted, ttl>>
          /\ limiterFaults' = limiterFaults \/ LimiterFault
          /\ documents' = documents \/ documents' = documents + 1
      BY <2>9 DEF CountDocuments, CountFails, CreateDocument, ghosts
    <3>2. limiterFaults' \in 0 .. MaxLimiterFaults /\ limiterFaults' >= limiterFaults
          /\ documents' \in Nat
      BY <2>1, <3>1 DEF LimiterFault
    <3>3. PaceInv' /\ \A u \in Int : u < now' => GrantedUntil(u)' = GrantedUntil(u)
      BY <1>1, <2>1, <3>1, <3>2, PaceUnmoved
    <3>4. CASE CountDocuments(r)
      <4>1. asking[r] = "documents" /\ UNCHANGED documents
            /\ (Go(r, "idle") \/ (documents < MaxDocuments /\ Go(r, "upload")))
        BY <3>4 DEF CountDocuments, BelowMaximum
      <4>2. CASE Go(r, "idle")
        BY <1>1, <2>1, <2>2, <2>5, <3>1, <3>2, <3>3, <4>1, <4>2, OvershootKept
      <4>3. CASE documents < MaxDocuments /\ Go(r, "upload")
        <5>1. r \in Callers \ Uploading /\ Uploading' = Uploading \cup {r}
          BY <2>1, <4>1, <4>3 DEF Go, Uploading
        <5> QED
          BY <1>1, <2>1, <2>2, <3>1, <3>2, <3>3, <4>1, <4>3, <5>1, OvershootKept
      <4> QED
        BY <4>1, <4>2, <4>3
    <3>5. CASE CountFails(r)
      <4>1. asking[r] = "documents" /\ UNCHANGED documents /\ Go(r, "upload")
            /\ limiterFaults' = limiterFaults + 1
        BY <3>5 DEF CountFails, LimiterFault
      <4>2. r \in Callers \ Uploading /\ Uploading' = Uploading \cup {r}
        BY <2>1, <4>1 DEF Go, Uploading
      <4> QED
        BY <1>1, <2>1, <2>2, <3>1, <3>2, <3>3, <4>1, <4>2, OvershootKept
    <3>6. CASE CreateDocument(r)
      <4>1. asking[r] = "upload" /\ documents' = documents + 1 /\ Go(r, "idle")
        BY <3>6 DEF CreateDocument
      <4>2. r \in Uploading /\ Uploading' = Uploading \ {r}
        BY <2>1, <4>1 DEF Go, Uploading
      <4> QED
        BY <1>1, <2>1, <2>2, <3>1, <3>2, <3>3, <4>1, <4>2, OvershootKept
    <3> QED
      BY <2>9, <3>4, <3>5, <3>6
  <2> QED
    BY <1>1, <2>1, <2>3, <2>4, <2>6, <2>7, <2>8, <2>9 DEF LimitNext
<1>2. LimitInit => Inv
  BY InitLimiterInv, InitPaceInv, InitOvershoot
<1>3. Inv /\ [LimitNext]_limitVars => Inv'
  BY <1>1, LimiterStep
<1>4. Inv => LimitsHold
  BY DEF PaceInv, LimitsHold
<1> QED
  BY <1>2, <1>3, <1>4, PTL DEF LimitSpec
=============================================================================

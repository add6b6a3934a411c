------------------------------ MODULE SetupGate ------------------------------
(***************************************************************************)
(* The setup gate (api/src/modules/system-state, orchestrator's            *)
(* reauth-detector, openclaw-repair): an OpenClaw answer that asks for     *)
(* authorization leaves a requirement, requests of its scope are then      *)
(* turned away, and the requirement is dropped when a run of its scope     *)
(* succeeds or a check of the connection passes.                           *)
(*                                                                         *)
(* The state is an object changed in place and saved after each change; a  *)
(* save may fail, and the gate of the main path reads the file again.  An  *)
(* action is the code between two awaits.  One tenant.                     *)
(***************************************************************************)
EXTENDS Integers, Sequences

CONSTANTS
    Actors,         \* requests being served
    Probes,         \* checks of the OpenClaw connection being served
    Scopes,         \* the scopes that have a name
    Unknown,        \* 'openclaw:unknown_scope'
    Capabilities,
    ScopeOf,        \* CAPABILITY_SCOPE_MAP, Unknown where it has no entry
    NoCap,          \* no capability key
    MaxSessions     \* bound: repair sessions ever created

AllScopes == Scopes \cup {Unknown}
AllCaps == Capabilities \cup {NoCap}

ASSUME GateAssumption ==
    /\ Unknown \notin Scopes /\ NoCap \notin Capabilities
    /\ ScopeOf \in [Capabilities -> AllScopes]
    /\ MaxSessions \in Nat

VARIABLES
    mem,        \* cachedState
    disk,       \* system-state.json
    execs,      \* per request: what it runs on OpenClaw, if it does
    probes,     \* per check: who asked for it
    sessions    \* openclaw-repair-sessions.json, in order

vars == <<mem, disk, execs, probes, sessions>>

\* A requirement stands for an active one: resolved ones are only history.
Requirement == [scope : AllScopes, cap : AllCaps]
State == [version : {2}, reqs : SUBSET Requirement, requires : BOOLEAN,
          status : {"unknown", "setup_required", "ready"}, pending : BOOLEAN]

Fresh == [version |-> 2, reqs |-> {}, requires |-> FALSE,
          status |-> "unknown", pending |-> FALSE]

\* A file of the first version: one flag, no requirements.
OldFile == [Fresh EXCEPT !.version = 1, !.requires = TRUE, !.status = "setup_required"]

Idle == [phase |-> "idle", scope |-> Unknown, cap |-> NoCap, told |-> NoCap]

-----------------------------------------------------------------------------
(* The state service (system-state/service.ts) *)

\* Mutant: the version is not migrated.
Loaded_AsItIs(f) == f

\* loadState: an old file loses its requirements, the flag is derived.
Loaded(f) ==
    LET reqs == IF f.version < 2 THEN {} ELSE f.reqs
    IN  [f EXCEPT !.version = 2, !.reqs = reqs, !.requires = reqs # {}]

InScope(m, s) == {r \in m.reqs : r.scope = s}

\* Mutant: the same scope with another capability is a second requirement.
Added_PerCapability(m, s, c) ==
    IF [scope |-> s, cap |-> c] \in m.reqs THEN m
    ELSE [m EXCEPT !.reqs = @ \cup {[scope |-> s, cap |-> c]},
                   !.requires = TRUE, !.status = "setup_required"]

\* addSetupRequirement: one per scope, with the capability named last.
Added(m, s, c) ==
    IF InScope(m, s) # {}
    THEN [m EXCEPT !.reqs = {IF r.scope = s /\ c # NoCap THEN [r EXCEPT !.cap = c] ELSE r
                             : r \in @}]
    ELSE [m EXCEPT !.reqs = @ \cup {[scope |-> s, cap |-> c]},
                   !.requires = TRUE, !.status = "setup_required"]

Matches(r, s, c) == r.scope = s \/ (c # NoCap /\ r.cap = c)

Without(m, gone) ==
    LET left == m.reqs \ gone
    IN  IF gone = {} THEN m
        ELSE [m EXCEPT !.reqs = left, !.requires = left # {},
                       !.status = IF left = {} THEN "ready" ELSE @]

\* Mutant: a key that is not given matches one that was not given.
Resolved_NoKeyMatchesNoKey(m, s, c) == Without(m, {r \in m.reqs : r.scope = s \/ r.cap = c})

\* resolveSetupRequirement and resolveAllRequirements.
Resolved(m, s, c) == Without(m, {r \in m.reqs : Matches(r, s, c)})

AllResolved(m) == Without(m, m.reqs)

\* shouldBlockExecution: an unknown scope blocks everything.
Blocks(m, s, c) == \E r \in m.reqs : Matches(r, s, c) \/ r.scope = Unknown

\* saveState: memory has changed already; each of the saves a handler makes
\* leaves its state in the file or, failing, what was there before.
Saves(m, earlier) ==
    /\ mem' = m
    /\ disk' \in {disk, m} \cup earlier

\* The resolving calls save only if they found something to resolve.
SavesIfResolved(m) == IF m = mem THEN UNCHANGED <<mem, disk>> ELSE Saves(m, {})

-----------------------------------------------------------------------------
(* Requests (orchestrator/routes.ts, reauth-detector.ts) *)

\* resolveExecutionScope: the map first, then the intent and the message.
ScopesFor(c) ==
    IF c # NoCap /\ ScopeOf[c] # Unknown THEN {ScopeOf[c]} ELSE AllScopes

MappedScope(c) == IF c = NoCap THEN Unknown ELSE ScopeOf[c]

\* The gate, then the call of OpenClaw: m is the state the gate reads.
PassGate(x, m, s, c, told, simple) ==
    /\ execs[x] = Idle
    /\ IF ~simple /\ Blocks(m, s, c)
       THEN /\ Saves([m EXCEPT !.pending = TRUE], {})
            /\ UNCHANGED execs
       ELSE /\ mem' = m /\ UNCHANGED disk
            /\ execs' = [execs EXCEPT ![x] =
                           [phase |-> "running", scope |-> s, cap |-> c, told |-> told]]
    /\ UNCHANGED <<probes, sessions>>

\* The main path reads the file again, unless the question is simple.
Ask(x, c, s) == s \in ScopesFor(c) /\ PassGate(x, Loaded(disk), s, c, c, FALSE)
AskSimple(x, c) == PassGate(x, mem, Unknown, c, c, TRUE)

\* The fallbacks name no capability when OpenClaw refuses; the stream does.
\* The fallback of the stream is turned away without a trace: a stutter.
AskFallback(x, c, simple) == PassGate(x, mem, MappedScope(c), c, NoCap, simple)
AskStream(x, c, simple) == PassGate(x, mem, MappedScope(c), c, c, simple)

Return(x) ==
    /\ execs[x] # Idle
    /\ execs' = [execs EXCEPT ![x] = Idle]
    /\ UNCHANGED <<probes, sessions>>

\* recordSuccessfulExecution resolves what the run was for, and saves.
Succeeds(x) ==
    /\ Return(x)
    /\ Saves(Resolved(mem, execs[x].scope, execs[x].cap), {})

\* detectAndMarkReauthRequired: a requirement, then the pending action.
NeedsReauth(x, s) ==
    LET c == execs[x].told
        m == Added(mem, s, c)
    IN  /\ s \in ScopesFor(c)
        /\ Return(x)
        /\ Saves([m EXCEPT !.pending = TRUE], {m})

\* The classifier overrides an answer that looked like a success.
Overridden(x) ==
    /\ Return(x)
    /\ Saves(Added(mem, execs[x].scope, execs[x].cap), {})

Fails(x) == Return(x) /\ UNCHANGED <<mem, disk>>

-----------------------------------------------------------------------------
(* Checks of the connection (openclaw/routes.ts, system-state/routes.ts) *)

BeginProbe(p, who) ==
    /\ probes[p] = "idle"
    /\ probes' = [probes EXCEPT ![p] = who]
    /\ UNCHANGED <<mem, disk, execs, sessions>>

EndProbe(p) ==
    /\ probes[p] # "idle"
    /\ probes' = [probes EXCEPT ![p] = "idle"]
    /\ UNCHANGED <<execs, sessions>>

\* Enough surfaces answer: whoever asked, every requirement is dropped;
\* check-auth also saves the time of the check.
ProbePasses(p) ==
    /\ EndProbe(p)
    /\ IF probes[p] = "check-auth" THEN Saves(AllResolved(mem), {mem})
       ELSE SavesIfResolved(AllResolved(mem))

\* None answers, or one asks for pairing: check-auth leaves a requirement
\* if there is none.
ProbeRefused(p) ==
    /\ EndProbe(p)
    /\ IF probes[p] = "check-auth"
       THEN Saves(IF mem.reqs = {} THEN Added(mem, Unknown, NoCap) ELSE mem, {mem})
       ELSE UNCHANGED <<mem, disk>>

\* Too few answer to pass: check-auth only saves the time of the check.
ProbeUndecided(p) ==
    /\ EndProbe(p)
    /\ IF probes[p] = "check-auth" THEN Saves(mem, {}) ELSE UNCHANGED <<mem, disk>>

-----------------------------------------------------------------------------
(* The pending action, the repair sessions, and restarts *)

TakePending ==
    /\ mem.pending
    /\ Saves([mem EXCEPT !.pending = FALSE], {})
    /\ UNCHANGED <<execs, probes, sessions>>

\* startRepairSession and its route, which marks the session waiting: an
\* open session of the scope serves again.
StartRepair(s) ==
    /\ IF \E i \in DOMAIN sessions : sessions[i] = [scope |-> s, status |-> "waiting_user"]
       THEN UNCHANGED <<mem, disk, sessions>>
       ELSE /\ Len(sessions) < MaxSessions
            /\ sessions' = Append(sessions, [scope |-> s, status |-> "waiting_user"])
            /\ Saves([mem EXCEPT !.pending = TRUE], {})
    /\ UNCHANGED <<execs, probes>>

\* checkRepairAuthorization asks OpenClaw nothing and tests no status: with
\* no requirement of the scope left the session is ready, and what it
\* resolves is nothing.
CheckRepair(i) ==
    LET s == sessions[i].scope
    IN  /\ IF InScope(mem, s) # {}
           THEN /\ sessions' = [sessions EXCEPT ![i].status = "waiting_user"]
                /\ UNCHANGED <<mem, disk>>
           ELSE /\ sessions' = [sessions EXCEPT ![i].status = "ready"]
                /\ SavesIfResolved(Resolved(mem, s, NoCap))
        /\ UNCHANGED <<execs, probes>>

\* cancelRepairSession, from any status.
CancelRepair(i) ==
    /\ sessions' = [sessions EXCEPT ![i].status = "cancelled"]
    /\ UNCHANGED <<mem, disk, execs, probes>>

\* The process starts anew: sessions were saved by each call that changed them.
Restart ==
    /\ mem' = Loaded(disk)
    /\ execs' = [x \in Actors |-> Idle]
    /\ probes' = [p \in Probes |-> "idle"]
    /\ UNCHANGED <<disk, sessions>>

Init ==
    /\ disk \in {Fresh, OldFile}
    /\ mem = Loaded(disk)
    /\ execs = [x \in Actors |-> Idle]
    /\ probes = [p \in Probes |-> "idle"]
    /\ sessions = <<>>

Next ==
    \/ \E x \in Actors, c \in AllCaps :
         \/ \E s \in AllScopes : Ask(x, c, s)
         \/ AskSimple(x, c)
         \/ \E simple \in BOOLEAN : AskFallback(x, c, simple) \/ AskStream(x, c, simple)
    \/ \E x \in Actors :
         \/ Succeeds(x) \/ Overridden(x) \/ Fails(x)
         \/ \E s \in AllScopes : NeedsReauth(x, s)
    \/ \E p \in Probes :
         \/ \E who \in {"check-auth", "mark-ready"} : BeginProbe(p, who)
         \/ ProbePasses(p) \/ ProbeRefused(p) \/ ProbeUndecided(p)
    \/ TakePending
    \/ \E s \in AllScopes : StartRepair(s)
    \/ \E i \in DOMAIN sessions : CheckRepair(i) \/ CancelRepair(i)
    \/ Restart

Spec == Init /\ [][Next]_vars

-----------------------------------------------------------------------------
(* What must hold *)

\* The state in memory has the current version's form whatever file was
\* found; only the file may still be an old one (loadState's migration).
TypeOK ==
    /\ mem \in State
    /\ disk \in State \cup {OldFile}
    /\ execs \in [Actors -> {Idle} \cup [phase : {"running"}, scope : AllScopes,
                                         cap : AllCaps, told : AllCaps]]
    /\ probes \in [Probes -> {"idle", "check-auth", "mark-ready"}]
    /\ sessions \in Seq([scope : AllScopes, status : {"waiting_user", "ready", "cancelled"}])

Agrees(m) ==
    /\ m.requires <=> m.reqs # {}
    /\ m.status = "ready" => m.reqs = {}
    /\ m.reqs # {} => m.status = "setup_required"
    /\ \A r, q \in m.reqs : r.scope = q.scope => r = q

\* The flag the interface shows, the status and the list that blocks agree,
\* through failed saves, reloads and restarts, and a scope is required once
\* ("derived from setupRequirements", system-state/types.ts:59).
RequirementsAgree == Agrees(mem)

Holds(s) == InScope(mem, s) # {} /\ InScope(disk, s) # {}

SuccessOf(x, s) ==
    /\ Succeeds(x)
    /\ \/ execs[x].scope = s
       \/ execs[x].cap # NoCap /\ \E r \in InScope(mem, s) : r.cap = execs[x].cap

\* A requirement in memory and in the file stays in both until a run of its
\* own scope or capability succeeds or a check of the connection passes: no
\* other success, reload, restart, failed save or repair check clears it ("we
\* don't clear unrelated requirements", system-state/service.ts:360).
KeptUntilCause ==
    [][\A s \in AllScopes :
         Holds(s) =>
           \/ Holds(s)'
           \/ \E x \in Actors : SuccessOf(x, s)
           \/ \E p \in Probes : ProbePasses(p)]_vars

=============================================================================

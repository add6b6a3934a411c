--------------------------- MODULE SetupGateProofs ---------------------------
(***************************************************************************)
(* The setup gate for any set of requests, checks, scopes and              *)
(* capabilities, and any map from the ones to the others.                  *)
(***************************************************************************)
EXTENDS SetupGate, SequenceTheorems, TLAPS

Good(m) == m \in State /\ Agrees(m)

ExecType == {Idle} \cup [phase : {"running"}, scope : AllScopes, cap : AllCaps, told : AllCaps]
SessionType == [scope : AllScopes, status : {"waiting_user", "ready", "cancelled"}]

\* What is in memory is good; the file is good as well, or still an old one:
\* reloads and restarts put the file's state in memory.
IInv ==
    /\ Good(mem)
    /\ disk = OldFile \/ Good(disk)
    /\ execs \in [Actors -> ExecType]
    /\ probes \in [Probes -> {"idle", "check-auth", "mark-ready"}]
    /\ sessions \in Seq(SessionType)

-----------------------------------------------------------------------------
(* The operations of the state service keep a state good *)

\* loadState derives the flag and migrates an old file.
LEMMA LoadedGood ==
    ASSUME NEW f, f = OldFile \/ Good(f)
    PROVE  Good(Loaded(f))
<1>1. CASE f = OldFile
  BY <1>1 DEF Good, Loaded, OldFile, Fresh, State, Agrees
<1>2. CASE Good(f)
  <2>1. f \in State /\ f.version = 2
    BY <1>2 DEF Good, State
  <2>2. Loaded(f) = [f EXCEPT !.version = 2, !.reqs = f.reqs, !.requires = f.reqs # {}]
    BY <2>1 DEF Loaded
  <2>3. Loaded(f) \in State
    BY <2>1, <2>2 DEF State
  <2>4. Loaded(f).reqs = f.reqs /\ Loaded(f).status = f.status
    BY <2>1, <2>2 DEF State
  <2>5. Loaded(f).requires <=> f.reqs # {}
    BY <2>1, <2>2 DEF State
  <2> QED
    BY <1>2, <2>3, <2>4, <2>5 DEF Good, Agrees
<1> QED
  BY <1>1, <1>2

\* addSetupRequirement keeps one requirement per scope.
LEMMA AddedGood ==
    ASSUME NEW m, Good(m), NEW s \in AllScopes, NEW c \in AllCaps
    PROVE  Good(Added(m, s, c))
<1>0. m \in State /\ Agrees(m)
  BY DEF Good
<1>1. CASE InScope(m, s) # {}
  <2> DEFINE Named(r) == IF r.scope = s /\ c # NoCap THEN [r EXCEPT !.cap = c] ELSE r
             reqs == {Named(r) : r \in m.reqs}
  <2>1. Added(m, s, c) = [m EXCEPT !.reqs = reqs]
    BY <1>1 DEF Added
  <2>2. \A r \in m.reqs : Named(r) \in Requirement /\ Named(r).scope = r.scope
    BY <1>0 DEF State, Requirement
  <2>3. reqs \subseteq Requirement /\ (reqs # {} <=> m.reqs # {})
    <3>1. \A q \in reqs : \E r \in m.reqs : q = Named(r)
      OBVIOUS
    <3>2. \A r \in m.reqs : Named(r) \in reqs
      OBVIOUS
    <3> HIDE DEF Named, reqs
    <3> QED
      BY <2>2, <3>1, <3>2
  <2>4. ASSUME NEW r \in reqs, NEW q \in reqs, r.scope = q.scope PROVE r = q
    <3>1. PICK a \in m.reqs : r = Named(a)
      OBVIOUS
    <3>2. PICK b \in m.reqs : q = Named(b)
      OBVIOUS
    <3>3. a.scope = b.scope
      BY <2>2, <2>4, <3>1, <3>2
    <3> QED
      BY <1>0, <3>1, <3>2, <3>3 DEF Agrees
  <2>5. [m EXCEPT !.reqs = reqs] \in State
    BY <1>0, <2>3 DEF State
  <2>6. Agrees([m EXCEPT !.reqs = reqs])
    BY <1>0, <2>3, <2>4 DEF Agrees, State
  <2> QED
    BY <2>1, <2>5, <2>6 DEF Good
<1>2. CASE InScope(m, s) = {}
  <2> DEFINE new == [scope |-> s, cap |-> c]
  <2>1. Added(m, s, c) = [m EXCEPT !.reqs = m.reqs \cup {new}, !.requires = TRUE,
                                   !.status = "setup_required"]
    BY <1>2 DEF Added
  <2>2. new \in Requirement /\ \A r \in m.reqs : r.scope # new.scope
    BY <1>2 DEF Requirement, InScope
  <2>3. Added(m, s, c) \in State
    <3>1. m.reqs \cup {new} \in SUBSET Requirement
      BY <1>0, <2>2 DEF State
    <3> HIDE DEF new
    <3> QED
      BY <1>0, <2>1, <3>1 DEF State
  <2>4. /\ Added(m, s, c).reqs = m.reqs \cup {new}
        /\ Added(m, s, c).status = "setup_required"
    BY <1>0, <2>1 DEF State
  <2>5. Added(m, s, c).requires
    BY <1>0, <2>1 DEF State
  <2> QED
    BY <1>0, <2>2, <2>3, <2>4, <2>5 DEF Good, Agrees
<1> QED
  BY <1>1, <1>2

\* The resolving operations derive flag and status from what is left.
LEMMA WithoutGood ==
    ASSUME NEW m, Good(m), NEW gone \in SUBSET m.reqs
    PROVE  Good(Without(m, gone))
BY DEF Good, State, Agrees, Without

LEMMA ResolvedGood ==
    ASSUME NEW m, Good(m), NEW s, NEW c
    PROVE  Good(Resolved(m, s, c)) /\ Good(AllResolved(m))
BY WithoutGood DEF Resolved, AllResolved

LEMMA PendingGood ==
    ASSUME NEW m, Good(m), NEW b \in BOOLEAN
    PROVE  Good([m EXCEPT !.pending = b])
BY DEF Good, State, Agrees

LEMMA MappedScopeType == \A c \in AllCaps : MappedScope(c) \in AllScopes
BY GateAssumption DEF MappedScope, AllScopes, AllCaps

\* A handler's saves leave good states if they are saves of good states.
LEMMA SavesGood ==
    ASSUME IInv, NEW m, Good(m), NEW earlier, \A e \in earlier : Good(e), Saves(m, earlier)
    PROVE  Good(mem') /\ (disk' = OldFile \/ Good(disk'))
BY DEF Saves, IInv

LEMMA SavesIfResolvedGood ==
    ASSUME IInv, NEW m, Good(m), SavesIfResolved(m)
    PROVE  Good(mem') /\ (disk' = OldFile \/ Good(disk'))
BY DEF SavesIfResolved, Saves, IInv

\* The gate reads a good state, and a request that passes has a scope.
LEMMA PassGateGood ==
    ASSUME IInv, NEW x \in Actors, NEW m, Good(m), NEW s \in AllScopes,
           NEW c \in AllCaps, NEW told \in AllCaps, NEW simple, PassGate(x, m, s, c, told, simple)
    PROVE  IInv'
<1>1. UNCHANGED <<probes, sessions>>
  BY DEF PassGate
<1>2. CASE ~simple /\ Blocks(m, s, c)
  <2>1. Saves([m EXCEPT !.pending = TRUE], {}) /\ UNCHANGED execs
    BY <1>2 DEF PassGate
  <2>2. Good([m EXCEPT !.pending = TRUE])
    BY PendingGood
  <2>3. Good(mem') /\ (disk' = OldFile \/ Good(disk'))
    BY <2>1, <2>2, SavesGood
  <2> QED
    BY <1>1, <2>1, <2>3 DEF IInv
<1>3. CASE ~(~simple /\ Blocks(m, s, c))
  <2>1. /\ mem' = m /\ UNCHANGED disk
        /\ execs' = [execs EXCEPT ![x] =
                       [phase |-> "running", scope |-> s, cap |-> c, told |-> told]]
    BY <1>3 DEF PassGate
  <2>2. [phase |-> "running", scope |-> s, cap |-> c, told |-> told] \in ExecType
    BY DEF ExecType
  <2> QED
    BY <1>1, <2>1, <2>2 DEF IInv
<1> QED
  BY <1>2, <1>3

-----------------------------------------------------------------------------
(* The invariant *)

\* The inductive invariant holds: by the initial state, and one step per
\* action.
THEOREM Invariance == Spec => []IInv
<1>1. Init => IInv
  <2> SUFFICES ASSUME Init PROVE IInv
    OBVIOUS
  <2>1. Good(Fresh)
    BY DEF Good, Fresh, State, Agrees
  <2>2. disk = OldFile \/ Good(disk)
    BY <2>1 DEF Init
  <2>3. Good(mem)
    BY <2>2, LoadedGood DEF Init
  <2> QED
    BY <2>2, <2>3 DEF Init, IInv, ExecType
<1>2. IInv /\ [Next]_vars => IInv'
  <2> SUFFICES ASSUME IInv, [Next]_vars PROVE IInv'
    OBVIOUS
  <2>a. Good(mem) /\ Good(Loaded(disk))
    BY LoadedGood DEF IInv
  <2>b. NoCap \in AllCaps /\ Unknown \in AllScopes
    BY DEF AllCaps, AllScopes
  <2>c. \A x \in Actors : execs[x] # Idle => execs[x].scope \in AllScopes
                            /\ execs[x].cap \in AllCaps /\ execs[x].told \in AllCaps
    BY DEF IInv, ExecType
  <2>1. ASSUME NEW x \in Actors, NEW c \in AllCaps, NEW s \in AllScopes, Ask(x, c, s)
        PROVE  IInv'
    BY <2>1, <2>a, PassGateGood DEF Ask
  <2>2. ASSUME NEW x \in Actors, NEW c \in AllCaps, AskSimple(x, c) PROVE IInv'
    BY <2>2, <2>a, <2>b, PassGateGood DEF AskSimple
  <2>3. ASSUME NEW x \in Actors, NEW c \in AllCaps, NEW simple \in BOOLEAN,
               AskFallback(x, c, simple) \/ AskStream(x, c, simple)
        PROVE  IInv'
    BY <2>3, <2>a, <2>b, MappedScopeType, PassGateGood DEF AskFallback, AskStream
  <2>4. ASSUME NEW x \in Actors, Return(x), Good(mem') /\ (disk' = OldFile \/ Good(disk'))
        PROVE  IInv'
    BY <2>4 DEF Return, IInv, ExecType
  <2>5. ASSUME NEW x \in Actors, Succeeds(x) PROVE IInv'
    <3>1. Saves(Resolved(mem, execs[x].scope, execs[x].cap), {})
      BY <2>5 DEF Succeeds
    <3> QED
      BY <2>4, <2>5, <2>a, <3>1, ResolvedGood, SavesGood DEF Succeeds
  <2>6. ASSUME NEW x \in Actors, Overridden(x) PROVE IInv'
    <3>1. Saves(Added(mem, execs[x].scope, execs[x].cap), {}) /\ Return(x)
      BY <2>6 DEF Overridden
    <3>2. Good(Added(mem, execs[x].scope, execs[x].cap))
      BY <2>a, <2>c, <3>1, AddedGood DEF Return
    <3> QED
      BY <2>4, <3>1, <3>2, SavesGood
  <2>7. ASSUME NEW x \in Actors, Fails(x) PROVE IInv'
    BY <2>4, <2>7 DEF Fails, IInv
  <2>8. ASSUME NEW x \in Actors, NEW s \in AllScopes, NeedsReauth(x, s) PROVE IInv'
    <3> DEFINE m == Added(mem, s, execs[x].told)
    <3>1. Saves([m EXCEPT !.pending = TRUE], {m}) /\ Return(x)
      BY <2>8 DEF NeedsReauth
    <3>2. Good(m)
      BY <2>a, <2>c, <3>1, AddedGood DEF Return
    <3>3. Good([m EXCEPT !.pending = TRUE])
      BY <3>2, PendingGood
    <3>4. Good(mem') /\ (disk' = OldFile \/ Good(disk'))
      BY <3>1, <3>2, <3>3, SavesGood
    <3> QED
      BY <2>4, <3>1, <3>4
  <2>9. ASSUME NEW p \in Probes, NEW who \in {"check-auth", "mark-ready"}, BeginProbe(p, who)
        PROVE  IInv'
    BY <2>9 DEF BeginProbe, IInv
  <2>10. ASSUME NEW p \in Probes, EndProbe(p), Good(mem') /\ (disk' = OldFile \/ Good(disk'))
         PROVE  IInv'
    BY <2>10 DEF EndProbe, IInv
  <2>11. ASSUME NEW p \in Probes, ProbePasses(p) PROVE IInv'
    <3>1. EndProbe(p) /\ (\/ Saves(AllResolved(mem), {mem})
                          \/ SavesIfResolved(AllResolved(mem)))
      BY <2>11 DEF ProbePasses
    <3> QED
      BY <2>10, <2>a, <3>1, ResolvedGood, SavesGood, SavesIfResolvedGood
  <2>12. ASSUME NEW p \in Probes, ProbeRefused(p) PROVE IInv'
    <3>1. EndProbe(p) /\ (\/ Saves(Added(mem, Unknown, NoCap), {mem})
                          \/ Saves(mem, {mem})
                          \/ UNCHANGED <<mem, disk>>)
      BY <2>12 DEF ProbeRefused
    <3>2. Good(Added(mem, Unknown, NoCap))
      BY <2>a, <2>b, AddedGood
    <3>3. UNCHANGED <<mem, disk>> => Good(mem') /\ (disk' = OldFile \/ Good(disk'))
      BY DEF IInv
    <3> QED
      BY <2>10, <2>a, <3>1, <3>2, <3>3, SavesGood
  <2>13. ASSUME NEW p \in Probes, ProbeUndecided(p) PROVE IInv'
    <3>1. EndProbe(p) /\ (Saves(mem, {}) \/ UNCHANGED <<mem, disk>>)
      BY <2>13 DEF ProbeUndecided
    <3>2. UNCHANGED <<mem, disk>> => Good(mem') /\ (disk' = OldFile \/ Good(disk'))
      BY DEF IInv
    <3> QED
      BY <2>10, <2>a, <3>1, <3>2, SavesGood
  <2>14. CASE TakePending
    <3>1. Good([mem EXCEPT !.pending = FALSE])
      BY <2>a, PendingGood
    <3> QED
      BY <2>14, <3>1, SavesGood DEF TakePending, IInv
  <2>15. ASSUME NEW s \in AllScopes, StartRepair(s) PROVE IInv'
    <3>1. Good([mem EXCEPT !.pending = TRUE])
      BY <2>a, PendingGood
    <3>2. CASE UNCHANGED <<mem, disk, sessions>>
      BY <2>15, <3>2 DEF StartRepair, IInv
    <3>3. CASE ~UNCHANGED <<mem, disk, sessions>>
      <4>1. /\ sessions' = Append(sessions, [scope |-> s, status |-> "waiting_user"])
            /\ Saves([mem EXCEPT !.pending = TRUE], {})
            /\ UNCHANGED <<execs, probes>>
        BY <2>15, <3>3 DEF StartRepair
      <4>2. sessions' \in Seq(SessionType)
        BY <4>1, AppendProperties DEF IInv, SessionType
      <4> QED
        BY <3>1, <4>1, <4>2, SavesGood DEF IInv
    <3> QED
      BY <3>2, <3>3
  <2>16. ASSUME NEW i \in DOMAIN sessions, NEW st \in {"waiting_user", "ready", "cancelled"},
                sessions' = [sessions EXCEPT ![i].status = st]
         PROVE  sessions' \in Seq(SessionType)
    <3>1. sessions \in Seq(SessionType) /\ i \in 1..Len(sessions)
      BY DEF IInv
    <3>2. sessions[i] \in SessionType
      BY <3>1, ElementOfSeq
    <3>3. [sessions[i] EXCEPT !.status = st] \in SessionType
      BY <3>2 DEF SessionType
    <3> QED
      BY <2>16, <3>1, <3>3, ExceptSeq
  <2>17. ASSUME NEW i \in DOMAIN sessions, CheckRepair(i) PROVE IInv'
    <3>1. sessions' \in Seq(SessionType)
      BY <2>16, <2>17 DEF CheckRepair
    <3>2. UNCHANGED <<mem, disk>> \/ SavesIfResolved(Resolved(mem, sessions[i].scope, NoCap))
      BY <2>17 DEF CheckRepair
    <3>3. Good(mem') /\ (disk' = OldFile \/ Good(disk'))
      BY <2>a, <3>2, ResolvedGood, SavesIfResolvedGood DEF IInv
    <3> QED
      BY <2>17, <3>1, <3>3 DEF CheckRepair, IInv
  <2>18. ASSUME NEW i \in DOMAIN sessions, CancelRepair(i) PROVE IInv'
    BY <2>16, <2>18 DEF CancelRepair, IInv
  <2>19. CASE Restart
    BY <2>19, <2>a DEF Restart, IInv, ExecType
  <2>20. CASE UNCHANGED vars
    BY <2>20 DEF vars, IInv
  <2> QED
    BY <2>1, <2>2, <2>3, <2>5, <2>6, <2>7, <2>8, <2>9, <2>11, <2>12, <2>13, <2>14,
       <2>15, <2>17, <2>18, <2>19, <2>20 DEF Next
<1> QED
  BY <1>1, <1>2, PTL DEF Spec

\* Types, for any constants.
THEOREM TypeCorrect == Spec => []TypeOK
<1>1. IInv => TypeOK
  BY DEF IInv, TypeOK, Good, ExecType, SessionType
<1> QED
  BY <1>1, Invariance, PTL

\* Flag, status and list agree, and a scope is required once, over failed
\* saves, reloads and restarts.
THEOREM Agreement == Spec => []RequirementsAgree
<1>1. IInv => RequirementsAgree
  BY DEF IInv, RequirementsAgree, Good
<1> QED
  BY <1>1, Invariance, PTL

-----------------------------------------------------------------------------
(* A requirement is kept *)

LEMMA LoadedKeeps ==
    ASSUME NEW f, f = OldFile \/ Good(f), NEW s, InScope(f, s) # {}
    PROVE  InScope(Loaded(f), s) # {}
<1>1. f # OldFile
  BY DEF InScope, OldFile, Fresh
<1>2. f \in State /\ f.version = 2
  BY <1>1 DEF Good, State
<1>3. Loaded(f) = [f EXCEPT !.version = 2, !.reqs = f.reqs, !.requires = f.reqs # {}]
  BY <1>2 DEF Loaded
<1>4. Loaded(f).reqs = f.reqs
  BY <1>2, <1>3 DEF State
<1> QED
  BY <1>4 DEF InScope

\* A new requirement, or a newer capability, removes none.
LEMMA AddedKeeps ==
    ASSUME NEW m, Good(m), NEW s \in AllScopes, NEW t \in AllScopes, NEW c \in AllCaps,
           InScope(m, s) # {}
    PROVE  InScope(Added(m, t, c), s) # {}
<1>0. m \in State /\ m.reqs \subseteq Requirement
  BY DEF Good, State
<1>1. PICK r \in m.reqs : r.scope = s
  BY DEF InScope
<1>2. CASE InScope(m, t) # {}
  <2> DEFINE Named(a) == IF a.scope = t /\ c # NoCap THEN [a EXCEPT !.cap = c] ELSE a
  <2>1. Added(m, t, c) = [m EXCEPT !.reqs = {Named(a) : a \in m.reqs}]
    BY <1>2 DEF Added
  <2>2. Added(m, t, c).reqs = {Named(a) : a \in m.reqs}
    BY <1>0, <2>1 DEF State
  <2>3. Named(r).scope = s
    BY <1>0, <1>1 DEF Requirement
  <2> QED
    BY <1>1, <2>2, <2>3 DEF InScope
<1>3. CASE InScope(m, t) = {}
  <2>1. Added(m, t, c).reqs = m.reqs \cup {[scope |-> t, cap |-> c]}
    BY <1>0, <1>3 DEF Added, State
  <2> QED
    BY <1>1, <2>1 DEF InScope
<1> QED
  BY <1>2, <1>3

LEMMA PendingKeeps ==
    ASSUME NEW m, Good(m), NEW b, NEW s
    PROVE  InScope([m EXCEPT !.pending = b], s) = InScope(m, s)
BY DEF Good, State, InScope

\* What matches neither the scope nor the capability stays.
LEMMA ResolvedKeeps ==
    ASSUME NEW m, Good(m), NEW s, NEW t, NEW c,
           NEW r \in InScope(m, s), ~Matches(r, t, c)
    PROVE  InScope(Resolved(m, t, c), s) # {}
<1> DEFINE gone == {a \in m.reqs : Matches(a, t, c)}
<1>1. r \in m.reqs \ gone /\ r.scope = s
  BY DEF InScope
<1>2. Resolved(m, t, c).reqs = m.reqs \ gone
  BY DEF Resolved, Without, Good, State
<1> QED
  BY <1>1, <1>2 DEF InScope

LEMMA SavesKeeps ==
    ASSUME NEW m, NEW earlier, Saves(m, earlier), NEW s, Holds(s), InScope(m, s) # {},
           \A e \in earlier : InScope(e, s) # {}
    PROVE  Holds(s)'
BY DEF Saves, Holds, InScope

\* The gate of every path: what it read from is what was there.
LEMMA PassGateKeeps ==
    ASSUME NEW x, NEW m, Good(m), NEW s, NEW c, NEW told, NEW simple,
           PassGate(x, m, s, c, told, simple), NEW t, Holds(t), InScope(m, t) # {}
    PROVE  Holds(t)'
<1>1. CASE Saves([m EXCEPT !.pending = TRUE], {})
  BY <1>1, PendingKeeps, SavesKeeps
<1>2. CASE mem' = m /\ UNCHANGED disk
  BY <1>2 DEF Holds, InScope
<1> QED
  BY <1>1, <1>2 DEF PassGate

\* A requirement in memory and in the file leaves neither unless a run of its
\* scope or capability succeeds or a check passes.
THEOREM RequirementsKept == Spec => KeptUntilCause
<1> DEFINE Cause(s) == \/ \E x \in Actors : SuccessOf(x, s)
                       \/ \E p \in Probes : ProbePasses(p)
<1>1. ASSUME IInv, [Next]_vars, NEW s \in AllScopes, Holds(s)
      PROVE  Holds(s)' \/ Cause(s)
  <2>a. Good(mem) /\ Good(Loaded(disk))
    BY <1>1, LoadedGood DEF IInv
  <2>b. InScope(mem, s) # {} /\ InScope(disk, s) # {}
    BY <1>1 DEF Holds
  <2>c. InScope(Loaded(disk), s) # {}
    BY <1>1, <2>b, LoadedKeeps DEF IInv
  <2>d. NoCap \in AllCaps /\ Unknown \in AllScopes
    BY DEF AllCaps, AllScopes
  <2>e. \A x \in Actors : execs[x] # Idle => execs[x].scope \in AllScopes
                            /\ execs[x].cap \in AllCaps /\ execs[x].told \in AllCaps
    BY <1>1 DEF IInv, ExecType
  <2>f. UNCHANGED <<mem, disk>> => Holds(s)'
    BY <1>1 DEF Holds, InScope
  <2>1. ASSUME NEW x \in Actors, NEW c \in AllCaps, NEW t \in AllScopes, Ask(x, c, t)
        PROVE  Holds(s)'
    BY <1>1, <2>1, <2>a, <2>c, PassGateKeeps DEF Ask
  <2>2. ASSUME NEW x \in Actors, NEW c \in AllCaps, AskSimple(x, c) PROVE Holds(s)'
    BY <1>1, <2>2, <2>a, <2>b, PassGateKeeps DEF AskSimple
  <2>3. ASSUME NEW x \in Actors, NEW c \in AllCaps, NEW simple \in BOOLEAN,
               AskFallback(x, c, simple) \/ AskStream(x, c, simple)
        PROVE  Holds(s)'
    BY <1>1, <2>3, <2>a, <2>b, PassGateKeeps DEF AskFallback, AskStream
  <2>4. ASSUME NEW x \in Actors, Succeeds(x) PROVE Holds(s)' \/ Cause(s)
    <3>1. Saves(Resolved(mem, execs[x].scope, execs[x].cap), {})
      BY <2>4 DEF Succeeds
    <3>2. PICK r \in InScope(mem, s) : TRUE
      BY <2>b
    <3>3. CASE Matches(r, execs[x].scope, execs[x].cap)
      <4>1. r.scope = s
        BY <3>2 DEF InScope
      <4>2. SuccessOf(x, s)
        BY <2>4, <3>2, <3>3, <4>1 DEF SuccessOf, Matches
      <4> QED
        BY <4>2
    <3>4. CASE ~Matches(r, execs[x].scope, execs[x].cap)
      <4>1. InScope(Resolved(mem, execs[x].scope, execs[x].cap), s) # {}
        BY <2>a, <3>2, <3>4, ResolvedKeeps
      <4> QED
        BY <1>1, <3>1, <4>1, SavesKeeps
    <3> QED
      BY <3>3, <3>4
  <2>5. ASSUME NEW x \in Actors, Overridden(x) PROVE Holds(s)'
    <3>1. Saves(Added(mem, execs[x].scope, execs[x].cap), {}) /\ Return(x)
      BY <2>5 DEF Overridden
    <3>2. InScope(Added(mem, execs[x].scope, execs[x].cap), s) # {}
      BY <2>a, <2>b, <2>e, <3>1, AddedKeeps DEF Return
    <3> QED
      BY <1>1, <3>1, <3>2, SavesKeeps
  <2>6. ASSUME NEW x \in Actors, Fails(x) PROVE Holds(s)'
    BY <2>6, <2>f DEF Fails
  <2>7. ASSUME NEW x \in Actors, NEW t \in AllScopes, NeedsReauth(x, t) PROVE Holds(s)'
    <3> DEFINE m == Added(mem, t, execs[x].told)
    <3>1. Saves([m EXCEPT !.pending = TRUE], {m}) /\ Return(x)
      BY <2>7 DEF NeedsReauth
    <3>2. Good(m) /\ InScope(m, s) # {}
      BY <2>a, <2>b, <2>e, <3>1, AddedGood, AddedKeeps DEF Return
    <3>3. InScope([m EXCEPT !.pending = TRUE], s) # {}
      BY <3>2, PendingKeeps
    <3> QED
      BY <1>1, <3>1, <3>2, <3>3, SavesKeeps
  <2>8. ASSUME NEW p \in Probes, NEW who \in {"check-auth", "mark-ready"}, BeginProbe(p, who)
        PROVE  Holds(s)'
    BY <2>8, <2>f DEF BeginProbe
  <2>9. ASSUME NEW p \in Probes, ProbeRefused(p) PROVE Holds(s)'
    <3>1. Saves(mem, {mem}) \/ UNCHANGED <<mem, disk>>
      BY <2>9, <2>b DEF ProbeRefused, InScope
    <3> QED
      BY <1>1, <2>b, <2>f, <3>1, SavesKeeps
  <2>10. ASSUME NEW p \in Probes, ProbeUndecided(p) PROVE Holds(s)'
    <3>1. Saves(mem, {}) \/ UNCHANGED <<mem, disk>>
      BY <2>10 DEF ProbeUndecided
    <3> QED
      BY <1>1, <2>b, <2>f, <3>1, SavesKeeps
  <2>11. CASE TakePending
    <3>1. InScope([mem EXCEPT !.pending = FALSE], s) # {}
      BY <2>a, <2>b, PendingKeeps
    <3> QED
      BY <1>1, <2>11, <3>1, SavesKeeps DEF TakePending
  <2>12. ASSUME NEW t \in AllScopes, StartRepair(t) PROVE Holds(s)'
    <3>1. InScope([mem EXCEPT !.pending = TRUE], s) # {}
      BY <2>a, <2>b, PendingKeeps
    <3>2. Saves([mem EXCEPT !.pending = TRUE], {}) \/ UNCHANGED <<mem, disk>>
      BY <2>12 DEF StartRepair
    <3> QED
      BY <1>1, <2>f, <3>1, <3>2, SavesKeeps
  <2>13. ASSUME NEW i \in DOMAIN sessions, CheckRepair(i) PROVE Holds(s)'
    <3> DEFINE t == sessions[i].scope
    <3>1. CASE InScope(mem, t) # {}
      BY <2>13, <2>f, <3>1 DEF CheckRepair
    <3>2. CASE InScope(mem, t) = {}
      <4>1. PICK r \in InScope(mem, s) : TRUE
        BY <2>b
      <4>2. ~Matches(r, t, NoCap)
        BY <3>2, <4>1 DEF Matches, InScope
      <4>3. InScope(Resolved(mem, t, NoCap), s) # {}
        BY <2>a, <4>1, <4>2, ResolvedKeeps
      <4>4. SavesIfResolved(Resolved(mem, t, NoCap))
        BY <2>13, <3>2 DEF CheckRepair
      <4> QED
        BY <1>1, <2>f, <4>3, <4>4, SavesKeeps DEF SavesIfResolved
    <3> QED
      BY <3>1, <3>2
  <2>14. ASSUME NEW i \in DOMAIN sessions, CancelRepair(i) PROVE Holds(s)'
    BY <2>14, <2>f DEF CancelRepair
  <2>15. CASE Restart
    BY <2>15, <2>b, <2>c DEF Restart, Holds, InScope
  <2>16. CASE UNCHANGED vars
    BY <2>16, <2>f DEF vars
  <2>17. ASSUME NEW p \in Probes, ProbePasses(p) PROVE Cause(s)
    BY <2>17
  <2> HIDE DEF Cause
  <2> QED
    BY <1>1, <2>1, <2>2, <2>3, <2>4, <2>5, <2>6, <2>7, <2>8, <2>9, <2>10, <2>11, <2>12,
       <2>13, <2>14, <2>15, <2>16, <2>17 DEF Next
<1>2. IInv /\ [Next]_vars =>
        [\A s \in AllScopes :
           Holds(s) =>
             \/ Holds(s)'
             \/ \E x \in Actors : SuccessOf(x, s)
             \/ \E p \in Probes : ProbePasses(p)]_vars
  BY <1>1
<1> QED
  BY <1>2, Invariance, PTL DEF Spec, KeptUntilCause

=============================================================================

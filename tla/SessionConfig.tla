--------------------------- MODULE SessionConfig ----------------------------
(***************************************************************************)
(* How options reach a session: the version check of the CLI               *)
(* (internal/cli/cli.go), mergeOptions and the capability checks of the    *)
(* calls that make a session, the login relaunch and its retry, and        *)
(* applySessionConfig with the variant that WithEffort picks               *)
(* (client_impl.go, effort.go, unstable.go); then the setters of the open  *)
(* session (session_impl.go), each an RPC followed by an update of the     *)
(* SDK's copy.  A model id is a base and a variant, "" when it has none.   *)
(* opencode (external) keeps the model and the mode of a session.          *)
(***************************************************************************)
EXTENDS Naturals, Sequences, FiniteSets

CONSTANTS
  Calls,         \* concurrent NewSession and LoadSession calls
  Overrides,     \* their options: [kind, model, agent, effort, servers, hooks, login]
  Setters,       \* goroutines that call a setter of an open session
  Bases,         \* base model ids
  Variants,      \* base -> the variants opencode has for it
  Modes,         \* agent modes
  ClientServers, \* WithMCPServers of the client: [name, transport]
  ClientHooks,   \* WithHooks of the client; {} is a nil map
  Bridged,       \* the client runs a bridge
  Transports,    \* MCP transports the agent advertises
  TuiModels,     \* what tuimodel.Resolve may find in the TUI's state file
  Versions,      \* versions the CLI may report: sequences of numbers
  Minimum        \* MinimumCLIVersion

Names    == STRING \cup {""}
ModelIds == [base : Bases \cup {""}, variant : Names]

ASSUME VariantsAssumption == Bases \subseteq Names /\ Variants \in [Bases -> SUBSET Names]
ASSUME VersionAssumption  == Versions \subseteq Seq(Nat) /\ Minimum \in [1..3 -> Nat]
ASSUME OptionsAssumption  ==
  /\ TuiModels \subseteq ModelIds /\ ClientHooks \subseteq Names
  /\ Overrides \subseteq
       [kind : {"new", "load"}, model : ModelIds, agent : Modes \cup {""}, effort : Names,
        servers : SUBSET [name : Names, transport : Names], hooks : SUBSET Names,
        login : BOOLEAN]

VARIABLES
  version,  \* what the CLI reports
  started,  \* "no", "yes" or "refused"
  options,  \* c.opts: [servers, hooks]
  pc,       \* call -> where it is
  merged,   \* call -> its merged options
  sent,     \* call -> McpServers of its request
  tries,    \* call -> RPCs made
  logins,   \* call -> login commands that ran
  current,  \* session -> [model, mode]: currentModel, currentMode
  agent,    \* session -> [model, mode] as opencode has them
  resolved, \* session -> resolvedVariant: [base, variant, available]
  setter,   \* goroutine -> [at, call, id, value]
  overlap,  \* ghost: sessions on which setters overlapped
  silent    \* ghost: sessions for which a set_model answer had no variants

sessionVars == <<current, agent, resolved, silent>>
callVars    == <<merged, sent, tries, logins>>
vars == <<version, started, options, pc, callVars, sessionVars, setter, overlap>>

NoModel == [base |-> "", variant |-> ""]
NoInfo  == [base |-> "", variant |-> "", available |-> {}]
Bare(b) == [base |-> b, variant |-> ""]

Init ==
  /\ version \in Versions /\ started = "no"
  /\ options = [servers |-> ClientServers, hooks |-> ClientHooks]
  /\ pc = [i \in Calls |-> "idle"]
  /\ merged \in [Calls -> Overrides]
  /\ sent = [i \in Calls |-> {}]
  /\ tries = [i \in Calls |-> 0] /\ logins = [i \in Calls |-> 0]
  /\ current = [i \in Calls |-> [model |-> NoModel, mode |-> ""]]
  /\ \E b \in Bases : agent = [i \in Calls |-> [model |-> Bare(b), mode |-> "build"]]
  /\ resolved = [i \in Calls |-> NoInfo]
  /\ setter = [u \in Setters |-> [at |-> "idle", call |-> "", id |-> "", value |-> NoModel]]
  /\ overlap = {} /\ silent = {}

-----------------------------------------------------------------------------
(* The version check.                                                      *)

\* major.minor.patch: missing components are 0, further ones are ignored.
parseVersion(v) == [k \in 1..3 |-> IF k <= Len(v) THEN v[k] ELSE 0]

\* Mutant: every component is compared on its own.
atLeastEach(v, floor) == \A k \in 1..3 : parseVersion(v)[k] >= floor[k]

\* The first component that differs decides.
atLeast(v, floor) ==
  LET g == parseVersion(v)
      differ == {k \in 1..3 : g[k] # floor[k]}
  IN differ = {} \/ \E k \in differ : g[k] > floor[k] /\ \A j \in differ : k <= j

Start ==
  /\ started = "no"
  /\ started' = IF atLeast(version, Minimum) THEN "yes" ELSE "refused"
  /\ UNCHANGED <<version, options, pc, callVars, sessionVars, setter, overlap>>

-----------------------------------------------------------------------------
(* mergeOptions and the request.                                           *)

BridgeEntry == IF Bridged THEN {[name |-> "bridge", transport |-> "http"]} ELSE {}

\* Mutant: the per-call servers are appended to the client's own slice.
MergeServersShared(ovr) ==
  /\ options' = [options EXCEPT !.servers = @ \cup ovr.servers]

\* The slices are copied; the hooks map is the client's own unless it is nil.
MergeClient(ovr) ==
  /\ options' = [options EXCEPT !.hooks = IF @ = {} THEN @ ELSE @ \cup ovr.hooks]

MergedServers(ovr) == BridgeEntry \cup options.servers \cup ovr.servers

\* The state file is read at every merge.
MergedModels(ovr) == IF ovr.model = NoModel THEN TuiModels ELSE {ovr.model}

checkMCPCapabilities(servers) ==
  \A s \in servers : s.transport = "stdio" \/ s.transport \in Transports

Merge(i) ==
  /\ pc[i] = "idle" /\ started = "yes"
  /\ MergeClient(merged[i])
  /\ \E m \in MergedModels(merged[i]) : merged' = [merged EXCEPT ![i].model = m]
  /\ sent' = [sent EXCEPT ![i] = MergedServers(merged[i])]
  /\ pc' = [pc EXCEPT ![i] =
              IF checkMCPCapabilities(MergedServers(merged[i])) THEN "rpc" ELSE "rejected"]
  /\ UNCHANGED <<version, started, tries, logins, sessionVars, setter, overlap>>

\* Mutant: the login is relaunched as often as it is asked for.
MayRelaunchAlways(i) == merged[i].login /\ tries[i] < 3

\* maybeRelaunchLoginAndRetry is called once.
MayRelaunch(i) == merged[i].login /\ tries[i] = 0

\* The RPC of the call; authRequired may be followed by a login and a retry.
\* A loaded session is registered without its model and mode.
SessionRpc(i) ==
  /\ pc[i] = "rpc"
  /\ tries' = [tries EXCEPT ![i] = @ + 1]
  /\ \/ /\ pc' = [pc EXCEPT ![i] = "model"]
        /\ current' = IF merged[i].kind = "new" THEN [current EXCEPT ![i] = agent[i]] ELSE current
        /\ UNCHANGED logins
     \/ /\ pc' = [pc EXCEPT ![i] = "failed"]
        /\ UNCHANGED <<current, logins>>
     \/ /\ MayRelaunch(i)
        /\ logins' = [logins EXCEPT ![i] = @ + 1]
        /\ UNCHANGED <<pc, current>>
  /\ UNCHANGED <<version, started, options, merged, sent, agent, resolved, silent, setter, overlap>>

-----------------------------------------------------------------------------
(* applySessionConfig.  The caller has no handle yet, so nobody else sees   *)
(* the session between an RPC of it and the SDK's copy.                    *)

ConfigFails(i) ==
  /\ pc[i] \in {"model", "mode", "effort", "variant"}
  /\ pc' = [pc EXCEPT ![i] = "failed"]
  /\ UNCHANGED <<version, started, options, callVars, sessionVars, setter, overlap>>

ApplyModel(i) ==
  /\ pc[i] = "model"
  /\ pc' = [pc EXCEPT ![i] = "mode"]
  /\ LET m == merged[i].model
     IN IF m = NoModel THEN UNCHANGED <<current, agent>>
        ELSE /\ current' = [current EXCEPT ![i].model = m]
             /\ agent' = [agent EXCEPT ![i].model = m]
  /\ UNCHANGED <<version, started, options, callVars, resolved, silent, setter, overlap>>

ApplyMode(i) ==
  /\ pc[i] = "mode"
  /\ pc' = [pc EXCEPT ![i] = "effort"]
  /\ LET a == merged[i].agent
     IN IF a = "" THEN UNCHANGED <<current, agent>>
        ELSE /\ current' = [current EXCEPT ![i].mode = a]
             /\ agent' = [agent EXCEPT ![i].mode = a]
  /\ UNCHANGED <<version, started, options, callVars, resolved, silent, setter, overlap>>

\* Mutant: a medium effort may end deeper than asked.
effortPriorityDeeper(level) ==
  CASE level = "none" -> <<"none">> [] level = "low" -> <<"low">>
    [] level = "medium" -> <<"medium", "high">> [] level = "high" -> <<"high", "medium">>
    [] level = "max" -> <<"max", "xhigh", "high">> [] OTHER -> <<>>

effortPriority(level) ==
  CASE level = "none" -> <<"none">> [] level = "low" -> <<"low">>
    [] level = "medium" -> <<"medium", "low">> [] level = "high" -> <<"high", "medium">>
    [] level = "max" -> <<"max", "xhigh", "high">> [] OTHER -> <<>>

\* The first of the priorities that is available, or "".
chooseVariant(available, priority) ==
  LET hits == {k \in 1..Len(priority) : priority[k] \in available}
  IN IF hits = {} THEN "" ELSE priority[CHOOSE k \in hits : \A j \in hits : k <= j]

\* Mutant: a pinned variant is probed like any other.
IgnoresVariant(m) == FALSE

modelHasExplicitVariant(m) == m.variant # ""

EffortModel(i) == IF merged[i].model = NoModel THEN current[i].model ELSE merged[i].model

\* session/set_model: a bare id of the base already selected may keep the
\* variant.  The answer has the variants of the model, or says nothing.
AgentSelects(was, m) == {m} \cup IF m.variant = "" /\ was.base = m.base THEN {was} ELSE {}
InfoOf(m) == [base |-> m.base, variant |-> m.variant, available |-> Variants[m.base]]

\* got is what opencode selected; an answer without variants is taken as info.
Answers(i, got, info) ==
  \/ resolved' = [resolved EXCEPT ![i] = InfoOf(got)] /\ UNCHANGED silent
  \/ resolved' = [resolved EXCEPT ![i] = info] /\ silent' = silent \cup {i}

\* resolveVariants selects the bare model to learn its variants.
Probe(i) ==
  /\ pc[i] = "effort"
  /\ LET m == EffortModel(i)
     IN IF effortPriority(merged[i].effort) = <<>> \/ m = NoModel \/ modelHasExplicitVariant(m)
        THEN pc' = [pc EXCEPT ![i] = "open"] /\ UNCHANGED <<agent, resolved, silent>>
        ELSE \E got \in AgentSelects(agent[i].model, Bare(m.base)) :
               /\ pc' = [pc EXCEPT ![i] = "variant"]
               /\ agent' = [agent EXCEPT ![i].model = got]
               /\ Answers(i, got, [NoInfo EXCEPT !.base = m.base])
  /\ UNCHANGED <<version, started, options, callVars, current, setter, overlap>>

\* Nothing available or wanted leaves the probed model; otherwise the chosen
\* variant is selected unless the probe shows it is already.
SelectVariant(i) ==
  /\ pc[i] = "variant"
  /\ pc' = [pc EXCEPT ![i] = "open"]
  /\ LET chosen == chooseVariant(resolved[i].available, effortPriority(merged[i].effort))
         target == [base |-> resolved[i].base, variant |-> chosen]
     IN IF chosen = "" THEN UNCHANGED sessionVars
        ELSE /\ current' = [current EXCEPT ![i].model = target]
             /\ agent' = [agent EXCEPT ![i].model = target]
             /\ resolved' = [resolved EXCEPT ![i].variant = chosen]
             /\ UNCHANGED silent
  /\ UNCHANGED <<version, started, options, callVars, setter, overlap>>

-----------------------------------------------------------------------------
(* The setters of an open session: the RPC, then the SDK's copy.           *)

Pending(i) == {u \in Setters : setter[u].at = "sent" /\ setter[u].call = i}

\* SetModel, SetMode and SetConfigOption; an option other than model and mode
\* is not copied.  An error ends the call here.
SetConfigOption(u, i, id, value) ==
  /\ setter[u].at = "idle" /\ pc[i] = "open"
  /\ setter' = [setter EXCEPT ![u] = [at |-> "sent", call |-> i, id |-> id, value |-> value]]
  /\ agent' = CASE id = "model" -> [agent EXCEPT ![i].model = value]
                [] id = "mode"  -> [agent EXCEPT ![i].mode = value]
                [] OTHER        -> agent
  /\ overlap' = IF Pending(i) = {} THEN overlap ELSE overlap \cup {i}
  /\ UNCHANGED <<version, started, options, pc, callVars, current, resolved, silent>>

\* Mutant: the copy is made before the RPC, and stays when that fails.
SetConfigOptionFailsLate(u, i, id, value) ==
  /\ setter[u].at = "idle" /\ pc[i] = "open"
  /\ setter' = [setter EXCEPT ![u] = [at |-> "done", call |-> i, id |-> id, value |-> NoModel]]
  /\ current' = CASE id = "model" -> [current EXCEPT ![i].model = value]
                  [] id = "mode"  -> [current EXCEPT ![i].mode = value]
                  [] OTHER        -> current
  /\ UNCHANGED <<version, started, options, pc, callVars, agent, resolved, silent, overlap>>

SetConfigOptionFails(u, i, id, value) ==
  /\ setter[u].at = "idle" /\ pc[i] = "open"
  /\ setter' = [setter EXCEPT ![u] = [at |-> "done", call |-> i, id |-> id, value |-> NoModel]]
  /\ UNCHANGED <<version, started, options, pc, callVars, sessionVars, overlap>>

SetterCopies(u) ==
  /\ setter[u].at = "sent"
  /\ setter' = [setter EXCEPT ![u].at = "done", ![u].value = NoModel]
  /\ LET i == setter[u].call
         v == setter[u].value
     IN CASE setter[u].id = "model" -> current' = [current EXCEPT ![i].model = v]
          [] setter[u].id = "mode"  -> current' = [current EXCEPT ![i].mode = v]
          [] OTHER                  -> UNCHANGED current
  /\ UNCHANGED <<version, started, options, pc, callVars, agent, resolved, silent, overlap>>

\* Mutant: the answer is stored for the model that was asked for.
UnstableSetModelTrusts(u, i, m) ==
  /\ setter[u].at = "idle" /\ pc[i] = "open"
  /\ setter' = [setter EXCEPT ![u] = [at |-> "done", call |-> i, id |-> "unstable", value |-> NoModel]]
  /\ \E got \in AgentSelects(agent[i].model, m) :
       agent' = [agent EXCEPT ![i].model = got]
  /\ resolved' = [resolved EXCEPT ![i] = InfoOf(m)]
  /\ UNCHANGED <<version, started, options, pc, callVars, current, silent, overlap>>

\* UnstableSetModel: the variants of the answer are kept, currentModel is not
\* touched.
UnstableSetModel(u, i, m) ==
  /\ setter[u].at = "idle" /\ pc[i] = "open"
  /\ setter' = [setter EXCEPT ![u] = [at |-> "done", call |-> i, id |-> "unstable", value |-> NoModel]]
  /\ \E got \in AgentSelects(agent[i].model, m) :
       /\ agent' = [agent EXCEPT ![i].model = got]
       /\ Answers(i, got, resolved[i])
  /\ UNCHANGED <<version, started, options, pc, callVars, current, overlap>>

Models == UNION {{[base |-> b, variant |-> v] : v \in Variants[b] \cup {""}} : b \in Bases}

Configure(i) == \/ Merge(i) \/ SessionRpc(i) \/ ConfigFails(i) \/ ApplyModel(i)
                \/ ApplyMode(i) \/ Probe(i) \/ SelectVariant(i)

Set(u) ==
  \/ SetterCopies(u)
  \/ \E i \in Calls :
       \/ \E m \in Models : \/ SetConfigOption(u, i, "model", m)
                            \/ SetConfigOptionFails(u, i, "model", m)
                            \/ UnstableSetModel(u, i, m)
       \/ \E a \in Modes : SetConfigOption(u, i, "mode", a)
       \/ SetConfigOption(u, i, "other", NoModel)

Next == Start \/ (\E i \in Calls : Configure(i)) \/ (\E u \in Setters : Set(u))

Spec == Init /\ [][Next]_vars

-----------------------------------------------------------------------------
(* Properties.                                                             *)

Untouched(i) == pc[i] = "open" /\ \A u \in Setters : setter[u].at = "idle" \/ setter[u].call # i

\* v comes before w, major component first.
Older(v, w) ==
  \/ v[1] < w[1]
  \/ v[1] = w[1] /\ v[2] < w[2]
  \/ v[1] = w[1] /\ v[2] = w[2] /\ v[3] < w[3]

\* Start lets through exactly the CLIs whose version is not older than the minimum.
VersionGate ==
  started # "no" => (started = "refused" <=> Older(parseVersion(version), Minimum))

\* However calls overlap, the request of each names the bridge, the client's
\* servers and its own, none of another call, and none the agent cannot reach.
ServersExact ==
  \A i \in Calls : pc[i] \notin {"idle", "rejected"} =>
    /\ sent[i] = BridgeEntry \cup ClientServers \cup merged[i].servers
    /\ \A s \in sent[i] : s.transport \in Transports \cup {"stdio"}

\* mergeOptions says that per-call overrides cannot corrupt the client's
\* options: the hooks every session is dispatched to are the client's own.
HooksStayLocal == options.hooks = ClientHooks

Rank == [none |-> 0, low |-> 1, medium |-> 2, high |-> 3, xhigh |-> 4, max |-> 5]
Least == [none |-> 0, low |-> 1, medium |-> 1, high |-> 2, max |-> 3]

\* Where opencode named the variants of the model, a session opened WithEffort
\* runs the deepest one that is not deeper than asked and not too shallow.
EffortIsDeepest ==
  \A i \in Calls :
    LET fits == {v \in resolved[i].available \cap DOMAIN Rank :
                   Rank[v] >= Least[merged[i].effort] /\ Rank[v] <= Rank[merged[i].effort]}
    IN Untouched(i) /\ merged[i].effort \in DOMAIN Least /\ fits # {} =>
         /\ agent[i].model.variant \in fits
         /\ \A v \in fits : Rank[v] <= Rank[agent[i].model.variant]

\* A variant pinned with WithModel survives WithEffort and its probe.
PinnedVariantKept ==
  \A i \in Calls : Untouched(i) /\ merged[i].model.variant # "" =>
    agent[i].model = merged[i].model

\* WithModel and WithEffort end as the model and the variant they name.
EffortHonoured == EffortIsDeepest /\ PinnedVariantKept

\* After any sequence of setters that did not overlap, the model and the mode the
\* SDK labels its metrics with are opencode's, as far as it was told of them:
\* not after UnstableSetModel, and not before a loaded session had one set.
LabelsTrackAgent ==
  \A i \in Calls :
    LET plain == /\ pc[i] = "open" /\ Pending(i) = {} /\ i \notin overlap
                 /\ \A u \in Setters : ~(setter[u].call = i /\ setter[u].id = "unstable")
    IN plain => /\ current[i].model # NoModel => current[i].model.base = agent[i].model.base
                /\ current[i].mode # "" => current[i].mode = agent[i].mode

\* CurrentVariant returns the model and the variant opencode runs, if every
\* set_model answer named its variants and the model was only changed by
\* set_model since.
VariantTracksAgent ==
  \A i \in Calls :
    LET told == /\ pc[i] = "open" /\ resolved[i] # NoInfo /\ i \notin silent
                /\ \A u \in Setters : ~(setter[u].call = i /\ setter[u].id = "model")
    IN told => /\ resolved[i].base = agent[i].model.base
               /\ resolved[i].variant = agent[i].model.variant

\* What the SDK says of a session's model, mode and variant is opencode's.
CopiesTrackAgent == LabelsTrackAgent /\ VariantTracksAgent

\* The session RPC is repeated once at most, and only after a login.
RetryNeedsLogin == \A i \in Calls : tries[i] <= 1 + logins[i] /\ logins[i] <= 1

\* What is sent to the agent: nothing to a CLI that is too old, the right servers
\* with every request, and no request again without a login.
RequestsSound == VersionGate /\ ServersExact /\ RetryNeedsLogin

=============================================================================

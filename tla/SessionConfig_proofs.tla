------------------------ MODULE SessionConfig_proofs ------------------------
(***************************************************************************)
(* For any number of session calls and setters, any options and any models *)
(* and variants: what is sent to the agent is right, WithModel and         *)
(* WithEffort end as the model they name, and the SDK's copies of a        *)
(* session's model, mode and variant are opencode's.                       *)
(***************************************************************************)
EXTENDS SessionConfig, SequenceTheorems, TLAPS

USE DEF sessionVars, callVars

ModeNames == Modes \cup {"", "build"}
Options   == [kind : {"new", "load"}, model : ModelIds, agent : Modes \cup {""},
              effort : Names, servers : SUBSET [name : Names, transport : Names],
              hooks : SUBSET Names, login : BOOLEAN]
SetterCalls == [at : {"idle", "sent", "done"}, call : Calls \cup {""},
                id : {"", "model", "mode", "other", "unstable"},
                value : ModelIds \cup Modes]
Selected == [model : ModelIds, mode : ModeNames]
Infos    == [base : Bases \cup {""}, variant : Names, available : SUBSET Names]
Places   == {"idle", "rpc", "rejected", "failed", "model", "mode", "effort", "variant",
             "open"}

\* The shape of the state.
Types ==
  /\ version \in Seq(Nat) /\ started \in {"no", "yes", "refused"}
  /\ options \in [servers : {ClientServers}, hooks : SUBSET Names]
  /\ pc \in [Calls -> Places]
  /\ merged \in [Calls -> Options]
  /\ sent = [i \in Calls |-> sent[i]]
  /\ tries \in [Calls -> Nat] /\ logins \in [Calls -> Nat]
  /\ current \in [Calls -> Selected] /\ agent \in [Calls -> Selected]
  /\ resolved \in [Calls -> Infos]
  /\ setter \in [Setters -> SetterCalls]

\* What a setter that was sent carries.
Carries ==
  \A u \in Setters :
    /\ setter[u].at = "idle" => setter[u].id = ""
    /\ setter[u].at = "sent" =>
         /\ setter[u].call \in Calls /\ pc[setter[u].call] = "open"
         /\ setter[u].id = "model" => setter[u].value \in ModelIds
         /\ setter[u].id = "mode" => setter[u].value \in Modes

Concerns(u, i) == setter[u].at # "idle" /\ setter[u].call = i

\* A call has the servers it sends from its merge on, and only a call that
\* passed the capability check goes on.
Requests(i) ==
  /\ pc[i] # "idle" => sent[i] = BridgeEntry \cup ClientServers \cup merged[i].servers
  /\ pc[i] \notin {"idle", "rejected"} => checkMCPCapabilities(sent[i])

\* A request that waits for its answer is the first one, or follows a login.
Attempts(i) ==
  /\ pc[i] \in {"idle", "rejected"} => tries[i] = 0 /\ logins[i] = 0
  /\ pc[i] = "rpc" => tries[i] = logins[i]
  /\ logins[i] <= 1 /\ tries[i] <= 1 + logins[i]

Young == {"idle", "rpc", "rejected"}

\* Nothing is known of a session before it is registered, nor of its variants
\* before the probe.
Unknown(i) ==
  /\ pc[i] \in Young => current[i] = [model |-> NoModel, mode |-> ""]
  /\ pc[i] \in Young \cup {"model", "mode", "effort"} => resolved[i] = NoInfo

\* WithModel is in force from its set_model to the probe, and a model with a
\* variant of its own is not probed.
Applied(i) ==
  /\ pc[i] \in {"mode", "effort"} /\ merged[i].model # NoModel =>
       current[i].model = merged[i].model /\ agent[i].model = merged[i].model
  /\ pc[i] = "variant" => merged[i].model.variant = ""
  /\ Untouched(i) /\ merged[i].model.variant # "" => agent[i].model = merged[i].model

Chosen(i) == chooseVariant(resolved[i].available, effortPriority(merged[i].effort))

\* A session as applySessionConfig left it runs the variant chosen for it.
Tuned(i) == Untouched(i) /\ Chosen(i) # "" => agent[i].model.variant = Chosen(i)

\* No setter of the session overlapped another, and none was UnstableSetModel.
Unmixed(i) ==
  i \notin overlap /\ \A u \in Setters : ~(setter[u].call = i /\ setter[u].id = "unstable")

\* On a session whose setters did not overlap at most one is between its RPC and
\* its copy, and opencode has what that one carries; the rest of the copy is exact.
Labelled(i) ==
  /\ i \notin overlap => \A u, w \in Pending(i) : u = w
  /\ Unmixed(i) /\ pc[i] \in {"model", "mode", "effort", "variant", "open"} =>
       /\ \A u \in Pending(i) :
            /\ setter[u].id = "model" => agent[i].model = setter[u].value
            /\ setter[u].id = "mode" => agent[i].mode = setter[u].value
       /\ (\A u \in Pending(i) : setter[u].id # "model") /\ current[i].model # NoModel
            => current[i].model.base = agent[i].model.base
       /\ (\A u \in Pending(i) : setter[u].id # "mode") /\ current[i].mode # ""
            => current[i].mode = agent[i].mode

\* The remembered variant is opencode's from the probe on.
Told(i) ==
  /\ pc[i] \in {"variant", "open"} /\ resolved[i] # NoInfo /\ i \notin silent
  /\ \A u \in Setters : ~(setter[u].call = i /\ setter[u].id = "model")
Remembered(i) ==
  Told(i) => /\ resolved[i].base = agent[i].model.base
             /\ resolved[i].variant = agent[i].model.variant

CallInv(i) == /\ Requests(i) /\ Attempts(i) /\ Unknown(i) /\ Applied(i) /\ Tuned(i)
              /\ Labelled(i) /\ Remembered(i)

ConfigInv == Types /\ Carries /\ VersionGate /\ \A i \in Calls : CallInv(i)

-----------------------------------------------------------------------------
(* Operators.                                                              *)

\* The ids the setters choose from are model ids, and so is none.
LEMMA ModelsAreIds ==
  /\ NoModel \in ModelIds
  /\ \A m \in Models : m \in ModelIds /\ m.base \in Bases
  /\ \A b \in Bases : Bare(b) \in ModelIds
<1>1. NoModel \in ModelIds /\ \A b \in Bases : Bare(b) \in ModelIds
  BY DEF NoModel, ModelIds, Names, Bare
<1>2. ASSUME NEW m \in Models PROVE m \in ModelIds /\ m.base \in Bases
  <2>1. PICK b \in Bases : m \in {[base |-> b, variant |-> v] : v \in Variants[b] \cup {""}}
    BY DEF Models
  <2>2. PICK v \in Variants[b] \cup {""} : m = [base |-> b, variant |-> v]
    BY <2>1
  <2>3. v \in Names
    BY VariantsAssumption DEF Names
  <2>4. QED
    BY <2>1, <2>2, <2>3 DEF ModelIds
<1>3. QED
  BY <1>1, <1>2

\* set_model of an id of a known base leaves a model of that base, and what the
\* answer says of it has its type.
LEMMA SelectsIds ==
  ASSUME NEW was \in ModelIds, NEW m \in ModelIds, m.base \in Bases,
         NEW got \in AgentSelects(was, m)
  PROVE  /\ got \in ModelIds /\ got.base = m.base
         /\ InfoOf(got) \in Infos
         /\ InfoOf(got).base = got.base /\ InfoOf(got).variant = got.variant
<1>1. got \in ModelIds /\ got.base = m.base
  BY DEF AgentSelects
<1>2. Variants[got.base] \in SUBSET Names
  BY <1>1, VariantsAssumption
<1>3. QED
  BY <1>1, <1>2 DEF InfoOf, ModelIds, Infos

\* Without variants none is chosen.
LEMMA NoneChosen == \A p : chooseVariant({}, p) = ""
BY DEF chooseVariant

\* What is chosen is available.
LEMMA ChosenIsAvailable ==
  ASSUME NEW A, NEW e PROVE chooseVariant(A, effortPriority(e)) \in A \cup {""}
<1> DEFINE p == effortPriority(e)
           hits == {j \in 1..Len(p) : p[j] \in A}
           c == CHOOSE j \in hits : \A l \in hits : j <= l
<1>1. Len(p) \in 0..3
  BY DEF effortPriority
<1> HIDE DEF p
<1>2. CASE hits = {}
  BY <1>2 DEF chooseVariant, p
<1>3. CASE hits # {}
  <2>1. hits \subseteq 1..3
    BY <1>1
  <2>2. \E j \in hits : \A l \in hits : j <= l
    <3> HIDE DEF hits
    <3>1. CASE 1 \in hits
      BY <2>1, <3>1
    <3>2. CASE 1 \notin hits /\ 2 \in hits
      BY <2>1, <3>2
    <3>3. CASE 1 \notin hits /\ 2 \notin hits
      <4>1. PICK j \in hits : TRUE
        BY <1>3
      <4>2. \A l \in hits : l = 3
        BY <2>1, <3>3
      <4>3. QED
        BY <4>1, <4>2
    <3>4. QED
      BY <3>1, <3>2, <3>3
  <2>3. c \in hits
    BY <2>2
  <2>4. chooseVariant(A, p) = p[c]
    BY <1>3 DEF chooseVariant
  <2>5. QED
    BY <2>3, <2>4 DEF p
<1>4. QED
  BY <1>2, <1>3

\* chooseVariant returns the first hit.
LEMMA FirstHit ==
  ASSUME NEW A, NEW p, NEW k \in 1..Len(p), p[k] \in A, Len(p) \in Nat,
         \A j \in 1..Len(p) : p[j] \in A => k <= j
  PROVE  chooseVariant(A, p) = p[k]
<1> DEFINE hits == {j \in 1..Len(p) : p[j] \in A}
           c == CHOOSE j \in hits : \A l \in hits : j <= l
<1>1. k \in hits /\ \A l \in hits : k <= l
  OBVIOUS
<1>2. c \in hits /\ \A l \in hits : c <= l
  BY <1>1
<1>3. c = k
  BY <1>1, <1>2
<1>4. QED
  BY <1>1, <1>3 DEF chooseVariant

\* The variants of A that are as deep as the level allows.
Fits(A, e) == {v \in A \cap DOMAIN Rank : Rank[v] >= Least[e] /\ Rank[v] <= Rank[e]}

\* Rank and Least, spelled out.
LEMMA Depths ==
  /\ DOMAIN Rank = {"none", "low", "medium", "high", "xhigh", "max"}
  /\ Rank["none"] = 0 /\ Rank["low"] = 1 /\ Rank["medium"] = 2
  /\ Rank["high"] = 3 /\ Rank["xhigh"] = 4 /\ Rank["max"] = 5
  /\ DOMAIN Least = {"none", "low", "medium", "high", "max"}
  /\ Least["none"] = 0 /\ Least["low"] = 1 /\ Least["medium"] = 1
  /\ Least["high"] = 2 /\ Least["max"] = 3
BY DEF Rank, Least

\* effortPriority lists what fits a level, deepest first: the first that is
\* available is the deepest that fits.
LEMMA ChoiceIsDeepest ==
  ASSUME NEW A, NEW e \in DOMAIN Least, Fits(A, e) # {}
  PROVE  LET c == chooseVariant(A, effortPriority(e))
         IN c # "" /\ c \in Fits(A, e) /\ \A v \in Fits(A, e) : Rank[v] <= Rank[c]
<1> DEFINE p == effortPriority(e)
           c == chooseVariant(A, p)
           Good(x) == x # "" /\ x \in Fits(A, e) /\ \A v \in Fits(A, e) : Rank[v] <= Rank[x]
<1>0. CASE e = "none"
  <2>1. p = <<"none">> /\ Len(p) = 1 /\ p[1] = "none"
    BY <1>0 DEF effortPriority
  <2>2. Fits(A, e) = A \cap {"none"} /\ "none" \in A
    <3>1. Fits(A, e) = A \cap {"none"}
      BY <1>0, Depths DEF Fits
    <3>2. QED
      BY <3>1
  <2>3. c = "none"
    BY <2>1, <2>2, FirstHit
  <2>4. QED
    BY <2>2, <2>3, Depths
<1>1. CASE e = "low"
  <2>1. p = <<"low">> /\ Len(p) = 1 /\ p[1] = "low"
    BY <1>1 DEF effortPriority
  <2>2. Fits(A, e) = A \cap {"low"} /\ "low" \in A
    <3>1. Fits(A, e) = A \cap {"low"}
      BY <1>1, Depths DEF Fits
    <3>2. QED
      BY <3>1
  <2>3. c = "low"
    BY <2>1, <2>2, FirstHit
  <2>4. QED
    BY <2>2, <2>3, Depths
<1>2. CASE e = "medium"
  <2>1. p = <<"medium", "low">> /\ Len(p) = 2 /\ p[1] = "medium" /\ p[2] = "low"
    BY <1>2 DEF effortPriority
  <2>2. Fits(A, e) = A \cap {"medium", "low"}
    BY <1>2, Depths DEF Fits
  <2>3. CASE "medium" \in A
    <3>1. c = "medium"
      BY <2>1, <2>3, FirstHit
    <3>2. QED
      BY <2>2, <2>3, <3>1, Depths
  <2>4. CASE "medium" \notin A
    <3>1. Fits(A, e) = {"low"} /\ "low" \in A
      BY <2>2, <2>4
    <3>2. c = "low"
      BY <2>1, <2>4, <3>1, FirstHit
    <3>3. QED
      BY <3>1, <3>2, Depths
  <2>5. QED
    BY <2>3, <2>4
<1>3. CASE e = "high"
  <2>1. p = <<"high", "medium">> /\ Len(p) = 2 /\ p[1] = "high" /\ p[2] = "medium"
    BY <1>3 DEF effortPriority
  <2>2. Fits(A, e) = A \cap {"high", "medium"}
    BY <1>3, Depths DEF Fits
  <2>3. CASE "high" \in A
    <3>1. c = "high"
      BY <2>1, <2>3, FirstHit
    <3>2. QED
      BY <2>2, <2>3, <3>1, Depths
  <2>4. CASE "high" \notin A
    <3>1. Fits(A, e) = {"medium"} /\ "medium" \in A
      BY <2>2, <2>4
    <3>2. c = "medium"
      BY <2>1, <2>4, <3>1, FirstHit
    <3>3. QED
      BY <3>1, <3>2, Depths
  <2>5. QED
    BY <2>3, <2>4
<1>4. CASE e = "max"
  <2>1. /\ p = <<"max", "xhigh", "high">> /\ Len(p) = 3
        /\ p[1] = "max" /\ p[2] = "xhigh" /\ p[3] = "high"
    BY <1>4 DEF effortPriority
  <2>2. Fits(A, e) = A \cap {"max", "xhigh", "high"}
    BY <1>4, Depths DEF Fits
  <2>3. CASE "max" \in A
    <3>1. c = "max"
      BY <2>1, <2>3, FirstHit
    <3>2. QED
      BY <2>2, <2>3, <3>1, Depths
  <2>4. CASE "max" \notin A /\ "xhigh" \in A
    <3>1. c = "xhigh"
      BY <2>1, <2>4, FirstHit
    <3>2. QED
      BY <2>2, <2>4, <3>1, Depths
  <2>5. CASE "max" \notin A /\ "xhigh" \notin A
    <3>1. Fits(A, e) = {"high"} /\ "high" \in A
      BY <2>2, <2>5
    <3>2. c = "high"
      BY <2>1, <2>5, <3>1, FirstHit
    <3>3. QED
      BY <3>1, <3>2, Depths
  <2>6. QED
    BY <2>3, <2>4, <2>5
<1>5. QED
  BY <1>0, <1>1, <1>2, <1>3, <1>4, Depths

-----------------------------------------------------------------------------
(* The shape of the state.                                                 *)

\* Setting the model of a session.
LEMMA PutModel ==
  ASSUME NEW f \in [Calls -> Selected], NEW i \in Calls, NEW m \in ModelIds,
         NEW g, g = [f EXCEPT ![i].model = m]
  PROVE  /\ g \in [Calls -> Selected] /\ g[i].model = m /\ g[i].mode = f[i].mode
         /\ \A j \in Calls : j # i => g[j] = f[j]
BY DEF Selected

\* Setting its mode.
LEMMA PutMode ==
  ASSUME NEW f \in [Calls -> Selected], NEW i \in Calls, NEW a \in ModeNames,
         NEW g, g = [f EXCEPT ![i].mode = a]
  PROVE  /\ g \in [Calls -> Selected] /\ g[i].mode = a /\ g[i].model = f[i].model
         /\ \A j \in Calls : j # i => g[j] = f[j]
BY DEF Selected

\* Setting the variant that is remembered for it.
LEMMA PutVariant ==
  ASSUME NEW f \in [Calls -> Infos], NEW i \in Calls, NEW v \in Names,
         NEW g, g = [f EXCEPT ![i].variant = v]
  PROVE  /\ g \in [Calls -> Infos] /\ g[i].variant = v /\ g[i].base = f[i].base
         /\ g[i].available = f[i].available /\ \A j \in Calls : j # i => g[j] = f[j]
BY DEF Infos

\* Setting the model of a call's options leaves the others.
LEMMA PutOption ==
  ASSUME NEW f \in [Calls -> Options], NEW i \in Calls, NEW m \in ModelIds,
         NEW g, g = [f EXCEPT ![i].model = m]
  PROVE  /\ g \in [Calls -> Options] /\ g[i].model = m /\ g[i].servers = f[i].servers
         /\ \A j \in Calls : j # i => g[j] = f[j]
BY DEF Options

\* The initial states have it.
LEMMA TypesInitially == Init => Types /\ Carries
<1> SUFFICES ASSUME Init PROVE Types /\ Carries
  OBVIOUS
<1> USE DEF Init
<1>1. NoModel \in ModelIds /\ \A b \in Bases : Bare(b) \in ModelIds
  BY ModelsAreIds
<1>2. Carries
  BY DEF Carries
<1>3. version \in Seq(Nat) /\ started = "no"
  BY VersionAssumption
<1>4. pc \in [Calls -> Places] /\ tries \in [Calls -> Nat] /\ logins \in [Calls -> Nat]
  BY DEF Places
<1>5. merged \in [Calls -> Options]
  BY OptionsAssumption DEF Options
<1>6. current \in [Calls -> Selected]
  BY <1>1 DEF ModeNames, Selected
<1>7. agent \in [Calls -> Selected]
  <2>1. PICK b \in Bases : agent = [i \in Calls |-> [model |-> Bare(b), mode |-> "build"]]
    OBVIOUS
  <2>2. [model |-> Bare(b), mode |-> "build"] \in Selected
    BY <1>1 DEF ModeNames, Selected
  <2>3. QED
    BY <2>1, <2>2
<1>8. resolved \in [Calls -> Infos]
  BY DEF NoInfo, Names, Infos
<1>9. setter \in [Setters -> SetterCalls]
  BY <1>1 DEF SetterCalls
<1>10. sent = [i \in Calls |-> sent[i]] /\ options \in [servers : {ClientServers}, hooks : SUBSET Names]
  BY OptionsAssumption
<1>11. QED
  BY <1>2, <1>3, <1>4, <1>5, <1>6, <1>7, <1>8, <1>9, <1>10 DEF Types

\* The steps of a session call keep it.
LEMMA ConfigureTypes ==
  ASSUME Types, Carries, NEW i \in Calls, Configure(i)
  PROVE  Types' /\ Carries'
<1> USE DEF Types
<1>1. CASE Merge(i)
  <2>1. options' \in [servers : {ClientServers}, hooks : SUBSET Names]
    <3> DEFINE h == IF options.hooks = {} THEN options.hooks ELSE options.hooks \cup merged[i].hooks
    <3>1. options' = [options EXCEPT !.hooks = h]
      BY <1>1, Zenon DEF Merge, MergeClient
    <3>2. h \in SUBSET Names
      BY DEF Options
    <3> HIDE DEF h
    <3>3. QED
      BY <3>1, <3>2
  <2>2. PICK m \in ModelIds : merged' = [merged EXCEPT ![i].model = m]
    BY <1>1, OptionsAssumption DEF Merge, MergedModels, Options
  <2>3. merged' \in [Calls -> Options]
    BY <2>2, PutOption
  <2>4. pc' \in [Calls -> Places] /\ sent' = [j \in Calls |-> sent'[j]]
    BY <1>1 DEF Merge, Places
  <2>5. \A j \in Calls : pc[j] = "open" => pc'[j] = "open"
    BY <1>1 DEF Merge
  <2>6. QED
    BY <1>1, <2>1, <2>3, <2>4, <2>5 DEF Merge, Carries
<1>2. CASE SessionRpc(i)
  <2>1. current' \in [Calls -> Selected]
    BY <1>2 DEF SessionRpc
  <2>2. pc' \in [Calls -> Places]
    BY <1>2 DEF SessionRpc, Places
  <2>4. tries' \in [Calls -> Nat] /\ logins' \in [Calls -> Nat]
    <3>1. tries' = [tries EXCEPT ![i] = tries[i] + 1]
      BY <1>2 DEF SessionRpc
    <3>2. logins' = logins \/ logins' = [logins EXCEPT ![i] = logins[i] + 1]
      BY <1>2 DEF SessionRpc
    <3>3. tries[i] + 1 \in Nat /\ logins[i] + 1 \in Nat
      OBVIOUS
    <3>4. QED
      BY <3>1, <3>2, <3>3
  <2>3. \A j \in Calls : pc[j] = "open" => pc'[j] = "open"
    BY <1>2 DEF SessionRpc
  <2>5. QED
    BY <1>2, <2>1, <2>2, <2>3, <2>4 DEF SessionRpc, Carries
<1>3. CASE ConfigFails(i)
  <2>1. pc' \in [Calls -> Places] /\ \A j \in Calls : pc[j] = "open" => pc'[j] = "open"
    BY <1>3 DEF ConfigFails, Places
  <2>2. QED
    BY <1>3, <2>1 DEF ConfigFails, Carries
<1>4. CASE ApplyModel(i) \/ ApplyMode(i)
  <2>1. pc' \in [Calls -> Places] /\ \A j \in Calls : pc[j] = "open" => pc'[j] = "open"
    BY <1>4 DEF ApplyModel, ApplyMode, Places
  <2>2. merged[i].model \in ModelIds /\ merged[i].agent \in ModeNames
    BY DEF Options, ModeNames
  <2>3. current' \in [Calls -> Selected] /\ agent' \in [Calls -> Selected]
    <3>1. CASE ApplyModel(i)
      <4>1. \/ current' = current /\ agent' = agent
            \/ /\ current' = [current EXCEPT ![i].model = merged[i].model]
               /\ agent' = [agent EXCEPT ![i].model = merged[i].model]
        BY <3>1, Zenon DEF ApplyModel
      <4>2. CASE current' = current /\ agent' = agent
        BY <4>2
      <4>3. CASE /\ current' = [current EXCEPT ![i].model = merged[i].model]
                 /\ agent' = [agent EXCEPT ![i].model = merged[i].model]
        <5>1. current \in [Calls -> Selected] /\ agent \in [Calls -> Selected]
          OBVIOUS
        <5> HIDE DEF Types
        <5>2. current' \in [Calls -> Selected]
          BY <2>2, <4>3, <5>1, PutModel
        <5>3. agent' \in [Calls -> Selected]
          BY <2>2, <4>3, <5>1, PutModel
        <5>4. QED
          BY <5>2, <5>3
      <4>4. QED
        BY <4>1, <4>2, <4>3
    <3>2. CASE ApplyMode(i)
      <4>1. \/ current' = current /\ agent' = agent
            \/ /\ current' = [current EXCEPT ![i].mode = merged[i].agent]
               /\ agent' = [agent EXCEPT ![i].mode = merged[i].agent]
        BY <3>2, Zenon DEF ApplyMode
      <4>2. CASE current' = current /\ agent' = agent
        BY <4>2
      <4>3. CASE /\ current' = [current EXCEPT ![i].mode = merged[i].agent]
                 /\ agent' = [agent EXCEPT ![i].mode = merged[i].agent]
        <5>1. current \in [Calls -> Selected] /\ agent \in [Calls -> Selected]
          OBVIOUS
        <5> HIDE DEF Types
        <5>2. current' \in [Calls -> Selected]
          BY <2>2, <4>3, <5>1, PutMode
        <5>3. agent' \in [Calls -> Selected]
          BY <2>2, <4>3, <5>1, PutMode
        <5>4. QED
          BY <5>2, <5>3
      <4>4. QED
        BY <4>1, <4>2, <4>3
    <3>3. QED
      BY <1>4, <3>1, <3>2
  <2>4. /\ version' = version /\ started' = started /\ options' = options /\ merged' = merged
        /\ sent' = sent /\ tries' = tries /\ logins' = logins /\ resolved' = resolved
        /\ setter' = setter
    BY <1>4 DEF ApplyModel, ApplyMode
  <2>5. QED
    BY <2>1, <2>3, <2>4 DEF Carries
<1>5. CASE Probe(i)
  <2> DEFINE m == EffortModel(i)
             stop == effortPriority(merged[i].effort) = <<>> \/ m = NoModel \/ modelHasExplicitVariant(m)
  <2>1. pc' \in [Calls -> Places] /\ \A j \in Calls : pc[j] = "open" => pc'[j] = "open"
    BY <1>5 DEF Probe, Places
  <2>2. agent' \in [Calls -> Selected] /\ resolved' \in [Calls -> Infos]
    <3>1. CASE stop
      BY <1>5, <3>1 DEF Probe
    <3>2. CASE ~stop
      <4>1. m \in ModelIds /\ m.variant = "" /\ m # NoModel
        BY <3>2 DEF modelHasExplicitVariant, EffortModel, Options, Selected
      <4>2. m.base \in Bases
        BY <4>1 DEF NoModel, ModelIds
      <4>3. PICK got \in AgentSelects(agent[i].model, Bare(m.base)) :
              /\ agent' = [agent EXCEPT ![i].model = got]
              /\ Answers(i, got, [NoInfo EXCEPT !.base = m.base])
        BY <1>5, <3>2 DEF Probe
      <4>4. Bare(m.base) \in ModelIds /\ Bare(m.base).base = m.base
        BY <4>2, ModelsAreIds DEF Bare
      <4>5. got \in ModelIds /\ InfoOf(got) \in Infos
        BY <4>2, <4>4, SelectsIds DEF Selected
      <4>6. [NoInfo EXCEPT !.base = m.base] \in Infos
        BY <4>2 DEF NoInfo, Infos, Names
      <4>7. resolved' \in [Calls -> Infos]
        BY <4>3, <4>5, <4>6 DEF Answers
      <4>8. QED
        BY <4>3, <4>5, <4>7, PutModel
    <3>3. QED
      BY <3>1, <3>2
  <2>3. QED
    BY <1>5, <2>1, <2>2 DEF Probe, Carries
<1>6. CASE SelectVariant(i)
  <2> DEFINE chosen == chooseVariant(resolved[i].available, effortPriority(merged[i].effort))
             target == [base |-> resolved[i].base, variant |-> chosen]
  <2>1. pc' \in [Calls -> Places] /\ \A j \in Calls : pc[j] = "open" => pc'[j] = "open"
    BY <1>6 DEF SelectVariant, Places
  <2>2. chosen \in Names
    BY ChosenIsAvailable DEF Names, Infos
  <2>3. target \in ModelIds
    BY <2>2 DEF ModelIds, Infos
  <2>4. /\ agent' \in [Calls -> Selected] /\ current' \in [Calls -> Selected]
        /\ resolved' \in [Calls -> Infos]
    <3>1. CASE chosen = ""
      BY <1>6, <3>1 DEF SelectVariant
    <3>2. CASE chosen # ""
      <4>1. /\ current' = [current EXCEPT ![i].model = target]
            /\ agent' = [agent EXCEPT ![i].model = target]
            /\ resolved' = [resolved EXCEPT ![i].variant = chosen]
        BY <1>6, <3>2 DEF SelectVariant
      <4> HIDE DEF target, chosen
      <4>2. QED
        BY <2>2, <2>3, <4>1, PutModel, PutVariant
    <3>3. QED
      BY <3>1, <3>2
  <2>5. QED
    BY <1>6, <2>1, <2>4 DEF SelectVariant, Carries
<1>7. QED
  BY <1>1, <1>2, <1>3, <1>4, <1>5, <1>6 DEF Configure

\* What a setter may be asked to set.
Settable(id, value) == \/ id = "model" /\ value \in ModelIds
                       \/ id = "mode" /\ value \in Modes
                       \/ id = "other" /\ value = NoModel

\* A step of a setter is one of these, on some open session.
LEMMA SetterSteps ==
  ASSUME NEW u \in Setters, Set(u)
  PROVE  \/ SetterCopies(u)
         \/ \E i \in Calls : \E m \in ModelIds : m.base \in Bases /\ UnstableSetModel(u, i, m)
         \/ \E i \in Calls : \E id : \E v : Settable(id, v)
              /\ (SetConfigOption(u, i, id, v) \/ SetConfigOptionFails(u, i, id, v))
<1>1. CASE SetterCopies(u)
  BY <1>1
<1>2. CASE \E i \in Calls : \E m \in Models : UnstableSetModel(u, i, m)
  BY <1>2, ModelsAreIds
<1>3. ASSUME NEW i \in Calls, NEW m \in Models,
             SetConfigOption(u, i, "model", m) \/ SetConfigOptionFails(u, i, "model", m)
      PROVE  \E id : \E v : Settable(id, v)
               /\ (SetConfigOption(u, i, id, v) \/ SetConfigOptionFails(u, i, id, v))
  BY <1>3, ModelsAreIds, Zenon DEF Settable
<1>4. ASSUME NEW i \in Calls, NEW a \in Modes, SetConfigOption(u, i, "mode", a)
      PROVE  \E id : \E v : Settable(id, v)
               /\ (SetConfigOption(u, i, id, v) \/ SetConfigOptionFails(u, i, id, v))
  BY <1>4, Zenon DEF Settable
<1>5. ASSUME NEW i \in Calls, SetConfigOption(u, i, "other", NoModel)
      PROVE  \E id : \E v : Settable(id, v)
               /\ (SetConfigOption(u, i, id, v) \/ SetConfigOptionFails(u, i, id, v))
  BY <1>5, Zenon DEF Settable
<1>6. QED
  BY <1>1, <1>2, <1>3, <1>4, <1>5, Zenon DEF Set

\* The steps of the setters keep the shape of the state.
LEMMA SetTypes ==
  ASSUME Types, Carries, NEW u \in Setters, Set(u)
  PROVE  Types' /\ Carries'
<1> USE DEF Types
<1>0. NoModel \in ModelIds
  BY ModelsAreIds
<1>1. CASE SetterCopies(u)
  <2> DEFINE i == setter[u].call
             v == setter[u].value
  <2>1. i \in Calls /\ pc[i] = "open" /\ setter[u].at = "sent"
    BY <1>1 DEF SetterCopies, Carries
  <2>2. current' \in [Calls -> Selected]
    <3>1. CASE setter[u].id = "model"
      <4>1. current' = [current EXCEPT ![i].model = v] /\ v \in ModelIds
        BY <1>1, <2>1, <3>1 DEF SetterCopies, Carries
      <4> HIDE DEF i, v
      <4>2. QED
        BY <2>1, <4>1, PutModel
    <3>2. CASE setter[u].id = "mode"
      <4>1. current' = [current EXCEPT ![i].mode = v] /\ v \in ModeNames
        BY <1>1, <2>1, <3>2 DEF SetterCopies, Carries, ModeNames
      <4> HIDE DEF i, v
      <4>2. QED
        BY <2>1, <4>1, PutMode
    <3>3. CASE setter[u].id \notin {"model", "mode"}
      BY <1>1, <3>3 DEF SetterCopies
    <3>4. QED
      BY <3>1, <3>2, <3>3
  <2>3. setter' = [setter EXCEPT ![u] = [setter[u] EXCEPT !.at = "done", !.value = NoModel]]
    BY <1>1 DEF SetterCopies, SetterCalls
  <2>4. [setter[u] EXCEPT !.at = "done", !.value = NoModel] \in SetterCalls
    BY <1>0 DEF SetterCalls
  <2>5. setter' \in [Setters -> SetterCalls]
    BY <2>3, <2>4
  <2>6. setter'[u].at = "done" /\ \A w \in Setters : w # u => setter'[w] = setter[w]
    BY <2>3 DEF SetterCalls
  <2>7. /\ version' = version /\ started' = started /\ options' = options /\ pc' = pc
        /\ merged' = merged /\ sent' = sent /\ tries' = tries /\ logins' = logins
        /\ agent' = agent /\ resolved' = resolved
    BY <1>1 DEF SetterCopies
  <2>8. Carries'
    BY <2>6, <2>7 DEF Carries
  <2>9. QED
    BY <2>2, <2>5, <2>7, <2>8
<1>2. ASSUME NEW i \in Calls, NEW m \in ModelIds, m.base \in Bases, UnstableSetModel(u, i, m)
      PROVE  Types' /\ Carries'
  <2> DEFINE rec == [at |-> "done", call |-> i, id |-> "unstable", value |-> NoModel]
  <2>1. PICK got \in AgentSelects(agent[i].model, m) :
          agent' = [agent EXCEPT ![i].model = got] /\ Answers(i, got, resolved[i])
    BY <1>2 DEF UnstableSetModel
  <2>2. got \in ModelIds /\ InfoOf(got) \in Infos
    BY <1>2, <2>1, SelectsIds DEF Selected
  <2>3. agent' \in [Calls -> Selected]
    BY <2>1, <2>2, PutModel
  <2>4. resolved' \in [Calls -> Infos]
    BY <2>1, <2>2 DEF Answers
  <2>5. setter' = [setter EXCEPT ![u] = rec] /\ rec \in SetterCalls /\ rec.at = "done"
    BY <1>0, <1>2 DEF UnstableSetModel, SetterCalls
  <2>6. /\ setter' \in [Setters -> SetterCalls]
        /\ setter'[u].at = "done" /\ \A w \in Setters : w # u => setter'[w] = setter[w]
    <3> HIDE DEF rec
    <3>1. QED
      BY <2>5
  <2>7. /\ version' = version /\ started' = started /\ options' = options /\ pc' = pc
        /\ merged' = merged /\ sent' = sent /\ tries' = tries /\ logins' = logins
        /\ current' = current
    BY <1>2 DEF UnstableSetModel
  <2>8. Carries'
    BY <2>6, <2>7 DEF Carries
  <2>9. QED
    BY <2>3, <2>4, <2>6, <2>7, <2>8
<1>3. ASSUME NEW i \in Calls, NEW id, NEW v, Settable(id, v), SetConfigOption(u, i, id, v)
      PROVE  Types' /\ Carries'
  <2> DEFINE rec == [at |-> "sent", call |-> i, id |-> id, value |-> v]
  <2>1. agent' \in [Calls -> Selected]
    <3>1. CASE id = "model"
      <4>1. agent' = [agent EXCEPT ![i].model = v] /\ v \in ModelIds
        BY <1>3, <3>1 DEF SetConfigOption, Settable
      <4>2. QED
        BY <4>1, PutModel
    <3>2. CASE id = "mode"
      <4>1. agent' = [agent EXCEPT ![i].mode = v] /\ v \in ModeNames
        BY <1>3, <3>2 DEF SetConfigOption, Settable, ModeNames
      <4>2. QED
        BY <4>1, PutMode
    <3>3. CASE id = "other"
      BY <1>3, <3>3 DEF SetConfigOption
    <3>4. QED
      BY <1>3, <3>1, <3>2, <3>3 DEF Settable
  <2>2. setter' = [setter EXCEPT ![u] = rec] /\ rec \in SetterCalls
    BY <1>0, <1>3 DEF SetConfigOption, SetterCalls, Settable
  <2>3. rec.at = "sent" /\ rec.call = i /\ rec.id = id /\ rec.value = v
    OBVIOUS
  <2>4. /\ setter' \in [Setters -> SetterCalls] /\ setter'[u] = rec
        /\ \A w \in Setters : w # u => setter'[w] = setter[w]
    <3> HIDE DEF rec
    <3>1. QED
      BY <2>2
  <2>5. /\ version' = version /\ started' = started /\ options' = options /\ pc' = pc
        /\ merged' = merged /\ sent' = sent /\ tries' = tries /\ logins' = logins
        /\ current' = current /\ resolved' = resolved /\ pc[i] = "open"
    BY <1>3 DEF SetConfigOption
  <2> HIDE DEF rec
  <2>6. Carries'
    BY <1>3, <2>3, <2>4, <2>5 DEF Carries, Settable
  <2>7. QED
    BY <2>1, <2>4, <2>5, <2>6
<1>4. ASSUME NEW i \in Calls, NEW id, NEW v, Settable(id, v), SetConfigOptionFails(u, i, id, v)
      PROVE  Types' /\ Carries'
  <2> DEFINE rec == [at |-> "done", call |-> i, id |-> id, value |-> NoModel]
  <2>1. setter' = [setter EXCEPT ![u] = rec] /\ rec \in SetterCalls /\ rec.at = "done"
    BY <1>0, <1>4 DEF SetConfigOptionFails, SetterCalls, Settable
  <2>2. /\ setter' \in [Setters -> SetterCalls]
        /\ setter'[u].at = "done" /\ \A w \in Setters : w # u => setter'[w] = setter[w]
    <3> HIDE DEF rec
    <3>1. QED
      BY <2>1
  <2>3. QED
    BY <1>4, <2>2 DEF SetConfigOptionFails, Carries
<1>5. QED
  BY <1>1, <1>2, <1>3, <1>4, SetterSteps

\* Every step keeps the shape of the state.
LEMMA TypesStep == Types /\ Carries /\ [Next]_vars => Types' /\ Carries'
<1> SUFFICES ASSUME Types, Carries, [Next]_vars PROVE Types' /\ Carries'
  OBVIOUS
<1>1. CASE UNCHANGED vars
  BY <1>1 DEF vars, Types, Carries
<1>2. CASE Start
  BY <1>2 DEF Start, Types, Carries
<1>3. QED
  BY <1>1, <1>2, ConfigureTypes, SetTypes DEF Next

\* The version check compares the first component that differs, which is the
\* order of versions.
LEMMA GateStep == Types /\ VersionGate /\ [Next]_vars => VersionGate'
<1> SUFFICES ASSUME Types, VersionGate, [Next]_vars PROVE VersionGate'
  OBVIOUS
<1>1. CASE UNCHANGED <<version, started>>
  BY <1>1, Zenon DEF VersionGate, parseVersion
<1>2. CASE Start
  <2> DEFINE g == parseVersion(version)
  <2>1. g[1] \in Nat /\ g[2] \in Nat /\ g[3] \in Nat
    BY LenProperties, ElementOfSeq DEF parseVersion, Types
  <2>2. Minimum[1] \in Nat /\ Minimum[2] \in Nat /\ Minimum[3] \in Nat
    BY VersionAssumption
  <2> HIDE DEF g
  <2>3. atLeast(version, Minimum) <=> ~Older(g, Minimum)
    <3> DEFINE differ == {k \in 1..3 : g[k] # Minimum[k]}
    <3>1. atLeast(version, Minimum)
            <=> (differ = {} \/ \E k \in differ : g[k] > Minimum[k] /\ \A j \in differ : k <= j)
      BY DEF atLeast, g
    <3>2. \A k : k \in differ <=> (k = 1 \/ k = 2 \/ k = 3) /\ g[k] # Minimum[k]
      OBVIOUS
    <3> HIDE DEF differ
    <3>3. CASE 1 \in differ
      BY <2>1, <2>2, <3>1, <3>2, <3>3 DEF Older
    <3>4. CASE 1 \notin differ /\ 2 \in differ
      BY <2>1, <2>2, <3>1, <3>2, <3>4 DEF Older
    <3>5. CASE 1 \notin differ /\ 2 \notin differ /\ 3 \in differ
      BY <2>1, <2>2, <3>1, <3>2, <3>5 DEF Older
    <3>6. CASE 1 \notin differ /\ 2 \notin differ /\ 3 \notin differ
      BY <2>1, <2>2, <3>1, <3>2, <3>6 DEF Older
    <3>7. QED
      BY <3>3, <3>4, <3>5, <3>6
  <2>4. started' = (IF atLeast(version, Minimum) THEN "yes" ELSE "refused") /\ version' = version
    BY <1>2 DEF Start
  <2>5. parseVersion(version') = g
    BY <2>4 DEF g
  <2>6. QED
    BY <2>3, <2>4, <2>5 DEF VersionGate
<1>3. ASSUME NEW i \in Calls, Configure(i) PROVE UNCHANGED <<version, started>>
  BY <1>3, Zenon DEF Configure, Merge, SessionRpc, ConfigFails, ApplyModel, ApplyMode, Probe,
     SelectVariant
<1>4. ASSUME NEW u \in Setters, Set(u) PROVE UNCHANGED <<version, started>>
  BY <1>4, Zenon DEF Set, SetterCopies, SetConfigOption, SetConfigOptionFails, UnstableSetModel
<1>5. QED
  BY <1>1, <1>2, <1>3, <1>4 DEF Next, vars

-----------------------------------------------------------------------------
(* Steps that do not concern a session.                                    *)

\* The step leaves the session and its setters alone.
Same(j) ==
  /\ pc'[j] = pc[j] /\ merged'[j] = merged[j] /\ sent'[j] = sent[j]
  /\ tries'[j] = tries[j] /\ logins'[j] = logins[j]
  /\ current'[j] = current[j] /\ agent'[j] = agent[j] /\ resolved'[j] = resolved[j]
  /\ (j \in silent' <=> j \in silent) /\ (j \in overlap' <=> j \in overlap)
  /\ \A w \in Setters : setter'[w] = setter[w] \/ (~Concerns(w, j) /\ ~Concerns(w, j)')

\* Such a step keeps what is claimed of the session.
LEMMA Frame ==
  ASSUME Carries, Carries', NEW j \in Calls, Same(j), CallInv(j)
  PROVE  CallInv(j)'
<1>1. Requests(j)' /\ Attempts(j)' /\ Unknown(j)'
  BY DEF Same, CallInv, Requests, Attempts, Unknown, checkMCPCapabilities, BridgeEntry
<1>2. Untouched(j)' <=> Untouched(j)
  BY DEF Same, Untouched, Concerns
<1>3. Applied(j)'
  BY <1>2 DEF Same, CallInv, Applied
<1>4. Chosen(j)' = Chosen(j)
  BY DEF Same, Chosen
<1>5. Tuned(j)'
  BY <1>2, <1>4 DEF Same, CallInv, Tuned
<1>6. \A w \in Setters : /\ w \in Pending(j)' <=> w \in Pending(j)
                         /\ w \in Pending(j) => setter'[w] = setter[w]
  BY DEF Same, Pending, Concerns
<1>7. Pending(j)' = Pending(j)
  BY <1>6 DEF Pending
<1>8. \A w \in Setters : \A x \in {"model", "unstable"} :
        (setter'[w].call = j /\ setter'[w].id = x) <=> (setter[w].call = j /\ setter[w].id = x)
  BY DEF Same, Carries, Concerns
<1>9. Unmixed(j)' <=> Unmixed(j)
  BY <1>8 DEF Unmixed, Same
<1>10. Labelled(j)'
  <2>1. \A w \in Pending(j) : w \in Setters /\ setter'[w] = setter[w]
    BY <1>6 DEF Pending
  <2>2. Labelled(j)
    BY DEF CallInv
  <2>3. /\ pc'[j] = pc[j] /\ current'[j] = current[j] /\ agent'[j] = agent[j]
        /\ (j \in overlap' <=> j \in overlap)
    BY DEF Same
  <2>4. j \notin overlap' => \A u, w \in Pending(j)' : u = w
    BY <1>7, <2>2, <2>3 DEF Labelled
  <2>5. ASSUME Unmixed(j)', pc'[j] \in {"model", "mode", "effort", "variant", "open"}
        PROVE  /\ \A u \in Pending(j)' :
                    /\ setter'[u].id = "model" => agent'[j].model = setter'[u].value
                    /\ setter'[u].id = "mode" => agent'[j].mode = setter'[u].value
               /\ (\A u \in Pending(j)' : setter'[u].id # "model") /\ current'[j].model # NoModel
                    => current'[j].model.base = agent'[j].model.base
               /\ (\A u \in Pending(j)' : setter'[u].id # "mode") /\ current'[j].mode # ""
                    => current'[j].mode = agent'[j].mode
    <3>1. Unmixed(j) /\ pc[j] \in {"model", "mode", "effort", "variant", "open"}
      BY <1>9, <2>3, <2>5
    <3>2. /\ \A u \in Pending(j) :
               /\ setter[u].id = "model" => agent[j].model = setter[u].value
               /\ setter[u].id = "mode" => agent[j].mode = setter[u].value
          /\ (\A u \in Pending(j) : setter[u].id # "model") /\ current[j].model # NoModel
               => current[j].model.base = agent[j].model.base
          /\ (\A u \in Pending(j) : setter[u].id # "mode") /\ current[j].mode # ""
               => current[j].mode = agent[j].mode
      BY <2>2, <3>1, Zenon DEF Labelled
    <3>3. QED
      BY <1>7, <2>1, <2>3, <3>2
  <2>6. QED
    BY <2>4, <2>5, Zenon DEF Labelled
<1>11. Told(j)' <=> Told(j)
  BY <1>8 DEF Told, Same
<1>12. Remembered(j)'
  BY <1>11 DEF Same, CallInv, Remembered
<1>13. QED
  BY <1>1, <1>3, <1>5, <1>10, <1>12 DEF CallInv

\* The steps of a session call concern its session only.
LEMMA ConfigureIsLocal ==
  ASSUME Types, NEW i \in Calls, Configure(i)
  PROVE  setter' = setter /\ overlap' = overlap /\ \A j \in Calls : j # i => Same(j)
<1> USE DEF Types
<1>0. setter' = setter /\ overlap' = overlap
  BY Zenon DEF Configure, Merge, SessionRpc, ConfigFails, ApplyModel, ApplyMode, Probe,
     SelectVariant
<1>1. SUFFICES ASSUME NEW j \in Calls, j # i PROVE Same(j)
  BY <1>0
<1>2. CASE Merge(i)
  <2>1. \E m : merged' = [merged EXCEPT ![i].model = m]
    BY <1>2 DEF Merge
  <2>2. merged'[j] = merged[j]
    BY <1>1, <2>1
  <2>3. QED
    BY <1>0, <1>1, <1>2, <2>2 DEF Merge, Same
<1>3. CASE SessionRpc(i)
  BY <1>0, <1>1, <1>3 DEF SessionRpc, Same
<1>4. CASE ConfigFails(i) \/ ApplyModel(i) \/ ApplyMode(i)
  BY <1>0, <1>1, <1>4 DEF ConfigFails, ApplyModel, ApplyMode, Same
<1>5. CASE Probe(i)
  <2>1. agent'[j] = agent[j] /\ resolved'[j] = resolved[j] /\ (j \in silent' <=> j \in silent)
    BY <1>1, <1>5 DEF Probe, Answers
  <2>2. QED
    BY <1>0, <1>1, <1>5, <2>1 DEF Probe, Same
<1>6. CASE SelectVariant(i)
  BY <1>0, <1>1, <1>6 DEF SelectVariant, Same
<1>7. QED
  BY <1>2, <1>3, <1>4, <1>5, <1>6 DEF Configure

\* No setter is between its RPC and its copy on a session that is not open.
LEMMA NoSetterYet ==
  ASSUME Carries, NEW i \in Calls, pc[i] # "open" PROVE Pending(i) = {}
BY DEF Carries, Pending

-----------------------------------------------------------------------------
(* The steps of a session call.                                            *)

\* What there is to show of the labels while no setter can be under way.
LEMMA LabelsWhileConfigured ==
  ASSUME NEW i \in Calls, Pending(i) = {}, setter' = setter, overlap' = overlap,
         Unmixed(i) /\ pc'[i] \in {"model", "mode", "effort", "variant", "open"} =>
           /\ current'[i].model # NoModel => current'[i].model.base = agent'[i].model.base
           /\ current'[i].mode # "" => current'[i].mode = agent'[i].mode
  PROVE  Labelled(i)'
<1>1. Pending(i)' = {}
  BY DEF Pending
<1>2. Unmixed(i)' => Unmixed(i)
  BY DEF Unmixed
<1>3. QED
  BY <1>1, <1>2 DEF Labelled

\* What the labels are before the session is open.
LEMMA LabelsBefore ==
  ASSUME NEW i \in Calls, Pending(i) = {}, Labelled(i), Unmixed(i),
         pc[i] \in {"model", "mode", "effort", "variant", "open"}
  PROVE  /\ current[i].model # NoModel => current[i].model.base = agent[i].model.base
         /\ current[i].mode # "" => current[i].mode = agent[i].mode
BY DEF Labelled

\* A request that is not the first keeps its servers; a step that only moves the
\* call on leaves requests and attempts as they were.
LEMMA RequestsKept ==
  ASSUME NEW i \in Calls, CallInv(i), pc[i] \notin {"idle", "rejected", "rpc"},
         pc'[i] \notin {"idle", "rejected", "rpc"},
         merged' = merged, sent' = sent, tries' = tries, logins' = logins
  PROVE  Requests(i)' /\ Attempts(i)'
BY DEF CallInv, Requests, Attempts, checkMCPCapabilities, BridgeEntry

\* mergeOptions gives the request the client's servers and its own.
LEMMA MergeKeeps ==
  ASSUME Types, Carries, NEW i \in Calls, CallInv(i), Merge(i), setter' = setter, overlap' = overlap
  PROVE  CallInv(i)'
<1> USE DEF Types
<1>1. pc[i] = "idle" /\ pc'[i] \in {"rpc", "rejected"} /\ Pending(i) = {}
  BY NoSetterYet DEF Merge
<1>2. PICK m \in ModelIds : merged' = [merged EXCEPT ![i].model = m]
  BY OptionsAssumption DEF Merge, MergedModels, Options
<1>3. merged'[i].servers = merged[i].servers
  BY <1>2, PutOption
<1>4. MergedServers(merged[i]) = BridgeEntry \cup ClientServers \cup merged[i].servers
  BY DEF MergedServers
<1>5. sent'[i] = BridgeEntry \cup ClientServers \cup merged'[i].servers
  <2>1. sent'[i] = MergedServers(merged[i])
    BY DEF Merge
  <2>2. QED
    BY <1>3, <1>4, <2>1
<1>6. pc'[i] = "rpc" => checkMCPCapabilities(sent'[i])
  <2>1. pc'[i] = IF checkMCPCapabilities(MergedServers(merged[i])) THEN "rpc" ELSE "rejected"
    BY DEF Merge
  <2>2. sent'[i] = MergedServers(merged[i])
    BY DEF Merge
  <2>3. QED
    BY <2>1, <2>2 DEF checkMCPCapabilities
<1>7. Requests(i)'
  BY <1>1, <1>5, <1>6 DEF Requests, BridgeEntry, checkMCPCapabilities
<1>8. tries' = tries /\ logins' = logins /\ current' = current /\ resolved' = resolved
  BY DEF Merge
<1>9. Attempts(i)' /\ Unknown(i)'
  BY <1>1, <1>8 DEF CallInv, Attempts, Unknown, Young
<1>10. Applied(i)' /\ Tuned(i)' /\ Remembered(i)'
  BY <1>1 DEF Applied, Tuned, Remembered, Told, Untouched
<1>11. Labelled(i)'
  BY <1>1, LabelsWhileConfigured
<1>12. QED
  BY <1>7, <1>9, <1>10, <1>11 DEF CallInv

\* The RPC is repeated once, after a login; a new session starts with the agent's labels.
LEMMA SessionRpcKeeps ==
  ASSUME Types, Carries, NEW i \in Calls, CallInv(i), SessionRpc(i), setter' = setter, overlap' = overlap
  PROVE  CallInv(i)'
<1> USE DEF Types
<1>1. pc[i] = "rpc" /\ pc'[i] \in {"rpc", "model", "failed"} /\ Pending(i) = {}
  BY NoSetterYet DEF SessionRpc
<1>2. Requests(i)'
  BY <1>1 DEF SessionRpc, CallInv, Requests, checkMCPCapabilities, BridgeEntry
<1>3. Attempts(i)'
  <2>1. tries[i] \in Nat /\ logins[i] \in Nat /\ tries[i] = logins[i] /\ logins[i] <= 1
    BY <1>1 DEF CallInv, Attempts
  <2>2. tries'[i] = tries[i] + 1
    BY DEF SessionRpc
  <2>3. \/ pc'[i] # "rpc" /\ logins'[i] = logins[i]
        \/ pc'[i] = "rpc" /\ logins'[i] = logins[i] + 1 /\ tries[i] = 0
    BY <1>1 DEF SessionRpc, MayRelaunch
  <2>4. QED
    BY <1>1, <2>1, <2>2, <2>3 DEF Attempts
<1>4. /\ current[i] = [model |-> NoModel, mode |-> ""] /\ resolved[i] = NoInfo
      /\ current'[i] = current[i] \/ (pc'[i] = "model" /\ current'[i] = agent[i])
      /\ agent' = agent /\ resolved' = resolved
  <2>1. current[i] = [model |-> NoModel, mode |-> ""] /\ resolved[i] = NoInfo
    BY <1>1 DEF CallInv, Unknown, Young
  <2>2. agent' = agent /\ resolved' = resolved
    BY DEF SessionRpc
  <2>3. \/ current' = current
        \/ pc' = [pc EXCEPT ![i] = "model"] /\ current' = [current EXCEPT ![i] = agent[i]]
    BY Zenon DEF SessionRpc
  <2>4. current'[i] = current[i] \/ (pc'[i] = "model" /\ current'[i] = agent[i])
    BY <2>3
  <2>5. QED
    BY <2>1, <2>2, <2>4
<1>5. Unknown(i)'
  BY <1>1, <1>4 DEF Unknown, Young
<1>6. Applied(i)' /\ Tuned(i)' /\ Remembered(i)'
  BY <1>1 DEF Applied, Tuned, Remembered, Told, Untouched
<1>7. /\ current'[i].model # NoModel => current'[i].model.base = agent'[i].model.base
      /\ current'[i].mode # "" => current'[i].mode = agent'[i].mode
  <2>1. CASE current'[i] = current[i]
    <3>1. current'[i].model = NoModel /\ current'[i].mode = ""
      <4> DEFINE blank == [model |-> NoModel, mode |-> ""]
      <4>1. blank.model = NoModel /\ blank.mode = "" /\ current'[i] = blank
        BY <1>4, <2>1
      <4> HIDE DEF blank
      <4>2. QED
        BY <4>1
    <3>2. QED
      BY <3>1
  <2>2. CASE current'[i] = agent[i]
    BY <1>4, <2>2
  <2>3. QED
    BY <1>4, <2>1, <2>2
<1>8. Labelled(i)'
  BY <1>1, <1>7, LabelsWhileConfigured
<1>9. QED
  BY <1>2, <1>3, <1>5, <1>6, <1>8 DEF CallInv

\* A failed call claims nothing any more.
LEMMA ConfigFailsKeeps ==
  ASSUME Types, Carries, NEW i \in Calls, CallInv(i), ConfigFails(i), setter' = setter, overlap' = overlap
  PROVE  CallInv(i)'
<1>1. /\ pc[i] \in {"model", "mode", "effort", "variant"} /\ pc'[i] = "failed"
      /\ Pending(i) = {}
  BY NoSetterYet DEF ConfigFails, Types
<1>2. Requests(i)' /\ Attempts(i)'
  BY <1>1, RequestsKept DEF ConfigFails
<1>3. Unknown(i)' /\ Applied(i)' /\ Tuned(i)' /\ Remembered(i)'
  BY <1>1 DEF Unknown, Young, Applied, Tuned, Remembered, Told, Untouched
<1>4. Labelled(i)'
  BY <1>1, LabelsWhileConfigured
<1>5. QED
  BY <1>2, <1>3, <1>4 DEF CallInv

\* WithModel is set at the agent and in the copy.
LEMMA ApplyModelKeeps ==
  ASSUME Types, Carries, NEW i \in Calls, CallInv(i), ApplyModel(i), setter' = setter, overlap' = overlap
  PROVE  CallInv(i)'
<1> DEFINE m == merged[i].model
<1>1. pc[i] = "model" /\ pc'[i] = "mode" /\ Pending(i) = {} /\ merged' = merged
      /\ resolved' = resolved
  BY NoSetterYet DEF ApplyModel, Types
<1>2. Requests(i)' /\ Attempts(i)'
  BY <1>1, RequestsKept DEF ApplyModel
<1>3. m \in ModelIds /\ current \in [Calls -> Selected] /\ agent \in [Calls -> Selected]
  BY DEF Types, Options
<1>4. \/ m = NoModel /\ current' = current /\ agent' = agent
      \/ /\ current'[i].model = m /\ agent'[i].model = m
         /\ current'[i].mode = current[i].mode /\ agent'[i].mode = agent[i].mode
  <2>1. CASE m = NoModel
    BY <2>1 DEF ApplyModel
  <2>2. CASE m # NoModel
    <3>1. /\ current' = [current EXCEPT ![i].model = m]
          /\ agent' = [agent EXCEPT ![i].model = m]
      BY <2>2 DEF ApplyModel
    <3> HIDE DEF m
    <3>2. current'[i].model = m /\ current'[i].mode = current[i].mode
      BY <1>3, <3>1, PutModel
    <3>3. agent'[i].model = m /\ agent'[i].mode = agent[i].mode
      BY <1>3, <3>1, PutModel
    <3>4. QED
      BY <3>2, <3>3
  <2>3. QED
    BY <2>1, <2>2
<1>5. Unknown(i)' /\ Tuned(i)' /\ Remembered(i)'
  BY <1>1 DEF CallInv, Unknown, Young, Tuned, Remembered, Told, Untouched
<1>6. Applied(i)'
  BY <1>1, <1>4 DEF Applied, Untouched
<1>7. Unmixed(i) => /\ current[i].model # NoModel => current[i].model.base = agent[i].model.base
                    /\ current[i].mode # "" => current[i].mode = agent[i].mode
  BY <1>1, LabelsBefore DEF CallInv
<1> HIDE DEF m
<1>8. Labelled(i)'
  <2>1. Unmixed(i) => /\ current'[i].model # NoModel => current'[i].model.base = agent'[i].model.base
                      /\ current'[i].mode # "" => current'[i].mode = agent'[i].mode
    BY <1>4, <1>7
  <2>2. QED
    BY <1>1, <2>1, LabelsWhileConfigured
<1>9. QED
  BY <1>2, <1>5, <1>6, <1>8 DEF CallInv

\* WithAgent is set at the agent and in the copy.
LEMMA ApplyModeKeeps ==
  ASSUME Types, Carries, NEW i \in Calls, CallInv(i), ApplyMode(i), setter' = setter, overlap' = overlap
  PROVE  CallInv(i)'
<1> DEFINE a == merged[i].agent
<1>1. pc[i] = "mode" /\ pc'[i] = "effort" /\ Pending(i) = {} /\ merged' = merged
      /\ resolved' = resolved
  BY NoSetterYet DEF ApplyMode, Types
<1>2. Requests(i)' /\ Attempts(i)'
  BY <1>1, RequestsKept DEF ApplyMode
<1>3. a \in ModeNames /\ current \in [Calls -> Selected] /\ agent \in [Calls -> Selected]
  BY DEF Types, Options, ModeNames
<1>4. /\ current'[i].model = current[i].model /\ agent'[i].model = agent[i].model
      /\ \/ current'[i].mode = current[i].mode /\ agent'[i].mode = agent[i].mode
         \/ current'[i].mode = a /\ agent'[i].mode = a
  <2>1. CASE a = ""
    BY <2>1 DEF ApplyMode
  <2>2. CASE a # ""
    <3>1. /\ current' = [current EXCEPT ![i].mode = a]
          /\ agent' = [agent EXCEPT ![i].mode = a]
      BY <2>2 DEF ApplyMode
    <3> HIDE DEF a
    <3>2. current'[i].mode = a /\ current'[i].model = current[i].model
      BY <1>3, <3>1, PutMode
    <3>3. agent'[i].mode = a /\ agent'[i].model = agent[i].model
      BY <1>3, <3>1, PutMode
    <3>4. QED
      BY <3>2, <3>3
  <2>3. QED
    BY <2>1, <2>2
<1>5. Unknown(i)' /\ Tuned(i)' /\ Remembered(i)'
  BY <1>1 DEF CallInv, Unknown, Young, Tuned, Remembered, Told, Untouched
<1>6. Applied(i)'
  BY <1>1, <1>4 DEF CallInv, Applied, Untouched
<1>7. Unmixed(i) => /\ current[i].model # NoModel => current[i].model.base = agent[i].model.base
                    /\ current[i].mode # "" => current[i].mode = agent[i].mode
  BY <1>1, LabelsBefore DEF CallInv
<1> HIDE DEF a
<1>8. Labelled(i)'
  <2>1. Unmixed(i) => /\ current'[i].model # NoModel => current'[i].model.base = agent'[i].model.base
                      /\ current'[i].mode # "" => current'[i].mode = agent'[i].mode
    BY <1>4, <1>7
  <2>2. QED
    BY <1>1, <2>1, LabelsWhileConfigured
<1>9. QED
  BY <1>2, <1>5, <1>6, <1>8 DEF CallInv

\* The probe leaves a model of the same base, and is not made where a variant is
\* pinned or no effort is asked for.
LEMMA ProbeKeeps ==
  ASSUME Types, Carries, NEW i \in Calls, CallInv(i), Probe(i), setter' = setter, overlap' = overlap
  PROVE  CallInv(i)'
<1> DEFINE m == EffortModel(i)
           stop == effortPriority(merged[i].effort) = <<>> \/ m = NoModel \/ modelHasExplicitVariant(m)
<1>1. /\ pc[i] = "effort" /\ pc'[i] \in {"variant", "open"} /\ Pending(i) = {}
      /\ merged' = merged /\ current' = current
  BY NoSetterYet DEF Probe, Types
<1>2. Requests(i)' /\ Attempts(i)'
  BY <1>1, RequestsKept DEF Probe
<1>3. /\ current \in [Calls -> Selected] /\ agent \in [Calls -> Selected]
      /\ resolved \in [Calls -> Infos] /\ merged[i].model \in ModelIds
      /\ current[i].model \in ModelIds /\ agent[i].model \in ModelIds
  BY DEF Types, Options, Selected
<1>4. resolved[i] = NoInfo
  BY <1>1 DEF CallInv, Unknown
<1>5. merged[i].model # NoModel => current[i].model = merged[i].model /\ agent[i].model = merged[i].model
  BY <1>1 DEF CallInv, Applied
<1>6. Unmixed(i) => /\ current[i].model # NoModel => current[i].model.base = agent[i].model.base
                    /\ current[i].mode # "" => current[i].mode = agent[i].mode
  BY <1>1, LabelsBefore DEF CallInv
<1>7. Unknown(i)'
  BY <1>1 DEF Unknown, Young
<1>8. CASE stop
  <2>1. pc'[i] = "open" /\ agent' = agent /\ resolved' = resolved
    BY <1>8 DEF Probe, Types
  <2>2. Labelled(i)'
    BY <1>1, <1>6, <2>1, LabelsWhileConfigured
  <2>3. Chosen(i)' = ""
    <3>1. resolved'[i].available = {}
      <4>1. NoInfo.available = {} /\ resolved'[i] = NoInfo
        BY <1>4, <2>1 DEF NoInfo
      <4>2. QED
        BY <4>1
    <3>2. QED
      BY <3>1, NoneChosen, Zenon DEF Chosen
  <2>4. Tuned(i)' /\ Remembered(i)'
    BY <1>4, <2>1, <2>3 DEF Tuned, Remembered, Told
  <2>5. Applied(i)'
    <3>1. merged[i].model.variant # "" => merged[i].model # NoModel
      <4>1. NoModel.variant = ""
        BY DEF NoModel
      <4>2. QED
        BY <4>1
    <3>2. QED
      BY <1>1, <1>5, <2>1, <3>1 DEF Applied
  <2>6. QED
    BY <1>2, <1>7, <2>2, <2>4, <2>5 DEF CallInv
<1>9. CASE ~stop
  <2>1. m \in ModelIds /\ m.variant = "" /\ m # NoModel
    BY <1>3, <1>9 DEF modelHasExplicitVariant, EffortModel
  <2>2. m.base \in Bases
    BY <2>1 DEF NoModel, ModelIds
  <2>3. PICK got \in AgentSelects(agent[i].model, Bare(m.base)) :
          /\ pc' = [pc EXCEPT ![i] = "variant"]
          /\ agent' = [agent EXCEPT ![i].model = got]
          /\ Answers(i, got, [NoInfo EXCEPT !.base = m.base])
    BY <1>9 DEF Probe
  <2>4. Bare(m.base) \in ModelIds /\ Bare(m.base).base = m.base
    BY <2>2, ModelsAreIds DEF Bare
  <2>5. /\ got \in ModelIds /\ got.base = m.base
        /\ InfoOf(got).base = got.base /\ InfoOf(got).variant = got.variant
    BY <1>3, <2>2, <2>4, SelectsIds
  <2>6. agent'[i].model = got /\ agent'[i].mode = agent[i].mode
    BY <1>3, <2>3, <2>5, PutModel
  <2>7. pc'[i] = "variant"
    BY <2>3 DEF Types
  <2>8. current[i].model # NoModel => current[i].model.base = m.base
    BY <1>5 DEF EffortModel
  <2>9. Labelled(i)'
    <3> HIDE DEF m
    <3>1. Unmixed(i) =>
            /\ current'[i].model # NoModel => current'[i].model.base = agent'[i].model.base
            /\ current'[i].mode # "" => current'[i].mode = agent'[i].mode
      BY <1>1, <1>6, <2>5, <2>6, <2>8
    <3>2. QED
      BY <1>1, <3>1, LabelsWhileConfigured
  <2>10. Tuned(i)'
    BY <2>7 DEF Tuned, Untouched
  <2>11. Applied(i)'
    <3>1. merged[i].model.variant = ""
      <4>1. NoModel.variant = ""
        BY DEF NoModel
      <4>2. CASE merged[i].model = NoModel
        BY <4>1, <4>2
      <4>3. CASE merged[i].model # NoModel
        BY <2>1, <4>3 DEF EffortModel
      <4>4. QED
        BY <4>2, <4>3
    <3>2. QED
      BY <1>1, <2>7, <3>1 DEF Applied, Untouched
  <2>12. Remembered(i)'
    <3>1. (resolved'[i] = InfoOf(got)) \/ i \in silent'
      BY <1>3, <2>3 DEF Answers
    <3>2. QED
      BY <2>5, <2>6, <3>1 DEF Remembered, Told
  <2>13. QED
    BY <1>2, <1>7, <2>9, <2>10, <2>11, <2>12 DEF CallInv
<1>10. QED
  BY <1>8, <1>9

\* The variant that is chosen is set at the agent, in the copy and in what is
\* remembered.
LEMMA SelectVariantKeeps ==
  ASSUME Types, Carries, NEW i \in Calls, CallInv(i), SelectVariant(i), setter' = setter, overlap' = overlap
  PROVE  CallInv(i)'
<1> DEFINE chosen == chooseVariant(resolved[i].available, effortPriority(merged[i].effort))
           target == [base |-> resolved[i].base, variant |-> chosen]
<1>1. /\ pc[i] = "variant" /\ pc'[i] = "open" /\ Pending(i) = {}
      /\ merged' = merged
  BY NoSetterYet DEF SelectVariant, Types
<1>2. Requests(i)' /\ Attempts(i)'
  BY <1>1, RequestsKept DEF SelectVariant
<1>3. /\ current \in [Calls -> Selected] /\ agent \in [Calls -> Selected]
      /\ resolved \in [Calls -> Infos] /\ chosen \in Names /\ target \in ModelIds
  <2>1. resolved[i] \in Infos
    BY DEF Types
  <2>2. chosen \in Names
    BY <2>1, ChosenIsAvailable DEF Names, Infos
  <2> HIDE DEF chosen
  <2>3. target \in ModelIds
    BY <2>1, <2>2 DEF ModelIds, Infos
  <2>4. QED
    BY <2>2, <2>3 DEF Types
<1>4. Unmixed(i) => /\ current[i].model # NoModel => current[i].model.base = agent[i].model.base
                    /\ current[i].mode # "" => current[i].mode = agent[i].mode
  BY <1>1, LabelsBefore DEF CallInv
<1>5. Unknown(i)'
  BY <1>1 DEF Unknown, Young
<1>6. Applied(i)'
  BY <1>1 DEF CallInv, Applied
<1>7. Chosen(i) = chosen
  BY DEF Chosen
<1>8. CASE chosen = ""
  <2>1. current' = current /\ agent' = agent /\ resolved' = resolved /\ silent' = silent
    BY <1>8 DEF SelectVariant
  <2>2. Labelled(i)'
    BY <1>1, <1>4, <2>1, LabelsWhileConfigured
  <2>3. Chosen(i)' = ""
    BY <1>1, <1>7, <1>8, <2>1 DEF Chosen
  <2>4. Tuned(i)'
    BY <2>3 DEF Tuned
  <2>5. Remembered(i)'
    BY <1>1, <2>1 DEF CallInv, Remembered, Told
  <2>6. QED
    BY <1>2, <1>5, <1>6, <2>2, <2>4, <2>5 DEF CallInv
<1>9. CASE chosen # ""
  <2>1. /\ current' = [current EXCEPT ![i].model = target]
        /\ agent' = [agent EXCEPT ![i].model = target]
        /\ resolved' = [resolved EXCEPT ![i].variant = chosen]
    BY <1>9 DEF SelectVariant
  <2>2. target.base = resolved[i].base /\ target.variant = chosen
    OBVIOUS
  <2> HIDE DEF target, chosen
  <2>3. current'[i].model = target /\ current'[i].mode = current[i].mode
    BY <1>3, <2>1, PutModel
  <2>4. agent'[i].model = target /\ agent'[i].mode = agent[i].mode
    BY <1>3, <2>1, PutModel
  <2>5. /\ resolved'[i].variant = chosen /\ resolved'[i].base = resolved[i].base
        /\ resolved'[i].available = resolved[i].available
    BY <1>3, <2>1, PutVariant
  <2>6. Labelled(i)'
    <3>1. Unmixed(i) =>
            /\ current'[i].model # NoModel => current'[i].model.base = agent'[i].model.base
            /\ current'[i].mode # "" => current'[i].mode = agent'[i].mode
      BY <1>4, <2>3, <2>4
    <3>2. QED
      BY <1>1, <3>1, LabelsWhileConfigured
  <2>7. Chosen(i)' = chosen
    BY <1>1, <2>5 DEF Chosen, chosen
  <2>8. Tuned(i)'
    BY <2>2, <2>4, <2>7 DEF Tuned
  <2>9. Remembered(i)'
    BY <2>2, <2>4, <2>5 DEF Remembered
  <2>10. QED
    BY <1>2, <1>5, <1>6, <2>6, <2>8, <2>9 DEF CallInv
<1>10. QED
  BY <1>8, <1>9

-----------------------------------------------------------------------------
(* The steps of the setters.                                               *)

\* A setter changes one session, and only its model, its mode and its variants.
LEMMA SetIsLocal ==
  ASSUME NEW u \in Setters, NEW i \in Calls, Types,
         pc' = pc, merged' = merged, sent' = sent, tries' = tries, logins' = logins,
         \A j \in Calls : j # i => /\ current'[j] = current[j] /\ agent'[j] = agent[j]
                                   /\ resolved'[j] = resolved[j]
                                   /\ (j \in silent' <=> j \in silent)
                                   /\ (j \in overlap' <=> j \in overlap),
         \A w \in Setters : w # u => setter'[w] = setter[w],
         setter[u].at = "idle" \/ setter[u].call = i, setter'[u].call = i
  PROVE  \A j \in Calls : j # i => Same(j)
BY DEF Same, Concerns

\* What holds of a session a setter has touched as soon as it held before.
LEMMA TouchedKeeps ==
  ASSUME NEW u \in Setters, NEW i \in Calls, CallInv(i), pc[i] = "open",
         pc' = pc, merged' = merged, sent' = sent, tries' = tries, logins' = logins,
         setter'[u].call = i, setter'[u].at # "idle"
  PROVE  Requests(i)' /\ Attempts(i)' /\ Unknown(i)' /\ Applied(i)' /\ Tuned(i)'
<1>1. Requests(i)' /\ Attempts(i)'
  BY RequestsKept
<1>2. ~Untouched(i)'
  BY DEF Untouched
<1>3. Unknown(i)' /\ Applied(i)' /\ Tuned(i)'
  BY <1>2 DEF Unknown, Young, Applied, Tuned
<1>4. QED
  BY <1>1, <1>3

\* A setter that copies what it carried: without an overlap that is what opencode has.
LEMMA CopyKeeps ==
  ASSUME Types, Carries, NEW u \in Setters, SetterCopies(u), \A i \in Calls : CallInv(i)
  PROVE  \E i \in Calls : CallInv(i)' /\ \A j \in Calls : j # i => Same(j)
<1>0. PICK i \in Calls, v \in {setter[u].value} : i = setter[u].call /\ v = setter[u].value
  BY DEF SetterCopies, Carries
<1>1. i \in Calls /\ pc[i] = "open" /\ setter[u].at = "sent" /\ setter \in [Setters -> SetterCalls]
  BY <1>0 DEF SetterCopies, Carries, Types
<1>2. /\ setter'[u].at = "done" /\ setter'[u].call = i /\ setter'[u].id = setter[u].id
      /\ \A w \in Setters : w # u => setter'[w] = setter[w]
  <2>1. setter' = [setter EXCEPT ![u] = [setter[u] EXCEPT !.at = "done", !.value = NoModel]]
    BY <1>1 DEF SetterCopies, SetterCalls
  <2>2. QED
    BY <1>0, <1>1, <2>1 DEF SetterCalls
<1>3. /\ pc' = pc /\ merged' = merged /\ sent' = sent /\ tries' = tries /\ logins' = logins
      /\ agent' = agent /\ resolved' = resolved /\ silent' = silent /\ overlap' = overlap
  BY DEF SetterCopies
<1>4. /\ setter[u].id = "model" => current'[i].model = v /\ current'[i].mode = current[i].mode
      /\ setter[u].id = "mode" => current'[i].mode = v /\ current'[i].model = current[i].model
      /\ setter[u].id \notin {"model", "mode"} => current'[i] = current[i]
      /\ \A j \in Calls : j # i => current'[j] = current[j]
  <2>0. current \in [Calls -> Selected]
    BY DEF Types
  <2>1. CASE setter[u].id = "model"
    <3>1. current' = [current EXCEPT ![i].model = v] /\ v \in ModelIds
      BY <1>0, <1>1, <2>1 DEF SetterCopies, Carries
    <3>2. QED
      BY <1>1, <2>0, <2>1, <3>1, PutModel
  <2>2. CASE setter[u].id = "mode"
    <3>1. current' = [current EXCEPT ![i].mode = v] /\ v \in ModeNames
      BY <1>0, <1>1, <2>2 DEF SetterCopies, Carries, ModeNames
    <3>2. QED
      BY <1>1, <2>0, <2>2, <3>1, PutMode
  <2>3. CASE setter[u].id \notin {"model", "mode"}
    BY <2>3 DEF SetterCopies
  <2>4. QED
    BY <2>1, <2>2, <2>3
<1>5. CallInv(i)
  BY <1>1
<1>6. Requests(i)' /\ Attempts(i)' /\ Unknown(i)' /\ Applied(i)' /\ Tuned(i)'
  BY <1>1, <1>2, <1>3, <1>5, TouchedKeeps
<1>7. Told(i)' => Told(i)
  <2>1. \A w \in Setters : setter'[w].call = setter[w].call /\ setter'[w].id = setter[w].id
    BY <1>0, <1>2
  <2>2. QED
    BY <1>3, <2>1 DEF Told
<1>8. Remembered(i)'
  BY <1>3, <1>5, <1>7 DEF CallInv, Remembered
<1>9. u \in Pending(i) /\ u \notin Pending(i)' /\ \A w \in Pending(i)' : w \in Pending(i)
  BY <1>0, <1>1, <1>2 DEF Pending
<1>10. Labelled(i)'
  <2>1. i \notin overlap' => Pending(i)' = {}
    BY <1>3, <1>5, <1>9 DEF CallInv, Labelled
  <2>2. ASSUME Unmixed(i)'
        PROVE  /\ current'[i].model # NoModel => current'[i].model.base = agent'[i].model.base
               /\ current'[i].mode # "" => current'[i].mode = agent'[i].mode
    <3>1. \A w \in Setters : setter'[w].call = setter[w].call /\ setter'[w].id = setter[w].id
      BY <1>0, <1>2
    <3>2. Unmixed(i)
      BY <1>3, <2>2, <3>1 DEF Unmixed
    <3>3. \A w \in Pending(i) : w = u
      BY <1>5, <1>9, <3>2 DEF CallInv, Labelled, Unmixed
    <3>4. /\ setter[u].id = "model" => agent[i].model = v
          /\ setter[u].id = "mode" => agent[i].mode = v
      BY <1>0, <1>1, <1>5, <1>9, <3>2 DEF CallInv, Labelled
    <3>5. /\ setter[u].id # "model" /\ current[i].model # NoModel
               => current[i].model.base = agent[i].model.base
          /\ setter[u].id # "mode" /\ current[i].mode # "" => current[i].mode = agent[i].mode
      BY <1>1, <1>5, <3>2, <3>3 DEF CallInv, Labelled
    <3>6. QED
      BY <1>3, <1>4, <3>4, <3>5
  <2>3. Unmixed(i)' => i \notin overlap'
    BY DEF Unmixed
  <2>4. QED
    BY <2>1, <2>2, <2>3 DEF Labelled
<1>11. CallInv(i)'
  BY <1>6, <1>8, <1>10 DEF CallInv
<1>12. \A j \in Calls : j # i => Same(j)
  <2>1. setter[u].call = i
    BY <1>0
  <2>2. QED
    BY <1>1, <1>2, <1>3, <1>4, <2>1, SetIsLocal
<1>13. QED
  BY <1>1, <1>11, <1>12

\* A setter whose RPC succeeded: opencode has what it carries, and a second one
\* that is not through makes the session an overlapped one.
LEMMA SetKeeps ==
  ASSUME Types, Carries, NEW u \in Setters, NEW i \in Calls, NEW id, NEW v, Settable(id, v),
         SetConfigOption(u, i, id, v), CallInv(i)
  PROVE  CallInv(i)' /\ \A j \in Calls : j # i => Same(j)
<1> DEFINE rec == [at |-> "sent", call |-> i, id |-> id, value |-> v]
<1>1. /\ setter[u].at = "idle" /\ setter[u].id = "" /\ pc[i] = "open"
      /\ setter \in [Setters -> SetterCalls] /\ agent \in [Calls -> Selected]
  BY DEF SetConfigOption, Carries, Types
<1>2. rec.at = "sent" /\ rec.call = i /\ rec.id = id /\ rec.value = v
  OBVIOUS
<1>3. setter'[u] = rec /\ \A w \in Setters : w # u => setter'[w] = setter[w]
  BY <1>1 DEF SetConfigOption
<1> HIDE DEF rec
<1>4. /\ pc' = pc /\ merged' = merged /\ sent' = sent /\ tries' = tries /\ logins' = logins
      /\ current' = current /\ resolved' = resolved /\ silent' = silent
      /\ overlap' = IF Pending(i) = {} THEN overlap ELSE overlap \cup {i}
  BY DEF SetConfigOption
<1>5. /\ id = "model" => agent'[i].model = v /\ agent'[i].mode = agent[i].mode
      /\ id = "mode" => agent'[i].mode = v /\ agent'[i].model = agent[i].model
      /\ id = "other" => agent' = agent
      /\ \A j \in Calls : j # i => agent'[j] = agent[j]
  <2>1. CASE id = "model"
    <3>1. agent' = [agent EXCEPT ![i].model = v] /\ v \in ModelIds
      BY <2>1 DEF SetConfigOption, Settable
    <3>2. /\ agent'[i].model = v /\ agent'[i].mode = agent[i].mode
          /\ \A j \in Calls : j # i => agent'[j] = agent[j]
      BY <1>1, <3>1 DEF Selected
    <3>3. QED
      BY <2>1, <3>2
  <2>2. CASE id = "mode"
    <3>1. agent' = [agent EXCEPT ![i].mode = v] /\ v \in ModeNames
      BY <2>2 DEF SetConfigOption, Settable, ModeNames
    <3>2. /\ agent'[i].mode = v /\ agent'[i].model = agent[i].model
          /\ \A j \in Calls : j # i => agent'[j] = agent[j]
      BY <1>1, <3>1 DEF Selected
    <3>3. QED
      BY <2>2, <3>2
  <2>3. CASE id = "other"
    BY <2>3 DEF SetConfigOption
  <2>4. QED
    BY <2>1, <2>2, <2>3 DEF Settable
<1>6. Requests(i)' /\ Attempts(i)' /\ Unknown(i)' /\ Applied(i)' /\ Tuned(i)'
  BY <1>1, <1>2, <1>3, <1>4, TouchedKeeps
<1>7. id \in {"model", "mode", "other"}
  BY DEF Settable
<1>8. Remembered(i)'
  <2>1. Told(i)' => id # "model" /\ Told(i)
    BY <1>1, <1>2, <1>3, <1>4 DEF Told
  <2>2. id # "model" => agent'[i].model = agent[i].model
    BY <1>5, <1>7
  <2>3. QED
    BY <1>4, <2>1, <2>2 DEF CallInv, Remembered
<1>9. \A w : w \in Pending(i)' <=> w \in Pending(i) \/ w = u
  BY <1>1, <1>2, <1>3 DEF Pending
<1>10. Labelled(i)'
  <2>1. i \notin overlap' => Pending(i) = {} /\ i \notin overlap
    BY <1>4
  <2>2. Unmixed(i)' => Unmixed(i) /\ Pending(i) = {}
    BY <1>1, <1>3, <2>1 DEF Unmixed
  <2>3. Unmixed(i) /\ Pending(i) = {} =>
          /\ current[i].model # NoModel => current[i].model.base = agent[i].model.base
          /\ current[i].mode # "" => current[i].mode = agent[i].mode
    BY <1>1, LabelsBefore DEF CallInv
  <2>4. i \notin overlap' => \A w, x \in Pending(i)' : w = x
    BY <1>9, <2>1
  <2>5. ASSUME Unmixed(i)'
        PROVE  /\ \A w \in Pending(i)' :
                    /\ setter'[w].id = "model" => agent'[i].model = setter'[w].value
                    /\ setter'[w].id = "mode" => agent'[i].mode = setter'[w].value
               /\ (\A w \in Pending(i)' : setter'[w].id # "model") /\ current'[i].model # NoModel
                    => current'[i].model.base = agent'[i].model.base
               /\ (\A w \in Pending(i)' : setter'[w].id # "mode") /\ current'[i].mode # ""
                    => current'[i].mode = agent'[i].mode
    <3>1. u \in Pending(i)' /\ \A w \in Pending(i)' : w = u
      BY <1>9, <2>2, <2>5
    <3>2. /\ current[i].model # NoModel => current[i].model.base = agent[i].model.base
          /\ current[i].mode # "" => current[i].mode = agent[i].mode
      BY <2>2, <2>3, <2>5
    <3>3. setter'[u].id = id /\ setter'[u].value = v /\ current' = current
      BY <1>2, <1>3, <1>4
    <3>4. QED
      BY <1>5, <1>7, <3>1, <3>2, <3>3
  <2>6. QED
    BY <2>4, <2>5, Zenon DEF Labelled
<1>11. \A j \in Calls : j # i => Same(j)
  BY <1>1, <1>2, <1>3, <1>4, <1>5, SetIsLocal
<1>12. QED
  BY <1>6, <1>8, <1>10, <1>11 DEF CallInv

\* A setter whose RPC failed changes nothing.
LEMMA FailedSetKeeps ==
  ASSUME Types, Carries, NEW u \in Setters, NEW i \in Calls, NEW id, NEW v, Settable(id, v),
         SetConfigOptionFails(u, i, id, v), CallInv(i)
  PROVE  CallInv(i)' /\ \A j \in Calls : j # i => Same(j)
<1> DEFINE rec == [at |-> "done", call |-> i, id |-> id, value |-> NoModel]
<1>1. /\ setter[u].at = "idle" /\ setter[u].id = "" /\ pc[i] = "open"
      /\ setter \in [Setters -> SetterCalls]
  BY DEF SetConfigOptionFails, Carries, Types
<1>2. rec.at = "done" /\ rec.call = i
  OBVIOUS
<1>3. setter'[u] = rec /\ \A w \in Setters : w # u => setter'[w] = setter[w]
  BY <1>1 DEF SetConfigOptionFails
<1> HIDE DEF rec
<1>4. /\ pc' = pc /\ merged' = merged /\ sent' = sent /\ tries' = tries /\ logins' = logins
      /\ current' = current /\ agent' = agent /\ resolved' = resolved /\ silent' = silent
      /\ overlap' = overlap
  BY DEF SetConfigOptionFails
<1>5. Requests(i)' /\ Attempts(i)' /\ Unknown(i)' /\ Applied(i)' /\ Tuned(i)'
  BY <1>1, <1>2, <1>3, <1>4, TouchedKeeps
<1>6. Remembered(i)'
  <2>1. Told(i)' => Told(i)
    BY <1>1, <1>3, <1>4 DEF Told
  <2>2. QED
    BY <1>4, <2>1 DEF CallInv, Remembered
<1>7. /\ Pending(i)' = Pending(i) /\ \A w \in Pending(i) : setter'[w] = setter[w]
      /\ Unmixed(i)' => Unmixed(i)
  BY <1>1, <1>2, <1>3, <1>4 DEF Pending, Unmixed
<1>8. Labelled(i)'
  <2>1. Labelled(i)
    BY DEF CallInv
  <2>2. i \notin overlap' => \A w, x \in Pending(i)' : w = x
    BY <1>4, <1>7, <2>1 DEF Labelled
  <2>3. ASSUME Unmixed(i)'
        PROVE  /\ \A w \in Pending(i)' :
                    /\ setter'[w].id = "model" => agent'[i].model = setter'[w].value
                    /\ setter'[w].id = "mode" => agent'[i].mode = setter'[w].value
               /\ (\A w \in Pending(i)' : setter'[w].id # "model") /\ current'[i].model # NoModel
                    => current'[i].model.base = agent'[i].model.base
               /\ (\A w \in Pending(i)' : setter'[w].id # "mode") /\ current'[i].mode # ""
                    => current'[i].mode = agent'[i].mode
    <3>1. /\ \A w \in Pending(i) :
               /\ setter[w].id = "model" => agent[i].model = setter[w].value
               /\ setter[w].id = "mode" => agent[i].mode = setter[w].value
          /\ (\A w \in Pending(i) : setter[w].id # "model") /\ current[i].model # NoModel
               => current[i].model.base = agent[i].model.base
          /\ (\A w \in Pending(i) : setter[w].id # "mode") /\ current[i].mode # ""
               => current[i].mode = agent[i].mode
      BY <1>1, <1>7, <2>1, <2>3 DEF Labelled
    <3>2. QED
      BY <1>4, <1>7, <3>1
  <2>4. QED
    BY <2>2, <2>3, Zenon DEF Labelled
<1>9. \A j \in Calls : j # i => Same(j)
  BY <1>1, <1>2, <1>3, <1>4, SetIsLocal
<1>10. QED
  BY <1>5, <1>6, <1>8, <1>9 DEF CallInv

\* UnstableSetModel: what the answer says of the variants is what opencode has.
LEMMA UnstableKeeps ==
  ASSUME Types, Carries, NEW u \in Setters, NEW i \in Calls, NEW m \in ModelIds, m.base \in Bases,
         UnstableSetModel(u, i, m), CallInv(i)
  PROVE  CallInv(i)' /\ \A j \in Calls : j # i => Same(j)
<1> DEFINE rec == [at |-> "done", call |-> i, id |-> "unstable", value |-> NoModel]
<1>1. /\ setter[u].at = "idle" /\ setter[u].id = "" /\ pc[i] = "open"
      /\ setter \in [Setters -> SetterCalls] /\ agent \in [Calls -> Selected]
      /\ resolved \in [Calls -> Infos] /\ agent[i].model \in ModelIds
  BY DEF UnstableSetModel, Carries, Types, Selected
<1>2. rec.at = "done" /\ rec.call = i /\ rec.id = "unstable"
  OBVIOUS
<1>3. setter'[u] = rec /\ \A w \in Setters : w # u => setter'[w] = setter[w]
  BY <1>1 DEF UnstableSetModel
<1> HIDE DEF rec
<1>4. /\ pc' = pc /\ merged' = merged /\ sent' = sent /\ tries' = tries /\ logins' = logins
      /\ current' = current /\ overlap' = overlap
  BY DEF UnstableSetModel
<1>5. PICK got \in AgentSelects(agent[i].model, m) :
        agent' = [agent EXCEPT ![i].model = got] /\ Answers(i, got, resolved[i])
  BY DEF UnstableSetModel
<1>6. got \in ModelIds /\ InfoOf(got).base = got.base /\ InfoOf(got).variant = got.variant
  BY <1>1, <1>5, SelectsIds
<1>7. agent'[i].model = got /\ \A j \in Calls : j # i => agent'[j] = agent[j]
  BY <1>1, <1>5 DEF Selected
<1>8. /\ (resolved'[i] = InfoOf(got)) \/ i \in silent'
      /\ \A j \in Calls : j # i => resolved'[j] = resolved[j] /\ (j \in silent' <=> j \in silent)
  BY <1>1, <1>5 DEF Answers
<1>9. Requests(i)' /\ Attempts(i)' /\ Unknown(i)' /\ Applied(i)' /\ Tuned(i)'
  BY <1>1, <1>2, <1>3, <1>4, TouchedKeeps
<1>10. Remembered(i)'
  BY <1>6, <1>7, <1>8 DEF Remembered, Told
<1>11. Labelled(i)'
  <2>1. ~Unmixed(i)'
    BY <1>2, <1>3 DEF Unmixed
  <2>2. Pending(i)' = Pending(i)
    BY <1>1, <1>2, <1>3 DEF Pending
  <2>3. QED
    BY <1>4, <2>1, <2>2 DEF CallInv, Labelled
<1>12. \A j \in Calls : j # i => Same(j)
  BY <1>1, <1>2, <1>3, <1>4, <1>7, <1>8, SetIsLocal
<1>13. QED
  BY <1>9, <1>10, <1>11, <1>12 DEF CallInv

-----------------------------------------------------------------------------
(* The invariant, and what it implies.                                     *)

\* Before anything runs the invariant holds.
LEMMA ConfigInitially == Init => ConfigInv
<1> SUFFICES ASSUME Init PROVE ConfigInv
  OBVIOUS
<1>1. Types /\ Carries
  BY TypesInitially
<1>2. VersionGate
  BY DEF Init, VersionGate
<1>3. ASSUME NEW i \in Calls PROVE CallInv(i)
  <2>1. pc[i] = "idle" /\ tries[i] = 0 /\ logins[i] = 0 /\ resolved[i] = NoInfo
        /\ current[i] = [model |-> NoModel, mode |-> ""]
    BY DEF Init
  <2>2. Pending(i) = {}
    BY <1>1, <2>1, NoSetterYet
  <2>3. Requests(i) /\ Attempts(i) /\ Unknown(i)
    <3>1. Requests(i)
      BY <2>1 DEF Requests
    <3>2. Attempts(i)
      <4>1. tries[i] = 0 /\ logins[i] = 0
        BY <2>1
      <4>2. QED
        BY <4>1 DEF Attempts
    <3>3. Unknown(i)
      BY <2>1, Zenon DEF Unknown
    <3>4. QED
      BY <3>1, <3>2, <3>3
  <2>4. Applied(i) /\ Tuned(i) /\ Remembered(i)
    BY <2>1 DEF Applied, Tuned, Remembered, Told, Untouched
  <2>5. Labelled(i)
    BY <2>1, <2>2 DEF Labelled
  <2>6. QED
    BY <2>3, <2>4, <2>5 DEF CallInv
<1>4. QED
  BY <1>1, <1>2, <1>3 DEF ConfigInv

\* Every step keeps the invariant.
LEMMA ConfigStep == ConfigInv /\ [Next]_vars => ConfigInv'
<1> SUFFICES ASSUME ConfigInv, [Next]_vars PROVE ConfigInv'
  OBVIOUS
<1>0. /\ Types /\ Carries /\ VersionGate /\ Types' /\ Carries' /\ VersionGate'
      /\ \A i \in Calls : CallInv(i)
  BY TypesStep, GateStep DEF ConfigInv
<1>1. CASE UNCHANGED vars \/ Start
  <2>1. \A j \in Calls : Same(j)
    BY <1>1 DEF vars, Start, Same
  <2>2. QED
    BY <1>0, <2>1, Frame DEF ConfigInv
<1>2. ASSUME NEW i \in Calls, CallInv(i)', \A j \in Calls : j # i => Same(j)
      PROVE  ConfigInv'
  <2>1. ASSUME NEW j \in Calls PROVE CallInv(j)'
    <3>1. CASE j = i
      BY <1>2, <3>1
    <3>2. CASE j # i
      BY <1>0, <1>2, <3>2, Frame
    <3>3. QED
      BY <3>1, <3>2
  <2>2. QED
    BY <1>0, <2>1 DEF ConfigInv
<1>3. ASSUME NEW i \in Calls, Configure(i) PROVE ConfigInv'
  <2>1. setter' = setter /\ overlap' = overlap /\ \A j \in Calls : j # i => Same(j)
    BY <1>0, <1>3, ConfigureIsLocal
  <2>2. CallInv(i)'
    BY <1>0, <1>3, <2>1, MergeKeeps, SessionRpcKeeps, ConfigFailsKeeps, ApplyModelKeeps,
       ApplyModeKeeps, ProbeKeeps, SelectVariantKeeps DEF Configure
  <2>3. QED
    BY <1>2, <2>1, <2>2
<1>4. ASSUME NEW u \in Setters, Set(u) PROVE ConfigInv'
  <2>1. CASE SetterCopies(u)
    BY <1>0, <1>2, <2>1, CopyKeeps
  <2>2. CASE \E i \in Calls : \E m \in ModelIds : m.base \in Bases /\ UnstableSetModel(u, i, m)
    BY <1>0, <1>2, <2>2, UnstableKeeps
  <2>3. CASE \E i \in Calls : \E id : \E v : Settable(id, v)
               /\ (SetConfigOption(u, i, id, v) \/ SetConfigOptionFails(u, i, id, v))
    BY <1>0, <1>2, <2>3, SetKeeps, FailedSetKeeps
  <2>4. QED
    BY <1>4, <2>1, <2>2, <2>3, SetterSteps
<1>5. QED
  BY <1>1, <1>3, <1>4 DEF Next

\* The invariant always holds.
LEMMA ConfigAlways == Spec => []ConfigInv
BY ConfigInitially, ConfigStep, PTL DEF Spec

\* However session calls and setters interleave: no CLI older than the minimum is
\* used, every request names the bridge, the client's servers and its own and only
\* servers the agent can reach, and it is repeated once at most, after a login.
THEOREM RequestsAreSound == Spec => []RequestsSound
<1>1. ConfigInv => RequestsSound
  <2> SUFFICES ASSUME ConfigInv PROVE RequestsSound
    OBVIOUS
  <2>1. ASSUME NEW i \in Calls, pc[i] \notin {"idle", "rejected"}
        PROVE  /\ sent[i] = BridgeEntry \cup ClientServers \cup merged[i].servers
               /\ \A s \in sent[i] : s.transport \in Transports \cup {"stdio"}
    BY <2>1 DEF ConfigInv, CallInv, Requests, checkMCPCapabilities
  <2>2. ServersExact
    BY <2>1 DEF ServersExact
  <2>3. RetryNeedsLogin
    BY DEF ConfigInv, CallInv, Attempts, RetryNeedsLogin
  <2>4. QED
    BY <2>2, <2>3 DEF ConfigInv, RequestsSound
<1>2. QED
  BY <1>1, ConfigAlways, PTL

\* WithModel and WithEffort end as the model and the variant they name, until a
\* setter changes them: the deepest variant that fits the level, whatever variants
\* opencode has, and a pinned variant as it was pinned.
THEOREM EffortIsHonoured == Spec => []EffortHonoured
<1>1. ConfigInv => EffortHonoured
  <2> SUFFICES ASSUME ConfigInv PROVE EffortHonoured
    OBVIOUS
  <2>1. ASSUME NEW i \in Calls, Untouched(i), merged[i].effort \in DOMAIN Least,
               Fits(resolved[i].available, merged[i].effort) # {}
        PROVE  /\ agent[i].model.variant \in Fits(resolved[i].available, merged[i].effort)
               /\ \A v \in Fits(resolved[i].available, merged[i].effort) :
                    Rank[v] <= Rank[agent[i].model.variant]
    <3>1. /\ Chosen(i) # "" /\ Chosen(i) \in Fits(resolved[i].available, merged[i].effort)
          /\ \A v \in Fits(resolved[i].available, merged[i].effort) : Rank[v] <= Rank[Chosen(i)]
      BY <2>1, ChoiceIsDeepest DEF Chosen
    <3>2. agent[i].model.variant = Chosen(i)
      BY <2>1, <3>1 DEF ConfigInv, CallInv, Tuned
    <3>3. QED
      BY <3>1, <3>2
  <2>2. EffortIsDeepest
    BY <2>1 DEF EffortIsDeepest, Fits
  <2>3. PinnedVariantKept
    BY DEF ConfigInv, CallInv, Applied, PinnedVariantKept
  <2>4. QED
    BY <2>2, <2>3 DEF EffortHonoured
<1>2. QED
  BY <1>1, ConfigAlways, PTL

\* The model and the mode the SDK labels its metrics with, and the variant that
\* CurrentVariant returns, are opencode's, after any setters that did not overlap
\* and as far as the SDK was told.
THEOREM CopiesAreCurrent == Spec => []CopiesTrackAgent
<1>1. ConfigInv => CopiesTrackAgent
  <2> SUFFICES ASSUME ConfigInv PROVE CopiesTrackAgent
    OBVIOUS
  <2>1. ASSUME NEW i \in Calls, pc[i] = "open", Pending(i) = {}, i \notin overlap,
               \A u \in Setters : ~(setter[u].call = i /\ setter[u].id = "unstable")
        PROVE  /\ current[i].model # NoModel => current[i].model.base = agent[i].model.base
               /\ current[i].mode # "" => current[i].mode = agent[i].mode
    BY <2>1, LabelsBefore DEF ConfigInv, CallInv, Unmixed
  <2>2. LabelsTrackAgent
    BY <2>1, Zenon DEF LabelsTrackAgent
  <2>3. ASSUME NEW i \in Calls, pc[i] = "open", resolved[i] # NoInfo, i \notin silent,
               \A u \in Setters : ~(setter[u].call = i /\ setter[u].id = "model")
        PROVE  /\ resolved[i].base = agent[i].model.base
               /\ resolved[i].variant = agent[i].model.variant
    BY <2>3 DEF ConfigInv, CallInv, Remembered, Told
  <2>4. VariantTracksAgent
    BY <2>3, Zenon DEF VariantTracksAgent
  <2>5. QED
    BY <2>2, <2>4 DEF CopiesTrackAgent
<1>2. QED
  BY <1>1, ConfigAlways, PTL

=============================================================================

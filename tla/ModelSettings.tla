---------------------------- MODULE ModelSettings ----------------------------
(***************************************************************************)
(* The model providers an administrator chooses for his jobs, the proofs   *)
(* that a local model was loaded, and the adapter a job builds from both   *)
(* (app/services/jdr/auth_router.py, local_model_validation.py,            *)
(* app/adapters, the head of app/jobs/jdr.py).                             *)
(*                                                                         *)
(* PATCH reads the row, decides which proofs and which probes the change   *)
(* needs, asks the cloud provider over the network, and only then writes   *)
(* the columns that differ from the ones it has read.  Requests of one     *)
(* browser session pass one at a time (see Accounts); the requests here    *)
(* are those of different sessions of an administrator.                    *)
(*                                                                         *)
(* A path is kept as the client has spelled it.  A proof is for the place  *)
(* that normalize_model_path makes of the spelling; the job opens the      *)
(* spelling itself.                                                        *)
(*                                                                         *)
(* Empty strings, which no reader of a column takes for a value, and blank *)
(* ones are not enumerated.                                                *)
(***************************************************************************)
EXTENDS Naturals, FiniteSets

CONSTANTS
  Admins,
  Paths,     \* local model paths, as clients spell them
  Places,    \* what they stand for: absolute paths without links
  Place,     \* the place of each path
  Literal,   \* the paths with blanks around them, or a "~" at the head
  NoPlace,   \* where there is no file
  OldPaths,  \* local paths saved before validation existed
  Models,    \* ids of the cloud catalogue, and of Ollama models
  ApiKeys,   \* DeepInfra keys
  Proofs,    \* validation ids
  Requests,  \* concurrent PATCH requests
  Patches,   \* their bodies, without the validation ids
  NoRow,
  Null,
  Unset      \* not among the fields the client has sent

Categories == {"transcription", "summary"}
Providers == {"cloud", "local", "ollama"}

(* The columns of jdr_model_settings and the fields of its PATCH; the      *)
(* field <<"proof", c>> is the validation id, the column its hash.         *)
Columns == ({"provider", "path", "proof", "model"} \X Categories)
           \cup {<<"key", "account">>, <<"ollama", "account">>}
Key == <<"key", "account">>
Ollama == <<"ollama", "account">>

(* normalize_model_path: strip, expanduser, resolve.                       *)
Normal(path) == Place[path]

(* Where a runtime looks for the model when it is given the path as it is  *)
(* spelled: it strips no blanks and expands no "~".                        *)
Opens(path) == IF path \in Literal THEN NoPlace ELSE Place[path]

Values(col) ==
  CASE col[1] = "provider" -> Providers
    [] col[1] = "path" -> Paths
    [] col[1] = "proof" -> Proofs
    [] col[1] \in {"model", "ollama"} -> Models
    [] col[1] = "key" -> ApiKeys
Value == Providers \cup Paths \cup Proofs \cup Models \cup ApiKeys

Patch == {p \in [Columns -> Value \cup {Null, Unset}] :
            \A col \in Columns : p[col] \in Values(col) \cup {Null, Unset}}

ASSUME SettingsAssumption ==
  /\ OldPaths \subseteq Categories \X Paths
  /\ Place \in [Paths -> Places] /\ NoPlace \notin Places
  /\ Patches \subseteq Patch
  /\ Null # Unset /\ Null \notin Value /\ Unset \notin Value
  /\ NoRow \notin [Columns -> Value \cup {Null}]

VARIABLES
  proof,  \* the rows of jdr_local_model_validations
  row,    \* the rows of jdr_model_settings
  req,    \* the PATCH requests in progress
  probed  \* history: what the cloud provider has not refused when asked

vars == <<proof, row, req, probed>>

----------------------------------------------------------------------------
Proof == [user : Admins, category : Categories, place : Places,
          expired : BOOLEAN]
NoProof == [user |-> "none"]

Row == {r \in [Columns -> Value \cup {Null}] :
          \A col \in Columns : r[col] \in Values(col) \cup {Null}}
Fresh == [col \in Columns |-> Null]

(* A row of before the proofs existed (migration 0017 adds the column).    *)
Legacy(x) == [Fresh EXCEPT ![<<"provider", x[1]>>] = "local",
                           ![<<"path", x[1]>>] = x[2]]

Idle == [step |-> "idle"]
Probe == Categories \X ApiKeys \X Models
Request == [step : {"patch"}, user : Admins, patch : Patch,
            saw : Row \cup {NoRow}, pending : SUBSET Probe]

TypeOK ==
  /\ proof \in [Proofs -> Proof \cup {NoProof}]
  /\ row \in [Admins -> Row \cup {NoRow}]
  /\ req \in [Requests -> Request \cup {Idle}]
  /\ probed \subseteq Probe

----------------------------------------------------------------------------
(* Proofs.                                                                 *)

Issued(v) == proof[v] # NoProof

(* create_local_model_validation: what is at the place the spelling stands *)
(* for is of the category's format, and its runtime loads it.  A probe that *)
(* fails or times out stores nothing.                                      *)
Validate(u, c, path) ==
  /\ \E v \in Proofs :
       /\ ~Issued(v)
       /\ proof' = [proof EXCEPT ![v] =
                      [user |-> u, category |-> c, place |-> Normal(path),
                       expired |-> FALSE]]
  /\ UNCHANGED <<row, req, probed>>

(* The time to live of a proof has passed.                                 *)
Expire(v) ==
  /\ Issued(v) /\ ~proof[v].expired
  /\ proof' = [proof EXCEPT ![v].expired = TRUE]
  /\ UNCHANGED <<row, req, probed>>

ProofOf(v, u, c, place) ==
  /\ Issued(v)
  /\ proof[v].user = u /\ proof[v].category = c /\ proof[v].place = place

MutantProves(v, u, c, path) ==
  /\ path # Null /\ v \in Proofs /\ Issued(v)
  /\ proof[v].user = u /\ proof[v].place = Normal(path)
  /\ ~proof[v].expired

(* require_local_model_validation_hash: a proof serves any number of times *)
(* until it expires, and for every spelling of its place.                  *)
Proves(v, u, c, path) ==
  /\ path # Null /\ v \in Proofs /\ ProofOf(v, u, c, Normal(path))
  /\ ~proof[v].expired

----------------------------------------------------------------------------
(* PATCH /settings/models.                                                 *)

Stored(r, col) == IF r = NoRow THEN Null ELSE r[col]
CurrentProvider(r, c) == IF r = NoRow THEN "cloud" ELSE r[<<"provider", c>>]

Given(x) == x \notin {Null, Unset}

(* What the request believes the path will be.                             *)
EffectivePath(r, p, c) ==
  IF p[<<"path", c>>] = Unset THEN Stored(r, <<"path", c>>)
                              ELSE p[<<"path", c>>]

MutantNeedsValidation(r, p, c) ==
  LET current == CurrentProvider(r, c)
      effective == IF Given(p[<<"provider", c>>]) THEN p[<<"provider", c>>]
                                                  ELSE current
  IN /\ effective = "local"
     /\ \/ EffectivePath(r, p, c) # Stored(r, <<"path", c>>)
        \/ Stored(r, <<"proof", c>>) = Null

(* _required_local_validation_hash_if_needed.                              *)
NeedsValidation(r, p, c) ==
  LET current == CurrentProvider(r, c)
      effective == IF Given(p[<<"provider", c>>]) THEN p[<<"provider", c>>]
                                                  ELSE current
  IN /\ effective = "local"
     /\ \/ EffectivePath(r, p, c) # Stored(r, <<"path", c>>)
        \/ current # "local"
        \/ Stored(r, <<"proof", c>>) = Null

MutantPending(r, p) ==
  LET key == IF Given(p[Key]) THEN p[Key] ELSE Stored(r, Key)
      model(c) == IF p[<<"model", c>>] = Unset THEN Stored(r, <<"model", c>>)
                                               ELSE p[<<"model", c>>]
  IN {x \in Probe : /\ x[2] = key /\ x[3] = model(x[1])
                    /\ Given(p[Key])}

(* _validate_cloud_api_key_if_needed: the probes of a new key, or of the   *)
(* stored one with another model.                                          *)
Pending(r, p) ==
  LET key == IF Given(p[Key]) THEN p[Key] ELSE Stored(r, Key)
      model(c) == IF p[<<"model", c>>] = Unset THEN Stored(r, <<"model", c>>)
                                               ELSE p[<<"model", c>>]
      changed(c) == /\ r # NoRow
                    /\ Given(p[<<"model", c>>])
                    /\ p[<<"model", c>>] # r[<<"model", c>>]
  IN {x \in Probe : /\ x[2] = key /\ x[3] = model(x[1])
                    /\ Given(p[Key]) \/ changed(x[1])}

(* Up to the first probe.                                                  *)
PatchBegin(r, u, p) ==
  /\ req[r] = Idle
  /\ \A c \in Categories :
       NeedsValidation(row[u], p, c) =>
         Proves(p[<<"proof", c>>], u, c, EffectivePath(row[u], p, c))
  /\ req' = [req EXCEPT ![r] = [step |-> "patch", user |-> u, patch |-> p,
                                saw |-> row[u],
                                pending |-> Pending(row[u], p)]]
  /\ UNCHANGED <<proof, row, probed>>

(* The cloud provider accepts the key, or cannot tell: a timeout, and for  *)
(* the transcription any error but that of an authorisation.               *)
ProbeAnswered(r) ==
  /\ req[r] # Idle /\ req[r].pending # {}
  /\ probed' = probed \cup req[r].pending
  /\ req' = [req EXCEPT ![r].pending = {}]
  /\ UNCHANGED <<proof, row>>

(* What upsert_for_user assigns: a provider may be reset to null, another  *)
(* column not; a path as it was sent; a proof when it was needed.          *)
Assigned(q, col) ==
  CASE col[1] = "provider" -> q.patch[col]
    [] col[1] = "proof" /\ ~NeedsValidation(q.saw, q.patch, col[2]) -> Unset
    [] OTHER -> IF Given(q.patch[col]) THEN q.patch[col] ELSE Unset

(* The row object of the request: the one it has read, or, when there was  *)
(* none, what a second query finds.                                        *)
Base(q) == IF q.saw # NoRow THEN q.saw
           ELSE IF row[q.user] # NoRow THEN row[q.user] ELSE Fresh

MutantWritten(q) == [col \in Columns |->
                       IF Assigned(q, col) = Unset THEN Base(q)[col]
                       ELSE Assigned(q, col)]

(* The UPDATE holds the columns that differ from the object's.             *)
Written(q) ==
  LET current == IF row[q.user] = NoRow THEN Fresh ELSE row[q.user]
  IN [col \in Columns |->
        IF Assigned(q, col) \in {Unset, Base(q)[col]} THEN current[col]
        ELSE Assigned(q, col)]

PatchCommit(r) ==
  /\ req[r] # Idle /\ req[r].pending = {}
  /\ row' = [row EXCEPT ![req[r].user] = Written(req[r])]
  /\ req' = [req EXCEPT ![r] = Idle]
  /\ UNCHANGED <<proof, probed>>

(* A refused key, an error, a disconnection, a restart of the API.         *)
PatchAbort(r) ==
  /\ req[r] # Idle
  /\ req' = [req EXCEPT ![r] = Idle]
  /\ UNCHANGED <<proof, row, probed>>

----------------------------------------------------------------------------
(* What a job uses and what the settings page shows.  env is what the      *)
(* operator has set: LLM_PROVIDER and TRANSCRIPTION_PROVIDER.              *)

EnvProviders == [transcription : {"cloud", "local"},
                 summary : {"deepinfra", "ollama", "vllm"}]

(* _effective_transcription_provider and _effective_summary_provider.      *)
EnvProvider(env, c) ==
  CASE env[c] \in {"local", "vllm"} -> "local"
    [] env[c] = "ollama" -> "ollama"
    [] OTHER -> "cloud"
EnvAdapter(env, c) == [provider |-> EnvProvider(env, c), model |-> "env"]

Or(x, default) == IF x = Null THEN default ELSE x
NotRunnable == [provider |-> "none", model |-> "none"]

(* _build_llm_adapter_for_user, _build_transcription_adapter_for_user: of  *)
(* a local model, the path as the row has it.                              *)
Used(u, c, env) ==
  LET s(col) == Stored(row[u], col)
      provider == s(<<"provider", c>>)
  IN CASE provider = "cloud" /\ s(Key) # Null ->
            [provider |-> "cloud", model |-> Or(s(<<"model", c>>), "env")]
       [] provider = "ollama" /\ c = "summary" ->
            [provider |-> "ollama", model |-> Or(s(Ollama), "env")]
       [] provider = "local" ->
            IF s(<<"path", c>>) = Null \/ s(<<"proof", c>>) = Null
              THEN NotRunnable
              ELSE [provider |-> "local", model |-> s(<<"path", c>>)]
       [] OTHER -> EnvAdapter(env, c)

MutantShown(u, c, env) ==
  LET s(col) == Stored(row[u], col)
      provider == Or(s(<<"provider", c>>), "cloud")
  IN [provider |-> provider,
      model |-> CASE provider = "cloud" -> Or(s(<<"model", c>>), "env")
                  [] provider = "ollama" -> Or(s(Ollama), "env")
                  [] provider = "local" -> s(<<"path", c>>)]

(* _model_settings_out: the provider, and the model that goes with it.     *)
Shown(u, c, env) ==
  LET s(col) == Stored(row[u], col)
      provider == Or(s(<<"provider", c>>), EnvProvider(env, c))
  IN [provider |-> provider,
      model |-> CASE provider = "cloud" -> Or(s(<<"model", c>>), "env")
                  [] provider = "ollama" -> Or(s(Ollama), "env")
                  [] provider = "local" -> s(<<"path", c>>)]

----------------------------------------------------------------------------
Init ==
  /\ proof = [v \in Proofs |-> NoProof]
  /\ row \in [Admins -> {NoRow} \cup {Legacy(x) : x \in OldPaths}]
  /\ req = [r \in Requests |-> Idle]
  /\ probed = {}

(* The body with its validation ids; one that is not needed is ignored, and *)
(* left out.                                                               *)
Offered(p, u, v) ==
  [col \in Columns |->
     IF col[1] = "proof" /\ NeedsValidation(row[u], p, col[2]) THEN v
     ELSE p[col]]

Next ==
  \/ \E u \in Admins, c \in Categories, path \in Paths : Validate(u, c, path)
  \/ \E v \in Proofs : Expire(v)
  \/ \E r \in Requests, u \in Admins, p \in Patches, v \in Proofs :
       PatchBegin(r, u, Offered(p, u, v))
  \/ \E r \in Requests : ProbeAnswered(r) \/ PatchCommit(r) \/ PatchAbort(r)

Spec == Init /\ [][Next]_vars

----------------------------------------------------------------------------
(* A request ends by writing u's row; another one has changed, since it    *)
(* read the row, one of the columns cols.                                  *)
Commits(r, u) == req[r] # Idle /\ req[r].user = u /\ req'[r] = Idle
Overtaken(r, cols) ==
  \E col \in cols : Stored(req[r].saw, col) # Stored(row[req[r].user], col)

LocalColumns(c) == {<<"provider", c>>, <<"path", c>>, <<"proof", c>>}

(* The jobs of u run, for the category, a model that no probe has loaded:  *)
(* the proof in the row is not one for him, the category and the place     *)
(* that the runtime opens.  (Without a proof they run none.)               *)
RunsUntried(u, c) ==
  LET s(col) == Stored(row[u], col)
  IN /\ s(<<"provider", c>>) = "local" /\ s(<<"proof", c>>) # Null
     /\ ~ProofOf(s(<<"proof", c>>), u, c, Opens(s(<<"path", c>>)))

(* The runtime opens what the validation has probed.                       *)
SpelledOut(u, c) ==
  LET path == Stored(row[u], <<"path", c>>) IN Opens(path) = Normal(path)

(* Jobs come to run a local model that no probe has loaded in two ways     *)
(* only.  One is a path that the validation understands and the runtime    *)
(* does not, "~/m.gguf" or " /m.gguf ", since the row holds the spelling   *)
(* and not what was validated.  The other is a request that commits after  *)
(* another one has changed the provider, the path or the proof of the same *)
(* category: a path changed while the provider is not local needs no       *)
(* proof, and the provider made local meanwhile was checked with the path  *)
(* it had.                                                                 *)
UntriedOnlyByRaceOrSpelling ==
  [][\A u \in Admins, c \in Categories :
       ~RunsUntried(u, c) /\ RunsUntried(u, c)' =>
         \/ ~SpelledOut(u, c)'
         \/ \E r \in Requests :
              Commits(r, u) /\ Overtaken(r, LocalColumns(c))]_vars

(* A key is stored, or a cloud model selected, only after the provider was *)
(* asked about the two together, but for a request that sends an explicit  *)
(* null for the model (not probed, and not cleared), or commits after      *)
(* another one has changed the key or this model.                          *)
Pair(r, c) == <<c, Stored(r, Key), Stored(r, <<"model", c>>)>>
NewPairIsProbed ==
  [][\A u \in Admins, c \in Categories :
       /\ Pair(row'[u], c) # Pair(row[u], c)
       /\ Pair(row'[u], c) \in Probe
       => \/ Pair(row'[u], c) \in probed
          \/ \E r \in Requests :
               /\ Commits(r, u)
               /\ \/ Overtaken(r, {Key, <<"model", c>>})
                  \/ req[r].patch[<<"model", c>>] = Null]_vars

(* No model is put to use that nobody has tried: a local one is loaded, a  *)
(* cloud one asked for, before.  Requests that overlap break this only if  *)
(* they change the very columns the check was made on; those on another    *)
(* category, or on other columns, do not.                                  *)
OnlyTriedModelsAreChosen == UntriedOnlyByRaceOrSpelling /\ NewPairIsProbed

(* What the settings page shows is what a job uses, but in four cases: a   *)
(* cloud provider without a key, Ollama for the transcription, no provider *)
(* with a model left in the row or a local default, and a local model      *)
(* without its proof, which the job refuses.                               *)
ShownIsUsed ==
  \A u \in Admins, c \in Categories, env \in EnvProviders :
    LET s(col) == Stored(row[u], col)
        provider == s(<<"provider", c>>)
    IN \/ Shown(u, c, env) = Used(u, c, env)
       \/ provider = "cloud" /\ s(Key) = Null
       \/ provider = "ollama" /\ c = "transcription"
       \/ provider = Null /\ \/ s(<<"model", c>>) # Null \/ s(Ollama) # Null
                             \/ EnvProvider(env, c) = "local"
       \/ provider = "local" /\ s(<<"proof", c>>) = Null

(* Two administrators' pages, or two tabs, that change different settings  *)
(* do not undo each other: a column changes only to what the committing    *)
(* request gave.                                                           *)
NoLostSetting ==
  [][\A u \in Admins, col \in Columns :
       Stored(row[u], col) # Stored(row'[u], col) =>
         \E r \in Requests : /\ Commits(r, u)
                             /\ req[r].patch[col] = Stored(row'[u], col)]_vars
=============================================================================

----------------------------- MODULE WebhookSecrets -----------------------------
(***************************************************************************)
(* The signing secret of the GitHub webhooks of linked repositories:       *)
(* packages/core/src/server/webhook-secret.ts, webhook-reconcile.ts,       *)
(* createWebhook of github/github-client.ts, handleLink and handleUnlink   *)
(* of packages/agents/project/src/project-agent.ts and the operator's      *)
(* channel configuration, server/routes/channels.ts.                       *)
(*                                                                         *)
(* A registration is a link, from chat or the dashboard, or the pass each  *)
(* replica makes at start-up over the listed projects.  A storage or       *)
(* GitHub call is one step, and may fail.  GITHUB_TOKEN and                *)
(* WEBHOOK_BASE_URL are set.  The secret a registration generates is       *)
(* called after it.                                                        *)
(***************************************************************************)
EXTENDS Undefined

CONSTANTS
    Registrations,  \* links and passes, each made once
    LinkedProjects, \* agents of the projects list
    Repos,          \* repositories
    ListedRepo      \* the repository the projects list names for each

ASSUME RegistrationsAssumption ==
    /\ None \notin Registrations \union {"environment"}
    /\ "no hook" \notin Registrations
    /\ ListedRepo \in [LinkedProjects -> Repos]

VARIABLES
    inEnv,    \* GITHUB_WEBHOOK_SECRET is set
    channel,  \* the stored channel config of "github"
    links,    \* the stored config of each project's agent
    hook,     \* what GitHub signs each repository's deliveries with
    regKind,  \* whether each registration is a link or a pass
    regStage, \* where it stands
    project,  \* the project it is about
    left,     \* a pass: the projects still to do
    known,    \* the config it read, or is linking
    base,     \* the channel config a generated secret is added to
    secret,   \* the secret it hands to GitHub
    unsure    \* history: what leaves the two ends with different secrets

regVars == <<regKind, regStage, project, left, known, base, secret>>
secretVars == <<inEnv, channel, links, hook, regVars, unsure>>

Secrets == Registrations \union {"operator", "environment"}
ChannelConfigs == [operator : {"operator", None}, generated : Registrations \union {None}]
NoConfig == [operator |-> None, generated |-> None]
Links == [repo : Repos, marked : BOOLEAN]

\* No config is taken for none.
ASSUME LinksAssumption == None \notin Links

RegStages == {"none", "resolving", "generating", "saving", "picking", "hooking", "storing", "done"}

SecretsTypeOK ==
    /\ inEnv \in BOOLEAN
    /\ channel \in ChannelConfigs
    /\ links \in [LinkedProjects -> Links \union {None}]
    /\ hook \in [Repos -> Secrets \union {"no hook", "unsigned"}]
    /\ regKind \in [Registrations -> {"link", "pass", None}]
    /\ regStage \in [Registrations -> RegStages]
    /\ project \in [Registrations -> LinkedProjects \union {None}]
    /\ left \in [Registrations -> SUBSET LinkedProjects]
    /\ known \in [Registrations -> Links \union {None}]
    /\ base \in [Registrations -> ChannelConfigs]
    /\ secret \in [Registrations -> Secrets \union {None}]
    /\ unsure \in BOOLEAN

\* Repositories linked by an earlier release have hooks without a secret.
SecretsInit ==
    /\ inEnv \in BOOLEAN
    /\ channel = NoConfig
    /\ links \in [LinkedProjects -> [repo : Repos, marked : {FALSE}] \union {None}]
    /\ hook = [repo \in Repos |->
                  IF \E p \in LinkedProjects : links[p] # None /\ links[p].repo = repo
                     THEN "unsigned" ELSE "no hook"]
    /\ regKind = [r \in Registrations |-> None]
    /\ regStage = [r \in Registrations |-> "none"]
    /\ project = [r \in Registrations |-> None]
    /\ left = [r \in Registrations |-> {}]
    /\ known = [r \in Registrations |-> None]
    /\ base = [r \in Registrations |-> NoConfig]
    /\ secret = [r \in Registrations |-> None]
    /\ unsure = FALSE

-----------------------------------------------------------------------------
\* resolveWebhookSecret, of a channel config: what the webhook route verifies with.
Resolved(config) ==
    IF config.operator # None THEN config.operator
    ELSE IF inEnv THEN "environment"
    ELSE config.generated

GoesOn(r, stage) == regStage' = [regStage EXCEPT ![r] = stage]
Registers(r, kind) ==
    /\ regStage[r] = "none"
    /\ GoesOn(r, "resolving")
    /\ regKind' = [regKind EXCEPT ![r] = kind]

\* A registration that ends leaves nothing that is used again.
Over(r) ==
    /\ GoesOn(r, "done")
    /\ regKind' = [regKind EXCEPT ![r] = None]
    /\ project' = [project EXCEPT ![r] = None]
    /\ left' = [left EXCEPT ![r] = {}]
    /\ known' = [known EXCEPT ![r] = None]
    /\ base' = [base EXCEPT ![r] = NoConfig]
    /\ secret' = [secret EXCEPT ![r] = None]

\* link: the project's config is stored, without the marker.
LinkProject(r, p, repo) ==
    /\ Registers(r, "link")
    /\ project' = [project EXCEPT ![r] = p]
    /\ known' = [known EXCEPT ![r] = [repo |-> repo, marked |-> FALSE]]
    /\ links' = [links EXCEPT ![p] = known'[r]]
    /\ UNCHANGED <<inEnv, channel, hook, left, base, secret, unsure>>

\* unlink, or the project is removed: the hook stays.
Unlink(p) ==
    /\ links[p] # None
    /\ links' = [links EXCEPT ![p] = None]
    /\ UNCHANGED <<inEnv, channel, hook, regVars, unsure>>

\* reconcileWebhookSecrets has listed the projects.
StartPass(r) ==
    /\ Registers(r, "pass")
    /\ left' = [left EXCEPT ![r] = LinkedProjects]
    /\ UNCHANGED <<inEnv, channel, links, hook, project, known, base, secret, unsure>>

\* POST /api/channels/configure puts the operator's config in the place of ours.
Configure(own) ==
    /\ channel' = [operator |-> own, generated |-> None]
    /\ unsure' = TRUE
    /\ UNCHANGED <<inEnv, links, hook, regVars>>

-----------------------------------------------------------------------------
(* provisionWebhookSecret.                                                 *)

\* A pass needs a secret; a link registers its hook without one as well.
Provisioned(r, value) ==
    IF regKind[r] = "pass" /\ value = None THEN Over(r)
    ELSE /\ secret' = [secret EXCEPT ![r] = value]
         /\ GoesOn(r, IF regKind[r] = "link" THEN "hooking" ELSE "picking")
         /\ base' = [base EXCEPT ![r] = NoConfig]
         /\ UNCHANGED <<regKind, project, left, known>>

\* Registrations that found no secret and have not stored theirs.
Generating == {r \in Registrations : regStage[r] \in {"generating", "saving"}}

\* The config is read, or cannot be, which counts as empty.
Resolve(r) ==
    /\ regStage[r] = "resolving"
    /\ \E config \in {channel, NoConfig} :
          /\ IF Resolved(config) # None
                THEN Provisioned(r, Resolved(config))
                ELSE GoesOn(r, "generating") /\ UNCHANGED <<regKind, project, left, known, base, secret>>
          /\ unsure' = (\/ unsure
                        \/ Resolved(config) # Resolved(channel)
                        \/ Resolved(config) = None /\ Generating # {})
    /\ UNCHANGED <<inEnv, channel, links, hook>>

\* It is read again for the new secret to be added to it.
ReadAgain(r) ==
    /\ regStage[r] = "generating"
    /\ \/ /\ GoesOn(r, "saving")
          /\ base' = [base EXCEPT ![r] = channel]
          /\ UNCHANGED <<regKind, project, left, known, secret>>
       \/ Provisioned(r, None)
    /\ UNCHANGED <<inEnv, channel, links, hook, unsure>>

\* Mutant: the secret is handed to GitHub although it could not be stored.
UnsavedAnyway(r) == r

\* What is registered when the secret cannot be stored: none.
Unsaved(r) == None

Save(r) ==
    /\ regStage[r] = "saving"
    /\ \/ channel' = [base[r] EXCEPT !.generated = r] /\ Provisioned(r, r)
       \/ UNCHANGED channel /\ Provisioned(r, Unsaved(r))
    /\ UNCHANGED <<inEnv, links, hook, unsure>>

-----------------------------------------------------------------------------
(* createWebhook, and what is stored of it.                                *)

\* The next project of a pass; one that is marked is skipped.
Pick(r) ==
    /\ regStage[r] = "picking"
    /\ IF left[r] = {} THEN Over(r)
       ELSE /\ \E p \in left[r] :
                  /\ left' = [left EXCEPT ![r] = @ \ {p}]
                  /\ IF links[p] # None /\ links[p].marked
                        THEN UNCHANGED <<regStage, project, known>>
                        ELSE /\ GoesOn(r, "hooking")
                             /\ project' = [project EXCEPT ![r] = p]
                             /\ known' = [known EXCEPT ![r] = links[p]]
            /\ UNCHANGED <<regKind, base, secret>>
    /\ UNCHANGED <<inEnv, channel, links, hook, unsure>>

RepoOf(r) == IF known[r] = None THEN ListedRepo[project[r]] ELSE known[r].repo

\* The hook with this url is given the secret, or created with it, or without.
Signed(r) ==
    [hook EXCEPT ![RepoOf(r)] = IF secret[r] # None THEN secret[r]
                                ELSE IF @ = "no hook" THEN "unsigned" ELSE @]

\* A link goes on when a hook is there, with its secret or not.  A pass marks the
\* project it read when the secret was set.
AfterHook(r, answered) ==
    IF regKind[r] = "link" \/ (answered /\ known[r] # None) THEN "storing" ELSE "picking"

\* GitHub answers; or a call fails, and what was sent took effect or not.
Hook(r) ==
    /\ regStage[r] = "hooking"
    /\ \E answered \in BOOLEAN :
          /\ hook' = Signed(r) \/ (~answered /\ UNCHANGED hook)
          /\ GoesOn(r, AfterHook(r, answered))
    /\ UNCHANGED <<inEnv, channel, links, regKind, project, left, known, base, secret, unsure>>

\* The project's config is stored as it was linked or read, whatever became of it.
Store(r) ==
    /\ regStage[r] = "storing"
    /\ \/ links' = [links EXCEPT ![project[r]] = [known[r] EXCEPT !.marked = regKind[r] = "pass"]]
       \/ UNCHANGED links
    /\ IF regKind[r] = "link" THEN Over(r)
       ELSE GoesOn(r, "picking") /\ UNCHANGED <<regKind, project, left, known, base, secret>>
    /\ UNCHANGED <<inEnv, channel, hook, unsure>>

\* A link whose hook could not be registered, or a process that ended.
GivesUp(r) ==
    /\ regStage[r] \notin {"none", "done"}
    /\ Over(r)
    /\ UNCHANGED <<inEnv, channel, links, hook, unsure>>

SecretsNext ==
    \/ \E r \in Registrations :
          \/ \E p \in LinkedProjects, repo \in Repos : LinkProject(r, p, repo)
          \/ StartPass(r) \/ Resolve(r) \/ ReadAgain(r) \/ Save(r)
          \/ Pick(r) \/ Hook(r) \/ Store(r) \/ GivesUp(r)
    \/ \E p \in LinkedProjects : Unlink(p)
    \/ \E own \in {"operator", None} : Configure(own)

SecretsSpec == SecretsInit /\ [][SecretsNext]_secretVars

-----------------------------------------------------------------------------
(* Properties.                                                             *)

\* GitHub signs the deliveries of a project that is marked with the secret they
\* are verified with, whatever fails, overlaps or ends early; unless the operator
\* configured the channel, two registrations generated secrets at once, or one
\* could not read the secret there was.
MarkedHooksVerify ==
    ~unsure => \A p \in LinkedProjects :
                  links[p] # None /\ links[p].marked => hook[links[p].repo] = Resolved(channel)
=============================================================================

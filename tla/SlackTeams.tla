------------------------------- MODULE SlackTeams -------------------------------
(***************************************************************************)
(* Slack for several workspaces: the installation of the app, packages/    *)
(* core/src/server/routes/oauth-github.ts, and the adapter in its OAuth    *)
(* mode, packages/channels/slack/src/adapter.ts.                           *)
(*                                                                         *)
(* Each workspace, or team, has a bot token, which the adapter looks up    *)
(* in the default storage.  Texts, users and threads are left out; so is   *)
(* the mode with one token from the environment.                           *)
(***************************************************************************)
EXTENDS FiniteSets, Undefined

CONSTANTS
    Teams,       \* Slack's workspaces
    Installs,    \* calls of /api/slack/callback, each made once
    SlackEvents  \* what the bot is sent, each once

VARIABLES
    install,    \* what each callback awaits, and its team and organization
    installed,  \* the default storage: the callback that saved a team's installation
    connected,  \* the organizations' storages: the teams each is connected to
    lastTeam,   \* _lastTeamId
    slackEvent, \* what each event awaits, and its kind and team
    sentWith,   \* the team whose token each reply was sent with
    displaced   \* history: events to which lastTeam was another team's at some time

slackVars == <<install, installed, connected, lastTeam, slackEvent, sentWith, displaced>>

TeamOrNone == Teams \union {None}
InstallStages == {"savingForOrg", "savingForBot", "connected", "error"}
EventStages == {"authorizing", "lookups", "handled", "token", "replied", "dropped"}

\* A callback under way, and an event being handled.
InstallRecord == [team : Teams, stage : InstallStages]
EventRecord == [kind : {"mention", "other"}, team : Teams, stage : EventStages, asked : TeamOrNone]

\* Nothing of these is taken for none.
ASSUME TeamsAssumption == None \notin Teams \union Installs \union InstallRecord \union EventRecord

SlackTypeOK ==
    /\ install \in [Installs -> InstallRecord \union {None}]
    /\ installed \in [Teams -> Installs \union {None}]
    /\ connected \in [Installs -> TeamOrNone]
    /\ lastTeam \in TeamOrNone
    /\ slackEvent \in [SlackEvents -> EventRecord \union {None}]
    /\ sentWith \in [SlackEvents -> TeamOrNone]
    /\ displaced \subseteq SlackEvents

SlackInit ==
    /\ install = [n \in Installs |-> None]
    /\ installed = [t \in Teams |-> None]
    /\ connected = [n \in Installs |-> None]
    /\ lastTeam = None
    /\ slackEvent = [v \in SlackEvents |-> None]
    /\ sentWith = [v \in SlackEvents |-> None]
    /\ displaced = {}

eventParts == <<lastTeam, slackEvent, sentWith, displaced>>

-----------------------------------------------------------------------------
(* GET /api/slack/callback.  Each call is of an organization of its own,   *)
(* or of none, which is called "default".  A token exchange that fails     *)
(* changes nothing and is left out.                                        *)

\* oauth.v2.access has answered with a token.
Exchanged(n, t, default) ==
    /\ install[n] = None
    /\ install' = [install EXCEPT ![n] =
                      [team |-> t, stage |-> IF default THEN "savingForBot" ELSE "savingForOrg"]]
    /\ UNCHANGED <<installed, connected, eventParts>>

InstallGoes(n, stage) == install' = [install EXCEPT ![n].stage = stage]

\* Mutant: the organization is told before the bot can find the token, and that is all.
ForOrgOnly == "connected"

\* What follows the save in the organization's storage: one in the default storage.
NextSave == "savingForBot"

SavedForOrg(n, fails) ==
    /\ install[n] # None /\ install[n].stage = "savingForOrg"
    /\ InstallGoes(n, IF fails THEN "error" ELSE NextSave)
    /\ connected' = IF fails THEN connected ELSE [connected EXCEPT ![n] = install[n].team]
    /\ UNCHANGED <<installed, eventParts>>

\* The default storage has one installation for a team: the last one.
SavedForBot(n, fails) ==
    /\ install[n] # None /\ install[n].stage = "savingForBot"
    /\ InstallGoes(n, IF fails THEN "error" ELSE "connected")
    /\ installed' = IF fails THEN installed ELSE [installed EXCEPT ![install[n].team] = n]
    /\ UNCHANGED <<connected, eventParts>>

-----------------------------------------------------------------------------
(* The adapter.                                                            *)

OpenEvents == {v \in SlackEvents : slackEvent[v] # None /\ slackEvent[v].stage \notin {"replied", "dropped"}}
EventGoes(v, stage) == slackEvent' = [slackEvent EXCEPT ![v].stage = stage]
EventAwaits(v, stage) == slackEvent[v] # None /\ slackEvent[v].stage = stage

\* An event comes, and authorize looks for the token of its team.
EventComes(v, kind, t) ==
    /\ slackEvent[v] = None
    /\ slackEvent' = [slackEvent EXCEPT ![v] = [kind |-> kind, team |-> t, stage |-> "authorizing", asked |-> None]]
    /\ UNCHANGED <<install, installed, connected, lastTeam, sentWith, displaced>>

\* Mutant: the first team that mentions the bot stays.
FirstTeam(t) == IF lastTeam = None THEN t ELSE lastTeam

\* _lastTeamId after a mention.
MentioningTeam(t) == t

\* The listener runs: of a mention it notes the team, and looks up the bot's name;
\* direct messages and clicks are handed on at once.
Authorized(v) ==
    LET kind == slackEvent[v].kind t == slackEvent[v].team IN
    /\ EventAwaits(v, "authorizing")
    /\ IF installed[t] = None
          THEN EventGoes(v, "dropped") /\ UNCHANGED <<lastTeam, displaced>>
          ELSE IF kind = "mention"
             THEN /\ EventGoes(v, "lookups")
                  /\ lastTeam' = MentioningTeam(t)
                  /\ displaced' = displaced \union {w \in OpenEvents : slackEvent[w].team # t}
             ELSE /\ EventGoes(v, "handled")
                  /\ displaced' = IF lastTeam = t THEN displaced ELSE displaced \union {v}
                  /\ UNCHANGED lastTeam
    /\ UNCHANGED <<install, installed, connected, sentWith>>

\* The bot's name and the team's organization are found, and the message handler called.
HandOn(v) ==
    /\ EventAwaits(v, "lookups")
    /\ EventGoes(v, "handled")
    /\ UNCHANGED <<install, installed, connected, lastTeam, sentWith, displaced>>

\* sendToChannel: resolveToken asks for the installation of the last team, if any.
AskToken(v) ==
    /\ EventAwaits(v, "handled")
    /\ slackEvent' = [slackEvent EXCEPT ![v].stage = "token", ![v].asked = lastTeam]
    /\ UNCHANGED <<install, installed, connected, lastTeam, sentWith, displaced>>

\* chat.postMessage with the token that was found.
PostReply(v) ==
    /\ EventAwaits(v, "token")
    /\ EventGoes(v, "replied")
    /\ LET t == slackEvent[v].asked
       IN  sentWith' = [sentWith EXCEPT ![v] = IF t # None /\ installed[t] # None THEN t ELSE None]
    /\ UNCHANGED <<install, installed, connected, lastTeam, displaced>>

SlackNext ==
    \/ \E n \in Installs :
          \/ \E t \in Teams, default \in BOOLEAN : Exchanged(n, t, default)
          \/ \E fails \in BOOLEAN : SavedForOrg(n, fails) \/ SavedForBot(n, fails)
    \/ \E v \in SlackEvents :
          \/ \E kind \in {"mention", "other"}, t \in Teams : EventComes(v, kind, t)
          \/ Authorized(v) \/ HandOn(v) \/ AskToken(v) \/ PostReply(v)

SlackSpec == SlackInit /\ [][SlackNext]_slackVars

-----------------------------------------------------------------------------
(* Properties.                                                             *)

\* A reply is sent with the token of the team that asked, whatever else happens, unless
\* another team mentioned the bot meanwhile or, for a message or a click, last.
RepliesWithOwnToken ==
    \A v \in SlackEvents \ displaced :
       slackEvent[v] # None /\ slackEvent[v].stage = "replied" => sentWith[v] = slackEvent[v].team

\* A team that an organization's page shows as connected is one the bot has a token for,
\* unless the callback is still at work or failed between its two saves.
ConnectedIsInstalled ==
    \A n \in Installs :
       connected[n] # None /\ install[n].stage = "connected" => installed[connected[n]] # None
=============================================================================

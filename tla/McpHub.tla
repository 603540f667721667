------------------------------- MODULE McpHub -------------------------------
(***************************************************************************)
(* McpHub (src/services/mcp/McpHub.ts): the connections to the servers of  *)
(* one settings file.  Nothing serialises the operations of the hub: the   *)
(* reload of the file, a restart, a refresh, a click on a server each run  *)
(* as a flow of their own and interleave at every await, while servers     *)
(* exit, tools meet authentication errors and the file is edited.          *)
(***************************************************************************)
EXTENDS Naturals, FiniteSets

CONSTANTS Servers, Absent, Variants, MaxFlows, MaxIds, Budget

VARIABLES
    file,         \* the settings file: per server its configuration, or Absent
    readable,     \* the file is valid JSON that passes McpSettingsSchema
    mcpEnabled,   \* the global switch
    conns,        \* this.connections
    isConnecting, \* the flag that makes a refresh return early
    fileWatchers, \* servers with watchers that restart them
    timer,        \* a debounced reload of the file is due
    flow,         \* the operations under way
    wanted,       \* the configurations a flow connects with
    step,         \* per flow and server: how far it is with the connection
    mine,         \* the entry a flow waits for in client.connect()
    left,         \* history: servers of which a deleted entry left its transport up
    crossed,      \* history: servers that two flows were at, at once
    clicks        \* how often the user may still do something

settings == <<file, readable, mcpEnabled>>
history == <<left, crossed>>
hubVars == <<settings, conns, isConnecting, fileWatchers, timer, flow, wanted, step, mine,
             history, clicks>>

Configs == [v : Variants, disabled : BOOLEAN]
\* A server that is not in the file has no configuration.
ASSUME HubAssumption == /\ MaxFlows \in Nat \ {0} /\ MaxIds \in Nat /\ Budget \in Nat
                        /\ Absent \notin Configs /\ Absent \notin Servers
Entries == Configs \union {Absent}
Flows == 1..MaxFlows
Ids == 1..MaxIds
Types == {"connected", "disconnected", "needs-auth"}
Statuses == {"connecting", "connected", "disconnected", "needs-auth"}
\* up: the transport of the entry is running.
Conns == [id : Ids, name : Servers, type : Types, status : Statuses,
          config : Configs, disabled : BOOLEAN, up : BOOLEAN]
FlowKinds == {"init", "config", "restart", "refresh", "refreshOff", "switchOff", "toggle", "delete", "import",
              "reconnect"}
Places == {"ask", "clear", "read", "remove", "announce", "connect", "notify"}
NoFlow == [kind |-> "none", at |-> "none", for |-> Absent]
FlowStates == {NoFlow} \union [kind : FlowKinds, at : Places, for : Servers \union {Absent}]
Steps == {"none", "open", "shut", "ask", "start", "handshake"}
NoStep == [s \in Servers |-> "none"]
Nothing == [s \in Servers |-> Absent]

HubTypeOK == /\ file \in [Servers -> Entries]
             /\ readable \in BOOLEAN /\ mcpEnabled \in BOOLEAN
             /\ conns \subseteq Conns
             /\ isConnecting \in BOOLEAN /\ timer \in BOOLEAN
             /\ fileWatchers \subseteq Servers
             /\ flow \in [Flows -> FlowStates]
             /\ wanted \in [Flows -> [Servers -> Entries]]
             /\ step \in [Flows -> [Servers -> Steps]]
             /\ mine \in [Flows -> [Servers -> Ids \union {0}]]
             /\ left \subseteq Servers /\ crossed \subseteq Servers
             /\ clicks \in 0..Budget

\* The constructor reads a file that may name any servers.
HubInit == /\ file \in [Servers -> [v : Variants, disabled : {FALSE}] \union {Absent}]
           /\ readable = TRUE /\ mcpEnabled = TRUE
           /\ conns = {}
           /\ isConnecting = FALSE /\ timer = FALSE /\ fileWatchers = {}
           /\ flow = [f \in Flows |-> IF f = 1 THEN [kind |-> "init", at |-> "read", for |-> Absent]
                                      ELSE NoFlow]
           /\ wanted = [f \in Flows |-> Nothing]
           /\ step = [f \in Flows |-> NoStep]
           /\ mine = [f \in Flows |-> [s \in Servers |-> 0]]
           /\ left = {} /\ crossed = {}
           /\ clicks = Budget

Idle == \A f \in Flows : flow[f] = NoFlow
Quiet(f) == step[f] = NoStep
ConnsOf(s) == {c \in conns : c.name = s}
\* findConnection: the first one in the order they were added.
IsFirst(c) == \A d \in ConnsOf(c.name) : c.id <= d.id
\* A number for an entry that is added behind those of its name.
Fresh(s, id) == LET later(i) == /\ \A c \in ConnsOf(s) : c.id < i
                                /\ \A f \in Flows : mine[f][s] < i
                IN  id \in Ids /\ later(id) /\ \A i \in Ids : later(i) => id <= i

\* A flow is at a server while it closes and connects it, and while it still
\* means to with the configuration it took.
IsAt(f, s) == \/ step[f][s] # "none"
              \/ flow[f].at \in {"announce", "remove"} /\ wanted[f][s] # Absent
Crossing(f, S) == {s \in S : \E g \in Flows \ {f} : IsAt(g, s)}

\* The first flow that is free takes it on; MaxFlows bounds how many there are.
Begin(f, kind, at, s) == /\ flow[f] = NoFlow /\ \A g \in 1..(f - 1) : flow[g] # NoFlow
                         /\ flow' = [flow EXCEPT ![f] = [kind |-> kind, at |-> at, for |-> s]]
Go(f, at) == flow' = [flow EXCEPT ![f].at = at]
Forget(f) == wanted' = [wanted EXCEPT ![f] = Nothing]
Finish(f) == flow' = [flow EXCEPT ![f] = NoFlow] /\ Forget(f)
At(f, s, at) == step' = [step EXCEPT ![f][s] = at]

----------------------------------------------------------------------------
(* Closing and opening one connection.                                     *)

\* After deleteConnection: a flow that wants the server goes on to connect it.
Deleted(f, s) == At(f, s, IF wanted[f][s] = Absent THEN "none" ELSE "ask")

\* The transport of an entry is closed.
Closed(c) == [c EXCEPT !.up = FALSE]

\* Mutant: the entries are dropped before their transports are closed.
DeleteConnectionUnclosed(f, s) ==
    /\ step[f][s] = "open"
    /\ fileWatchers' = fileWatchers \ {s}
    /\ conns' = conns \ ConnsOf(s)
    /\ left' = IF \E c \in ConnsOf(s) : c.up THEN left \union {s} ELSE left
    /\ Deleted(f, s)
    /\ UNCHANGED <<settings, isConnecting, timer, flow, wanted, mine, crossed, clicks>>

\* deleteConnection: the watchers go, then the transports that are listed are
\* closed, which is awaited; without any the entries go at once.  (A flow that
\* deletes before connectToServer does deletes a second time; the two are one.)
DeleteConnection(f, s) ==
    /\ step[f][s] = "open"
    /\ fileWatchers' = fileWatchers \ {s}
    /\ IF \E c \in ConnsOf(s) : c.type = "connected"
       THEN /\ conns' = (conns \ ConnsOf(s)) \union {Closed(c) : c \in ConnsOf(s)}
            /\ At(f, s, "shut")
       ELSE conns' = conns \ ConnsOf(s) /\ Deleted(f, s)
    /\ UNCHANGED <<settings, isConnecting, timer, flow, wanted, mine, history, clicks>>

\* The filter at its end drops every entry of the name, one that another flow has
\* added meanwhile included, whose transport nobody closes then.
RemoveEntries(f, s) ==
    /\ step[f][s] = "shut"
    /\ conns' = conns \ ConnsOf(s)
    /\ left' = IF \E c \in ConnsOf(s) : c.up THEN left \union {s} ELSE left
    /\ Deleted(f, s)
    /\ UNCHANGED <<settings, isConnecting, fileWatchers, timer, flow, wanted, mine, crossed, clicks>>

\* An entry that connects nothing.
Placeholder(id, f, s, type) ==
    [id |-> id, name |-> s, type |-> type, status |-> type, config |-> wanted[f][s],
     disabled |-> wanted[f][s].disabled, up |-> FALSE]

\* isMcpEnabled has answered: a server that is disabled, or any while MCP is off,
\* gets a placeholder; the watchers of another one are set.
OpenConnection(f, s) ==
    /\ step[f][s] = "ask"
    /\ IF ~mcpEnabled \/ wanted[f][s].disabled
       THEN /\ \E id \in Ids : /\ Fresh(s, id)
                               /\ conns' = conns \union {Placeholder(id, f, s, "disconnected")}
            /\ At(f, s, "none")
            /\ UNCHANGED fileWatchers
       ELSE /\ fileWatchers' = fileWatchers \union {s}
            /\ At(f, s, "start")
            /\ UNCHANGED conns
    /\ UNCHANGED <<settings, isConnecting, timer, flow, wanted, mine, history, clicks>>

\* The catch block of connectToServer, with the entries it finds: the first one
\* is marked, or there is none and one is added to be shown.
Fails(f, s, rest) ==
    \E status \in {"disconnected", "needs-auth"} :
       IF \E c \in rest : c.name = s
       THEN \E c \in rest : /\ c.name = s /\ \A d \in rest : d.name = s => c.id <= d.id
                            /\ conns' = (rest \ {c}) \union {[c EXCEPT !.status = status]}
       ELSE \E id \in Ids : Fresh(s, id) /\ conns' = rest \union {Placeholder(id, f, s, status)}

\* transport.start() and the entry that is added before client.connect().
StartTransport(f, s) ==
    /\ step[f][s] = "start"
    /\ \/ /\ \E id \in Ids :
                /\ Fresh(s, id)
                /\ conns' = conns \union {[id |-> id, name |-> s, type |-> "connected",
                      status |-> "connecting", config |-> wanted[f][s],
                      disabled |-> wanted[f][s].disabled, up |-> TRUE]}
                /\ mine' = [mine EXCEPT ![f][s] = id]
          /\ At(f, s, "handshake")
       \/ /\ Fails(f, s, conns)
          /\ At(f, s, "none")
          /\ UNCHANGED mine
    /\ UNCHANGED <<settings, isConnecting, fileWatchers, timer, flow, wanted, history, clicks>>

\* The entry of the flow, if it is still there.
Mine(f, s) == {c \in ConnsOf(s) : c.id = mine[f][s] /\ c.type = "connected"}

\* Mutant: a failed connection gets a status the chat view does not know.
HandshakeFailed(f, s) ==
    /\ step[f][s] = "handshake"
    /\ conns' = (conns \ Mine(f, s))
          \union {[c EXCEPT !.status = "failed", !.up = FALSE] : c \in Mine(f, s)}
    /\ At(f, s, "none")
    /\ mine' = [mine EXCEPT ![f][s] = 0]
    /\ UNCHANGED <<settings, isConnecting, fileWatchers, timer, flow, wanted, history, clicks>>

\* client.connect(), which closes its transport when it fails.  A server behind
\* a URL then takes the first entry of its name away, whoever added it.
Handshake(f, s) ==
    /\ step[f][s] = "handshake"
    /\ \/ /\ \A c \in Mine(f, s) : c.up
          /\ conns' = (conns \ Mine(f, s)) \union {[c EXCEPT !.status = "connected"] : c \in Mine(f, s)}
          /\ UNCHANGED left
       \/ LET downs == (conns \ Mine(f, s)) \union {Closed(c) : c \in Mine(f, s)}
              first == {c \in downs : c.name = s /\ \A d \in downs : d.name = s => c.id <= d.id}
          IN  \/ Fails(f, s, downs) /\ UNCHANGED left
              \/ /\ Fails(f, s, downs \ first)
                 /\ left' = IF \E c \in first : c.up THEN left \union {s} ELSE left
    /\ At(f, s, "none")
    /\ mine' = [mine EXCEPT ![f][s] = 0]
    /\ UNCHANGED <<settings, isConnecting, fileWatchers, timer, flow, wanted, crossed, clicks>>

----------------------------------------------------------------------------
(* updateServerConnections and what reads the settings file.               *)

Changed(new) == {s \in Servers : /\ new[s] # Absent
                                 /\ \A c \in ConnsOf(s) : IsFirst(c) => c.config # new[s]}
Open(S) == [s \in Servers |-> IF s \in S THEN "open" ELSE "none"]

\* All watchers are closed; servers that are gone are deleted first, and only
\* then are the others compared, so that new and changed ones connect.
UpdateServerConnections(f, new) ==
    LET removed == {s \in Servers : new[s] = Absent /\ ConnsOf(s) # {}} IN
    /\ fileWatchers' = {}
    /\ wanted' = [wanted EXCEPT ![f] = new]
    /\ step' = [step EXCEPT ![f] = Open(IF removed = {} THEN Changed(new) ELSE removed)]
    /\ crossed' = crossed \union Crossing(f, Servers)

AfterUpdate(new) == IF \E s \in Servers : new[s] = Absent /\ ConnsOf(s) # {} THEN "remove" ELSE "connect"

\* The debounce timer of a change of the file: handleConfigFileChange.
ConfigTimer(f) ==
    /\ timer /\ timer' = FALSE
    /\ Begin(f, "config", "read", Absent)
    /\ UNCHANGED <<settings, conns, isConnecting, fileWatchers, wanted, step, mine, history, clicks>>

\* The file as it is read; one that cannot be parsed ends all but a refresh.
ReadSettings(f) ==
    /\ flow[f].at = "read"
    /\ IF readable
       THEN /\ UpdateServerConnections(f, file)
            /\ Go(f, AfterUpdate(file))
            /\ isConnecting' = (isConnecting \/ flow[f].kind = "config")
       ELSE /\ IF flow[f].kind \in {"refresh", "refreshOff"} THEN Go(f, "notify") /\ Forget(f) ELSE Finish(f)
            /\ UNCHANGED <<fileWatchers, step, crossed, isConnecting>>
    /\ UNCHANGED <<settings, conns, timer, mine, left, clicks>>

\* The servers that are gone have been deleted.
Removed(f) ==
    /\ flow[f].at = "remove" /\ Quiet(f)
    /\ Go(f, "connect")
    /\ step' = [step EXCEPT ![f] = Open(Changed(wanted[f]))]
    /\ UNCHANGED <<settings, conns, isConnecting, fileWatchers, timer, wanted, mine, history, clicks>>

\* Promise.allSettled over the servers, or the one connection of a click.
Connected(f) ==
    /\ flow[f].at = "connect" /\ Quiet(f)
    /\ Go(f, "notify") /\ Forget(f)
    /\ UNCHANGED <<settings, conns, isConnecting, fileWatchers, timer, step, mine, history, clicks>>

\* Mutant: the flag is cleared by a refresh only.
NotifyKeepsFlag(f) ==
    /\ flow[f].at = "notify"
    /\ Finish(f)
    /\ isConnecting' = (isConnecting /\ flow[f].kind # "refresh")
    /\ UNCHANGED <<settings, conns, fileWatchers, timer, step, mine, history, clicks>>

\* notifyWebviewOfServerChanges parses the settings file, and throws when it
\* cannot: only a refresh clears the flag in a finally block.
Notify(f) ==
    /\ flow[f].at = "notify"
    /\ Finish(f)
    /\ isConnecting' = /\ isConnecting
                       /\ flow[f].kind # "refresh"
                       /\ readable => flow[f].kind \notin {"config", "restart", "delete"}
    /\ UNCHANGED <<settings, conns, fileWatchers, timer, step, mine, history, clicks>>

\* Every connection is to be deleted, before the file is read again.
Clear(f) == /\ wanted' = [wanted EXCEPT ![f] = Nothing]
            /\ step' = [step EXCEPT ![f] = Open({s \in Servers : ConnsOf(s) # {}})]
            /\ crossed' = crossed \union Crossing(f, Servers)

\* isMcpEnabled has answered in refreshAllConnections.
RefreshGoes(f) ==
    /\ flow[f].at = "ask" /\ flow[f].kind = "refresh"
    /\ flow' = [flow EXCEPT ![f].kind = IF mcpEnabled THEN "refresh" ELSE "refreshOff", ![f].at = "clear"]
    /\ isConnecting' = (isConnecting \/ mcpEnabled)
    /\ Clear(f)
    /\ UNCHANGED <<settings, conns, fileWatchers, timer, mine, left, clicks>>

\* All are deleted.  Switching off then refreshes, unless the flag is set: the
\* servers that were deleted are then not listed again.
Cleared(f) ==
    /\ flow[f].at = "clear" /\ Quiet(f)
    /\ IF flow[f].kind # "switchOff"
       THEN Go(f, "read") /\ UNCHANGED <<wanted, crossed>>
       ELSE IF isConnecting
       THEN Finish(f) /\ crossed' = Servers
       ELSE /\ flow' = [flow EXCEPT ![f].kind = "refresh", ![f].at = "ask"]
            /\ UNCHANGED <<wanted, crossed>>
    /\ UNCHANGED <<settings, conns, isConnecting, fileWatchers, timer, step, mine, left, clicks>>

\* isMcpEnabled has answered in restartConnection: an entry is shown as
\* connecting before its old configuration is connected again.
RestartGoes(f) ==
    /\ flow[f].at = "ask" /\ flow[f].kind = "restart"
    /\ LET s == flow[f].for IN
          \/ ~mcpEnabled /\ Finish(f) /\ isConnecting' = FALSE /\ UNCHANGED <<conns, crossed>>
          \/ /\ mcpEnabled /\ ConnsOf(s) = {}
             /\ Go(f, "notify") /\ UNCHANGED <<conns, wanted, crossed, isConnecting>>
          \/ \E c \in ConnsOf(s) :
                /\ mcpEnabled /\ IsFirst(c)
                /\ conns' = (conns \ {c}) \union {[c EXCEPT !.status = "connecting"]}
                /\ wanted' = [wanted EXCEPT ![f] = [Nothing EXCEPT ![s] = c.config]]
                /\ crossed' = crossed \union Crossing(f, {s})
                /\ Go(f, "announce")
                /\ UNCHANGED isConnecting
    /\ UNCHANGED <<settings, fileWatchers, timer, step, mine, left, clicks>>

\* The first notification, which throws out of restartConnection when the file
\* cannot be parsed, then the delay.
Announce(f) ==
    /\ flow[f].at = "announce"
    /\ IF readable
       THEN Go(f, "connect") /\ step' = [step EXCEPT ![f] = Open({flow[f].for})] /\ UNCHANGED wanted
       ELSE Finish(f) /\ UNCHANGED step
    /\ UNCHANGED <<settings, conns, isConnecting, fileWatchers, timer, mine, history, clicks>>

----------------------------------------------------------------------------
(* The user: the settings file, the switch, and the buttons of a server.   *)

Click == clicks > 0 /\ clicks' = clicks - 1

\* The file is edited, broken or repaired; the watcher arms the timer.
EditFile ==
    /\ Click
    /\ \/ \E s \in Servers, e \in Entries : file' = [file EXCEPT ![s] = e] /\ readable' = TRUE
       \/ readable' = ~readable /\ UNCHANGED file
    /\ timer' = TRUE
    /\ UNCHANGED <<mcpEnabled, conns, isConnecting, fileWatchers, flow, wanted, step, mine, history>>

\* restartConnection, by a click or a watcher of the server's files.
RestartConnection(f, s) ==
    /\ Click
    /\ Begin(f, "restart", "ask", s)
    /\ isConnecting' = TRUE
    /\ UNCHANGED <<settings, conns, fileWatchers, timer, wanted, step, mine, history>>

\* refreshAllConnections, from its own button.
RefreshAllConnections(f) ==
    /\ Click /\ ~isConnecting
    /\ Begin(f, "refresh", "ask", Absent)
    /\ UNCHANGED <<settings, conns, isConnecting, fileWatchers, timer, wanted, step, mine, history>>

\* handleMcpEnabledChange: off deletes every connection first, then both refresh.
McpEnabledChange(f) ==
    /\ Click
    /\ mcpEnabled' = ~mcpEnabled
    /\ IF mcpEnabled
       THEN Begin(f, "switchOff", "clear", Absent) /\ Clear(f)
       ELSE /\ IF isConnecting THEN UNCHANGED flow ELSE Begin(f, "refresh", "ask", Absent)
            /\ UNCHANGED <<wanted, step, crossed>>
    /\ UNCHANGED <<file, readable, conns, isConnecting, fileWatchers, timer, mine, left>>

\* The entry of a server is marked, and connected again with the configuration
\* it had before when that changes something.
Marked(f, s, off) ==
    \E c \in ConnsOf(s) :
       LET again == (off /\ c.status = "connected") \/ (~off /\ c.status = "disconnected") IN
       /\ IsFirst(c)
       /\ conns' = (conns \ {c}) \union {[c EXCEPT !.disabled = off]}
       /\ Begin(f, "toggle", IF again THEN "connect" ELSE "notify", Absent)
       /\ wanted' = [wanted EXCEPT ![f] = [Nothing EXCEPT ![s] = IF again THEN c.config ELSE Absent]]
       /\ step' = [step EXCEPT ![f] = Open(IF again THEN {s} ELSE {})]
       /\ crossed' = crossed \union Crossing(f, {s})

\* Mutant: the file is written behind the watcher's back.
ToggleUnseen(f, s, off) ==
    /\ Click /\ readable /\ file[s] # Absent
    /\ file' = [file EXCEPT ![s].disabled = off]
    /\ Marked(f, s, off)
    /\ UNCHANGED <<readable, mcpEnabled, isConnecting, fileWatchers, timer, mine, left>>

\* toggleServerDisabled writes the file before it marks the entry.  (Its read and
\* its write of the file are one step.  A server that has just left the file would
\* be written back without a command; that click is left out.)
ToggleServerDisabled(f, s, off) ==
    /\ Click /\ readable /\ file[s] # Absent
    /\ file' = [file EXCEPT ![s].disabled = off]
    /\ timer' = TRUE
    /\ Marked(f, s, off)
    /\ UNCHANGED <<readable, mcpEnabled, isConnecting, fileWatchers, mine, left>>

\* deleteServer writes the file and updates the connections from what it wrote.
DeleteServer(f, s) ==
    /\ Click /\ readable /\ ConnsOf(s) # {} /\ file[s] # Absent
    /\ file' = [file EXCEPT ![s] = Absent]
    /\ timer' = TRUE /\ isConnecting' = TRUE
    /\ LET new == [file EXCEPT ![s] = Absent] IN
          UpdateServerConnections(f, new) /\ Begin(f, "delete", AfterUpdate(new), Absent)
    /\ UNCHANGED <<readable, mcpEnabled, conns, mine, left>>

\* importMcpServers adds entries to the file and updates from what it reads.
ImportMcpServers(f, s) ==
    /\ Click /\ readable /\ file[s] = Absent
    /\ \E e \in Configs : LET new == [file EXCEPT ![s] = e] IN
          /\ file' = new
          /\ UpdateServerConnections(f, new) /\ Begin(f, "import", AfterUpdate(new), Absent)
    /\ timer' = TRUE
    /\ UNCHANGED <<readable, mcpEnabled, conns, isConnecting, mine, left>>

\* The OAuth callback: reconnectServer with the configuration of the entry.
ReconnectServer(f, s) ==
    /\ Click
    /\ \E c \in ConnsOf(s) :
          /\ IsFirst(c) /\ c.status = "needs-auth"
          /\ wanted' = [wanted EXCEPT ![f] = [Nothing EXCEPT ![s] = c.config]]
    /\ Begin(f, "reconnect", "connect", Absent)
    /\ step' = [step EXCEPT ![f] = Open({s})]
    /\ crossed' = crossed \union Crossing(f, {s})
    /\ UNCHANGED <<settings, conns, isConnecting, fileWatchers, timer, mine, left>>

----------------------------------------------------------------------------
(* Servers.                                                                *)

\* A transport closes.
ServerExits(c) ==
    /\ c.up
    /\ conns' = (conns \ {c}) \union {Closed(c)}
    /\ UNCHANGED <<settings, isConnecting, fileWatchers, timer, flow, wanted, step, mine, history, clicks>>

\* onclose and onerror of a transport, also of one that was left behind, mark the
\* first entry of the name.
TransportReports(c) ==
    /\ IsFirst(c) /\ c.status # "disconnected"
    /\ conns' = (conns \ {c}) \union {[c EXCEPT !.status = "disconnected"]}
    /\ UNCHANGED <<settings, isConnecting, fileWatchers, timer, flow, wanted, step, mine, history, clicks>>

\* A tool call is refused (handleAuthenticationError) or the user starts the
\* OAuth flow: the entry is replaced, and its transport is left alone.
NeedsAuth(c) ==
    /\ IsFirst(c) /\ c.type = "connected" /\ c.status = "connected"
    /\ conns' = (conns \ {c})
          \union {[c EXCEPT !.type = "needs-auth", !.status = "needs-auth", !.up = FALSE]}
    /\ UNCHANGED <<settings, isConnecting, fileWatchers, timer, flow, wanted, step, mine, history, clicks>>

Hub == \E f \in Flows :
          \/ ConfigTimer(f) \/ ReadSettings(f) \/ Removed(f) \/ Connected(f) \/ Notify(f)
          \/ RefreshGoes(f) \/ Cleared(f) \/ RestartGoes(f) \/ Announce(f)
          \/ \E s \in Servers : \/ DeleteConnection(f, s) \/ RemoveEntries(f, s)
                                \/ OpenConnection(f, s) \/ StartTransport(f, s) \/ Handshake(f, s)

HubUser == \/ EditFile
           \/ \E f \in Flows :
                 \/ RefreshAllConnections(f) \/ McpEnabledChange(f)
                 \/ \E s \in Servers : \/ RestartConnection(f, s) \/ DeleteServer(f, s)
                                       \/ ImportMcpServers(f, s) \/ ReconnectServer(f, s)
                                       \/ \E off \in BOOLEAN : ToggleServerDisabled(f, s, off)

World == \E c \in conns : ServerExits(c) \/ TransportReports(c) \/ NeedsAuth(c)

HubNext == Hub \/ HubUser \/ World

HubSpec == HubInit /\ [][HubNext]_hubVars
HubFairSpec == HubSpec /\ WF_hubVars(Hub)

----------------------------------------------------------------------------
(* Properties                                                              *)

\* A server has one entry, and no deletion leaves a transport of it running,
\* however flows, exits and edits interleave, as long as no two flows are at the
\* same server at once: connectToServer deletes what it finds over several awaits
\* and adds its entry later (McpHub.ts:652-902).
OneConnection ==
    \A s \in Servers \ crossed : /\ \A c, d \in ConnsOf(s) : c = d
                                 /\ s \notin left

Settled == Idle /\ ~timer /\ readable

\* Once the reload of the file has run, the entry of a server that no two flows
\* were at has the configuration the file gives it, and there is none for another
\* one, whatever was clicked on the way; no tool call reaches a server that is
\* disabled, or any while MCP is off (callTool looks at the entry only,
\* McpHub.ts:2048-2056), and no watcher restarts one.
SettledMatchesFile ==
    Settled => \A s \in Servers \ crossed :
        /\ \A c \in ConnsOf(s) : c.config = file[s]
        /\ file[s] # Absent => ConnsOf(s) # {}
        /\ (~mcpEnabled \/ file[s] = Absent \/ file[s].disabled) =>
              /\ \A c \in ConnsOf(s) : c.type # "connected"
              /\ s \notin fileWatchers

\* The flag that makes refreshes return early is cleared again, unless the file
\* stays unreadable: a restart that throws leaves it to the next reload
\* (McpHub.ts:1583-1621).  Flows that overlap may clear it for each other.
FlagClears == isConnecting ~> (~isConnecting \/ ~readable)
=============================================================================

---------------------------- MODULE McpHubProofs ----------------------------
(***************************************************************************)
(* Theorems about McpHub, for any servers, any number of flows, of clicks  *)
(* and of edits of the settings file: a server that no two flows are at at *)
(* once has one entry, none of its transports is left running, and when    *)
(* the hub is at rest it is connected as the file says.                    *)
(***************************************************************************)
EXTENDS McpHub, TLAPS

FileOK == /\ file \in [Servers -> Entries]
          /\ readable \in BOOLEAN /\ mcpEnabled \in BOOLEAN
          /\ isConnecting \in BOOLEAN /\ timer \in BOOLEAN
          /\ fileWatchers \subseteq Servers
          /\ left \subseteq Servers /\ crossed \subseteq Servers
          /\ clicks \in 0..Budget

FlowOK == /\ flow \in [Flows -> FlowStates]
          /\ wanted \in [Flows -> [Servers -> Entries]]
          /\ step \in [Flows -> [Servers -> Steps]]
          /\ mine \in [Flows -> [Servers -> Ids \union {0}]]

\* An entry that connects something is that of a server that is enabled.
ConnsInv == /\ conns \subseteq Conns
            /\ \A c \in conns : /\ c.up => c.type = "connected"
                                /\ c.type = "connected" => ~c.config.disabled

\* A flow is at a server only while it deletes or connects, and connects a
\* server with a configuration it has.
StepInv == \A f \in Flows, s \in Servers :
              /\ step[f][s] # "none" => flow[f].at \in {"clear", "remove", "connect"}
              /\ step[f][s] \in {"ask", "start", "handshake"} => wanted[f][s] \in Configs
              /\ step[f][s] \in {"start", "handshake"} => ~wanted[f][s].disabled

\* A restart that is announced is one of the server whose entry it found.
AnnounceInv == \A f \in Flows : flow[f].at = "announce" =>
                  /\ flow[f].for \in Servers /\ wanted[f][flow[f].for] # Absent
                  /\ \A s \in Servers : wanted[f][s] # Absent => s = flow[f].for

IInv == FileOK /\ FlowOK /\ ConnsInv /\ StepInv /\ AnnounceInv

----------------------------------------------------------------------------
(* Types                                                                   *)

LEMMA ClosedConn ==
    ASSUME NEW c \in Conns
    PROVE  Closed(c) \in Conns /\ Closed(c).name = c.name /\ Closed(c).id = c.id
           /\ Closed(c).config = c.config /\ Closed(c).type = c.type /\ ~Closed(c).up
BY DEF Closed, Conns

LEMMA PlaceholderConn ==
    ASSUME FlowOK, NEW f \in Flows, NEW s \in Servers, wanted[f][s] \in Configs, NEW id \in Ids,
           NEW type \in {"disconnected", "needs-auth"}
    PROVE  LET n == Placeholder(id, f, s, type)
           IN  n \in Conns /\ n.name = s /\ n.config = wanted[f][s] /\ ~n.up /\ n.type = type
BY DEF Placeholder, Conns, Types, Statuses, Configs

\* A flow begins or goes on; the others stay as they are.
LEMMA BeginIs ==
    ASSUME FlowOK, NEW f \in Flows, NEW kind \in FlowKinds, NEW at \in Places \ {"announce"},
           NEW s \in Servers \union {Absent}, Begin(f, kind, at, s)
    PROVE  /\ flow' \in [Flows -> FlowStates]
           /\ flow[f] = NoFlow /\ flow[f].at = "none"
           /\ flow'[f].at = at /\ flow'[f].kind = kind
           /\ \A g \in Flows : g # f => flow'[g] = flow[g]
BY DEF FlowOK, Begin, FlowStates, NoFlow

LEMMA GoIs ==
    ASSUME FlowOK, NEW f \in Flows, NEW at \in Places, Go(f, at), flow[f].at # "none"
    PROVE  /\ flow' \in [Flows -> FlowStates]
           /\ flow'[f].at = at /\ flow'[f].kind = flow[f].kind /\ flow'[f].for = flow[f].for
           /\ \A g \in Flows : g # f => flow'[g] = flow[g]
<1>1. flow[f] \in [kind : FlowKinds, at : Places, for : Servers \union {Absent}]
  BY DEF FlowOK, FlowStates, NoFlow
<1> QED
  BY <1>1 DEF FlowOK, Go, FlowStates

LEMMA FinishIs ==
    ASSUME FlowOK, NEW f \in Flows, Finish(f)
    PROVE  /\ flow' \in [Flows -> FlowStates]
           /\ flow'[f].at = "none"
           /\ wanted' \in [Flows -> [Servers -> Entries]]
           /\ \A g \in Flows : g # f => flow'[g] = flow[g] /\ wanted'[g] = wanted[g]
BY DEF FlowOK, Finish, Forget, FlowStates, NoFlow, Nothing, Entries

LEMMA AtIs ==
    ASSUME FlowOK, NEW f \in Flows, NEW s \in Servers, NEW at \in Steps, At(f, s, at)
    PROVE  /\ step' \in [Flows -> [Servers -> Steps]]
           /\ step'[f][s] = at
           /\ \A g \in Flows, t \in Servers : (g # f \/ t # s) => step'[g][t] = step[g][t]
BY DEF FlowOK, At

LEMMA DeletedIs ==
    ASSUME FlowOK, NEW f \in Flows, NEW s \in Servers, Deleted(f, s)
    PROVE  /\ step' \in [Flows -> [Servers -> Steps]]
           /\ step'[f][s] = IF wanted[f][s] = Absent THEN "none" ELSE "ask"
           /\ \A g \in Flows, t \in Servers : (g # f \/ t # s) => step'[g][t] = step[g][t]
<1>1. PICK at \in Steps : at = IF wanted[f][s] = Absent THEN "none" ELSE "ask"
  BY DEF Steps
<1>2. At(f, s, at)
  BY <1>1 DEF Deleted
<1> QED
  BY <1>1, <1>2, AtIs

LEMMA OpenIs ==
    ASSUME FlowOK, NEW f \in Flows, NEW S, step' = [step EXCEPT ![f] = Open(S)]
    PROVE  /\ step' \in [Flows -> [Servers -> Steps]]
           /\ \A t \in Servers : step'[f][t] = IF t \in S THEN "open" ELSE "none"
           /\ \A g \in Flows : g # f => step'[g] = step[g]
BY DEF FlowOK, Open, Steps

\* wanted after a flow takes what it means to connect.
LEMMA WantedIs ==
    ASSUME FlowOK, NEW f \in Flows, NEW new \in [Servers -> Entries], wanted' = [wanted EXCEPT ![f] = new]
    PROVE  /\ wanted' \in [Flows -> [Servers -> Entries]]
           /\ wanted'[f] = new
           /\ \A g \in Flows : g # f => wanted'[g] = wanted[g]
BY DEF FlowOK

LEMMA NothingIs == Nothing \in [Servers -> Entries] /\ \A s \in Servers : Nothing[s] = Absent
BY DEF Nothing, Entries

LEMMA OnlyIs ==
    ASSUME NEW s \in Servers, NEW e \in Entries
    PROVE  LET new == [Nothing EXCEPT ![s] = e]
           IN  /\ new \in [Servers -> Entries]
               /\ new[s] = e /\ \A t \in Servers : t # s => new[t] = Absent
BY DEF Nothing, Entries

----------------------------------------------------------------------------
(* Every step keeps the types and how flows and steps go together.         *)

\* A flow that is not at any server: its step, and what it wants, may change.
LEMMA FlowMoves ==
    ASSUME StepInv, AnnounceInv, NEW f \in Flows,
           \A g \in Flows : g # f => /\ flow'[g] = flow[g] /\ wanted'[g] = wanted[g]
                                     /\ step'[g] = step[g],
           \A t \in Servers : \/ step'[f][t] = "none"
                              \/ step'[f][t] = "open" /\ flow'[f].at \in {"clear", "remove", "connect"},
           flow'[f].at = "announce" =>
                  /\ flow'[f].for \in Servers /\ wanted'[f][flow'[f].for] # Absent
                  /\ \A s \in Servers : wanted'[f][s] # Absent => s = flow'[f].for
    PROVE  StepInv' /\ AnnounceInv'
<1>1. \A g \in Flows, t \in Servers : g # f => step'[g][t] = step[g][t] /\ wanted'[g][t] = wanted[g][t]
  OBVIOUS
<1>2. StepInv'
  BY <1>1 DEF StepInv
<1>3. AnnounceInv'
  BY <1>1 DEF AnnounceInv
<1> QED
  BY <1>2, <1>3

\* A flow that is not deleting or connecting is at no server.
LEMMA NoSteps ==
    ASSUME StepInv, NEW f \in Flows, flow[f].at \notin {"clear", "remove", "connect"} \/ Quiet(f)
    PROVE  \A t \in Servers : step[f][t] = "none"
BY DEF StepInv, Quiet, NoStep

\* A step at one server.
LEMMA StepMoves ==
    ASSUME StepInv, AnnounceInv, FlowOK, NEW f \in Flows, NEW s \in Servers, step[f][s] # "none",
           UNCHANGED <<flow, wanted>>,
           \A g \in Flows, t \in Servers : (g # f \/ t # s) => step'[g][t] = step[g][t],
           step'[f][s] \in {"ask", "start", "handshake"} => wanted[f][s] \in Configs,
           step'[f][s] \in {"start", "handshake"} => ~wanted[f][s].disabled
    PROVE  StepInv' /\ AnnounceInv'
BY DEF StepInv, AnnounceInv

LEMMA DeleteTypes ==
    ASSUME IInv, NEW f \in Flows, NEW s \in Servers, DeleteConnection(f, s)
    PROVE  IInv'
<1>1. FileOK /\ FlowOK /\ ConnsInv /\ StepInv /\ AnnounceInv /\ step[f][s] = "open"
      /\ UNCHANGED <<settings, isConnecting, timer, flow, wanted, mine, history, clicks>>
      /\ fileWatchers' = fileWatchers \ {s}
  BY DEF IInv, DeleteConnection
<1>2. FileOK'
  BY <1>1 DEF FileOK, settings, history
<1>3. CASE /\ conns' = (conns \ ConnsOf(s)) \union {Closed(c) : c \in ConnsOf(s)}
           /\ At(f, s, "shut")
  <2>1. \A c \in conns' : c \in conns \/ \E d \in conns : c = Closed(d)
    BY <1>3 DEF ConnsOf
  <2>2. ConnsInv'
    BY <1>1, <2>1, ClosedConn DEF ConnsInv
  <2>3. /\ step' \in [Flows -> [Servers -> Steps]] /\ step'[f][s] = "shut"
        /\ \A g \in Flows, t \in Servers : (g # f \/ t # s) => step'[g][t] = step[g][t]
    BY <1>1, <1>3, AtIs DEF Steps
  <2>4. StepInv' /\ AnnounceInv'
    BY <1>1, <2>3, StepMoves
  <2> QED
    BY <1>1, <1>2, <2>2, <2>3, <2>4 DEF IInv, FlowOK
<1>4. CASE conns' = conns \ ConnsOf(s) /\ Deleted(f, s)
  <2>1. ConnsInv'
    BY <1>1, <1>4 DEF ConnsInv
  <2>2. /\ step' \in [Flows -> [Servers -> Steps]]
        /\ step'[f][s] = IF wanted[f][s] = Absent THEN "none" ELSE "ask"
        /\ \A g \in Flows, t \in Servers : (g # f \/ t # s) => step'[g][t] = step[g][t]
    BY <1>1, <1>4, DeletedIs
  <2>3. wanted[f][s] # Absent => wanted[f][s] \in Configs
    BY <1>1 DEF FlowOK, Entries
  <2>4. StepInv' /\ AnnounceInv'
    BY <1>1, <2>2, <2>3, StepMoves
  <2> QED
    BY <1>1, <1>2, <2>1, <2>2, <2>4 DEF IInv, FlowOK
<1> QED
  BY <1>3, <1>4 DEF DeleteConnection

LEMMA RemoveTypes ==
    ASSUME IInv, NEW f \in Flows, NEW s \in Servers, RemoveEntries(f, s)
    PROVE  IInv'
<1>1. FileOK /\ FlowOK /\ ConnsInv /\ StepInv /\ AnnounceInv /\ step[f][s] = "shut"
      /\ UNCHANGED <<settings, isConnecting, fileWatchers, timer, flow, wanted, mine, crossed, clicks>>
      /\ conns' = conns \ ConnsOf(s) /\ Deleted(f, s)
      /\ (left' = left \union {s} \/ left' = left)
  BY DEF IInv, RemoveEntries
<1>2. FileOK' /\ ConnsInv'
  BY <1>1 DEF FileOK, settings, ConnsInv
<1>3. /\ step' \in [Flows -> [Servers -> Steps]]
      /\ step'[f][s] = IF wanted[f][s] = Absent THEN "none" ELSE "ask"
      /\ \A g \in Flows, t \in Servers : (g # f \/ t # s) => step'[g][t] = step[g][t]
  BY <1>1, DeletedIs
<1>4. wanted[f][s] # Absent => wanted[f][s] \in Configs
  BY <1>1 DEF FlowOK, Entries
<1>5. StepInv' /\ AnnounceInv'
  BY <1>1, <1>3, <1>4, StepMoves
<1> QED
  BY <1>1, <1>2, <1>3, <1>5 DEF IInv, FlowOK

LEMMA OpenTypes ==
    ASSUME IInv, NEW f \in Flows, NEW s \in Servers, OpenConnection(f, s)
    PROVE  IInv'
<1>1. FileOK /\ FlowOK /\ ConnsInv /\ StepInv /\ AnnounceInv /\ step[f][s] = "ask"
      /\ UNCHANGED <<settings, isConnecting, timer, flow, wanted, mine, history, clicks>>
      /\ wanted[f][s] \in Configs
  BY DEF IInv, OpenConnection, StepInv
<1>2. CASE /\ \E id \in Ids : conns' = conns \union {Placeholder(id, f, s, "disconnected")}
           /\ At(f, s, "none")
           /\ UNCHANGED fileWatchers
  <2>1. PICK id \in Ids : conns' = conns \union {Placeholder(id, f, s, "disconnected")}
    BY <1>2
  <2>2. LET n == Placeholder(id, f, s, "disconnected")
        IN  n \in Conns /\ n.name = s /\ n.config = wanted[f][s] /\ ~n.up /\ n.type = "disconnected"
    BY <1>1, PlaceholderConn
  <2>3. ConnsInv'
    BY <1>1, <2>1, <2>2 DEF ConnsInv
  <2>4. /\ step' \in [Flows -> [Servers -> Steps]] /\ step'[f][s] = "none"
        /\ \A g \in Flows, t \in Servers : (g # f \/ t # s) => step'[g][t] = step[g][t]
    BY <1>1, <1>2, AtIs DEF Steps
  <2>5. StepInv' /\ AnnounceInv'
    BY <1>1, <2>4, StepMoves
  <2>6. FileOK'
    BY <1>1, <1>2 DEF FileOK, settings, history
  <2> QED
    BY <1>1, <2>3, <2>4, <2>5, <2>6 DEF IInv, FlowOK
<1>3. CASE /\ ~wanted[f][s].disabled
           /\ fileWatchers' = fileWatchers \union {s} /\ At(f, s, "start") /\ UNCHANGED conns
  <2>1. /\ step' \in [Flows -> [Servers -> Steps]] /\ step'[f][s] = "start"
        /\ \A g \in Flows, t \in Servers : (g # f \/ t # s) => step'[g][t] = step[g][t]
    BY <1>1, <1>3, AtIs DEF Steps
  <2>2. StepInv' /\ AnnounceInv'
    BY <1>1, <1>3, <2>1, StepMoves
  <2>3. FileOK' /\ ConnsInv'
    BY <1>1, <1>3 DEF FileOK, settings, history, ConnsInv
  <2> QED
    BY <1>1, <2>1, <2>2, <2>3 DEF IInv, FlowOK
<1> QED
  BY <1>2, <1>3 DEF OpenConnection

\* What the catch block leaves.
LEMMA FailsConns ==
    ASSUME FlowOK, NEW f \in Flows, NEW s \in Servers, wanted[f][s] \in Configs,
           NEW rest, rest \subseteq Conns, Fails(f, s, rest)
    PROVE  \/ \E c \in rest : \E n \in Conns :
                 /\ c.name = s /\ conns' = (rest \ {c}) \union {n}
                 /\ n.name = s /\ n.id = c.id /\ n.config = c.config /\ n.up = c.up /\ n.type = c.type
           \/ /\ \A c \in rest : c.name # s
              /\ \E n \in Conns : /\ conns' = rest \union {n} /\ n.name = s
                                  /\ n.config = wanted[f][s] /\ ~n.up /\ n.type # "connected"
<1>1. PICK status \in {"disconnected", "needs-auth"} :
         IF \E c \in rest : c.name = s
         THEN \E c \in rest : /\ c.name = s /\ \A d \in rest : d.name = s => c.id <= d.id
                              /\ conns' = (rest \ {c}) \union {[c EXCEPT !.status = status]}
         ELSE \E id \in Ids : Fresh(s, id) /\ conns' = rest \union {Placeholder(id, f, s, status)}
  BY DEF Fails
<1>2. CASE \E c \in rest : c.name = s
  <2>1. PICK c \in rest : c.name = s /\ conns' = (rest \ {c}) \union {[c EXCEPT !.status = status]}
    BY <1>1, <1>2
  <2>2. PICK n : n = [c EXCEPT !.status = status]
    OBVIOUS
  <2>3. /\ n \in Conns /\ n.name = s /\ n.id = c.id /\ n.config = c.config
        /\ n.up = c.up /\ n.type = c.type
    BY <2>1, <2>2 DEF Conns, Statuses
  <2> QED
    BY <2>1, <2>2, <2>3
<1>3. CASE ~\E c \in rest : c.name = s
  <2>1. PICK id \in Ids : conns' = rest \union {Placeholder(id, f, s, status)}
    BY <1>1, <1>3
  <2>2. PICK n : n = Placeholder(id, f, s, status)
    OBVIOUS
  <2>3. n \in Conns /\ n.name = s /\ n.config = wanted[f][s] /\ ~n.up /\ n.type # "connected"
    BY <2>2, PlaceholderConn
  <2> QED
    BY <1>3, <2>1, <2>2, <2>3
<1> QED
  BY <1>2, <1>3

LEMMA FailsKeeps ==
    ASSUME FlowOK, NEW f \in Flows, NEW s \in Servers, wanted[f][s] \in Configs,
           NEW rest, rest \subseteq Conns, Fails(f, s, rest),
           \A c \in rest : /\ c.up => c.type = "connected"
                           /\ c.type = "connected" => ~c.config.disabled
    PROVE  ConnsInv'
BY FailsConns DEF ConnsInv

LEMMA StartTypes ==
    ASSUME IInv, NEW f \in Flows, NEW s \in Servers, StartTransport(f, s)
    PROVE  IInv'
<1>1. FileOK /\ FlowOK /\ ConnsInv /\ StepInv /\ AnnounceInv /\ step[f][s] = "start"
      /\ UNCHANGED <<settings, isConnecting, fileWatchers, timer, flow, wanted, history, clicks>>
      /\ wanted[f][s] \in Configs /\ ~wanted[f][s].disabled
  BY DEF IInv, StartTransport, StepInv
<1>2. FileOK'
  BY <1>1 DEF FileOK, settings, history
<1>3. ASSUME NEW id \in Ids, At(f, s, "handshake"), mine' = [mine EXCEPT ![f][s] = id],
             conns' = conns \union {[id |-> id, name |-> s, type |-> "connected",
                      status |-> "connecting", config |-> wanted[f][s],
                      disabled |-> wanted[f][s].disabled, up |-> TRUE]}
      PROVE  IInv'
  <2>1. PICK n : n = [id |-> id, name |-> s, type |-> "connected", status |-> "connecting",
                      config |-> wanted[f][s], disabled |-> wanted[f][s].disabled, up |-> TRUE]
    OBVIOUS
  <2>2. n \in Conns /\ n.type = "connected" /\ n.config = wanted[f][s]
    BY <1>1, <2>1 DEF Conns, Types, Statuses, Configs
  <2>3. ConnsInv'
    BY <1>1, <1>3, <2>1, <2>2 DEF ConnsInv
  <2>4. /\ step' \in [Flows -> [Servers -> Steps]] /\ step'[f][s] = "handshake"
        /\ \A g \in Flows, t \in Servers : (g # f \/ t # s) => step'[g][t] = step[g][t]
    BY <1>1, <1>3, AtIs DEF Steps
  <2>5. StepInv' /\ AnnounceInv'
    BY <1>1, <2>4, StepMoves
  <2>6. mine' \in [Flows -> [Servers -> Ids \union {0}]]
    BY <1>1, <1>3 DEF FlowOK
  <2> QED
    BY <1>1, <1>2, <2>3, <2>4, <2>5, <2>6 DEF IInv, FlowOK
<1>4. CASE Fails(f, s, conns) /\ At(f, s, "none") /\ UNCHANGED mine
  <2>1. ConnsInv'
    BY <1>1, <1>4, FailsKeeps DEF ConnsInv
  <2>2. /\ step' \in [Flows -> [Servers -> Steps]] /\ step'[f][s] = "none"
        /\ \A g \in Flows, t \in Servers : (g # f \/ t # s) => step'[g][t] = step[g][t]
    BY <1>1, <1>4, AtIs DEF Steps
  <2>3. StepInv' /\ AnnounceInv'
    BY <1>1, <2>2, StepMoves
  <2> QED
    BY <1>1, <1>2, <1>4, <2>1, <2>2, <2>3 DEF IInv, FlowOK
<1> QED
  BY <1>3, <1>4 DEF StartTransport

\* The entries once the transport of a flow is closed.
Downs(f, s) == (conns \ Mine(f, s)) \union {Closed(c) : c \in Mine(f, s)}

LEMMA DownsConns ==
    ASSUME ConnsInv, NEW f, NEW s
    PROVE  /\ Downs(f, s) \subseteq Conns
           /\ \A c \in Downs(f, s) : /\ c.up => c.type = "connected"
                                     /\ c.type = "connected" => ~c.config.disabled
<1>1. \A c \in Downs(f, s) : c \in conns \/ \E d \in conns : c = Closed(d)
  BY DEF Downs, Mine, ConnsOf
<1> QED
  BY <1>1, ClosedConn DEF ConnsInv

LEMMA HandshakeTypes ==
    ASSUME IInv, NEW f \in Flows, NEW s \in Servers, Handshake(f, s)
    PROVE  IInv'
<1>1. FileOK /\ FlowOK /\ ConnsInv /\ StepInv /\ AnnounceInv /\ step[f][s] = "handshake"
      /\ UNCHANGED <<settings, isConnecting, fileWatchers, timer, flow, wanted, crossed, clicks>>
      /\ wanted[f][s] \in Configs /\ At(f, s, "none") /\ mine' = [mine EXCEPT ![f][s] = 0]
      /\ (left' = left \union {s} \/ left' = left)
  BY DEF IInv, Handshake, StepInv
<1>2. FileOK'
  BY <1>1 DEF FileOK, settings
<1>3. ConnsInv'
  <2>1. CASE conns' = (conns \ Mine(f, s)) \union {[c EXCEPT !.status = "connected"] : c \in Mine(f, s)}
    <3>1. \A c \in conns' : c \in conns \/ \E d \in conns : c = [d EXCEPT !.status = "connected"]
      BY <2>1 DEF Mine, ConnsOf
    <3>2. ASSUME NEW d \in Conns, NEW c, c = [d EXCEPT !.status = "connected"]
          PROVE  c \in Conns /\ (c.up => d.up) /\ c.type = d.type /\ c.config = d.config
      BY <3>2 DEF Conns, Statuses
    <3>3. conns \subseteq Conns
          /\ \A d \in conns : (d.up => d.type = "connected") /\ (d.type = "connected" => ~d.config.disabled)
      BY <1>1 DEF ConnsInv
    <3>4. ASSUME NEW c \in conns'
          PROVE  c \in Conns /\ (c.up => c.type = "connected")
                 /\ (c.type = "connected" => ~c.config.disabled)
      <4>1. PICK d \in conns : c = d \/ c = [d EXCEPT !.status = "connected"]
        BY <3>1
      <4>2. d \in Conns
        BY <3>3
      <4>3. /\ c \in Conns /\ (c.up => d.up) /\ c.type = d.type /\ c.config = d.config
        BY <3>2, <4>1, <4>2
      <4>4. (d.up => d.type = "connected") /\ (d.type = "connected" => ~d.config.disabled)
        BY <3>3
      <4>5. c.type = "connected" => ~c.config.disabled
        BY <4>3, <4>4
      <4> QED
        BY <4>3, <4>4, <4>5
    <3> QED
      BY <3>4 DEF ConnsInv
  <2>2. ASSUME NEW rest, rest \subseteq Downs(f, s), Fails(f, s, rest)
        PROVE  ConnsInv'
    BY <1>1, <2>2, DownsConns, FailsKeeps
  <2> QED
    BY <2>1, <2>2 DEF Handshake, Downs
<1>4. /\ step' \in [Flows -> [Servers -> Steps]] /\ step'[f][s] = "none"
      /\ \A g \in Flows, t \in Servers : (g # f \/ t # s) => step'[g][t] = step[g][t]
  BY <1>1, AtIs DEF Steps
<1>5. StepInv' /\ AnnounceInv'
  BY <1>1, <1>4, StepMoves
<1>6. mine' \in [Flows -> [Servers -> Ids \union {0}]]
  BY <1>1 DEF FlowOK
<1> QED
  BY <1>1, <1>2, <1>3, <1>4, <1>5, <1>6 DEF IInv, FlowOK

\* The operations that begin or go on without touching an entry.
LEMMA TimerTypes ==
    ASSUME IInv, NEW f \in Flows, ConfigTimer(f)
    PROVE  IInv'
<1>1. FileOK /\ FlowOK /\ ConnsInv /\ StepInv /\ AnnounceInv
      /\ UNCHANGED <<settings, conns, isConnecting, fileWatchers, wanted, step, mine, history, clicks>>
      /\ timer' = FALSE
  BY DEF IInv, ConfigTimer
<1>2. /\ flow' \in [Flows -> FlowStates] /\ flow[f].at = "none" /\ flow'[f].at = "read"
      /\ \A g \in Flows : g # f => flow'[g] = flow[g]
  <2>1. Begin(f, "config", "read", Absent)
    BY DEF ConfigTimer
  <2> QED
    BY <1>1, <2>1, BeginIs DEF FlowKinds, Places
<1>3. StepInv' /\ AnnounceInv'
  BY <1>1, <1>2, NoSteps, FlowMoves
<1> QED
  BY <1>1, <1>2, <1>3 DEF IInv, FileOK, FlowOK, ConnsInv, settings, history

LEMMA UpdateIs ==
    ASSUME FlowOK, FileOK, NEW f \in Flows, NEW new \in [Servers -> Entries], UpdateServerConnections(f, new)
    PROVE  /\ fileWatchers' = {} /\ crossed' \subseteq Servers /\ crossed \subseteq crossed'
           /\ \A t \in Servers \ crossed' : \A g \in Flows \ {f} : ~IsAt(g, t)
           /\ wanted' \in [Flows -> [Servers -> Entries]] /\ wanted'[f] = new
           /\ step' \in [Flows -> [Servers -> Steps]]
           /\ \A g \in Flows : g # f => step'[g] = step[g] /\ wanted'[g] = wanted[g]
           /\ AfterUpdate(new) \in {"remove", "connect"}
           /\ \A t \in Servers :
                 \/ step'[f][t] = "open"
                 \/ /\ step'[f][t] = "none"
                    /\ \/ new[t] = Absent /\ ConnsOf(t) = {}
                       \/ new[t] # Absent /\ AfterUpdate(new) = "remove"
                       \/ \E c \in ConnsOf(t) : IsFirst(c) /\ c.config = new[t]
<1> DEFINE removed == {s \in Servers : new[s] = Absent /\ ConnsOf(s) # {}}
           S == IF removed = {} THEN Changed(new) ELSE removed
<1>1. step' = [step EXCEPT ![f] = Open(S)] /\ wanted' = [wanted EXCEPT ![f] = new]
      /\ fileWatchers' = {} /\ crossed' = crossed \union Crossing(f, Servers)
  BY DEF UpdateServerConnections
<1>2. AfterUpdate(new) = IF removed = {} THEN "connect" ELSE "remove"
  BY DEF AfterUpdate
<1>3. /\ step' \in [Flows -> [Servers -> Steps]]
      /\ \A t \in Servers : step'[f][t] = IF t \in S THEN "open" ELSE "none"
      /\ \A g \in Flows : g # f => step'[g] = step[g]
  <2> HIDE DEF S
  <2> QED
    BY <1>1, OpenIs
<1>4. ASSUME NEW t \in Servers, t \notin S
      PROVE  \/ new[t] = Absent /\ ConnsOf(t) = {}
             \/ new[t] # Absent /\ AfterUpdate(new) = "remove"
             \/ \E c \in ConnsOf(t) : IsFirst(c) /\ c.config = new[t]
  <2>1. CASE removed = {}
    <3>1. t \notin Changed(new) /\ (new[t] = Absent => ConnsOf(t) = {})
      BY <1>4, <2>1
    <3> QED
      BY <3>1 DEF Changed
  <2>2. CASE removed # {}
    BY <1>2, <1>4, <2>2
  <2> QED
    BY <2>1, <2>2
<1>5. crossed' \subseteq Servers /\ \A t \in Servers \ crossed' : \A g \in Flows \ {f} : ~IsAt(g, t)
  <2>1. crossed' = crossed \union Crossing(f, Servers) /\ crossed \subseteq Servers
    BY <1>1 DEF FileOK
  <2> QED
    BY <2>1 DEF Crossing
<1>6. /\ wanted' \in [Flows -> [Servers -> Entries]] /\ wanted'[f] = new
      /\ \A g \in Flows : g # f => wanted'[g] = wanted[g]
  BY <1>1, WantedIs
<1>7. \A t \in Servers :
         \/ step'[f][t] = "open"
         \/ /\ step'[f][t] = "none"
            /\ \/ new[t] = Absent /\ ConnsOf(t) = {}
               \/ new[t] # Absent /\ AfterUpdate(new) = "remove"
               \/ \E c \in ConnsOf(t) : IsFirst(c) /\ c.config = new[t]
  <2> HIDE DEF S
  <2> QED
    BY <1>3, <1>4
<1>8. AfterUpdate(new) \in {"remove", "connect"}
  BY <1>2
<1> QED
  BY <1>1, <1>3, <1>5, <1>6, <1>7, <1>8

LEMMA ReadTypes ==
    ASSUME IInv, NEW f \in Flows, ReadSettings(f)
    PROVE  IInv'
<1>1. FileOK /\ FlowOK /\ ConnsInv /\ StepInv /\ AnnounceInv
      /\ UNCHANGED <<settings, conns, timer, mine, left, clicks>>
      /\ flow[f].at = "read"
  BY DEF IInv, ReadSettings
<1>2. file \in [Servers -> Entries] /\ \A t \in Servers : step[f][t] = "none"
  BY <1>1, NoSteps DEF FileOK
<1>3. CASE /\ UpdateServerConnections(f, file) /\ Go(f, AfterUpdate(file))
           /\ isConnecting' = (isConnecting \/ flow[f].kind = "config")
  <2>1. /\ fileWatchers' = {} /\ crossed' \subseteq Servers
        /\ wanted' \in [Flows -> [Servers -> Entries]] /\ step' \in [Flows -> [Servers -> Steps]]
        /\ \A g \in Flows : g # f => step'[g] = step[g] /\ wanted'[g] = wanted[g]
        /\ AfterUpdate(file) \in {"remove", "connect"}
        /\ \A t \in Servers : step'[f][t] \in {"open", "none"}
    BY <1>1, <1>2, <1>3, UpdateIs
  <2>2. PICK at \in {"remove", "connect"} : at = AfterUpdate(file)
    BY <2>1
  <2>3. /\ flow' \in [Flows -> FlowStates] /\ flow'[f].at = at
        /\ \A g \in Flows : g # f => flow'[g] = flow[g]
    BY <1>1, <1>3, <2>2, GoIs DEF Places
  <2>4. StepInv' /\ AnnounceInv'
    BY <1>1, <2>1, <2>2, <2>3, FlowMoves
  <2>5. FileOK'
    BY <1>1, <1>3, <2>1 DEF FileOK, settings
  <2> QED
    BY <1>1, <2>1, <2>3, <2>4, <2>5 DEF IInv, FlowOK, ConnsInv
<1>4. CASE /\ (Go(f, "notify") /\ Forget(f)) \/ Finish(f)
           /\ UNCHANGED <<fileWatchers, step, crossed, isConnecting>>
  <2>1. /\ flow' \in [Flows -> FlowStates] /\ flow'[f].at \in {"notify", "none"}
        /\ wanted' \in [Flows -> [Servers -> Entries]]
        /\ \A g \in Flows : g # f => flow'[g] = flow[g] /\ wanted'[g] = wanted[g]
    <3>1. CASE Go(f, "notify") /\ Forget(f)
      BY <1>1, <3>1, GoIs, WantedIs, NothingIs DEF Forget, Places
    <3> QED
      BY <1>1, <1>4, <3>1, FinishIs
  <2>2. StepInv' /\ AnnounceInv'
    BY <1>1, <1>2, <1>4, <2>1, FlowMoves
  <2> QED
    BY <1>1, <1>4, <2>1, <2>2 DEF IInv, FileOK, FlowOK, ConnsInv, settings
<1> QED
  BY <1>3, <1>4 DEF ReadSettings

LEMMA RemovedTypes ==
    ASSUME IInv, NEW f \in Flows, Removed(f)
    PROVE  IInv'
<1>1. FileOK /\ FlowOK /\ ConnsInv /\ StepInv /\ AnnounceInv
      /\ UNCHANGED <<settings, conns, isConnecting, fileWatchers, timer, wanted, mine, history, clicks>>
      /\ flow[f].at = "remove" /\ Go(f, "connect")
      /\ step' = [step EXCEPT ![f] = Open(Changed(wanted[f]))]
  BY DEF IInv, Removed
<1>2. /\ flow' \in [Flows -> FlowStates] /\ flow'[f].at = "connect"
      /\ \A g \in Flows : g # f => flow'[g] = flow[g]
  BY <1>1, GoIs DEF Places
<1>3. PICK S : S = Changed(wanted[f])
  OBVIOUS
<1>4. /\ step' \in [Flows -> [Servers -> Steps]]
      /\ \A t \in Servers : step'[f][t] \in {"open", "none"}
      /\ \A g \in Flows : g # f => step'[g] = step[g]
  BY <1>1, <1>3, OpenIs
<1>5. StepInv' /\ AnnounceInv'
  BY <1>1, <1>2, <1>4, FlowMoves
<1> QED
  BY <1>1, <1>2, <1>4, <1>5 DEF IInv, FileOK, FlowOK, ConnsInv, settings, history

LEMMA ConnectedTypes ==
    ASSUME IInv, NEW f \in Flows, Connected(f) \/ Notify(f)
    PROVE  IInv'
<1>1. FileOK /\ FlowOK /\ ConnsInv /\ StepInv /\ AnnounceInv
      /\ UNCHANGED <<settings, conns, fileWatchers, timer, step, mine, history, clicks>>
      /\ isConnecting' \in BOOLEAN
  BY DEF IInv, Connected, Notify, FileOK
<1>2. \A t \in Servers : step[f][t] = "none"
  BY <1>1, NoSteps DEF Connected, Notify
<1>3. /\ flow' \in [Flows -> FlowStates] /\ flow'[f].at \in {"notify", "none"}
      /\ wanted' \in [Flows -> [Servers -> Entries]]
      /\ \A g \in Flows : g # f => flow'[g] = flow[g] /\ wanted'[g] = wanted[g]
  <2>1. CASE Connected(f)
    BY <1>1, <2>1, GoIs, WantedIs, NothingIs DEF Connected, Forget, Places
  <2>2. CASE Notify(f)
    BY <1>1, <2>2, FinishIs DEF Notify
  <2> QED
    BY <2>1, <2>2
<1>4. StepInv' /\ AnnounceInv'
  BY <1>1, <1>2, <1>3, FlowMoves
<1> QED
  BY <1>1, <1>3, <1>4 DEF IInv, FileOK, FlowOK, ConnsInv, settings, history

LEMMA ClearIs ==
    ASSUME FlowOK, FileOK, NEW f \in Flows, Clear(f)
    PROVE  /\ wanted' \in [Flows -> [Servers -> Entries]] /\ wanted'[f] = Nothing
           /\ step' \in [Flows -> [Servers -> Steps]]
           /\ \A t \in Servers : step'[f][t] = IF ConnsOf(t) # {} THEN "open" ELSE "none"
           /\ \A g \in Flows : g # f => step'[g] = step[g] /\ wanted'[g] = wanted[g]
           /\ crossed' \subseteq Servers /\ crossed \subseteq crossed'
           /\ \A t \in Servers \ crossed' : \A g \in Flows \ {f} : ~IsAt(g, t)
<1>1. PICK S : S = {s \in Servers : ConnsOf(s) # {}}
  OBVIOUS
<1>2. step' = [step EXCEPT ![f] = Open(S)] /\ wanted' = [wanted EXCEPT ![f] = Nothing]
      /\ crossed' = crossed \union Crossing(f, Servers) /\ crossed \subseteq Servers
  BY <1>1 DEF Clear, FileOK
<1>3. /\ step' \in [Flows -> [Servers -> Steps]]
      /\ \A t \in Servers : step'[f][t] = IF t \in S THEN "open" ELSE "none"
      /\ \A g \in Flows : g # f => step'[g] = step[g]
  BY <1>2, OpenIs
<1>4. /\ wanted' \in [Flows -> [Servers -> Entries]] /\ wanted'[f] = Nothing
      /\ \A g \in Flows : g # f => wanted'[g] = wanted[g]
  BY <1>2, WantedIs, NothingIs
<1>5. crossed' \subseteq Servers /\ \A t \in Servers \ crossed' : \A g \in Flows \ {f} : ~IsAt(g, t)
  BY <1>2 DEF Crossing
<1> QED
  BY <1>1, <1>2, <1>3, <1>4, <1>5

LEMMA RefreshGoesTypes ==
    ASSUME IInv, NEW f \in Flows, RefreshGoes(f)
    PROVE  IInv'
<1>1. FileOK /\ FlowOK /\ ConnsInv /\ StepInv /\ AnnounceInv
      /\ UNCHANGED <<settings, conns, fileWatchers, timer, mine, left, clicks>>
      /\ flow[f].at = "ask" /\ Clear(f) /\ isConnecting' = (isConnecting \/ mcpEnabled)
  BY DEF IInv, RefreshGoes
<1>2. /\ flow' \in [Flows -> FlowStates] /\ flow'[f].at = "clear"
      /\ \A g \in Flows : g # f => flow'[g] = flow[g]
  <2>1. PICK kind \in {"refresh", "refreshOff"} :
           flow' = [flow EXCEPT ![f].kind = kind, ![f].at = "clear"]
    BY DEF RefreshGoes
  <2>2. flow[f] \in [kind : FlowKinds, at : Places, for : Servers \union {Absent}]
    BY <1>1 DEF FlowOK, FlowStates, NoFlow
  <2> QED
    BY <1>1, <2>1, <2>2 DEF FlowOK, FlowStates, FlowKinds, Places
<1>3. /\ wanted' \in [Flows -> [Servers -> Entries]] /\ step' \in [Flows -> [Servers -> Steps]]
      /\ \A t \in Servers : step'[f][t] \in {"open", "none"}
      /\ \A g \in Flows : g # f => step'[g] = step[g] /\ wanted'[g] = wanted[g]
      /\ crossed' \subseteq Servers
  BY <1>1, ClearIs
<1>4. StepInv' /\ AnnounceInv'
  BY <1>1, <1>2, <1>3, FlowMoves
<1>5. FileOK'
  BY <1>1, <1>3 DEF FileOK, settings
<1> QED
  BY <1>1, <1>2, <1>3, <1>4, <1>5 DEF IInv, FlowOK, ConnsInv

LEMMA ClearedTypes ==
    ASSUME IInv, NEW f \in Flows, Cleared(f)
    PROVE  IInv'
<1>1. FileOK /\ FlowOK /\ ConnsInv /\ StepInv /\ AnnounceInv
      /\ UNCHANGED <<settings, conns, isConnecting, fileWatchers, timer, step, mine, left, clicks>>
      /\ flow[f].at = "clear" /\ crossed' \in {crossed, Servers}
  BY DEF IInv, Cleared
<1>2. \A t \in Servers : step[f][t] = "none"
  BY <1>1, NoSteps DEF Cleared
<1>3. /\ flow' \in [Flows -> FlowStates] /\ flow'[f].at \in {"read", "none", "ask"}
      /\ wanted' \in [Flows -> [Servers -> Entries]]
      /\ \A g \in Flows : g # f => flow'[g] = flow[g] /\ wanted'[g] = wanted[g]
  <2>1. CASE Go(f, "read") /\ UNCHANGED wanted
    BY <1>1, <2>1, GoIs DEF Places, FlowOK
  <2>2. CASE Finish(f)
    BY <1>1, <2>2, FinishIs
  <2>3. CASE flow' = [flow EXCEPT ![f].kind = "refresh", ![f].at = "ask"] /\ UNCHANGED wanted
    <3>1. flow[f] \in [kind : FlowKinds, at : Places, for : Servers \union {Absent}]
      BY <1>1 DEF FlowOK, FlowStates, NoFlow
    <3> QED
      BY <1>1, <2>3, <3>1 DEF FlowOK, FlowStates, FlowKinds, Places
  <2> QED
    BY <2>1, <2>2, <2>3 DEF Cleared
<1>4. StepInv' /\ AnnounceInv'
  BY <1>1, <1>2, <1>3, FlowMoves
<1>5. FileOK'
  BY <1>1 DEF FileOK, settings
<1> QED
  BY <1>1, <1>3, <1>4, <1>5 DEF IInv, FlowOK, ConnsInv

\* An entry that is replaced by one of the same name, which connects something
\* only if the old one did.
LEMMA ReplaceTypes ==
    ASSUME ConnsInv, NEW c \in conns, NEW n \in Conns, conns' = (conns \ {c}) \union {n},
           n.up => c.up, n.up => n.type = "connected", n.type = "connected" => c.type = "connected",
           n.config = c.config
    PROVE  ConnsInv'
BY DEF ConnsInv

LEMMA RestartGoesTypes ==
    ASSUME IInv, NEW f \in Flows, RestartGoes(f)
    PROVE  IInv'
<1>1. FileOK /\ FlowOK /\ ConnsInv /\ StepInv /\ AnnounceInv
      /\ UNCHANGED <<settings, fileWatchers, timer, step, mine, left, clicks>>
      /\ flow[f].at = "ask"
  BY DEF IInv, RestartGoes
<1>2. \A t \in Servers : step[f][t] = "none"
  BY <1>1, NoSteps
<1>3. CASE Finish(f) /\ isConnecting' = FALSE /\ UNCHANGED <<conns, crossed>>
  <2>1. /\ flow' \in [Flows -> FlowStates] /\ flow'[f].at = "none"
        /\ wanted' \in [Flows -> [Servers -> Entries]]
        /\ \A g \in Flows : g # f => flow'[g] = flow[g] /\ wanted'[g] = wanted[g]
    BY <1>1, <1>3, FinishIs
  <2>2. StepInv' /\ AnnounceInv'
    BY <1>1, <1>2, <2>1, FlowMoves
  <2> QED
    BY <1>1, <1>3, <2>1, <2>2 DEF IInv, FileOK, FlowOK, ConnsInv, settings
<1>4. CASE Go(f, "notify") /\ UNCHANGED <<conns, wanted, crossed, isConnecting>>
  <2>1. /\ flow' \in [Flows -> FlowStates] /\ flow'[f].at = "notify"
        /\ \A g \in Flows : g # f => flow'[g] = flow[g]
    BY <1>1, <1>4, GoIs DEF Places
  <2>2. StepInv' /\ AnnounceInv'
    BY <1>1, <1>2, <1>4, <2>1, FlowMoves
  <2> QED
    BY <1>1, <1>4, <2>1, <2>2 DEF IInv, FileOK, FlowOK, ConnsInv, settings
<1>5. ASSUME NEW s, s = flow[f].for, NEW c \in ConnsOf(s),
             conns' = (conns \ {c}) \union {[c EXCEPT !.status = "connecting"]},
             wanted' = [wanted EXCEPT ![f] = [Nothing EXCEPT ![s] = c.config]],
             crossed' = crossed \union Crossing(f, {s}),
             Go(f, "announce"), UNCHANGED isConnecting
      PROVE  IInv'
  <2>1. /\ c \in conns /\ c \in Conns /\ c.name = s /\ s \in Servers
        /\ c.config \in Configs
    BY <1>1, <1>5 DEF ConnsOf, ConnsInv, Conns
  <2>2. PICK n : n = [c EXCEPT !.status = "connecting"]
    OBVIOUS
  <2>3. n \in Conns /\ n.up = c.up /\ n.type = c.type /\ n.config = c.config
    BY <2>1, <2>2 DEF Conns, Statuses
  <2>4. ConnsInv'
    BY <1>1, <1>5, <2>1, <2>2, <2>3, ReplaceTypes DEF ConnsInv
  <2>5. PICK new : /\ new = [Nothing EXCEPT ![s] = c.config]
                   /\ new \in [Servers -> Entries] /\ new[s] # Absent
                   /\ \A t \in Servers : t # s => new[t] = Absent
    <3>1. PICK e \in Entries : e = c.config /\ e # Absent
      BY <2>1, HubAssumption DEF Entries
    <3>2. PICK new : new = [Nothing EXCEPT ![s] = e]
      OBVIOUS
    <3>3. new \in [Servers -> Entries] /\ new[s] = e /\ \A t \in Servers : t # s => new[t] = Absent
      BY <2>1, <3>2, OnlyIs
    <3> QED
      BY <3>1, <3>2, <3>3
  <2>6. /\ wanted' \in [Flows -> [Servers -> Entries]] /\ wanted'[f] = new
        /\ \A g \in Flows : g # f => wanted'[g] = wanted[g]
    BY <1>1, <1>5, <2>5, WantedIs
  <2>7. /\ flow' \in [Flows -> FlowStates] /\ flow'[f].at = "announce" /\ flow'[f].for = s
        /\ \A g \in Flows : g # f => flow'[g] = flow[g]
    BY <1>1, <1>5, GoIs DEF Places
  <2>8. StepInv' /\ AnnounceInv'
    BY <1>1, <1>2, <2>1, <2>5, <2>6, <2>7, FlowMoves
  <2>9. FileOK'
    BY <1>1, <1>5, <2>1 DEF FileOK, settings, Crossing
  <2> QED
    BY <1>1, <2>4, <2>6, <2>7, <2>8, <2>9 DEF IInv, FlowOK
<1> QED
  BY <1>3, <1>4, <1>5 DEF RestartGoes

LEMMA AnnounceTypes ==
    ASSUME IInv, NEW f \in Flows, Announce(f)
    PROVE  IInv'
<1>1. FileOK /\ FlowOK /\ ConnsInv /\ StepInv /\ AnnounceInv
      /\ UNCHANGED <<settings, conns, isConnecting, fileWatchers, timer, mine, history, clicks>>
      /\ flow[f].at = "announce"
  BY DEF IInv, Announce
<1>2. \A t \in Servers : step[f][t] = "none"
  BY <1>1, NoSteps
<1>3. CASE Go(f, "connect") /\ step' = [step EXCEPT ![f] = Open({flow[f].for})] /\ UNCHANGED wanted
  <2>1. /\ flow' \in [Flows -> FlowStates] /\ flow'[f].at = "connect"
        /\ \A g \in Flows : g # f => flow'[g] = flow[g]
    BY <1>1, <1>3, GoIs DEF Places
  <2>2. PICK S : S = {flow[f].for}
    OBVIOUS
  <2>3. /\ step' \in [Flows -> [Servers -> Steps]]
        /\ \A t \in Servers : step'[f][t] \in {"open", "none"}
        /\ \A g \in Flows : g # f => step'[g] = step[g]
    BY <1>1, <1>3, <2>2, OpenIs
  <2>4. StepInv' /\ AnnounceInv'
    BY <1>1, <1>3, <2>1, <2>3, FlowMoves
  <2> QED
    BY <1>1, <1>3, <2>1, <2>3, <2>4 DEF IInv, FileOK, FlowOK, ConnsInv, settings, history
<1>4. CASE Finish(f) /\ UNCHANGED step
  <2>1. /\ flow' \in [Flows -> FlowStates] /\ flow'[f].at = "none"
        /\ wanted' \in [Flows -> [Servers -> Entries]]
        /\ \A g \in Flows : g # f => flow'[g] = flow[g] /\ wanted'[g] = wanted[g]
    BY <1>1, <1>4, FinishIs
  <2>2. StepInv' /\ AnnounceInv'
    BY <1>1, <1>2, <1>4, <2>1, FlowMoves
  <2> QED
    BY <1>1, <1>4, <2>1, <2>2 DEF IInv, FileOK, FlowOK, ConnsInv, settings, history
<1> QED
  BY <1>3, <1>4 DEF Announce

\* The user.
LEMMA ClickIs == ASSUME clicks \in 0..Budget, Click PROVE clicks' \in 0..Budget
BY HubAssumption DEF Click

LEMMA EditTypes ==
    ASSUME IInv, EditFile
    PROVE  IInv'
<1>1. FileOK /\ FlowOK /\ ConnsInv /\ StepInv /\ AnnounceInv /\ clicks' \in 0..Budget
      /\ UNCHANGED <<mcpEnabled, conns, isConnecting, fileWatchers, flow, wanted, step, mine, history>>
  BY ClickIs DEF IInv, EditFile, FileOK
<1>2. file' \in [Servers -> Entries] /\ readable' \in BOOLEAN /\ timer' \in BOOLEAN
  BY <1>1 DEF EditFile, FileOK
<1> QED
  BY <1>1, <1>2 DEF IInv, FileOK, FlowOK, ConnsInv, StepInv, AnnounceInv, history

LEMMA AskTypes ==
    ASSUME IInv, NEW f \in Flows, RefreshAllConnections(f) \/ \E s \in Servers : RestartConnection(f, s)
    PROVE  IInv'
<1>1. FileOK /\ FlowOK /\ ConnsInv /\ StepInv /\ AnnounceInv /\ clicks' \in 0..Budget
      /\ UNCHANGED <<settings, conns, fileWatchers, timer, wanted, step, mine, history>>
      /\ isConnecting' \in BOOLEAN
  BY ClickIs DEF IInv, RefreshAllConnections, RestartConnection, FileOK
<1>2. /\ flow' \in [Flows -> FlowStates] /\ flow[f].at = "none" /\ flow'[f].at = "ask"
      /\ \A g \in Flows : g # f => flow'[g] = flow[g]
  <2>1. CASE RefreshAllConnections(f)
    BY <1>1, <2>1, BeginIs DEF FlowKinds, Places, RefreshAllConnections
  <2>2. CASE \E s \in Servers : RestartConnection(f, s)
    BY <1>1, <2>2, BeginIs DEF FlowKinds, Places, RestartConnection
  <2> QED
    BY <2>1, <2>2
<1>3. StepInv' /\ AnnounceInv'
  BY <1>1, <1>2, NoSteps, FlowMoves
<1> QED
  BY <1>1, <1>2, <1>3 DEF IInv, FileOK, FlowOK, ConnsInv, settings, history

LEMMA SwitchTypes ==
    ASSUME IInv, NEW f \in Flows, McpEnabledChange(f)
    PROVE  IInv'
<1>1. FileOK /\ FlowOK /\ ConnsInv /\ StepInv /\ AnnounceInv /\ clicks' \in 0..Budget
      /\ UNCHANGED <<file, readable, conns, isConnecting, fileWatchers, timer, mine, left>>
      /\ mcpEnabled' \in BOOLEAN
  BY ClickIs DEF IInv, McpEnabledChange, FileOK
<1>2. CASE Begin(f, "switchOff", "clear", Absent) /\ Clear(f)
  <2>1. /\ flow' \in [Flows -> FlowStates] /\ flow[f].at = "none" /\ flow'[f].at = "clear"
        /\ \A g \in Flows : g # f => flow'[g] = flow[g]
    BY <1>1, <1>2, BeginIs DEF FlowKinds, Places
  <2>2. /\ wanted' \in [Flows -> [Servers -> Entries]] /\ step' \in [Flows -> [Servers -> Steps]]
        /\ \A t \in Servers : step'[f][t] \in {"open", "none"}
        /\ \A g \in Flows : g # f => step'[g] = step[g] /\ wanted'[g] = wanted[g]
        /\ crossed' \subseteq Servers
    BY <1>1, <1>2, ClearIs
  <2>3. StepInv' /\ AnnounceInv'
    BY <1>1, <2>1, <2>2, FlowMoves
  <2> QED
    BY <1>1, <2>1, <2>2, <2>3 DEF IInv, FileOK, FlowOK, ConnsInv
<1>3. CASE UNCHANGED <<flow, wanted, step, crossed>>
  BY <1>1, <1>3 DEF IInv, FileOK, FlowOK, ConnsInv, StepInv, AnnounceInv
<1>4. CASE Begin(f, "refresh", "ask", Absent) /\ UNCHANGED <<wanted, step, crossed>>
  <2>1. /\ flow' \in [Flows -> FlowStates] /\ flow[f].at = "none" /\ flow'[f].at = "ask"
        /\ \A g \in Flows : g # f => flow'[g] = flow[g]
    BY <1>1, <1>4, BeginIs DEF FlowKinds, Places
  <2>2. StepInv' /\ AnnounceInv'
    BY <1>1, <1>4, <2>1, NoSteps, FlowMoves
  <2> QED
    BY <1>1, <1>4, <2>1, <2>2 DEF IInv, FileOK, FlowOK, ConnsInv
<1> QED
  BY <1>2, <1>3, <1>4 DEF McpEnabledChange

\* What a click on a server begins.
LEMMA ClickedTypes ==
    ASSUME FlowOK, FileOK, StepInv, AnnounceInv, NEW f \in Flows, NEW kind \in FlowKinds,
           NEW at \in {"connect", "notify"}, Begin(f, kind, at, Absent),
           NEW s \in Servers, NEW e \in Entries, wanted' = [wanted EXCEPT ![f] = [Nothing EXCEPT ![s] = e]],
           NEW S, S # {} => at = "connect", step' = [step EXCEPT ![f] = Open(S)],
           crossed' = crossed \union Crossing(f, {s}), UNCHANGED mine
    PROVE  FlowOK' /\ StepInv' /\ AnnounceInv' /\ crossed' \subseteq Servers
<1>1. /\ flow' \in [Flows -> FlowStates] /\ flow[f].at = "none" /\ flow'[f].at = at
      /\ \A g \in Flows : g # f => flow'[g] = flow[g]
  BY BeginIs DEF Places
<1>2. PICK new \in [Servers -> Entries] : new = [Nothing EXCEPT ![s] = e]
  BY OnlyIs
<1>3. /\ wanted' \in [Flows -> [Servers -> Entries]]
      /\ \A g \in Flows : g # f => wanted'[g] = wanted[g]
  BY <1>2, WantedIs
<1>4. /\ step' \in [Flows -> [Servers -> Steps]]
      /\ \A t \in Servers : step'[f][t] = IF t \in S THEN "open" ELSE "none"
      /\ \A g \in Flows : g # f => step'[g] = step[g]
  BY OpenIs
<1>5. StepInv' /\ AnnounceInv'
  BY <1>1, <1>3, <1>4, FlowMoves
<1>6. crossed' \subseteq Servers
  BY DEF FileOK, Crossing
<1> QED
  BY <1>1, <1>3, <1>4, <1>5, <1>6 DEF FlowOK

LEMMA ToggleTypes ==
    ASSUME IInv, NEW f \in Flows, NEW s \in Servers, NEW off \in BOOLEAN, ToggleServerDisabled(f, s, off)
    PROVE  IInv'
<1>1. FileOK /\ FlowOK /\ ConnsInv /\ StepInv /\ AnnounceInv /\ clicks' \in 0..Budget
      /\ UNCHANGED <<readable, mcpEnabled, isConnecting, fileWatchers, mine, left>>
      /\ timer' = TRUE /\ file[s] # Absent /\ file' = [file EXCEPT ![s].disabled = off]
  BY ClickIs DEF IInv, ToggleServerDisabled, FileOK
<1>2. file' \in [Servers -> Entries]
  <2>1. file \in [Servers -> Entries] /\ file[s] \in Configs
    BY <1>1 DEF FileOK, Entries
  <2>2. [file[s] EXCEPT !.disabled = off] \in Configs
    BY <2>1 DEF Configs
  <2>3. file' = [file EXCEPT ![s] = [file[s] EXCEPT !.disabled = off]]
    BY <1>1, <2>1
  <2> QED
    BY <2>1, <2>2, <2>3 DEF Entries
<1>3. PICK c \in ConnsOf(s) :
         LET again == (off /\ c.status = "connected") \/ (~off /\ c.status = "disconnected") IN
            /\ conns' = (conns \ {c}) \union {[c EXCEPT !.disabled = off]}
            /\ Begin(f, "toggle", IF again THEN "connect" ELSE "notify", Absent)
            /\ wanted' = [wanted EXCEPT ![f] = [Nothing EXCEPT ![s] = IF again THEN c.config ELSE Absent]]
            /\ step' = [step EXCEPT ![f] = Open(IF again THEN {s} ELSE {})]
            /\ crossed' = crossed \union Crossing(f, {s})
  BY DEF ToggleServerDisabled, Marked
<1>4. PICK again : again = ((off /\ c.status = "connected") \/ (~off /\ c.status = "disconnected"))
  OBVIOUS
<1>5. PICK at, e, S : /\ at = IF again THEN "connect" ELSE "notify"
                      /\ e = IF again THEN c.config ELSE Absent
                      /\ S = IF again THEN {s} ELSE {}
  OBVIOUS
<1>6. c \in conns /\ c \in Conns /\ c.config \in Configs
  BY <1>1 DEF ConnsOf, ConnsInv, Conns
<1>7. at \in {"connect", "notify"} /\ e \in Entries /\ (S # {} => at = "connect")
  BY <1>5, <1>6 DEF Entries
<1>8. /\ Begin(f, "toggle", at, Absent)
      /\ wanted' = [wanted EXCEPT ![f] = [Nothing EXCEPT ![s] = e]]
      /\ step' = [step EXCEPT ![f] = Open(S)]
      /\ crossed' = crossed \union Crossing(f, {s})
  BY <1>3, <1>4, <1>5
<1>9. FlowOK' /\ StepInv' /\ AnnounceInv' /\ crossed' \subseteq Servers
  BY <1>1, <1>7, <1>8, ClickedTypes DEF FlowKinds
<1>10. PICK n : n = [c EXCEPT !.disabled = off]
  OBVIOUS
<1>11. n \in Conns /\ n.up = c.up /\ n.type = c.type /\ n.config = c.config
  BY <1>6, <1>10 DEF Conns
<1>12. conns' = (conns \ {c}) \union {n}
  BY <1>3, <1>10
<1>13. ConnsInv'
  BY <1>1, <1>6, <1>11, <1>12, ReplaceTypes DEF ConnsInv
<1> QED
  BY <1>1, <1>2, <1>9, <1>13 DEF IInv, FileOK

LEMMA UpdateTypes ==
    ASSUME IInv, NEW f \in Flows, NEW s \in Servers, DeleteServer(f, s) \/ ImportMcpServers(f, s)
    PROVE  IInv'
<1>1. FileOK /\ FlowOK /\ ConnsInv /\ StepInv /\ AnnounceInv /\ clicks' \in 0..Budget
      /\ UNCHANGED <<readable, mcpEnabled, conns, mine, left>>
      /\ timer' = TRUE /\ isConnecting' \in BOOLEAN
  BY ClickIs DEF IInv, DeleteServer, ImportMcpServers, FileOK
<1>2. PICK new \in [Servers -> Entries], kind \in {"delete", "import"} :
         /\ file' = new /\ UpdateServerConnections(f, new)
         /\ Begin(f, kind, AfterUpdate(new), Absent)
  <2>1. file \in [Servers -> Entries]
    BY <1>1 DEF FileOK
  <2>2. CASE DeleteServer(f, s)
    <3>1. [file EXCEPT ![s] = Absent] \in [Servers -> Entries]
      BY <2>1 DEF Entries
    <3> QED
      BY <2>2, <3>1 DEF DeleteServer
  <2>3. CASE ImportMcpServers(f, s)
    <3>1. \A e \in Configs : [file EXCEPT ![s] = e] \in [Servers -> Entries]
      BY <2>1 DEF Entries
    <3> QED
      BY <2>3, <3>1 DEF ImportMcpServers
  <2> QED
    BY <2>2, <2>3
<1>3. /\ fileWatchers' = {} /\ crossed' \subseteq Servers
      /\ wanted' \in [Flows -> [Servers -> Entries]] /\ step' \in [Flows -> [Servers -> Steps]]
      /\ \A g \in Flows : g # f => step'[g] = step[g] /\ wanted'[g] = wanted[g]
      /\ AfterUpdate(new) \in {"remove", "connect"}
      /\ \A t \in Servers : step'[f][t] \in {"open", "none"}
  BY <1>1, <1>2, UpdateIs
<1>4. PICK at \in {"remove", "connect"} : at = AfterUpdate(new)
  BY <1>3
<1>5. /\ flow' \in [Flows -> FlowStates] /\ flow'[f].at = at
      /\ \A g \in Flows : g # f => flow'[g] = flow[g]
  BY <1>1, <1>2, <1>4, BeginIs DEF FlowKinds, Places
<1>6. StepInv' /\ AnnounceInv'
  BY <1>1, <1>3, <1>4, <1>5, FlowMoves
<1> QED
  BY <1>1, <1>2, <1>3, <1>5, <1>6 DEF IInv, FileOK, FlowOK, ConnsInv

LEMMA ReconnectTypes ==
    ASSUME IInv, NEW f \in Flows, NEW s \in Servers, ReconnectServer(f, s)
    PROVE  IInv'
<1>1. FileOK /\ FlowOK /\ ConnsInv /\ StepInv /\ AnnounceInv /\ clicks' \in 0..Budget
      /\ UNCHANGED <<settings, conns, isConnecting, fileWatchers, timer, mine, left>>
      /\ Begin(f, "reconnect", "connect", Absent)
      /\ step' = [step EXCEPT ![f] = Open({s})]
      /\ crossed' = crossed \union Crossing(f, {s})
  BY ClickIs DEF IInv, ReconnectServer, FileOK
<1>2. PICK c \in ConnsOf(s) : wanted' = [wanted EXCEPT ![f] = [Nothing EXCEPT ![s] = c.config]]
  BY DEF ReconnectServer
<1>3. c.config \in Entries
  BY <1>1 DEF ConnsOf, ConnsInv, Conns, Entries
<1>4. FlowOK' /\ StepInv' /\ AnnounceInv' /\ crossed' \subseteq Servers
  BY <1>1, <1>2, <1>3, ClickedTypes DEF FlowKinds
<1> QED
  BY <1>1, <1>4 DEF IInv, FileOK, ConnsInv, settings

\* What a server or a refused tool does to an entry.
LEMMA WorldIs ==
    ASSUME ConnsInv, NEW c \in conns, ServerExits(c) \/ TransportReports(c) \/ NeedsAuth(c)
    PROVE  \E n \in Conns : /\ conns' = (conns \ {c}) \union {n}
                            /\ n.id = c.id /\ n.name = c.name /\ n.config = c.config
                            /\ n.up => c.up /\ n.type = "connected"
                            /\ n.type = "connected" => c.type = "connected"
<1>1. c \in Conns /\ (c.up => c.type = "connected")
  BY DEF ConnsInv
<1>2. CASE ServerExits(c)
  <2>1. PICK n : n = Closed(c)
    OBVIOUS
  <2> QED
    BY <1>1, <1>2, <2>1, ClosedConn DEF ServerExits
<1>3. CASE TransportReports(c)
  <2>1. PICK n : n = [c EXCEPT !.status = "disconnected"]
    OBVIOUS
  <2>2. /\ n \in Conns /\ n.id = c.id /\ n.name = c.name /\ n.config = c.config
        /\ n.up = c.up /\ n.type = c.type
    BY <1>1, <2>1 DEF Conns, Statuses
  <2> QED
    BY <1>1, <1>3, <2>1, <2>2 DEF TransportReports
<1>4. CASE NeedsAuth(c)
  <2>1. PICK n : n = [c EXCEPT !.type = "needs-auth", !.status = "needs-auth", !.up = FALSE]
    OBVIOUS
  <2>2. /\ n \in Conns /\ n.id = c.id /\ n.name = c.name /\ n.config = c.config
        /\ ~n.up /\ n.type = "needs-auth"
    BY <1>1, <2>1 DEF Conns, Types, Statuses
  <2> QED
    BY <1>1, <1>4, <2>1, <2>2 DEF NeedsAuth
<1> QED
  BY <1>2, <1>3, <1>4

LEMMA WorldTypes ==
    ASSUME IInv, World
    PROVE  IInv'
<1>1. /\ FileOK /\ FlowOK /\ ConnsInv /\ StepInv /\ AnnounceInv
      /\ UNCHANGED <<settings, isConnecting, fileWatchers, timer, flow, wanted, step, mine, history, clicks>>
  BY DEF IInv, World, ServerExits, TransportReports, NeedsAuth
<1>2. PICK c \in conns : ServerExits(c) \/ TransportReports(c) \/ NeedsAuth(c)
  BY DEF World
<1>3. PICK n \in Conns : /\ conns' = (conns \ {c}) \union {n}
                         /\ n.config = c.config
                         /\ n.up => c.up /\ n.type = "connected"
                         /\ n.type = "connected" => c.type = "connected"
  BY <1>1, <1>2, WorldIs
<1>4. ConnsInv'
  BY <1>1, <1>3 DEF ConnsInv
<1>5. FileOK' /\ FlowOK'
  BY <1>1 DEF FileOK, FlowOK, settings, history
<1>6. StepInv' /\ AnnounceInv'
  BY <1>1 DEF StepInv, AnnounceInv
<1> QED
  BY <1>4, <1>5, <1>6 DEF IInv

LEMMA HubInitially == HubInit => IInv
<1> SUFFICES ASSUME HubInit PROVE IInv
  OBVIOUS
<1>1. FileOK
  <2>1. [v : Variants, disabled : {FALSE}] \subseteq Configs
    BY DEF Configs
  <2>2. file \in [Servers -> Entries]
    BY <2>1 DEF HubInit, Entries
  <2>3. /\ readable = TRUE /\ mcpEnabled = TRUE /\ isConnecting = FALSE /\ timer = FALSE
        /\ fileWatchers = {} /\ left = {} /\ crossed = {} /\ clicks = Budget
    BY DEF HubInit
  <2>4. clicks \in 0..Budget
    BY <2>3, HubAssumption
  <2> QED
    BY <2>2, <2>3, <2>4 DEF FileOK
<1>2. FlowOK
  <2>1. [kind |-> "init", at |-> "read", for |-> Absent] \in FlowStates /\ NoFlow \in FlowStates
    BY DEF FlowStates, FlowKinds, Places
  <2> QED
    BY <2>1 DEF HubInit, FlowOK, NoStep, Steps, Nothing, Entries
<1>3. ConnsInv
  BY DEF HubInit, ConnsInv
<1>4. StepInv /\ AnnounceInv
  BY DEF HubInit, StepInv, AnnounceInv, NoStep, NoFlow
<1> QED
  BY <1>1, <1>2, <1>3, <1>4 DEF IInv

LEMMA HubStep == IInv /\ [HubNext]_hubVars => IInv'
<1> SUFFICES ASSUME IInv, [HubNext]_hubVars PROVE IInv'
  OBVIOUS
<1>1. CASE Hub
  BY <1>1, TimerTypes, ReadTypes, RemovedTypes, ConnectedTypes, RefreshGoesTypes, ClearedTypes,
     RestartGoesTypes, AnnounceTypes, DeleteTypes, RemoveTypes, OpenTypes, StartTypes,
     HandshakeTypes DEF Hub
<1>2. CASE HubUser
  BY <1>2, EditTypes, AskTypes, SwitchTypes, UpdateTypes, ReconnectTypes, ToggleTypes DEF HubUser
<1>3. CASE World
  BY <1>3, WorldTypes
<1>4. CASE UNCHANGED hubVars
  BY <1>4 DEF hubVars, settings, history, IInv, FileOK, FlowOK, ConnsInv, StepInv, AnnounceInv
<1> QED
  BY <1>1, <1>2, <1>3, <1>4 DEF HubNext

\* The types of the hub's state, whatever flows, servers and the user do.
THEOREM HubTypes == HubSpec => []HubTypeOK
<1>1. IInv => HubTypeOK
  BY DEF IInv, FileOK, FlowOK, ConnsInv, HubTypeOK
<1> QED
  BY <1>1, HubInitially, HubStep, PTL DEF HubSpec

----------------------------------------------------------------------------
(* One server that no two flows have been at                               *)

\* The file will be read, and connections follow it then.
Reading(f) == \/ flow[f].at \in {"read", "clear"}
              \/ flow[f].at = "ask" /\ flow[f].kind = "refresh"
Due == timer \/ ~readable \/ \E f \in Flows : Reading(f)

Alone(t) == \A f, g \in Flows : IsAt(f, t) /\ IsAt(g, t) => f = g
Single(t) == \A c, d \in ConnsOf(t) : c = d

\* What is true of the entry at each step of a flow.
StepOK(f, t) ==
    /\ step[f][t] = "shut" => \A c \in ConnsOf(t) : ~c.up
    /\ step[f][t] \in {"shut", "ask"} => t \notin fileWatchers
    /\ step[f][t] \in {"ask", "start"} => ConnsOf(t) = {}
    /\ step[f][t] \in {"start", "handshake"} => mcpEnabled
    /\ step[f][t] = "handshake" =>
          /\ ConnsOf(t) # {}
          /\ \A c \in ConnsOf(t) : c.config = wanted[f][t] /\ (c.up => c.id = mine[f][t])

\* A watcher belongs to a server that is enabled, or that is about to be deleted.
Watch(t) == t \in fileWatchers =>
    \/ \E f \in Flows : step[f][t] = "open"
    \/ /\ mcpEnabled
       /\ \/ \E f \in Flows : step[f][t] \in {"start", "handshake"}
          \/ \E c \in ConnsOf(t) : ~c.config.disabled

\* While MCP is off nothing is connected that is not about to be deleted.
Off(t) == \/ mcpEnabled
          \/ \E f \in Flows : step[f][t] \in {"open", "shut"}
          \/ \A c \in ConnsOf(t) : c.type # "connected"

\* The entry is that of the file, or a flow is replacing it by that of the file.
Matched(t) == /\ \A c \in ConnsOf(t) : c.config = file[t]
              /\ file[t] # Absent => ConnsOf(t) # {}
Match(t) == /\ \A f \in Flows : IsAt(f, t) => wanted[f][t] = file[t]
            /\ (\A f \in Flows : ~IsAt(f, t)) => Matched(t)

ServerInv(t) == /\ t \notin left /\ Alone(t) /\ Single(t)
                /\ \A f \in Flows : StepOK(f, t)
                /\ Watch(t) /\ Off(t)
                /\ Due \/ Match(t)

\* The entries of a server stay, but for their status.
Like(t) == /\ Single(t)'
           /\ ConnsOf(t)' = {} <=> ConnsOf(t) = {}
           /\ \A d \in ConnsOf(t)' : \E c \in ConnsOf(t) :
                 /\ d.config = c.config /\ d.id = c.id
                 /\ d.up => c.up
                 /\ d.type = "connected" => c.type = "connected"

LEMMA SameLike == ASSUME NEW t, Single(t), ConnsOf(t)' = ConnsOf(t) PROVE Like(t)
BY DEF Single, Like

LEMMA ReplaceLike ==
    ASSUME NEW t, Single(t), NEW c \in conns, NEW n, conns' = (conns \ {c}) \union {n},
           n.name = c.name, n.config = c.config, n.id = c.id, n.up => c.up,
           n.type = "connected" => c.type = "connected"
    PROVE  Like(t)
<1>1. CASE c.name = t
  <2>1. c \in ConnsOf(t) /\ ConnsOf(t) = {c}
    BY <1>1 DEF ConnsOf, Single
  <2>2. ConnsOf(t)' = {n}
    BY <1>1, <2>1 DEF ConnsOf
  <2> QED
    BY <2>1, <2>2 DEF Like, Single
<1>2. CASE c.name # t
  <2>1. ConnsOf(t)' = ConnsOf(t)
    BY <1>2 DEF ConnsOf
  <2> QED
    BY <2>1, SameLike
<1> QED
  BY <1>1, <1>2

\* Where a flow that moves is, and where the others are.
LEMMA NotAt ==
    ASSUME StepInv, NEW f \in Flows, flow[f].at \notin {"clear", "remove", "connect", "announce"}
    PROVE  \A t \in Servers : ~IsAt(f, t)
BY DEF StepInv, IsAt

LEMMA SameAt ==
    ASSUME NEW g, NEW t, flow'[g] = flow[g], step'[g][t] = step[g][t], wanted'[g][t] = wanted[g][t]
    PROVE  IsAt(g, t)' <=> IsAt(g, t)
BY DEF IsAt

\* Nothing happens to the server but that its entry may change status.
LEMMA Keeps ==
    ASSUME NEW t, ServerInv(t), Like(t), mcpEnabled => mcpEnabled',
           t \in left' => t \in left, t \in fileWatchers' => t \in fileWatchers,
           \A g \in Flows : /\ step'[g][t] = step[g][t] /\ mine'[g][t] = mine[g][t]
                            /\ IsAt(g, t)' <=> IsAt(g, t)
                            /\ IsAt(g, t) => wanted'[g][t] = wanted[g][t],
           Due' \/ (~Due /\ file'[t] = file[t])
    PROVE  ServerInv(t)'
<1>1. t \notin left' /\ Alone(t)' /\ Single(t)'
  BY DEF ServerInv, Alone, Like
<1>2. \A g \in Flows : StepOK(g, t)'
  <2>1. SUFFICES ASSUME NEW g \in Flows PROVE StepOK(g, t)'
    OBVIOUS
  <2>2. StepOK(g, t) /\ (step[g][t] # "none" => wanted'[g][t] = wanted[g][t])
    BY DEF ServerInv, IsAt
  <2> QED
    BY <2>2 DEF StepOK, Like
<1>3. Watch(t)'
  <2>1. Watch(t) /\ \A c, d \in ConnsOf(t) : c = d
    BY DEF ServerInv, Single
  <2>2. (\E c \in ConnsOf(t) : ~c.config.disabled) => \E c \in ConnsOf(t)' : ~c.config.disabled
    BY <2>1 DEF Like
  <2> QED
    BY <2>1, <2>2 DEF Watch
<1>4. Off(t)'
  BY DEF ServerInv, Off, Like
<1>5. Due' \/ Match(t)'
  <2>1. SUFFICES ASSUME ~Due' PROVE Match(t)'
    OBVIOUS
  <2>2. Match(t) /\ file'[t] = file[t]
    BY <2>1 DEF ServerInv
  <2>3. Matched(t) => Matched(t)'
    BY <2>2 DEF Matched, Like
  <2> QED
    BY <2>2, <2>3 DEF Match
<1> QED
  BY <1>1, <1>2, <1>3, <1>4, <1>5 DEF ServerInv

\* A flow comes to a server where no other one is, to delete it or to see later.
LEMMA Arrives ==
    ASSUME NEW t, ServerInv(t), Like(t), NEW f \in Flows, step[f][t] = "none",
           \A g \in Flows \ {f} : ~IsAt(g, t) /\ ~IsAt(g, t)' /\ step'[g][t] = step[g][t],
           step'[f][t] \in {"none", "open"},
           (mcpEnabled => mcpEnabled') \/ step'[f][t] = "open" \/ ConnsOf(t) = {},
           t \in left' => t \in left, t \in fileWatchers' => t \in fileWatchers,
           \/ Due'
           \/ /\ IsAt(f, t)' => wanted'[f][t] = file'[t]
              /\ ~IsAt(f, t)' => Matched(t)'
    PROVE  ServerInv(t)'
<1>1. \A g \in Flows : step[g][t] = "none"
  BY DEF IsAt
<1>2. \A g \in Flows : step'[g][t] \in {"none", "open"}
  BY <1>1
<1>3. t \notin left' /\ Alone(t)' /\ Single(t)'
  <2>1. t \notin left /\ Single(t)'
    BY DEF ServerInv, Like
  <2>2. \A g \in Flows : IsAt(g, t)' => g = f
    OBVIOUS
  <2> QED
    BY <2>1, <2>2 DEF Alone
<1>4. \A g \in Flows : StepOK(g, t)'
  BY <1>2 DEF StepOK
<1>5. Watch(t)'
  <2>1. t \in fileWatchers => mcpEnabled /\ \E c \in ConnsOf(t) : ~c.config.disabled
    BY <1>1 DEF ServerInv, Watch
  <2>2. \A c, d \in ConnsOf(t) : c = d
    BY DEF ServerInv, Single
  <2>3. (\E c \in ConnsOf(t) : ~c.config.disabled) => \E c \in ConnsOf(t)' : ~c.config.disabled
    BY <2>2 DEF Like
  <2> QED
    BY <2>1, <2>3 DEF Watch
<1>6. Off(t)'
  <2>1. mcpEnabled \/ \A c \in ConnsOf(t) : c.type # "connected"
    BY <1>1 DEF ServerInv, Off
  <2> QED
    BY <2>1 DEF Off, Like
<1>7. Due' \/ Match(t)'
  BY DEF Match
<1> QED
  BY <1>3, <1>4, <1>5, <1>6, <1>7 DEF ServerInv

----------------------------------------------------------------------------
(* The steps of a flow at one server                                       *)

SInv == \A t \in Servers \ crossed : ServerInv(t)

\* The step of a flow at s leaves the other servers alone.
LEMMA Elsewhere ==
    ASSUME NEW f \in Flows, NEW s \in Servers, NEW t \in Servers, t # s, ServerInv(t),
           UNCHANGED <<file, readable, mcpEnabled, timer, flow, wanted>>,
           \A g \in Flows, u \in Servers : (g # f \/ u # s) => /\ step'[g][u] = step[g][u]
                                                             /\ mine'[g][u] = mine[g][u],
           ConnsOf(t)' = ConnsOf(t), t \in left' => t \in left,
           t \in fileWatchers' => t \in fileWatchers
    PROVE  ServerInv(t)'
<1>1. Like(t)
  BY SameLike DEF ServerInv
<1>2. \A g \in Flows : /\ step'[g][t] = step[g][t] /\ mine'[g][t] = mine[g][t]
                       /\ IsAt(g, t)' <=> IsAt(g, t)
                       /\ wanted'[g][t] = wanted[g][t]
  BY SameAt
<1>3. Due' <=> Due
  BY DEF Due, Reading
<1> QED
  BY <1>1, <1>2, <1>3, Keeps

\* At the server itself, where no other flow is.
LEMMA Acts ==
    ASSUME FlowOK, NEW f \in Flows, NEW s \in Servers, ServerInv(s), step[f][s] # "none",
           UNCHANGED <<file, readable, mcpEnabled, timer, flow, wanted>>,
           \A g \in Flows, u \in Servers : (g # f \/ u # s) => step'[g][u] = step[g][u],
           s \notin left', Single(s)', StepOK(f, s)', Watch(s)', Off(s)',
           wanted[f][s] = file[s] => IsAt(f, s)' \/ Matched(s)'
    PROVE  ServerInv(s)'
<1>1. \A g \in Flows : g # f => ~IsAt(g, s) /\ ~IsAt(g, s)' /\ step[g][s] = "none" /\ step'[g][s] = "none"
  <2>1. IsAt(f, s)
    BY DEF IsAt
  <2>2. \A g \in Flows : g # f => ~IsAt(g, s)
    BY <2>1 DEF ServerInv, Alone
  <2>3. \A g \in Flows : g # f => step'[g][s] = step[g][s]
    OBVIOUS
  <2> QED
    BY <2>2, <2>3, SameAt DEF IsAt
<1>2. Alone(s)'
  BY <1>1 DEF Alone
<1>3. \A g \in Flows : StepOK(g, s)'
  BY <1>1 DEF StepOK
<1>4. Due' <=> Due
  BY DEF Due, Reading
<1>5. Due' \/ Match(s)'
  <2>1. SUFFICES ASSUME ~Due' PROVE Match(s)'
    OBVIOUS
  <2>2. IsAt(f, s)
    BY DEF IsAt
  <2>3. wanted[f][s] = file[s]
    BY <1>4, <2>1, <2>2 DEF ServerInv, Match
  <2> QED
    BY <1>1, <2>3 DEF Match
<1> QED
  BY <1>2, <1>3, <1>5 DEF ServerInv

LEMMA DeleteActs ==
    ASSUME IInv, SInv, NEW f \in Flows, NEW s \in Servers, DeleteConnection(f, s)
    PROVE  SInv'
<1>1. /\ FlowOK /\ ConnsInv /\ step[f][s] = "open"
      /\ fileWatchers' = fileWatchers \ {s}
      /\ UNCHANGED <<file, readable, mcpEnabled, timer, flow, wanted, mine, left, crossed>>
  BY DEF IInv, DeleteConnection, settings, history
<1>2. CASE /\ conns' = (conns \ ConnsOf(s)) \union {Closed(c) : c \in ConnsOf(s)}
           /\ At(f, s, "shut")
  <2>1. /\ step'[f][s] = "shut"
        /\ \A g \in Flows, t \in Servers : (g # f \/ t # s) => step'[g][t] = step[g][t]
    BY <1>1, <1>2, AtIs DEF Steps
  <2>2. ConnsOf(s)' = {Closed(c) : c \in ConnsOf(s)} /\ \A t : t # s => ConnsOf(t)' = ConnsOf(t)
    <3>1. \A c \in ConnsOf(s) : Closed(c).name = s
      BY <1>1, ClosedConn DEF ConnsInv, ConnsOf
    <3> QED
      BY <1>2, <3>1 DEF ConnsOf
  <2>3. ASSUME NEW t \in Servers \ crossed PROVE ServerInv(t)'
    <3>1. ServerInv(t)
      BY DEF SInv
    <3>2. CASE t # s
      BY <1>1, <2>1, <2>2, <3>1, <3>2, Elsewhere
    <3>3. CASE t = s
      <4>1. \A c \in ConnsOf(s)' : ~c.up
        BY <1>1, <2>2, ClosedConn DEF ConnsInv, ConnsOf
      <4>2. Single(s)'
        BY <2>2, <3>1, <3>3 DEF ServerInv, Single
      <4>3. StepOK(f, s)' /\ Watch(s)' /\ Off(s)'
        BY <1>1, <2>1, <4>1 DEF StepOK, Watch, Off
      <4>4. s \notin left' /\ IsAt(f, s)'
        BY <1>1, <2>1, <3>1, <3>3 DEF ServerInv, IsAt
      <4> QED
        BY <1>1, <2>1, <3>1, <3>3, <4>2, <4>3, <4>4, Acts
    <3> QED
      BY <3>2, <3>3
  <2> QED
    BY <1>1, <2>3 DEF SInv
<1>3. CASE conns' = conns \ ConnsOf(s) /\ Deleted(f, s)
  <2>1. /\ step'[f][s] = IF wanted[f][s] = Absent THEN "none" ELSE "ask"
        /\ \A g \in Flows, t \in Servers : (g # f \/ t # s) => step'[g][t] = step[g][t]
    BY <1>1, <1>3, DeletedIs
  <2>2. ConnsOf(s)' = {} /\ \A t : t # s => ConnsOf(t)' = ConnsOf(t)
    BY <1>3 DEF ConnsOf
  <2>3. ASSUME NEW t \in Servers \ crossed PROVE ServerInv(t)'
    <3>1. ServerInv(t)
      BY DEF SInv
    <3>2. CASE t # s
      BY <1>1, <2>1, <2>2, <3>1, <3>2, Elsewhere
    <3>3. CASE t = s
      <4>1. Single(s)' /\ StepOK(f, s)' /\ Watch(s)' /\ Off(s)'
        BY <1>1, <2>1, <2>2 DEF Single, StepOK, Watch, Off
      <4>2. s \notin left'
        BY <1>1, <3>1, <3>3 DEF ServerInv
      <4>3. wanted[f][s] = file[s] => IsAt(f, s)' \/ Matched(s)'
        BY <1>1, <2>1, <2>2 DEF IsAt, Matched
      <4> QED
        BY <1>1, <2>1, <3>1, <3>3, <4>1, <4>2, <4>3, Acts
    <3> QED
      BY <3>2, <3>3
  <2> QED
    BY <1>1, <2>3 DEF SInv
<1> QED
  BY <1>2, <1>3 DEF DeleteConnection

LEMMA RemoveActs ==
    ASSUME IInv, SInv, NEW f \in Flows, NEW s \in Servers, RemoveEntries(f, s)
    PROVE  SInv'
<1>1. /\ FlowOK /\ step[f][s] = "shut" /\ conns' = conns \ ConnsOf(s) /\ Deleted(f, s)
      /\ left' = IF \E c \in ConnsOf(s) : c.up THEN left \union {s} ELSE left
      /\ UNCHANGED <<file, readable, mcpEnabled, timer, flow, wanted, mine, fileWatchers, crossed>>
  BY DEF IInv, RemoveEntries, settings
<1>2. /\ step'[f][s] = IF wanted[f][s] = Absent THEN "none" ELSE "ask"
      /\ \A g \in Flows, t \in Servers : (g # f \/ t # s) => step'[g][t] = step[g][t]
  BY <1>1, DeletedIs
<1>3. ConnsOf(s)' = {} /\ \A t : t # s => ConnsOf(t)' = ConnsOf(t)
  BY <1>1 DEF ConnsOf
<1>4. ASSUME NEW t \in Servers \ crossed PROVE ServerInv(t)'
  <2>1. ServerInv(t)
    BY DEF SInv
  <2>2. CASE t # s
    <3>1. t \in left' => t \in left
      BY <1>1, <2>2
    <3> QED
      BY <1>1, <1>2, <1>3, <2>1, <2>2, <3>1, Elsewhere
  <2>3. CASE t = s
    <3>1. StepOK(f, s)
      BY <2>1, <2>3 DEF ServerInv
    <3>2. s \notin fileWatchers /\ (\A c \in ConnsOf(s) : ~c.up) /\ s \notin left
      BY <1>1, <2>1, <2>3, <3>1 DEF StepOK, ServerInv
    <3>3. Single(s)' /\ StepOK(f, s)' /\ Watch(s)' /\ Off(s)'
      BY <1>1, <1>2, <1>3, <3>2 DEF Single, StepOK, Watch, Off
    <3>4. s \notin left'
      BY <1>1, <3>2
    <3>5. wanted[f][s] = file[s] => IsAt(f, s)' \/ Matched(s)'
      BY <1>1, <1>2, <1>3 DEF IsAt, Matched
    <3> QED
      BY <1>1, <1>2, <2>1, <2>3, <3>3, <3>4, <3>5, Acts
  <2> QED
    BY <2>2, <2>3
<1> QED
  BY <1>1, <1>4 DEF SInv

\* An entry of the configuration that is wanted is added where there is none.
LEMMA AddActs ==
    ASSUME NEW s, ConnsOf(s) = {}, NEW n, n.name = s, conns' = conns \union {n}
    PROVE  ConnsOf(s)' = {n} /\ Single(s)' /\ \A t : t # s => ConnsOf(t)' = ConnsOf(t)
BY DEF ConnsOf, Single

LEMMA OpenActs ==
    ASSUME IInv, SInv, NEW f \in Flows, NEW s \in Servers, OpenConnection(f, s)
    PROVE  SInv'
<1>1. /\ FlowOK /\ StepInv /\ step[f][s] = "ask" /\ wanted[f][s] \in Configs
      /\ UNCHANGED <<file, readable, mcpEnabled, timer, flow, wanted, mine, left, crossed>>
  BY DEF IInv, OpenConnection, settings, history, StepInv
<1>2. \A t : t # s => ConnsOf(t)' = ConnsOf(t)
  <2>1. CASE UNCHANGED conns
    BY <2>1 DEF ConnsOf
  <2>2. ASSUME NEW id \in Ids, conns' = conns \union {Placeholder(id, f, s, "disconnected")}
        PROVE  \A t : t # s => ConnsOf(t)' = ConnsOf(t)
    <3>1. PICK n : n = Placeholder(id, f, s, "disconnected") /\ n.name = s
      BY <1>1, PlaceholderConn
    <3> QED
      BY <2>2, <3>1 DEF ConnsOf
  <2> QED
    BY <2>1, <2>2 DEF OpenConnection
<1>3. /\ step'[f][s] \in {"none", "start"}
      /\ \A g \in Flows, t \in Servers : (g # f \/ t # s) => step'[g][t] = step[g][t]
  BY <1>1, AtIs DEF OpenConnection, Steps
<1>4. \A t \in Servers : t # s => (t \in fileWatchers' => t \in fileWatchers)
  BY DEF OpenConnection
<1>5. ASSUME NEW t \in Servers \ crossed PROVE ServerInv(t)'
  <2>1. ServerInv(t)
    BY DEF SInv
  <2>2. CASE t # s
    BY <1>1, <1>2, <1>3, <1>4, <2>1, <2>2, Elsewhere
  <2>3. CASE t = s
    <3>1. StepOK(f, s)
      BY <2>1, <2>3 DEF ServerInv
    <3>2. s \notin fileWatchers /\ ConnsOf(s) = {} /\ s \notin left'
      BY <1>1, <2>1, <2>3, <3>1 DEF StepOK, ServerInv
    <3>3. CASE /\ \E id \in Ids : conns' = conns \union {Placeholder(id, f, s, "disconnected")}
               /\ At(f, s, "none")
               /\ UNCHANGED fileWatchers
      <4>1. PICK n : /\ n.name = s /\ n.config = wanted[f][s] /\ n.type = "disconnected"
                     /\ conns' = conns \union {n}
        BY <1>1, <3>3, PlaceholderConn
      <4>2. ConnsOf(s)' = {n} /\ Single(s)'
        BY <3>2, <4>1, AddActs
      <4>3. step'[f][s] = "none"
        BY <1>1, <3>3, AtIs DEF Steps
      <4>4. StepOK(f, s)' /\ Watch(s)' /\ Off(s)'
        BY <3>2, <3>3, <4>1, <4>2, <4>3 DEF StepOK, Watch, Off
      <4>5. wanted[f][s] = file[s] => Matched(s)'
        BY <1>1, <4>1, <4>2 DEF Matched
      <4> QED
        BY <1>1, <1>3, <2>1, <2>3, <3>2, <4>2, <4>4, <4>5, Acts
    <3>4. CASE /\ mcpEnabled /\ At(f, s, "start") /\ UNCHANGED conns
      <4>1. step'[f][s] = "start"
        BY <1>1, <3>4, AtIs DEF Steps
      <4>2. ConnsOf(s)' = {} /\ mcpEnabled'
        BY <1>1, <3>2, <3>4 DEF ConnsOf
      <4>3. Single(s)' /\ StepOK(f, s)' /\ Watch(s)' /\ Off(s)' /\ IsAt(f, s)'
        BY <4>1, <4>2 DEF Single, StepOK, Watch, Off, IsAt
      <4> QED
        BY <1>1, <1>3, <2>1, <2>3, <3>2, <4>3, Acts
    <3> QED
      BY <3>3, <3>4 DEF OpenConnection
  <2> QED
    BY <2>2, <2>3
<1> QED
  BY <1>1, <1>5 DEF SInv

LEMMA StartActs ==
    ASSUME IInv, SInv, NEW f \in Flows, NEW s \in Servers, StartTransport(f, s)
    PROVE  SInv'
<1>1. /\ FlowOK /\ StepInv /\ ConnsInv /\ step[f][s] = "start" /\ wanted[f][s] \in Configs
      /\ ~wanted[f][s].disabled
      /\ UNCHANGED <<file, readable, mcpEnabled, timer, flow, wanted, fileWatchers, left, crossed>>
  BY DEF IInv, StartTransport, settings, history, StepInv
<1>2. /\ step'[f][s] \in {"none", "handshake"}
      /\ \A g \in Flows, t \in Servers : (g # f \/ t # s) => step'[g][t] = step[g][t]
  BY <1>1, AtIs DEF StartTransport, Steps
<1>3. \A g \in Flows, t \in Servers : (g # f \/ t # s) => mine'[g][t] = mine[g][t]
  BY <1>1 DEF StartTransport, FlowOK
<1>4. \/ /\ \E n : /\ n.name = s /\ n.config = wanted[f][s] /\ n.id = mine'[f][s]
                   /\ conns' = conns \union {n}
         /\ step'[f][s] = "handshake"
      \/ Fails(f, s, conns) /\ step'[f][s] = "none"
  <2>1. CASE Fails(f, s, conns) /\ At(f, s, "none")
    BY <1>1, <2>1, AtIs DEF Steps
  <2>2. ASSUME NEW id \in Ids, At(f, s, "handshake"), mine' = [mine EXCEPT ![f][s] = id],
               conns' = conns \union {[id |-> id, name |-> s, type |-> "connected",
                      status |-> "connecting", config |-> wanted[f][s],
                      disabled |-> wanted[f][s].disabled, up |-> TRUE]}
        PROVE  /\ \E n : /\ n.name = s /\ n.config = wanted[f][s] /\ n.id = mine'[f][s]
                         /\ conns' = conns \union {n}
               /\ step'[f][s] = "handshake"
    <3>1. PICK n : n = [id |-> id, name |-> s, type |-> "connected", status |-> "connecting",
                        config |-> wanted[f][s], disabled |-> wanted[f][s].disabled, up |-> TRUE]
      OBVIOUS
    <3>2. n.name = s /\ n.config = wanted[f][s] /\ n.id = id /\ mine'[f][s] = id
      BY <1>1, <2>2, <3>1 DEF FlowOK
    <3> QED
      BY <1>1, <2>2, <3>1, <3>2, AtIs DEF Steps
  <2> QED
    BY <2>1, <2>2 DEF StartTransport
<1>5. Fails(f, s, conns) =>
         \/ \A t : t # s => ConnsOf(t)' = ConnsOf(t)
  <2>1. SUFFICES ASSUME Fails(f, s, conns) PROVE \A t : t # s => ConnsOf(t)' = ConnsOf(t)
    OBVIOUS
  <2>2. \/ \E c \in conns : \E n \in Conns : c.name = s /\ conns' = (conns \ {c}) \union {n} /\ n.name = s
        \/ \E n \in Conns : conns' = conns \union {n} /\ n.name = s
    BY <1>1, <2>1, FailsConns DEF ConnsInv
  <2> QED
    BY <2>2 DEF ConnsOf
<1>6. \A t : t # s => ConnsOf(t)' = ConnsOf(t)
  BY <1>4, <1>5 DEF ConnsOf
<1>7. ASSUME NEW t \in Servers \ crossed PROVE ServerInv(t)'
  <2>1. ServerInv(t)
    BY DEF SInv
  <2>2. CASE t # s
    BY <1>1, <1>2, <1>3, <1>6, <2>1, <2>2, Elsewhere
  <2>3. CASE t = s
    <3>1. StepOK(f, s)
      BY <2>1, <2>3 DEF ServerInv
    <3>2. mcpEnabled' /\ ConnsOf(s) = {} /\ s \notin left'
      BY <1>1, <2>1, <2>3, <3>1 DEF StepOK, ServerInv
    <3>3. PICK n : /\ n.name = s /\ n.config = wanted[f][s] /\ conns' = conns \union {n}
                   /\ step'[f][s] # "none" => n.id = mine'[f][s]
      <4>1. CASE Fails(f, s, conns) /\ step'[f][s] = "none"
        <5>1. \A c \in conns : c.name # s
          BY <3>2 DEF ConnsOf
        <5>2. \E n \in Conns : /\ conns' = conns \union {n} /\ n.name = s
                               /\ n.config = wanted[f][s]
          BY <1>1, <4>1, <5>1, FailsConns DEF ConnsInv
        <5> QED
          BY <4>1, <5>2
      <4> QED
        BY <1>4, <4>1
    <3>4. ConnsOf(s)' = {n} /\ Single(s)'
      BY <3>2, <3>3, AddActs
    <3>5. StepOK(f, s)' /\ Off(s)'
      BY <1>1, <1>2, <3>2, <3>3, <3>4 DEF StepOK, Off
    <3>6. Watch(s)'
      BY <1>1, <3>2, <3>3, <3>4 DEF Watch
    <3>7. wanted[f][s] = file[s] => Matched(s)'
      BY <1>1, <3>3, <3>4 DEF Matched
    <3> QED
      BY <1>1, <1>2, <2>1, <2>3, <3>2, <3>4, <3>5, <3>6, <3>7, Acts
  <2> QED
    BY <2>2, <2>3
<1> QED
  BY <1>1, <1>7 DEF SInv

\* The entries of a server with one entry once its transport is closed.
LEMMA DownsOf ==
    ASSUME ConnsInv, NEW f, NEW s
    PROVE  /\ \A t : t # s => {c \in Downs(f, s) : c.name = t} = ConnsOf(t)
           /\ \A c \in conns : ConnsOf(s) = {c} /\ (c.up => c.id = mine[f][s]) =>
                 \E d \in Conns : /\ {e \in Downs(f, s) : e.name = s} = {d}
                                  /\ ~d.up /\ d.config = c.config
<1>1. \A c \in Mine(f, s) : Closed(c).name = s /\ c.name = s /\ c \in conns /\ c \in ConnsOf(s)
  BY ClosedConn DEF Mine, ConnsOf, ConnsInv
<1>2. ASSUME NEW t, t # s PROVE {c \in Downs(f, s) : c.name = t} = ConnsOf(t)
  BY <1>1, <1>2 DEF Downs, ConnsOf
<1>3. ASSUME NEW c \in conns, ConnsOf(s) = {c}, c.up => c.id = mine[f][s]
      PROVE  \E d \in Conns : /\ {e \in Downs(f, s) : e.name = s} = {d}
                              /\ ~d.up /\ d.config = c.config
  <2>1. c \in Conns /\ c.name = s /\ (c.up => c.type = "connected")
    BY <1>3 DEF ConnsInv, ConnsOf
  <2>2. CASE c \in Mine(f, s)
    <3>1. Mine(f, s) = {c}
      BY <1>1, <1>3, <2>2
    <3>2. {e \in Downs(f, s) : e.name = s} = {Closed(c)}
      BY <1>1, <1>3, <2>1, <3>1 DEF Downs, ConnsOf
    <3> QED
      BY <2>1, <3>2, ClosedConn
  <2>3. CASE c \notin Mine(f, s)
    <3>1. Mine(f, s) = {}
      BY <1>1, <1>3, <2>3
    <3>2. {e \in Downs(f, s) : e.name = s} = {c}
      BY <1>3, <3>1 DEF Downs, ConnsOf
    <3>3. ~c.up
      BY <1>3, <2>1, <2>3 DEF Mine
    <3> QED
      BY <2>1, <3>2, <3>3
  <2> QED
    BY <2>2, <2>3
<1> QED
  BY <1>2, <1>3

\* The catch block changes one server only, which has one entry afterwards if it
\* had one at most, with the configuration that was wanted.
LEMMA FailsOf ==
    ASSUME FlowOK, NEW f \in Flows, NEW s \in Servers, wanted[f][s] \in Configs,
           NEW rest, rest \subseteq Conns, Fails(f, s, rest)
    PROVE  /\ \A t : t # s => ConnsOf(t)' = {c \in rest : c.name = t}
           /\ (\A c, d \in rest : c.name = s /\ d.name = s => c = d)
              /\ (\A c \in rest : c.name = s => c.config = wanted[f][s])
              => \E n : ConnsOf(s)' = {n} /\ n.config = wanted[f][s]
<1>1. CASE \E c \in rest : \E n \in Conns :
              /\ c.name = s /\ conns' = (rest \ {c}) \union {n}
              /\ n.name = s /\ n.config = c.config
  <2>1. PICK c \in rest, n \in Conns : /\ c.name = s /\ conns' = (rest \ {c}) \union {n}
                                       /\ n.name = s /\ n.config = c.config
    BY <1>1
  <2>2. \A t : t # s => ConnsOf(t)' = {d \in rest : d.name = t}
    BY <2>1 DEF ConnsOf
  <2>3. (\A d, e \in rest : d.name = s /\ e.name = s => d = e) => ConnsOf(s)' = {n}
    BY <2>1 DEF ConnsOf
  <2> QED
    BY <2>1, <2>2, <2>3
<1>2. CASE /\ \A c \in rest : c.name # s
           /\ \E n \in Conns : conns' = rest \union {n} /\ n.name = s /\ n.config = wanted[f][s]
  <2>1. PICK n \in Conns : conns' = rest \union {n} /\ n.name = s /\ n.config = wanted[f][s]
    BY <1>2
  <2>2. ConnsOf(s)' = {n} /\ \A t : t # s => ConnsOf(t)' = {d \in rest : d.name = t}
    BY <1>2, <2>1 DEF ConnsOf
  <2> QED
    BY <2>1, <2>2
<1> QED
  BY <1>1, <1>2, FailsConns

LEMMA HandshakeActs ==
    ASSUME IInv, SInv, NEW f \in Flows, NEW s \in Servers, Handshake(f, s)
    PROVE  SInv'
<1>1. /\ FlowOK /\ StepInv /\ ConnsInv /\ step[f][s] = "handshake" /\ wanted[f][s] \in Configs
      /\ ~wanted[f][s].disabled
      /\ At(f, s, "none") /\ mine' = [mine EXCEPT ![f][s] = 0]
      /\ UNCHANGED <<file, readable, mcpEnabled, timer, flow, wanted, fileWatchers, crossed>>
  BY DEF IInv, Handshake, settings, StepInv
<1>2. /\ step'[f][s] = "none"
      /\ \A g \in Flows, t \in Servers : (g # f \/ t # s) => step'[g][t] = step[g][t]
  BY <1>1, AtIs DEF Steps
<1>3. \A g \in Flows, t \in Servers : (g # f \/ t # s) => mine'[g][t] = mine[g][t]
  BY <1>1 DEF FlowOK
<1>4. PICK first : first = {c \in Downs(f, s) : c.name = s /\ \A d \in Downs(f, s) : d.name = s => c.id <= d.id}
  OBVIOUS
<1>5. \/ /\ conns' = (conns \ Mine(f, s)) \union {[c EXCEPT !.status = "connected"] : c \in Mine(f, s)}
         /\ UNCHANGED left
      \/ Fails(f, s, Downs(f, s)) /\ UNCHANGED left
      \/ /\ Fails(f, s, Downs(f, s) \ first)
         /\ left' = IF \E c \in first : c.up THEN left \union {s} ELSE left
  BY <1>4 DEF Handshake, Downs
<1>6. /\ Downs(f, s) \subseteq Conns /\ Downs(f, s) \ first \subseteq Conns
      /\ \A t : t # s => {c \in Downs(f, s) : c.name = t} = ConnsOf(t)
      /\ \A t : t # s => {c \in Downs(f, s) \ first : c.name = t} = ConnsOf(t)
  <2>1. /\ Downs(f, s) \subseteq Conns
        /\ \A t : t # s => {c \in Downs(f, s) : c.name = t} = ConnsOf(t)
    BY <1>1, DownsConns, DownsOf
  <2>2. \A t : t # s => {c \in Downs(f, s) \ first : c.name = t} = {c \in Downs(f, s) : c.name = t}
    BY <1>4
  <2> QED
    BY <2>1, <2>2
<1>7. \A t : t # s => ConnsOf(t)' = ConnsOf(t)
  <2>1. CASE conns' = (conns \ Mine(f, s)) \union {[c EXCEPT !.status = "connected"] : c \in Mine(f, s)}
    <3>1. \A c \in Mine(f, s) : c.name = s /\ [c EXCEPT !.status = "connected"].name = s
      BY <1>1 DEF Mine, ConnsOf, ConnsInv, Conns
    <3> QED
      BY <2>1, <3>1 DEF ConnsOf
  <2>2. CASE Fails(f, s, Downs(f, s))
    BY <1>1, <1>6, <2>2, FailsOf
  <2>3. CASE Fails(f, s, Downs(f, s) \ first)
    <3>1. PICK rest : rest = Downs(f, s) \ first
      OBVIOUS
    <3>2. \A t : t # s => ConnsOf(t)' = {c \in rest : c.name = t}
      BY <1>1, <1>6, <2>3, <3>1, FailsOf
    <3> QED
      BY <1>6, <3>1, <3>2
  <2> QED
    BY <1>5, <2>1, <2>2, <2>3
<1>8. \A t : t # s => (t \in left' => t \in left)
  BY <1>5
<1>9. ASSUME NEW t \in Servers \ crossed PROVE ServerInv(t)'
  <2>1. ServerInv(t)
    BY DEF SInv
  <2>2. CASE t # s
    BY <1>1, <1>2, <1>3, <1>7, <1>8, <2>1, <2>2, Elsewhere
  <2>3. CASE t = s
    <3>1. StepOK(f, s) /\ Single(s) /\ s \notin left
      BY <2>1, <2>3 DEF ServerInv
    <3>2. PICK c \in conns : /\ ConnsOf(s) = {c} /\ c.config = wanted[f][s]
                             /\ c.up => c.id = mine[f][s]
      BY <1>1, <3>1 DEF StepOK, Single, ConnsOf
    <3>3. mcpEnabled'
      BY <1>1, <3>1 DEF StepOK
    <3>4. PICK d \in Conns : /\ {e \in Downs(f, s) : e.name = s} = {d}
                             /\ ~d.up /\ d.config = c.config
      BY <1>1, <3>2, DownsOf
    <3>5. first = {d}
      <4>1. d.id \in Nat
        BY DEF Conns, Ids
      <4>2. d \in Downs(f, s) /\ d.name = s /\ \A e \in Downs(f, s) : e.name = s => e = d
        BY <3>4
      <4>3. \A e \in Downs(f, s) : e.name = s => d.id <= e.id
        BY <4>1, <4>2
      <4>4. d \in first /\ \A e \in first : e = d
        BY <1>4, <4>2, <4>3
      <4> QED
        BY <4>4
    <3>6. s \notin left'
      BY <1>5, <3>1, <3>4, <3>5
    <3>7. PICK n : ConnsOf(s)' = {n} /\ n.config = wanted[f][s]
      <4>1. CASE conns' = (conns \ Mine(f, s)) \union {[b EXCEPT !.status = "connected"] : b \in Mine(f, s)}
        <5>1. PICK n : n = [c EXCEPT !.status = "connected"]
          OBVIOUS
        <5>2. n.name = s /\ n.config = wanted[f][s] /\ c \in ConnsOf(s)
          BY <1>1, <3>2, <5>1 DEF ConnsInv, Conns, ConnsOf
        <5>3. CASE Mine(f, s) = {c}
          <6>1. conns' = (conns \ {c}) \union {n}
            BY <4>1, <5>1, <5>3
          <6>2. ConnsOf(s)' = {n}
            BY <3>2, <5>2, <6>1 DEF ConnsOf
          <6> QED
            BY <5>2, <6>2
        <5>4. CASE Mine(f, s) = {}
          <6>1. conns' = conns
            BY <4>1, <5>4
          <6> QED
            BY <3>2, <6>1 DEF ConnsOf
        <5>5. Mine(f, s) \subseteq {c}
          BY <3>2 DEF Mine
        <5> QED
          BY <5>3, <5>4, <5>5
      <4>2. CASE Fails(f, s, Downs(f, s))
        <5>1. \A b \in Downs(f, s) : b.name = s => b = d
          BY <3>4
        <5> QED
          BY <1>1, <1>6, <3>2, <3>4, <4>2, <5>1, FailsOf
      <4>3. CASE Fails(f, s, Downs(f, s) \ first)
        <5>1. \A b \in Downs(f, s) \ first : b.name # s
          BY <3>4, <3>5
        <5> QED
          BY <1>1, <1>6, <4>3, <5>1, FailsOf
      <4> QED
        BY <1>5, <4>1, <4>2, <4>3
    <3>8. Single(s)' /\ StepOK(f, s)' /\ Off(s)' /\ Watch(s)'
      BY <1>1, <1>2, <3>3, <3>7 DEF Single, StepOK, Off, Watch
    <3>9. wanted[f][s] = file[s] => Matched(s)'
      BY <1>1, <3>7 DEF Matched
    <3> QED
      BY <1>1, <1>2, <2>1, <2>3, <3>6, <3>8, <3>9, Acts
  <2> QED
    BY <2>2, <2>3
<1> QED
  BY <1>1, <1>9 DEF SInv

----------------------------------------------------------------------------
(* The flows and the user                                                  *)

\* A flow that goes on stays away from a server, or was not there.
LEMMA Passes ==
    ASSUME NEW t \in Servers, ServerInv(t), Like(t), NEW f \in Flows,
           ~IsAt(f, t), ~IsAt(f, t)', step'[f][t] = "none",
           \A g \in Flows : g # f => /\ flow'[g] = flow[g] /\ wanted'[g] = wanted[g]
                                     /\ step'[g] = step[g],
           UNCHANGED mine,
           mcpEnabled => mcpEnabled', left' = left, fileWatchers' \subseteq fileWatchers,
           Due' \/ (~Due /\ file'[t] = file[t])
    PROVE  ServerInv(t)'
<1>1. step[f][t] = "none"
  BY DEF IsAt
<1>2. \A g \in Flows : /\ step'[g][t] = step[g][t] /\ mine'[g][t] = mine[g][t]
                       /\ IsAt(g, t)' <=> IsAt(g, t)
                       /\ IsAt(g, t) => wanted'[g][t] = wanted[g][t]
  <2>1. SUFFICES ASSUME NEW g \in Flows
                 PROVE  /\ step'[g][t] = step[g][t]
                        /\ IsAt(g, t)' <=> IsAt(g, t)
                        /\ IsAt(g, t) => wanted'[g][t] = wanted[g][t]
    OBVIOUS
  <2>2. CASE g = f
    BY <1>1, <2>2
  <2>3. CASE g # f
    BY <2>3, SameAt
  <2> QED
    BY <2>2, <2>3
<1> QED
  BY <1>2, Keeps

LEMMA TimerFollows ==
    ASSUME IInv, SInv, NEW f \in Flows, ConfigTimer(f)
    PROVE  SInv'
<1>1. /\ FlowOK /\ StepInv
      /\ UNCHANGED <<settings, conns, isConnecting, fileWatchers, wanted, step, mine, history, clicks>>
  BY DEF IInv, ConfigTimer
<1>2. /\ flow[f].at = "none" /\ flow'[f].at = "read"
      /\ \A g \in Flows : g # f => flow'[g] = flow[g]
  <2>1. Begin(f, "config", "read", Absent)
    BY DEF ConfigTimer
  <2> QED
    BY <1>1, <2>1, BeginIs DEF FlowKinds, Places
<1>3. Due'
  BY <1>2 DEF Due, Reading
<1>4. ASSUME NEW t \in Servers \ crossed PROVE ServerInv(t)'
  <2>1. ServerInv(t) /\ ~IsAt(f, t) /\ ~IsAt(f, t)' /\ step'[f][t] = "none"
    BY <1>1, <1>2, NotAt, NoSteps DEF SInv, IsAt
  <2>2. Like(t)
    <3>1. ConnsOf(t)' = ConnsOf(t)
      BY <1>1 DEF ConnsOf
    <3> QED
      BY <2>1, <3>1, SameLike DEF ServerInv
  <2> QED
    BY <1>1, <1>2, <1>3, <2>1, <2>2, Passes DEF settings, history
<1> QED
  BY <1>1, <1>4 DEF SInv, history

LEMMA UnchangedLike ==
    ASSUME NEW t, ServerInv(t), conns' = conns
    PROVE  Like(t) /\ ConnsOf(t)' = ConnsOf(t)
<1>1. ConnsOf(t)' = ConnsOf(t)
  BY DEF ConnsOf
<1> QED
  BY <1>1, SameLike DEF ServerInv

\* The flow f is about to follow new: what it leaves as it is is as new has it.
LEMMA UpdateFollows ==
    ASSUME IInv, SInv, NEW f \in Flows, NEW new \in [Servers -> Entries], UpdateServerConnections(f, new),
           flow[f].at \in {"none", "read"}, flow'[f].at = AfterUpdate(new),
           \A g \in Flows : g # f => flow'[g] = flow[g],
           UNCHANGED <<mcpEnabled, conns, mine, left>>,
           Due' \/ new = file'
    PROVE  SInv'
<1>1. FlowOK /\ FileOK /\ ConnsInv /\ StepInv
  BY DEF IInv
<1>2. /\ fileWatchers' = {} /\ crossed \subseteq crossed'
      /\ \A t \in Servers \ crossed' : \A g \in Flows \ {f} : ~IsAt(g, t)
      /\ wanted'[f] = new
      /\ \A g \in Flows : g # f => step'[g] = step[g] /\ wanted'[g] = wanted[g]
      /\ \A t \in Servers :
            \/ step'[f][t] = "open"
            \/ /\ step'[f][t] = "none"
               /\ \/ new[t] = Absent /\ ConnsOf(t) = {}
                  \/ new[t] # Absent /\ AfterUpdate(new) = "remove"
                  \/ \E c \in ConnsOf(t) : IsFirst(c) /\ c.config = new[t]
  BY <1>1, UpdateIs
<1>3. ASSUME NEW t \in Servers \ crossed' PROVE ServerInv(t)'
  <2>1. ServerInv(t) /\ step[f][t] = "none"
    BY <1>1, <1>2, NoSteps DEF SInv
  <2>2. Like(t) /\ ConnsOf(t)' = ConnsOf(t)
    BY <2>1, UnchangedLike
  <2>3. \A g \in Flows \ {f} : ~IsAt(g, t) /\ ~IsAt(g, t)' /\ step'[g][t] = step[g][t]
    BY <1>2, SameAt
  <2>4. step'[f][t] \in {"none", "open"}
    BY <1>2
  <2>5. ASSUME new = file', ~IsAt(f, t)' PROVE Matched(t)'
    <3>1. step'[f][t] = "none" /\ ~(flow'[f].at = "remove" /\ new[t] # Absent)
      BY <1>2, <2>5 DEF IsAt
    <3>2. CASE new[t] = Absent /\ ConnsOf(t) = {}
      BY <2>2, <2>5, <3>2 DEF Matched
    <3>3. CASE \E c \in ConnsOf(t) : IsFirst(c) /\ c.config = new[t]
      BY <2>1, <2>2, <2>5, <3>3 DEF Matched, ServerInv, Single
    <3> QED
      BY <1>2, <3>1, <3>2, <3>3
  <2>6. new = file' => wanted'[f][t] = file'[t]
    BY <1>2
  <2> QED
    BY <1>2, <2>1, <2>2, <2>3, <2>4, <2>5, <2>6, Arrives
<1> QED
  BY <1>3 DEF SInv

LEMMA ReadFollows ==
    ASSUME IInv, SInv, NEW f \in Flows, ReadSettings(f)
    PROVE  SInv'
<1>1. FileOK /\ FlowOK /\ StepInv /\ flow[f].at = "read" /\ file \in [Servers -> Entries]
      /\ UNCHANGED <<file, readable, mcpEnabled, conns, timer, mine, left, clicks>>
  BY DEF IInv, ReadSettings, settings, FileOK
<1>2. CASE UpdateServerConnections(f, file) /\ Go(f, AfterUpdate(file))
  <2>1. AfterUpdate(file) \in Places
    BY DEF AfterUpdate, Places
  <2>2. PICK at \in Places : at = AfterUpdate(file)
    BY <2>1
  <2>3. flow'[f].at = at /\ \A g \in Flows : g # f => flow'[g] = flow[g]
    BY <1>1, <1>2, <2>2, GoIs
  <2> QED
    BY <1>1, <1>2, <2>2, <2>3, UpdateFollows
<1>3. CASE /\ ~readable
           /\ (Go(f, "notify") /\ Forget(f)) \/ Finish(f)
           /\ UNCHANGED <<fileWatchers, step, crossed, isConnecting>>
  <2>1. /\ flow'[f].at \in {"notify", "none"}
        /\ \A g \in Flows : g # f => flow'[g] = flow[g] /\ wanted'[g] = wanted[g]
    <3>1. CASE Go(f, "notify") /\ Forget(f)
      BY <1>1, <3>1, GoIs, WantedIs, NothingIs DEF Forget, Places
    <3> QED
      BY <1>1, <1>3, <3>1, FinishIs
  <2>2. ASSUME NEW t \in Servers \ crossed PROVE ServerInv(t)'
    <3>1. ServerInv(t) /\ ~IsAt(f, t) /\ ~IsAt(f, t)' /\ step'[f][t] = "none"
      BY <1>1, <1>3, <2>1, NotAt, NoSteps DEF SInv, IsAt
    <3>2. Like(t)
      BY <1>1, <3>1, UnchangedLike
    <3>3. Due'
      BY <1>1, <1>3 DEF Due
    <3> QED
      BY <1>1, <1>3, <2>1, <3>1, <3>2, <3>3, Passes
  <2> QED
    BY <1>3, <2>2 DEF SInv
<1> QED
  BY <1>2, <1>3 DEF ReadSettings

LEMMA RemovedFollows ==
    ASSUME IInv, SInv, NEW f \in Flows, Removed(f)
    PROVE  SInv'
<1>1. FlowOK /\ StepInv /\ flow[f].at = "remove" /\ Go(f, "connect") /\ Quiet(f)
      /\ UNCHANGED <<file, readable, mcpEnabled, conns, fileWatchers, timer, wanted, mine, left, crossed>>
      /\ step' = [step EXCEPT ![f] = Open(Changed(wanted[f]))]
  BY DEF IInv, Removed, settings, history
<1>2. /\ flow'[f].at = "connect" /\ \A g \in Flows : g # f => flow'[g] = flow[g]
  BY <1>1, GoIs DEF Places
<1>3. /\ \A t \in Servers : step'[f][t] = IF t \in Changed(wanted[f]) THEN "open" ELSE "none"
      /\ \A g \in Flows : g # f => step'[g] = step[g]
  <2>1. PICK S : S = Changed(wanted[f])
    OBVIOUS
  <2> QED
    BY <1>1, <2>1, OpenIs
<1>4. Due' <=> Due
  <2>1. \A g \in Flows : Reading(g)' <=> Reading(g)
    BY <1>1, <1>2 DEF Reading
  <2> QED
    BY <1>1, <2>1 DEF Due
<1>5. ASSUME NEW t \in Servers \ crossed PROVE ServerInv(t)'
  <2>1. ServerInv(t) /\ step[f][t] = "none"
    BY <1>1, NoSteps DEF SInv
  <2>2. Like(t) /\ ConnsOf(t)' = ConnsOf(t)
    BY <1>1, <2>1, UnchangedLike
  <2>3. CASE wanted[f][t] = Absent
    <3>1. step'[f][t] = "none" /\ ~IsAt(f, t) /\ ~IsAt(f, t)'
      BY <1>2, <1>3, <2>1, <2>3 DEF Changed, IsAt
    <3> QED
      BY <1>1, <1>2, <1>3, <1>4, <2>1, <2>2, <3>1, Passes
  <2>4. CASE wanted[f][t] # Absent
    <3>1. IsAt(f, t)
      BY <1>1, <2>4 DEF IsAt
    <3>2. \A g \in Flows \ {f} : ~IsAt(g, t) /\ ~IsAt(g, t)' /\ step'[g][t] = step[g][t]
      <4>1. \A g \in Flows \ {f} : ~IsAt(g, t)
        BY <2>1, <3>1 DEF ServerInv, Alone
      <4> QED
        BY <1>1, <1>2, <1>3, <4>1, SameAt
    <3>3. step'[f][t] \in {"none", "open"}
      BY <1>3
    <3>4. ASSUME ~Due' PROVE /\ wanted'[f][t] = file'[t]
                             /\ ~IsAt(f, t)' => Matched(t)'
      <4>1. wanted[f][t] = file[t]
        BY <1>4, <2>1, <3>1, <3>4 DEF ServerInv, Match
      <4>2. ASSUME ~IsAt(f, t)' PROVE Matched(t)'
        <5>1. t \notin Changed(wanted[f])
          BY <1>3, <4>2 DEF IsAt
        <5>2. \E c \in ConnsOf(t) : c.config = file[t]
          BY <2>4, <4>1, <5>1 DEF Changed
        <5> QED
          BY <1>1, <2>1, <2>2, <5>2 DEF Matched, ServerInv, Single
      <4> QED
        BY <1>1, <4>1, <4>2
    <3> QED
      BY <1>1, <2>1, <2>2, <3>2, <3>3, <3>4, Arrives
  <2> QED
    BY <2>3, <2>4
<1> QED
  BY <1>1, <1>5 DEF SInv

LEMMA ConnectedFollows ==
    ASSUME IInv, SInv, NEW f \in Flows, Connected(f) \/ Notify(f)
    PROVE  SInv'
<1>1. FlowOK /\ StepInv
      /\ UNCHANGED <<file, readable, mcpEnabled, conns, fileWatchers, timer, step, mine, left, crossed>>
      /\ flow[f].at \in {"connect", "notify"}
  BY DEF IInv, Connected, Notify, settings, history
<1>2. \A t \in Servers : step[f][t] = "none"
  BY <1>1, NoSteps DEF Connected, Notify
<1>3. /\ flow'[f].at \in {"notify", "none"}
      /\ \A g \in Flows : g # f => flow'[g] = flow[g] /\ wanted'[g] = wanted[g]
  <2>1. CASE Connected(f)
    BY <1>1, <2>1, GoIs, WantedIs, NothingIs DEF Connected, Forget, Places
  <2>2. CASE Notify(f)
    BY <1>1, <2>2, FinishIs DEF Notify
  <2> QED
    BY <2>1, <2>2
<1>4. Due' <=> Due
  <2>1. \A g \in Flows : Reading(g)' <=> Reading(g)
    BY <1>1, <1>3 DEF Reading
  <2> QED
    BY <1>1, <2>1 DEF Due
<1>5. ASSUME NEW t \in Servers \ crossed PROVE ServerInv(t)'
  <2>1. ServerInv(t) /\ ~IsAt(f, t) /\ ~IsAt(f, t)' /\ step'[f][t] = "none"
    BY <1>1, <1>2, <1>3 DEF SInv, IsAt
  <2>2. Like(t)
    BY <1>1, <2>1, UnchangedLike
  <2> QED
    BY <1>1, <1>3, <1>4, <2>1, <2>2, Passes
<1> QED
  BY <1>1, <1>5 DEF SInv

\* Every connection is to be deleted: the file is read after that.
LEMMA ClearFollows ==
    ASSUME IInv, SInv, NEW f \in Flows, Clear(f),
           flow[f].at \in {"none", "ask"}, flow'[f].at = "clear",
           \A g \in Flows : g # f => flow'[g] = flow[g],
           UNCHANGED <<conns, mine, left, fileWatchers>>
    PROVE  SInv'
<1>1. FlowOK /\ FileOK /\ StepInv
  BY DEF IInv
<1>2. /\ wanted'[f] = Nothing /\ crossed \subseteq crossed'
      /\ \A t \in Servers : step'[f][t] = IF ConnsOf(t) # {} THEN "open" ELSE "none"
      /\ \A g \in Flows : g # f => step'[g] = step[g] /\ wanted'[g] = wanted[g]
      /\ \A t \in Servers \ crossed' : \A g \in Flows \ {f} : ~IsAt(g, t)
  BY <1>1, ClearIs
<1>3. Due'
  BY DEF Due, Reading
<1>4. ASSUME NEW t \in Servers \ crossed' PROVE ServerInv(t)'
  <2>1. ServerInv(t) /\ step[f][t] = "none"
    BY <1>1, <1>2, NoSteps DEF SInv
  <2>2. Like(t)
    BY <2>1, UnchangedLike
  <2>3. \A g \in Flows \ {f} : ~IsAt(g, t) /\ ~IsAt(g, t)' /\ step'[g][t] = step[g][t]
    BY <1>2, SameAt
  <2>4. step'[f][t] \in {"none", "open"} /\ (step'[f][t] = "open" \/ ConnsOf(t) = {})
    BY <1>2
  <2> QED
    BY <1>3, <2>1, <2>2, <2>3, <2>4, Arrives
<1> QED
  BY <1>4 DEF SInv

LEMMA RefreshGoesFollows ==
    ASSUME IInv, SInv, NEW f \in Flows, RefreshGoes(f)
    PROVE  SInv'
<1>1. FlowOK /\ Clear(f) /\ flow[f].at = "ask" /\ UNCHANGED <<conns, mine, left, fileWatchers>>
  BY DEF IInv, RefreshGoes
<1>2. flow'[f].at = "clear" /\ \A g \in Flows : g # f => flow'[g] = flow[g]
  <2>1. PICK kind \in {"refresh", "refreshOff"} :
           flow' = [flow EXCEPT ![f].kind = kind, ![f].at = "clear"]
    BY DEF RefreshGoes
  <2>2. flow[f] \in [kind : FlowKinds, at : Places, for : Servers \union {Absent}]
    BY <1>1 DEF FlowOK, FlowStates, NoFlow
  <2> QED
    BY <1>1, <2>1, <2>2 DEF FlowOK
<1> QED
  BY <1>1, <1>2, ClearFollows

LEMMA ClearedFollows ==
    ASSUME IInv, SInv, NEW f \in Flows, Cleared(f)
    PROVE  SInv'
<1>1. FlowOK /\ StepInv /\ flow[f].at = "clear"
      /\ UNCHANGED <<file, readable, mcpEnabled, conns, fileWatchers, timer, step, mine, left>>
  BY DEF IInv, Cleared, settings
<1>2. \A t \in Servers : step[f][t] = "none"
  BY <1>1, NoSteps DEF Cleared
<1>3. CASE crossed' = Servers
  BY <1>3 DEF SInv
<1>4. CASE /\ Go(f, "read") \/ flow' = [flow EXCEPT ![f].kind = "refresh", ![f].at = "ask"]
           /\ UNCHANGED <<wanted, crossed>>
  <2>1. /\ flow'[f].at = "read" \/ (flow'[f].at = "ask" /\ flow'[f].kind = "refresh")
        /\ \A g \in Flows : g # f => flow'[g] = flow[g]
    <3>1. CASE Go(f, "read")
      BY <1>1, <3>1, GoIs DEF Places
    <3>2. CASE flow' = [flow EXCEPT ![f].kind = "refresh", ![f].at = "ask"]
      <4>1. flow[f] \in [kind : FlowKinds, at : Places, for : Servers \union {Absent}]
        BY <1>1 DEF FlowOK, FlowStates, NoFlow
      <4> QED
        BY <1>1, <3>2, <4>1 DEF FlowOK
    <3> QED
      BY <1>4, <3>1, <3>2
  <2>2. Due'
    BY <2>1 DEF Due, Reading
  <2>3. ASSUME NEW t \in Servers \ crossed PROVE ServerInv(t)'
    <3>1. ServerInv(t) /\ ~IsAt(f, t) /\ ~IsAt(f, t)' /\ step'[f][t] = "none"
      BY <1>1, <1>2, <2>1 DEF SInv, IsAt
    <3>2. Like(t)
      BY <1>1, <3>1, UnchangedLike
    <3> QED
      BY <1>1, <1>4, <2>1, <2>2, <3>1, <3>2, Passes
  <2> QED
    BY <1>4, <2>3 DEF SInv
<1> QED
  BY <1>3, <1>4 DEF Cleared

LEMMA RestartGoesFollows ==
    ASSUME IInv, SInv, NEW f \in Flows, RestartGoes(f)
    PROVE  SInv'
<1>1. FlowOK /\ StepInv /\ ConnsInv /\ flow[f].at = "ask" /\ flow[f].kind = "restart"
      /\ UNCHANGED <<file, readable, mcpEnabled, fileWatchers, timer, step, mine, left>>
  BY DEF IInv, RestartGoes, settings
<1>2. \A t \in Servers : step[f][t] = "none" /\ ~IsAt(f, t)
  BY <1>1, NoSteps, NotAt
<1>3. CASE /\ Finish(f) \/ (Go(f, "notify") /\ UNCHANGED wanted)
           /\ UNCHANGED <<conns, crossed>>
  <2>1. /\ flow'[f].at \in {"notify", "none"}
        /\ \A g \in Flows : g # f => flow'[g] = flow[g] /\ wanted'[g] = wanted[g]
    BY <1>1, <1>3, FinishIs, GoIs DEF Places
  <2>2. Due' <=> Due
    <3>1. \A g \in Flows : Reading(g)' <=> Reading(g)
      BY <1>1, <2>1 DEF Reading
    <3> QED
      BY <1>1, <3>1 DEF Due
  <2>3. ASSUME NEW t \in Servers \ crossed PROVE ServerInv(t)'
    <3>1. ServerInv(t) /\ ~IsAt(f, t)' /\ step'[f][t] = "none"
      BY <1>1, <1>2, <2>1 DEF SInv, IsAt
    <3>2. Like(t)
      BY <1>3, <3>1, UnchangedLike
    <3> QED
      BY <1>1, <1>2, <2>1, <2>2, <3>1, <3>2, Passes
  <2> QED
    BY <1>3, <2>3 DEF SInv
<1>4. ASSUME NEW s, s = flow[f].for, NEW c \in ConnsOf(s),
             conns' = (conns \ {c}) \union {[c EXCEPT !.status = "connecting"]},
             wanted' = [wanted EXCEPT ![f] = [Nothing EXCEPT ![s] = c.config]],
             crossed' = crossed \union Crossing(f, {s}),
             Go(f, "announce")
      PROVE  SInv'
  <2>1. /\ c \in conns /\ c \in Conns /\ c.name = s /\ s \in Servers
        /\ c.config \in Entries /\ c.config # Absent
    BY <1>1, <1>4, HubAssumption DEF ConnsOf, ConnsInv, Conns, Entries
  <2>2. PICK n : n = [c EXCEPT !.status = "connecting"]
    OBVIOUS
  <2>3. n.name = c.name /\ n.id = c.id /\ n.up = c.up /\ n.type = c.type /\ n.config = c.config
    BY <2>1, <2>2 DEF Conns
  <2>4. PICK new : new = [Nothing EXCEPT ![s] = c.config]
    OBVIOUS
  <2>5. new \in [Servers -> Entries] /\ new[s] = c.config /\ \A t \in Servers : t # s => new[t] = Absent
    BY <2>1, <2>4, OnlyIs
  <2>6. wanted'[f] = new /\ \A g \in Flows : g # f => wanted'[g] = wanted[g]
    BY <1>1, <1>4, <2>4, <2>5, WantedIs
  <2>7. /\ flow'[f].at = "announce" /\ \A g \in Flows : g # f => flow'[g] = flow[g]
    BY <1>1, <1>4, GoIs DEF Places
  <2>8. Due' <=> Due
    <3>1. \A g \in Flows : Reading(g)' <=> Reading(g)
      BY <1>1, <2>7 DEF Reading
    <3> QED
      BY <1>1, <3>1 DEF Due
  <2>9. ASSUME NEW t \in Servers \ crossed' PROVE ServerInv(t)'
    <3>1. ServerInv(t)
      BY <1>4 DEF SInv
    <3>2. Like(t)
      BY <1>4, <2>1, <2>2, <2>3, <3>1, ReplaceLike DEF ServerInv
    <3>3. CASE t # s
      <4>1. ~IsAt(f, t)' /\ step'[f][t] = "none"
        BY <1>1, <1>2, <2>5, <2>6, <3>3 DEF IsAt
      <4> QED
        BY <1>1, <1>2, <2>6, <2>7, <2>8, <3>1, <3>2, <4>1, Passes
    <3>4. CASE t = s
      <4>1. \A g \in Flows \ {f} : ~IsAt(g, s)
        BY <1>4, <3>4 DEF Crossing
      <4>2. \A g \in Flows \ {f} : ~IsAt(g, s) /\ ~IsAt(g, s)' /\ step'[g][s] = step[g][s]
        BY <1>1, <2>6, <2>7, <4>1, SameAt
      <4>3. IsAt(f, s)' /\ step'[f][s] = "none"
        BY <1>1, <1>2, <2>1, <2>5, <2>6, <2>7 DEF IsAt
      <4>4. ASSUME ~Due' PROVE wanted'[f][s] = file'[s]
        <5>1. Match(s)
          BY <2>8, <3>1, <3>4, <4>4 DEF ServerInv
        <5>2. \A g \in Flows : ~IsAt(g, s)
          BY <1>2, <2>1, <4>1
        <5>3. c.config = file[s]
          BY <1>4, <5>1, <5>2 DEF Match, Matched
        <5> QED
          BY <1>1, <2>5, <2>6, <5>3
      <4> QED
        BY <1>1, <1>2, <2>1, <3>1, <3>2, <3>4, <4>2, <4>3, <4>4, Arrives
    <3> QED
      BY <3>3, <3>4
  <2> QED
    BY <2>9 DEF SInv
<1> QED
  BY <1>3, <1>4 DEF RestartGoes

LEMMA AnnounceFollows ==
    ASSUME IInv, SInv, NEW f \in Flows, Announce(f)
    PROVE  SInv'
<1>1. FlowOK /\ StepInv /\ AnnounceInv /\ flow[f].at = "announce"
      /\ UNCHANGED <<file, readable, mcpEnabled, conns, fileWatchers, timer, mine, left, crossed>>
  BY DEF IInv, Announce, settings, history
<1>2. PICK s \in Servers : /\ s = flow[f].for /\ wanted[f][s] # Absent
                           /\ \A t \in Servers : wanted[f][t] # Absent => t = s
  BY <1>1 DEF AnnounceInv
<1>3. \A t \in Servers : step[f][t] = "none" /\ (IsAt(f, t) <=> t = s)
  BY <1>1, <1>2, NoSteps DEF IsAt
<1>4. CASE Go(f, "connect") /\ step' = [step EXCEPT ![f] = Open({flow[f].for})] /\ UNCHANGED wanted
  <2>1. flow'[f].at = "connect" /\ \A g \in Flows : g # f => flow'[g] = flow[g]
    BY <1>1, <1>4, GoIs DEF Places
  <2>2. PICK S : S = {s}
    OBVIOUS
  <2>3. /\ \A t \in Servers : step'[f][t] = IF t \in S THEN "open" ELSE "none"
        /\ \A g \in Flows : g # f => step'[g] = step[g]
    BY <1>1, <1>2, <1>4, <2>2, OpenIs
  <2>4. Due' <=> Due
    <3>1. \A g \in Flows : Reading(g)' <=> Reading(g)
      BY <1>1, <2>1 DEF Reading
    <3> QED
      BY <1>1, <3>1 DEF Due
  <2>5. ASSUME NEW t \in Servers \ crossed PROVE ServerInv(t)'
    <3>1. ServerInv(t)
      BY DEF SInv
    <3>2. Like(t)
      BY <1>1, <3>1, UnchangedLike
    <3>3. CASE t # s
      <4>1. ~IsAt(f, t) /\ ~IsAt(f, t)' /\ step'[f][t] = "none"
        BY <1>3, <2>1, <2>2, <2>3, <3>3 DEF IsAt
      <4> QED
        BY <1>1, <1>4, <2>1, <2>3, <2>4, <3>1, <3>2, <4>1, Passes
    <3>4. CASE t = s
      <4>1. \A g \in Flows \ {f} : ~IsAt(g, s)
        BY <1>3, <3>1, <3>4 DEF ServerInv, Alone
      <4>2. \A g \in Flows \ {f} : ~IsAt(g, s) /\ ~IsAt(g, s)' /\ step'[g][s] = step[g][s]
        BY <1>4, <2>1, <2>3, <4>1, SameAt
      <4>3. step'[f][s] = "open" /\ IsAt(f, s)'
        BY <2>2, <2>3 DEF IsAt
      <4>4. ASSUME ~Due' PROVE wanted'[f][s] = file'[s]
        BY <1>1, <1>3, <1>4, <2>4, <3>1, <3>4, <4>4 DEF ServerInv, Match
      <4> QED
        BY <1>1, <1>3, <3>1, <3>2, <3>4, <4>2, <4>3, <4>4, Arrives
    <3> QED
      BY <3>3, <3>4
  <2> QED
    BY <1>1, <2>5 DEF SInv
<1>5. CASE ~readable /\ Finish(f) /\ UNCHANGED step
  <2>1. /\ flow'[f].at = "none"
        /\ \A g \in Flows : g # f => flow'[g] = flow[g] /\ wanted'[g] = wanted[g]
    BY <1>1, <1>5, FinishIs
  <2>2. Due'
    BY <1>1, <1>5 DEF Due
  <2>3. ASSUME NEW t \in Servers \ crossed PROVE ServerInv(t)'
    <3>1. ServerInv(t)
      BY DEF SInv
    <3>2. Like(t)
      BY <1>1, <3>1, UnchangedLike
    <3>3. ~IsAt(f, t)' /\ step'[f][t] = "none"
      BY <1>3, <1>5, <2>1 DEF IsAt
    <3>4. CASE t # s
      BY <1>1, <1>3, <1>5, <2>1, <2>2, <3>1, <3>2, <3>3, <3>4, Passes
    <3>5. CASE t = s
      <4>1. \A g \in Flows \ {f} : ~IsAt(g, s)
        BY <1>3, <3>1, <3>5 DEF ServerInv, Alone
      <4>2. \A g \in Flows \ {f} : ~IsAt(g, s) /\ ~IsAt(g, s)' /\ step'[g][s] = step[g][s]
        BY <1>5, <2>1, <4>1, SameAt
      <4> QED
        BY <1>1, <1>3, <2>2, <3>1, <3>2, <3>3, <3>5, <4>2, Arrives
    <3> QED
      BY <3>4, <3>5
  <2> QED
    BY <1>1, <2>3 DEF SInv
<1> QED
  BY <1>4, <1>5 DEF Announce

\* A flow that begins elsewhere, or none.
LEMMA BeginsElsewhere ==
    ASSUME StepInv, NEW f \in Flows, flow[f].at = "none", flow'[f].at \in {"ask", "none"},
           \A g \in Flows : g # f => flow'[g] = flow[g],
           SInv, UNCHANGED <<readable, conns, wanted, step, mine, left, crossed, fileWatchers>>,
           mcpEnabled => mcpEnabled', timer => timer', timer' \/ file' = file
    PROVE  SInv'
<1>1. Due => Due'
  <2>1. \A g \in Flows : Reading(g) => Reading(g)'
    BY DEF Reading
  <2> QED
    BY <2>1 DEF Due
<1>2. Due' \/ (~Due /\ file' = file)
  BY <1>1 DEF Due
<1>3. ASSUME NEW t \in Servers \ crossed PROVE ServerInv(t)'
  <2>1. ServerInv(t) /\ ~IsAt(f, t) /\ ~IsAt(f, t)' /\ step'[f][t] = "none"
    BY NotAt, NoSteps DEF SInv, IsAt
  <2>2. Like(t)
    BY <2>1, UnchangedLike
  <2> QED
    BY <1>2, <2>1, <2>2, Passes
<1> QED
  BY <1>3 DEF SInv

LEMMA AskFollows ==
    ASSUME IInv, SInv, NEW f \in Flows, RefreshAllConnections(f) \/ \E s \in Servers : RestartConnection(f, s)
    PROVE  SInv'
<1>1. FlowOK /\ StepInv /\ UNCHANGED <<file, readable, mcpEnabled, conns, fileWatchers, timer,
                                       wanted, step, mine, left, crossed>>
  BY DEF IInv, RefreshAllConnections, RestartConnection, settings, history
<1>2. /\ flow[f].at = "none" /\ flow'[f].at = "ask"
      /\ \A g \in Flows : g # f => flow'[g] = flow[g]
  <2>1. CASE RefreshAllConnections(f)
    BY <1>1, <2>1, BeginIs DEF FlowKinds, Places, RefreshAllConnections
  <2>2. CASE \E s \in Servers : RestartConnection(f, s)
    BY <1>1, <2>2, BeginIs DEF FlowKinds, Places, RestartConnection
  <2> QED
    BY <2>1, <2>2
<1> QED
  BY <1>1, <1>2, BeginsElsewhere

LEMMA SwitchFollows ==
    ASSUME IInv, SInv, NEW f \in Flows, McpEnabledChange(f)
    PROVE  SInv'
<1>1. FlowOK /\ StepInv /\ UNCHANGED <<file, readable, conns, fileWatchers, timer, mine, left>>
      /\ mcpEnabled' = ~mcpEnabled /\ mcpEnabled \in BOOLEAN
  BY DEF IInv, McpEnabledChange, FileOK
<1>2. CASE Begin(f, "switchOff", "clear", Absent) /\ Clear(f)
  <2>1. /\ flow[f].at = "none" /\ flow'[f].at = "clear"
        /\ \A g \in Flows : g # f => flow'[g] = flow[g]
    BY <1>1, <1>2, BeginIs DEF FlowKinds, Places
  <2> QED
    BY <1>1, <1>2, <2>1, ClearFollows
<1>3. CASE ~mcpEnabled /\ Begin(f, "refresh", "ask", Absent) /\ UNCHANGED <<wanted, step, crossed>>
  <2>1. /\ flow[f].at = "none" /\ flow'[f].at = "ask"
        /\ \A g \in Flows : g # f => flow'[g] = flow[g]
    BY <1>1, <1>3, BeginIs DEF FlowKinds, Places
  <2> QED
    BY <1>1, <1>3, <2>1, BeginsElsewhere
<1>4. CASE ~mcpEnabled /\ UNCHANGED <<flow, wanted, step, crossed>>
  <2>1. Due' <=> Due
    BY <1>1, <1>4 DEF Due, Reading
  <2>2. ASSUME NEW t \in Servers \ crossed PROVE ServerInv(t)'
    <3>1. ServerInv(t)
      BY DEF SInv
    <3>2. Like(t)
      BY <1>1, <3>1, UnchangedLike
    <3>3. \A g \in Flows : IsAt(g, t)' <=> IsAt(g, t)
      BY <1>4, SameAt
    <3> QED
      BY <1>1, <1>4, <2>1, <3>1, <3>2, <3>3, Keeps
  <2> QED
    BY <1>4, <2>2 DEF SInv
<1> QED
  BY <1>2, <1>3, <1>4 DEF McpEnabledChange

\* A click on a server: the flow is at that server only.
LEMMA ClickFollows ==
    ASSUME IInv, SInv, NEW f \in Flows, NEW kind \in FlowKinds, NEW at \in {"connect", "notify"},
           Begin(f, kind, at, Absent), NEW s \in Servers, NEW e \in Entries,
           wanted' = [wanted EXCEPT ![f] = [Nothing EXCEPT ![s] = e]],
           NEW S, S \subseteq {s}, step' = [step EXCEPT ![f] = Open(S)],
           crossed' = crossed \union Crossing(f, {s}),
           UNCHANGED <<mcpEnabled, mine, left, fileWatchers>>,
           \A t \in Servers \ crossed : Like(t),
           \/ Due'
           \/ ~Due /\ file' = file /\ S = {s} /\ \E c \in ConnsOf(s) : c.config = e
    PROVE  SInv'
<1>1. FlowOK /\ StepInv
  BY DEF IInv
<1>2. /\ flow[f].at = "none" /\ flow'[f].at = at
      /\ \A g \in Flows : g # f => flow'[g] = flow[g]
  BY <1>1, BeginIs DEF Places
<1>3. /\ \A t \in Servers : step'[f][t] = IF t \in S THEN "open" ELSE "none"
      /\ \A g \in Flows : g # f => step'[g] = step[g]
  BY <1>1, OpenIs
<1>4. PICK new : new = [Nothing EXCEPT ![s] = e]
  OBVIOUS
<1>5. new \in [Servers -> Entries] /\ new[s] = e
  BY <1>4, OnlyIs
<1>6. wanted'[f] = new /\ \A g \in Flows : g # f => wanted'[g] = wanted[g]
  BY <1>1, <1>4, <1>5, WantedIs
<1>7. \A t \in Servers : step[f][t] = "none" /\ ~IsAt(f, t)
  BY <1>1, <1>2, NoSteps, NotAt
<1>8. ASSUME NEW t \in Servers \ crossed' PROVE ServerInv(t)'
  <2>1. ServerInv(t) /\ Like(t)
    BY DEF SInv
  <2>2. CASE t # s
    <3>1. step'[f][t] = "none" /\ ~IsAt(f, t)'
      BY <1>2, <1>3, <2>2 DEF IsAt
    <3> QED
      BY <1>2, <1>3, <1>6, <1>7, <2>1, <3>1, Passes
  <2>3. CASE t = s
    <3>1. \A g \in Flows \ {f} : ~IsAt(g, s)
      BY <2>3 DEF Crossing
    <3>2. \A g \in Flows \ {f} : ~IsAt(g, s) /\ ~IsAt(g, s)' /\ step'[g][s] = step[g][s]
      BY <1>2, <1>3, <1>6, <3>1, SameAt
    <3>3. step'[f][s] \in {"none", "open"}
      BY <1>3
    <3>4. ASSUME ~Due' PROVE IsAt(f, s)' /\ wanted'[f][s] = file'[s]
      <4>1. \A g \in Flows : ~IsAt(g, s)
        BY <1>7, <3>1
      <4>2. Matched(s)
        BY <2>1, <2>3, <3>4, <4>1 DEF ServerInv, Match
      <4>3. e = file'[s] /\ step'[f][s] = "open"
        BY <1>3, <3>4, <4>2 DEF Matched
      <4> QED
        BY <1>5, <1>6, <4>3 DEF IsAt
    <3> QED
      BY <1>7, <2>1, <2>3, <3>2, <3>3, <3>4, Arrives
  <2> QED
    BY <2>2, <2>3
<1> QED
  BY <1>8 DEF SInv

LEMMA ToggleFollows ==
    ASSUME IInv, SInv, NEW f \in Flows, NEW s \in Servers, NEW off \in BOOLEAN, ToggleServerDisabled(f, s, off)
    PROVE  SInv'
<1>1. ConnsInv /\ UNCHANGED <<mcpEnabled, mine, left, fileWatchers>> /\ timer'
  BY DEF IInv, ToggleServerDisabled
<1>2. PICK c \in ConnsOf(s) :
         LET again == (off /\ c.status = "connected") \/ (~off /\ c.status = "disconnected") IN
            /\ conns' = (conns \ {c}) \union {[c EXCEPT !.disabled = off]}
            /\ Begin(f, "toggle", IF again THEN "connect" ELSE "notify", Absent)
            /\ wanted' = [wanted EXCEPT ![f] = [Nothing EXCEPT ![s] = IF again THEN c.config ELSE Absent]]
            /\ step' = [step EXCEPT ![f] = Open(IF again THEN {s} ELSE {})]
            /\ crossed' = crossed \union Crossing(f, {s})
  BY DEF ToggleServerDisabled, Marked
<1>3. PICK again : again = ((off /\ c.status = "connected") \/ (~off /\ c.status = "disconnected"))
  OBVIOUS
<1>4. PICK at, e, S : /\ at = IF again THEN "connect" ELSE "notify"
                      /\ e = IF again THEN c.config ELSE Absent
                      /\ S = IF again THEN {s} ELSE {}
  OBVIOUS
<1>5. c \in conns /\ c \in Conns /\ c.config \in Configs
  BY <1>1 DEF ConnsOf, ConnsInv, Conns
<1>6. at \in {"connect", "notify"} /\ e \in Entries /\ S \subseteq {s}
  BY <1>4, <1>5 DEF Entries
<1>7. /\ Begin(f, "toggle", at, Absent)
      /\ wanted' = [wanted EXCEPT ![f] = [Nothing EXCEPT ![s] = e]]
      /\ step' = [step EXCEPT ![f] = Open(S)]
      /\ crossed' = crossed \union Crossing(f, {s})
  BY <1>2, <1>3, <1>4
<1>8. PICK n : n = [c EXCEPT !.disabled = off]
  OBVIOUS
<1>9. n.name = c.name /\ n.id = c.id /\ n.up = c.up /\ n.type = c.type /\ n.config = c.config
  BY <1>5, <1>8 DEF Conns
<1>10. conns' = (conns \ {c}) \union {n}
  BY <1>2, <1>8
<1>11. \A t \in Servers \ crossed : Like(t)
  BY <1>5, <1>9, <1>10, ReplaceLike DEF SInv, ServerInv
<1>12. Due'
  BY <1>1 DEF Due
<1> QED
  BY <1>1, <1>6, <1>7, <1>11, <1>12, ClickFollows DEF FlowKinds

LEMMA ReconnectFollows ==
    ASSUME IInv, SInv, NEW f \in Flows, NEW s \in Servers, ReconnectServer(f, s)
    PROVE  SInv'
<1>1. ConnsInv /\ FlowOK
      /\ UNCHANGED <<file, readable, mcpEnabled, conns, fileWatchers, timer, mine, left>>
      /\ Begin(f, "reconnect", "connect", Absent)
      /\ step' = [step EXCEPT ![f] = Open({s})]
      /\ crossed' = crossed \union Crossing(f, {s})
  BY DEF IInv, ReconnectServer, settings
<1>2. PICK c \in ConnsOf(s) : wanted' = [wanted EXCEPT ![f] = [Nothing EXCEPT ![s] = c.config]]
  BY DEF ReconnectServer
<1>3. c.config \in Entries
  BY <1>1 DEF ConnsOf, ConnsInv, Conns, Entries
<1>4. \A t \in Servers \ crossed : Like(t)
  BY <1>1, UnchangedLike DEF SInv
<1>5. Due' <=> Due
  <2>1. /\ flow[f].at = "none" /\ flow'[f].at = "connect"
        /\ \A g \in Flows : g # f => flow'[g] = flow[g]
    BY <1>1, BeginIs DEF Places, FlowKinds
  <2>2. \A g \in Flows : Reading(g)' <=> Reading(g)
    BY <2>1 DEF Reading
  <2> QED
    BY <1>1, <2>2 DEF Due
<1>6. PICK S : S = {s}
  OBVIOUS
<1>7. PICK e \in Entries : e = c.config
  BY <1>3
<1>8. step' = [step EXCEPT ![f] = Open(S)] /\ wanted' = [wanted EXCEPT ![f] = [Nothing EXCEPT ![s] = e]]
  BY <1>1, <1>2, <1>6, <1>7
<1>9. Due' \/ (~Due /\ file' = file /\ S = {s} /\ \E d \in ConnsOf(s) : d.config = e)
  BY <1>1, <1>5, <1>6, <1>7
<1>10. S \subseteq {s}
  BY <1>6
<1> QED
  BY <1>1, <1>4, <1>8, <1>9, <1>10, ClickFollows DEF FlowKinds

LEMMA EditFollows ==
    ASSUME IInv, SInv, EditFile
    PROVE  SInv'
<1>1. UNCHANGED <<mcpEnabled, conns, fileWatchers, flow, wanted, step, mine, left, crossed>> /\ timer'
  BY DEF EditFile, history
<1>2. ASSUME NEW t \in Servers \ crossed PROVE ServerInv(t)'
  <2>1. ServerInv(t)
    BY DEF SInv
  <2>2. Like(t)
    BY <1>1, <2>1, UnchangedLike
  <2>3. \A g \in Flows : IsAt(g, t)' <=> IsAt(g, t)
    BY <1>1, SameAt
  <2>4. Due'
    BY <1>1 DEF Due
  <2> QED
    BY <1>1, <2>1, <2>2, <2>3, <2>4, Keeps
<1> QED
  BY <1>1, <1>2 DEF SInv

LEMMA WriteFollows ==
    ASSUME IInv, SInv, NEW f \in Flows, NEW s \in Servers, DeleteServer(f, s) \/ ImportMcpServers(f, s)
    PROVE  SInv'
<1>1. FileOK /\ FlowOK /\ UNCHANGED <<mcpEnabled, conns, mine, left>> /\ timer'
  BY DEF IInv, DeleteServer, ImportMcpServers
<1>2. PICK new \in [Servers -> Entries], kind \in {"delete", "import"} :
         /\ file' = new /\ UpdateServerConnections(f, new)
         /\ Begin(f, kind, AfterUpdate(new), Absent)
  <2>1. file \in [Servers -> Entries]
    BY <1>1 DEF FileOK
  <2>2. CASE DeleteServer(f, s)
    <3>1. [file EXCEPT ![s] = Absent] \in [Servers -> Entries]
      BY <2>1 DEF Entries
    <3> QED
      BY <2>2, <3>1 DEF DeleteServer
  <2>3. CASE ImportMcpServers(f, s)
    <3>1. \A e \in Configs : [file EXCEPT ![s] = e] \in [Servers -> Entries]
      BY <2>1 DEF Entries
    <3> QED
      BY <2>3, <3>1 DEF ImportMcpServers
  <2> QED
    BY <2>2, <2>3
<1>3. AfterUpdate(new) \in {"remove", "connect"}
  BY DEF AfterUpdate
<1>4. PICK at \in {"remove", "connect"} : at = AfterUpdate(new)
  BY <1>3
<1>5. /\ flow[f].at = "none" /\ flow'[f].at = at
      /\ \A g \in Flows : g # f => flow'[g] = flow[g]
  BY <1>1, <1>2, <1>4, BeginIs DEF FlowKinds, Places
<1>6. Due'
  BY <1>1 DEF Due
<1> QED
  BY <1>1, <1>2, <1>4, <1>5, <1>6, UpdateFollows

LEMMA WorldFollows ==
    ASSUME IInv, SInv, World
    PROVE  SInv'
<1>1. ConnsInv /\ UNCHANGED <<file, readable, mcpEnabled, fileWatchers, timer, flow, wanted, step,
                              mine, left, crossed>>
  BY DEF IInv, World, ServerExits, TransportReports, NeedsAuth, settings, history
<1>2. PICK c \in conns : ServerExits(c) \/ TransportReports(c) \/ NeedsAuth(c)
  BY DEF World
<1>3. PICK n \in Conns : /\ conns' = (conns \ {c}) \union {n}
                         /\ n.id = c.id /\ n.name = c.name /\ n.config = c.config
                         /\ n.up => c.up /\ n.type = "connected"
                         /\ n.type = "connected" => c.type = "connected"
  BY <1>1, <1>2, WorldIs
<1>4. ASSUME NEW t \in Servers \ crossed PROVE ServerInv(t)'
  <2>1. ServerInv(t)
    BY DEF SInv
  <2>2. Like(t)
    BY <1>3, <2>1, ReplaceLike DEF ServerInv
  <2>3. \A g \in Flows : IsAt(g, t)' <=> IsAt(g, t)
    BY <1>1, SameAt
  <2>4. Due' <=> Due
    BY <1>1 DEF Due, Reading
  <2> QED
    BY <1>1, <2>1, <2>2, <2>3, <2>4, Keeps
<1> QED
  BY <1>1, <1>4 DEF SInv

LEMMA ServersInitially == HubInit => SInv
<1> SUFFICES ASSUME HubInit, NEW t \in Servers PROVE ServerInv(t)
  BY DEF SInv
<1>1. /\ \A f \in Flows : step[f][t] = "none" /\ ~IsAt(f, t)
      /\ ConnsOf(t) = {} /\ t \notin left /\ fileWatchers = {} /\ mcpEnabled
  BY DEF HubInit, NoStep, NoFlow, IsAt, ConnsOf
<1>2. Due
  <2>1. 1 \in Flows /\ flow[1].at = "read"
    BY HubAssumption DEF Flows, HubInit
  <2> QED
    BY <2>1 DEF Due, Reading
<1> QED
  BY <1>1, <1>2 DEF ServerInv, Alone, Single, StepOK, Watch, Off

LEMMA ServersStep == IInv /\ SInv /\ [HubNext]_hubVars => SInv'
<1> SUFFICES ASSUME IInv, SInv, [HubNext]_hubVars PROVE SInv'
  OBVIOUS
<1>1. CASE Hub
  BY <1>1, TimerFollows, ReadFollows, RemovedFollows, ConnectedFollows, RefreshGoesFollows,
     ClearedFollows, RestartGoesFollows, AnnounceFollows, DeleteActs, RemoveActs, OpenActs,
     StartActs, HandshakeActs DEF Hub
<1>2. CASE HubUser
  BY <1>2, EditFollows, AskFollows, SwitchFollows, WriteFollows, ReconnectFollows,
     ToggleFollows DEF HubUser
<1>3. CASE World
  BY <1>3, WorldFollows
<1>4. CASE UNCHANGED hubVars
  <2>1. UNCHANGED <<file, readable, mcpEnabled, conns, fileWatchers, timer, flow, wanted, step,
                    mine, left, crossed>>
    BY <1>4 DEF hubVars, settings, history
  <2>2. ASSUME NEW t \in Servers \ crossed PROVE ServerInv(t)'
    <3>1. ServerInv(t)
      BY DEF SInv
    <3>2. Like(t)
      BY <2>1, <3>1, UnchangedLike
    <3>3. \A g \in Flows : IsAt(g, t)' <=> IsAt(g, t)
      BY <2>1, SameAt
    <3>4. Due' <=> Due
      BY <2>1 DEF Due, Reading
    <3> QED
      BY <2>1, <3>1, <3>2, <3>3, <3>4, Keeps
  <2> QED
    BY <2>1, <2>2 DEF SInv
<1> QED
  BY <1>1, <1>2, <1>3, <1>4 DEF HubNext

\* A server that no two flows were at at once has one entry, and no transport that
\* a deletion left running, however reloads, restarts, refreshes, clicks, exits and
\* authentication errors interleave at every await.
THEOREM ConnectionsAreUnique == HubSpec => []OneConnection
<1>1. SInv => OneConnection
  BY DEF SInv, ServerInv, Single, OneConnection
<1> QED
  BY <1>1, HubInitially, HubStep, ServersInitially, ServersStep, PTL DEF HubSpec

\* When the hub is at rest such a server is connected as the file says, or not at
\* all when it is disabled, gone, or MCP is off.
THEOREM SettledIsCurrent == HubSpec => []SettledMatchesFile
<1>1. ASSUME IInv, SInv PROVE SettledMatchesFile
  <2>1. SUFFICES ASSUME Settled, NEW s \in Servers \ crossed
                 PROVE  /\ \A c \in ConnsOf(s) : c.config = file[s]
                        /\ file[s] # Absent => ConnsOf(s) # {}
                        /\ (~mcpEnabled \/ file[s] = Absent \/ file[s].disabled) =>
                              /\ \A c \in ConnsOf(s) : c.type # "connected"
                              /\ s \notin fileWatchers
    BY DEF SettledMatchesFile
  <2>2. ServerInv(s)
    BY <1>1 DEF SInv
  <2>3. \A f \in Flows : flow[f].at = "none" /\ step[f][s] = "none" /\ ~IsAt(f, s)
    <3>1. \A f \in Flows : flow[f].at = "none"
      BY <2>1 DEF Settled, Idle, NoFlow
    <3> QED
      BY <1>1, <3>1, NoSteps, NotAt DEF IInv
  <2>4. Matched(s)
    <3>1. ~Due
      BY <2>1, <2>3 DEF Settled, Due, Reading
    <3> QED
      BY <2>2, <2>3, <3>1 DEF ServerInv, Match
  <2>5. \A c \in ConnsOf(s) : c.config = file[s] /\ c.config # Absent
                              /\ (c.type = "connected" => ~c.config.disabled)
    BY <1>1, <2>4, HubAssumption DEF Matched, IInv, ConnsInv, ConnsOf, Conns
  <2>6. ASSUME ~mcpEnabled \/ file[s] = Absent \/ file[s].disabled
        PROVE  (\A c \in ConnsOf(s) : c.type # "connected") /\ s \notin fileWatchers
    <3>1. \A c \in ConnsOf(s) : c.type # "connected"
      BY <2>2, <2>3, <2>5, <2>6 DEF ServerInv, Off
    <3>2. s \notin fileWatchers
      BY <2>2, <2>3, <2>5, <2>6 DEF ServerInv, Watch
    <3> QED
      BY <3>1, <3>2
  <2> QED
    BY <2>4, <2>6 DEF Matched
<1> QED
  BY <1>1, HubInitially, HubStep, ServersInitially, ServersStep, PTL DEF HubSpec
=============================================================================
